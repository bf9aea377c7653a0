------------------------------ MODULE MCStores ------------------------------
(***************************************************************************)
(* Programs that store more often than the memory takes requests, and that *)
(* read REG_PC after a return.                                             *)
(***************************************************************************)
EXTENDS SimtLockstep, MCSimt

MCImages ==
  {Image(<<blockindex("r2"), store("r2", 0, "r2"), store("r2", 1, "r2"),
           store("r2", 2, "r2"), load("r1", 0, "r2"), halt>>)}

\* The data word 1 of this image is the address to return to.
MCReturnImages ==
  {[Image(<<blockindex("r2"), restorepc("r2", 1), halt, mov("r1", "pc"), halt>>)
      EXCEPT !.data[1] = 3]}
=============================================================================
