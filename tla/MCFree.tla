------------------------------- MODULE MCFree -------------------------------
(***************************************************************************)
(* The core with its components resumed in any order: what holds here      *)
(* needs no lockstep.  The programs are those of the divergence run, one   *)
(* that loads and stores around a jump, one that stores right behind a     *)
(* load, and one that returns through memory without having been called.   *)
(***************************************************************************)
EXTENDS MCSimt, SimtGroups

MCImages ==
  BranchingImages
  \union {Image(<<blockindex("r2"), load("r1", 0, "r2"), cmp("r2", "r1"),
                  store("r2", 1, "r1"), jcc("JMP_LOWER", 1), halt>>)}
  \union {Image(<<blockindex("r2"), load("r1", 0, "r2"), store("r2", 1, "r2"), halt>>)}
  \union {[Image(<<blockindex("r2"), restorepc("r2", 1), halt, mov("r1", "r1"), halt>>)
             EXCEPT !.data[1] = 3]}
=============================================================================
