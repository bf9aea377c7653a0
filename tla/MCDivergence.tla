---------------------------- MODULE MCDivergence ----------------------------
(***************************************************************************)
(* Programs whose lanes part company: two conditional jumps in a row, with *)
(* every condition and every pair of distances, over lanes that compare    *)
(* their index with a constant.  Three lanes can split twice, so that two  *)
(* groups wait at once, which is all that a ring of three slots holds.     *)
(* The groups' work before their halts differs, and a call and return      *)
(* through memory is among the programs.                                   *)
(***************************************************************************)
EXTENDS SimtLockstep, MCSimt

MCImages == BranchingImages

\* None of them reads the register that a return writes without having marked it.
ASSUME NoImageReadsPc == \A image \in MCImages : ~ReadsPc(image.code)
=============================================================================
