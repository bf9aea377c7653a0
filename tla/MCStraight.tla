----------------------------- MODULE MCStraight -----------------------------
(***************************************************************************)
(* Programs without branches: every three instructions over a small        *)
(* alphabet, so that every distance between the writer of a register and   *)
(* its reader, and every order of loads and stores, occurs.                *)
(***************************************************************************)
EXTENDS SimtLockstep, MCSimt

Alphabet == {movc("r1", 3), mov("r0", "r1"), addr("r1", "r0", "r1"), addc("r0", "r0", 2),
             shl("r1", "r0", 1), lo(5), mid(1), hi(1), load("r1", 1, "r2"),
             store("r2", 1, "r1"), cmp("r0", "r1"), nop}

IsStore(i) == i.op = "STORE_REG_CONST_REG"

\* Two stores without a load between them are the most that the request slot
\* takes (see the runs of MCStores).
Safe(s) == Cardinality({k \in DOMAIN s : IsStore(s[k])}) < 2

MCImages ==
  {Image(<<blockindex("r2")>> \o s \o <<halt>>) :
     s \in {q \in [1 .. 3 -> Alphabet] : Safe(q)}}

\* None of them reads the register that a return writes without having marked it.
ASSUME NoImageReadsPc == \A image \in MCImages : ~ReadsPc(image.code)
=============================================================================
