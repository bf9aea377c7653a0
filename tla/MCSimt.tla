------------------------------- MODULE MCSimt -------------------------------
(***************************************************************************)
(* What the model-checking modules of the core share: an instruction set   *)
(* scaled to 7-bit lanes and five registers, and notation for programs.    *)
(***************************************************************************)
EXTENDS SimtPipeline, Bitwise

MCRegisters == {"r0", "r1", "r2", "flags", "pc"}

MCShiftLeft(x, n) == IF n \in 0 .. 6 THEN x * 2 ^ n ELSE 0

\* x | y on two's complement numbers of LANE_HALF's width.
MCBitOr(x, y) ==
  LET Bits(z) == (z + 2 * LANE_HALF) % (2 * LANE_HALF)
  IN Bits(x) | Bits(y)

MCAddr == 0 .. 4

\* The registration order of Core and CoreClusterGrid; the caches and the DRAM
\* behind the instruction fetch stand where the L1 instruction cache is.
MCOrder == <<"fetch", "decode", "execute", "store", "insn_memory", "vec_controller">>

-----------------------------------------------------------------------------
I(op, r1, r2, r3, imm) == [op |-> op, r1 |-> r1, r2 |-> r2, r3 |-> r3, imm |-> imm]

nop            == ZeroInsn
halt           == I("HALT", "r0", "r0", "r0", 0)
blockindex(r)  == I("MOVE_REG_BLOCK_INDEX", r, "r0", "r0", 0)
movc(r, k)     == I("MOVE_REG_CONST16", r, "r0", "r0", k)
mov(r, s)      == I("MOVE_REG_REG", r, s, "r0", 0)
addc(r, s, k)  == I("ADD_REG_REG_CONST", r, s, "r0", k)
addr(r, s, t)  == I("ADD_REG_REG_REG", r, s, t, 0)
shl(r, s, k)   == I("L_SSHIFT_REG_REG_CONST", r, s, "r0", k)
load(r, k, b)  == I("LOAD_REG_CONST_REG", r, b, "r0", k)
store(b, k, r) == I("STORE_REG_CONST_REG", r, b, "r0", k)
cmp(r, s)      == I("CMP_REG_REG", r, s, "r0", 0)
jmp(k)         == I("JMP_ALWAYS", "r0", "r0", "r0", k)
jcc(op, k)     == I(op, "r0", "r0", "r0", k)
restorepc(b, k) == I("LOAD_RESTORE_PC", b, "r0", "r0", k)
pcrel(r, k)    == I("MOVE_PCREL_REG_CONST16", r, "r0", "r0", k)
lo(k)          == I("MOVE_R0_CONST24A", "r0", "r0", "r0", k)
mid(k)         == I("MOVE_R0_CONST24B", "r0", "r0", "r0", k)
hi(k)          == I("MOVE_R0_CONST24C", "r0", "r0", "r0", k)

\* An image with the code at PC 0 and the data words 10, 11, 12, ...
Image(code) ==
  [code |-> [pc \in 0 .. Len(code) - 1 |-> code[pc + 1]],
   data |-> [a \in Addr |-> 10 + a]]

\* Two conditional jumps in a row over lanes that compare their index with k:
\* at the jumps the lanes stay together or part, and part again, and the groups
\* that come through the end store what they computed.
Branching(op1, op2, d1, d2, k) ==
  Image(<<blockindex("r2"), movc("r1", k), cmp("r2", "r1"), jcc(op1, d1),
          addc("r2", "r2", 1), cmp("r2", "r1"), jcc(op2, d2), mov("r0", "r2"),
          halt, addc("r0", "r2", 3), store("r2", 0, "r0"), halt>>)

\* storepc; call; ...; return, by way of word 1 (Assembler/tests/t1.asm).
Call == Image(<<movc("r1", 2), blockindex("r2"), pcrel("r0", 3), store("r2", 1, "r0"),
                jmp(5), mov("r1", "r0"), cmp("r1", "r2"), jcc("JMP_GREATER", 4), halt,
                nop, restorepc("r2", 1), halt>>)

BranchingImages ==
  {Branching(op1, op2, d1, d2, k) :
     op1 \in CondJumps, op2 \in CondJumps, d1 \in {3, 6}, d2 \in {1, 3}, k \in {0, 1, 2}}
  \union {Call}
=============================================================================
