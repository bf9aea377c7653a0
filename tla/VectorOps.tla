----------------------------- MODULE VectorOps -----------------------------
(***************************************************************************)
(* The vector values, flags, execution masks and instructions that the     *)
(* instruction set and the pipeline share (CoreLib/include/VectorValue.h,  *)
(* Defines.h, MachineInfo.h, and the opcode tables of the fetch and decode *)
(* stages).                                                                *)
(*                                                                         *)
(* Scaling.  Addresses count 8-byte memory words and PCs count 4-byte      *)
(* instructions, so POINTER_SIZE and sizeof(instruction_t) are both 1.  An *)
(* instruction is its decoded fields: the registers of its second, third   *)
(* and fourth byte and its immediate after the width conversion of the     *)
(* decode stage.  A lane is a two's complement number of half range        *)
(* LANE_HALF (2^63 for the int64_t of the code) and every result wraps.    *)
(* The bit operations are constants: a run gives them, no proof opens them.*)
(***************************************************************************)
EXTENDS Integers, FiniteSets

CONSTANTS
  NUMBER_OF_VECTOR_THREADS,  \* lanes of a vector (8 in Defines.h)
  LANE_HALF,                 \* lanes hold -LANE_HALF .. LANE_HALF - 1
  RegisterID,                \* the register file's indices
  REG_R0, REG_FLAGS, REG_PC, \* the three that the stages name
  ShiftLeft(_, _),           \* x << n, before it is cut to a lane
  BitOr(_, _),               \* x | y, before it is cut to a lane
  ORB_SHIFT, ORC_SHIFT       \* 24 and 48 in ExecuteStage.cpp

Threads == 0 .. NUMBER_OF_VECTOR_THREADS - 1
LaneValue == -LANE_HALF .. LANE_HALF - 1
VectorValue == [Threads -> LaneValue]

ASSUME VectorOpsAssumption ==
  /\ NUMBER_OF_VECTOR_THREADS \in Nat \ {0}
  /\ LANE_HALF \in Nat \ {0}
  /\ Threads \subseteq LaneValue
  /\ {2, 4, 8} \subseteq LaneValue
  /\ {REG_R0, REG_FLAGS, REG_PC} \subseteq RegisterID
  /\ {ORB_SHIFT, ORC_SHIFT} \subseteq LaneValue
  /\ \A x, y \in LaneValue : ShiftLeft(x, y) \in Int /\ BitOr(x, y) \in Int

\* They are different members of RegisterID (Defines.h:41-60).
ASSUME FlagsAreNotThePc == REG_FLAGS # REG_PC

-----------------------------------------------------------------------------
\* Conversion of an integer to the lane type: modulo 2^64, two's complement.
Wrap(x) == ((x + LANE_HALF) % (2 * LANE_HALF)) - LANE_HALF

\* An execution mask is the set of the lanes whose bit is 1.
ExecMask == SUBSET Threads
ALL_THREADS_EXEC_MASK == Threads

create_vec(k) == [t \in Threads |-> Wrap(k)]
create_vec_incrementing_values == [t \in Threads |-> t]
add(v, w) == [t \in Threads |-> Wrap(v[t] + w[t])]
shift_left(v, w) == [t \in Threads |-> Wrap(ShiftLeft(v[t], w[t]))]
or_shift_left(v, w, n) ==
  [t \in Threads |-> Wrap(BitOr(v[t], Wrap(ShiftLeft(w[t], n))))]

-----------------------------------------------------------------------------
\* The flag bits of a lane: FLAGS_MASK_EQ, _GT and _LT.
FLAGS_MASK_EQ == 2
FLAGS_MASK_GT == 4
FLAGS_MASK_LT == 8

get_compare_result(x, y) ==
  IF x = y THEN FLAGS_MASK_EQ ELSE IF x > y THEN FLAGS_MASK_GT ELSE FLAGS_MASK_LT

compare_vecs(v, w) == [t \in Threads |-> get_compare_result(v[t], w[t])]

\* The flag bits on which a conditional jump is taken, as a set of bits.
CondJumpFlags ==
  [JMP_EQUAL         |-> {FLAGS_MASK_EQ},
   JMP_NOT_EQUAL     |-> {FLAGS_MASK_LT, FLAGS_MASK_GT},
   JMP_GREATER       |-> {FLAGS_MASK_GT},
   JMP_GREATER_EQUAL |-> {FLAGS_MASK_GT, FLAGS_MASK_EQ},
   JMP_LOWER         |-> {FLAGS_MASK_LT},
   JMP_LOWER_EQUAL   |-> {FLAGS_MASK_LT, FLAGS_MASK_EQ}]

\* The lanes of mask that have one of the wanted flag bits set.
get_cmp_mask(mask, flags, wanted) ==
  {t \in mask : \E b \in wanted : (flags[t] \div b) % 2 = 1}

-----------------------------------------------------------------------------
CondJumps == DOMAIN CondJumpFlags

\* Opcodes that write the register named in the second byte, or R0.
MovesToReg  == {"MOVE_REG_BLOCK_INDEX", "MOVE_REG_REG", "MOVE_REG_CONST16",
                "MOVE_PCREL_REG_CONST16"}
MovesToR0   == {"MOVE_R0_CONST24A", "MOVE_R0_CONST24B", "MOVE_R0_CONST24C"}
Arithmetic  == {"ADD_REG_REG_REG", "ADD_REG_REG_CONST", "L_SSHIFT_REG_REG_CONST"}
ControlFlow == CondJumps \union {"HALT", "JMP_ALWAYS", "LOAD_RESTORE_PC"}

\* The opcodes the decode stage implements; on any other it asserts.
Opcode == {"NOP", "CMP_REG_REG", "LOAD_REG_CONST_REG", "STORE_REG_CONST_REG"}
          \union MovesToReg \union MovesToR0 \union Arithmetic \union ControlFlow

Instruction == [op : Opcode, r1 : RegisterID, r2 : RegisterID, r3 : RegisterID,
                imm : Int]

\* A code image is a function on an interval of PCs.  Memory no image has
\* written holds zeroes, and the word 0 decodes to a NOP.
ZeroInsn == [op |-> "NOP", r1 |-> REG_R0, r2 |-> REG_R0, r3 |-> REG_R0, imm |-> 0]
InsnAt(code, pc) == IF pc \in DOMAIN code THEN code[pc] ELSE ZeroInsn

\* Where the next instruction is that does anything: the least PC at or after pc
\* whose instruction is not a NOP, or -1, where no image has code, behind the last.
AfterNops(code, pc) ==
  LET Real == {q \in DOMAIN code : q >= pc /\ code[q].op # "NOP"}
  IN IF Real = {} THEN -1 ELSE CHOOSE q \in Real : \A r \in Real : q <= r

\* Mutants: the switch of the fetch stage misses a case.
changesControlFlow_MissesRestorePc(op) == op \in ControlFlow \ {"LOAD_RESTORE_PC"}
changesControlFlow_MissesCondJumps(op) == op \in ControlFlow \ CondJumps

changesControlFlow(op) == op \in ControlFlow

\* The register an instruction's result goes to, for those that have one.
DestReg(i) == IF i.op \in MovesToR0 THEN REG_R0 ELSE i.r1

\* Mutant: an addition waits for one of its operands.
Operands_AddWaitsForOne(i) ==
  CASE i.op \in {"STORE_REG_CONST_REG", "CMP_REG_REG"} -> {i.r1, i.r2}
    [] i.op \in {"MOVE_REG_REG", "L_SSHIFT_REG_REG_CONST", "ADD_REG_REG_CONST",
                 "LOAD_REG_CONST_REG", "ADD_REG_REG_REG"} -> {i.r2}
    [] i.op = "LOAD_RESTORE_PC" -> {i.r1}
    [] i.op \in {"MOVE_R0_CONST24B", "MOVE_R0_CONST24C"} -> {REG_R0}
    [] OTHER -> {}

\* The registers whose validity the decode stage waits for.
Operands(i) ==
  CASE i.op \in {"STORE_REG_CONST_REG", "CMP_REG_REG"} -> {i.r1, i.r2}
    [] i.op \in {"MOVE_REG_REG", "L_SSHIFT_REG_REG_CONST", "ADD_REG_REG_CONST",
                 "LOAD_REG_CONST_REG"} -> {i.r2}
    [] i.op = "ADD_REG_REG_REG" -> {i.r2, i.r3}
    [] i.op = "LOAD_RESTORE_PC" -> {i.r1}
    [] i.op \in {"MOVE_R0_CONST24B", "MOVE_R0_CONST24C"} -> {REG_R0}
    [] OTHER -> {}
=============================================================================
