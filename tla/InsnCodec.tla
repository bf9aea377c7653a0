----------------------------- MODULE InsnCodec -----------------------------
(***************************************************************************)
(* The instruction word: what the assembler's instruction classes write    *)
(* (getEncodedInstruction in Assembler/include) and what the decode stage  *)
(* reads back (CoreLib/DecodeStage.cpp).                                   *)
(*                                                                         *)
(* A word is its four bytes, lowest first: the opcode's number, then three *)
(* bytes of register numbers and immediate.  An instruction is a record of *)
(* an opcode, three registers and an immediate; fields that its format     *)
(* lacks are 0.  Jump distances are in bytes, as in the code.              *)
(***************************************************************************)
EXTENDS Integers

Byte == 0 .. 255
Word == [b0 : Byte, b1 : Byte, b2 : Byte, b3 : Byte]

RegisterID == 0 .. 13
REG_R0 == 0
REG_BLOCK_INDEX == 10

-----------------------------------------------------------------------------
\* The opcodes that both sides know, with their place in the enumeration.
OpcodeNumber ==
  [NOP |-> 0, HALT |-> 1, MOVE_REG_BLOCK_INDEX |-> 2, MOVE_REG_REG |-> 3,
   MOVE_REG_CONST16 |-> 6, MOVE_R0_CONST24A |-> 7, MOVE_R0_CONST24B |-> 8,
   MOVE_R0_CONST24C |-> 9, LOAD_REG_CONST_REG |-> 10, STORE_REG_CONST_REG |-> 11,
   CMP_REG_REG |-> 12, ADD_REG_REG_REG |-> 13, ADD_REG_REG_CONST |-> 14,
   L_SSHIFT_REG_REG_CONST |-> 18, JMP_ALWAYS |-> 25, JMP_EQUAL |-> 26,
   JMP_NOT_EQUAL |-> 27, JMP_LOWER |-> 28, JMP_LOWER_EQUAL |-> 29, JMP_GREATER |-> 30,
   JMP_GREATER_EQUAL |-> 31, LOAD_RESTORE_PC |-> 32, MOVE_PCREL_REG_CONST16 |-> 33]

Opcode == DOMAIN OpcodeNumber

\* Formats, by what their immediate is: a distance or constant of 24 bits, a
\* constant of 16 bits behind one register, one of 8 bits behind two.
Jumps    == {"JMP_ALWAYS", "JMP_EQUAL", "JMP_NOT_EQUAL", "JMP_LOWER",
             "JMP_LOWER_EQUAL", "JMP_GREATER", "JMP_GREATER_EQUAL"}
Const24  == {"MOVE_R0_CONST24A", "MOVE_R0_CONST24B", "MOVE_R0_CONST24C"}
Signed16 == {"MOVE_REG_CONST16", "LOAD_RESTORE_PC"}
PcRel16  == {"MOVE_PCREL_REG_CONST16"}
Signed8  == {"ADD_REG_REG_CONST", "L_SSHIFT_REG_REG_CONST"}
Offset8  == {"LOAD_REG_CONST_REG", "STORE_REG_CONST_REG"}

Imm24 == Jumps \union Const24
Imm16 == Signed16 \union PcRel16
Imm8  == Signed8 \union Offset8
NoImm == Opcode \ (Imm24 \union Imm16 \union Imm8)

HasReg1 == Imm16 \union Imm8 \union
           {"MOVE_REG_BLOCK_INDEX", "MOVE_REG_REG", "CMP_REG_REG", "ADD_REG_REG_REG"}
HasReg2 == Imm8 \union {"MOVE_REG_REG", "CMP_REG_REG", "ADD_REG_REG_REG"}
HasReg3 == {"ADD_REG_REG_REG"}

Instruction ==
  {i \in [op : Opcode, r1 : RegisterID, r2 : RegisterID, r3 : RegisterID, imm : Int] :
     /\ i.op \notin HasReg1 => i.r1 = 0
     /\ i.op \notin HasReg2 => i.r2 = 0
     /\ i.op \notin HasReg3 => i.r3 = 0
     /\ i.op \in NoImm => i.imm = 0}

-----------------------------------------------------------------------------
\* Mutant: the lowest byte is a signed char.
Byte0_Signed(v) == ((v + 128) % 256) - 128

\* The lowest three bytes of the two's complement of v.
Byte0(v) == v % 256
Byte1(v) == (v \div 256) % 256
Byte2(v) == (v \div 65536) % 256

\* The three bytes behind the opcode.
WordOf(op, x, y, z) == [b0 |-> OpcodeNumber[op], b1 |-> x, b2 |-> y, b3 |-> z]

\* MoveRegBlockIndex writes the register it moves from, which nobody reads.
SecondReg(i) == IF i.op = "MOVE_REG_BLOCK_INDEX" THEN REG_BLOCK_INDEX ELSE i.r2

\* Mutant: the upper byte of a 16-bit constant is lost.
getEncodedInstruction_LowByte(i) ==
  IF i.op \in Imm24 THEN WordOf(i.op, Byte0(i.imm), Byte1(i.imm), Byte2(i.imm))
  ELSE IF i.op \in Imm16 THEN WordOf(i.op, i.r1, Byte0(i.imm), 0)
  ELSE IF i.op \in Imm8 THEN WordOf(i.op, i.r1, i.r2, Byte0(i.imm))
  ELSE WordOf(i.op, i.r1, SecondReg(i), i.r3)

\* What the instruction classes of the assembler write.
getEncodedInstruction(i) ==
  IF i.op \in Imm24 THEN WordOf(i.op, Byte0(i.imm), Byte1(i.imm), Byte2(i.imm))
  ELSE IF i.op \in Imm16 THEN WordOf(i.op, i.r1, Byte0(i.imm), Byte1(i.imm))
  ELSE IF i.op \in Imm8 THEN WordOf(i.op, i.r1, i.r2, Byte0(i.imm))
  ELSE WordOf(i.op, i.r1, SecondReg(i), i.r3)

-----------------------------------------------------------------------------
\* Conversions to int8_t and int16_t of an unsigned number of that width.
ToInt8(x)  == IF x < 128 THEN x ELSE x - 256
ToInt16(x) == IF x < 32768 THEN x ELSE x - 65536

\* Mutant: the constant of an addition or shift is not sign-extended.
DecodedImm_Unsigned8(op, w) ==
  IF op \in Imm24 THEN w.b1 + 256 * w.b2 + 65536 * w.b3
  ELSE IF op \in Signed16 THEN ToInt16(w.b2 + 256 * w.b3)
  ELSE IF op \in PcRel16 THEN w.b2 + 256 * w.b3
  ELSE IF op \in Imm8 THEN w.b3
  ELSE 0

\* The immediate that the decode stage makes of a word.  Only constants and
\* the offset of restorepc are signed: a shift of the unsigned word leaves no
\* sign in the offset of a load or store, a distance, or a PC-relative symbol.
DecodedImm(op, w) ==
  IF op \in Imm24 THEN w.b1 + 256 * w.b2 + 65536 * w.b3
  ELSE IF op \in Signed16 THEN ToInt16(w.b2 + 256 * w.b3)
  ELSE IF op \in PcRel16 THEN w.b2 + 256 * w.b3
  ELSE IF op \in Signed8 THEN ToInt8(w.b3)
  ELSE IF op \in Offset8 THEN w.b3
  ELSE 0

\* The opcode of a word; only those of the table have a case to go to.
Decodable(w) == \E op \in Opcode : OpcodeNumber[op] = w.b0
getOpcode(w) == CHOOSE op \in Opcode : OpcodeNumber[op] = w.b0

\* What the decode stage reads from a word.
DecodedAs(op, w) ==
  [op  |-> op,
   r1  |-> IF op \in HasReg1 THEN w.b1 ELSE 0,
   r2  |-> IF op \in HasReg2 THEN w.b2 ELSE 0,
   r3  |-> IF op \in HasReg3 THEN w.b3 ELSE 0,
   imm |-> DecodedImm(op, w)]

Decoded(w) == DecodedAs(getOpcode(w), w)

-----------------------------------------------------------------------------
\* The immediates of an opcode that come through its word unchanged.
Representable(op, v) ==
  IF op \in Imm24 THEN 0 <= v /\ v < 16777216
  ELSE IF op \in Signed16 THEN -32768 <= v /\ v < 32768
  ELSE IF op \in PcRel16 THEN 0 <= v /\ v < 65536
  ELSE IF op \in Signed8 THEN -128 <= v /\ v < 128
  ELSE IF op \in Offset8 THEN 0 <= v /\ v < 256
  ELSE v = 0

\* An instruction comes back from its word as it was written exactly if its
\* immediate is one that the decode stage can read (the encodings of
\* Assembler/include against the casts of DecodeStage.cpp).
SurvivesExactly(i) ==
  Decoded(getEncodedInstruction(i)) = i <=> Representable(i.op, i.imm)
=============================================================================
