--------------------------- MODULE ToolchainProofs ---------------------------
(***************************************************************************)
(* An instruction comes back from its word exactly if its immediate is in  *)
(* the range that the decode stage can read, for every instruction; and    *)
(* what the assembler produces is well formed for every source file: the   *)
(* types of the toolchain's variables, and that so every assembled         *)
(* instruction comes back from its word.                                   *)
(***************************************************************************)
EXTENDS Toolchain, SequenceTheorems, TLAPS

-----------------------------------------------------------------------------
(* The codec. *)

(***************************************************************************)
(* The enumeration Opcode gives every opcode a number of its own, of one   *)
(* byte.                                                                   *)
(***************************************************************************)
LEMMA OpcodeNumberInjective ==
  /\ \A op \in Opcode : OpcodeNumber[op] \in Byte
  /\ \A x, y \in Opcode : OpcodeNumber[x] = OpcodeNumber[y] => x = y
  BY DEF Opcode, OpcodeNumber, Byte

(***************************************************************************)
(* getOpcode reads the opcode that an instruction class has written.       *)
(***************************************************************************)
LEMMA ReadsItsOpcode ==
  ASSUME NEW op \in Opcode, NEW x, NEW y, NEW z
  PROVE  getOpcode(WordOf(op, x, y, z)) = op
  BY OpcodeNumberInjective DEF getOpcode, WordOf

(***************************************************************************)
(* The bytes written give the number back modulo 2^8, 2^16 and 2^24.       *)
(***************************************************************************)
LEMMA BytesKeepLowBits ==
  ASSUME NEW v \in Int
  PROVE  /\ Byte0(v) = v % 256
         /\ Byte0(v) + 256 * Byte1(v) = v % 65536
         /\ Byte0(v) + 256 * Byte1(v) + 65536 * Byte2(v) = v % 16777216
  BY SMT DEF Byte0, Byte1, Byte2

(***************************************************************************)
(* Which numbers the low bits determine, read unsigned and read signed.    *)
(***************************************************************************)
LEMMA Unsigned ==
  ASSUME NEW v \in Int
  PROVE  /\ v % 256 = v <=> 0 <= v /\ v < 256
         /\ v % 65536 = v <=> 0 <= v /\ v < 65536
         /\ v % 16777216 = v <=> 0 <= v /\ v < 16777216
  BY SMT

LEMMA Signed ==
  ASSUME NEW v \in Int
  PROVE  /\ ToInt8(v % 256) = v <=> -128 <= v /\ v < 128
         /\ ToInt16(v % 65536) = v <=> -32768 <= v /\ v < 32768
  BY SMT DEF ToInt8, ToInt16

(***************************************************************************)
(* An instruction survives its word exactly if its immediate is            *)
(* representable: getEncodedInstruction of every instruction class of the  *)
(* assembler against the decode stage's switch.                            *)
(***************************************************************************)
THEOREM WordsKeepInstructions == \A i \in Instruction : SurvivesExactly(i)
  <1> SUFFICES ASSUME NEW i \in Instruction
               PROVE  SurvivesExactly(i)
    OBVIOUS
  <1> DEFINE w == getEncodedInstruction(i)
  <1>1. /\ i \in [op : Opcode, r1 : RegisterID, r2 : RegisterID, r3 : RegisterID, imm : Int]
        /\ i.op \notin HasReg1 => i.r1 = 0
        /\ i.op \notin HasReg2 => i.r2 = 0
        /\ i.op \notin HasReg3 => i.r3 = 0
        /\ i.op \in NoImm => i.imm = 0
    BY DEF Instruction
  <1>2. getOpcode(w) = i.op
    BY <1>1, ReadsItsOpcode DEF getEncodedInstruction
  <1>3. DecodedAs(i.op, w).r1 = i.r1 /\ DecodedAs(i.op, w).r2 = i.r2 /\ DecodedAs(i.op, w).r3 = i.r3
    <2>1. CASE i.op \in Imm24
      BY <1>1, <2>1 DEF DecodedAs, HasReg1, HasReg2, HasReg3,
        Imm24, Imm16, Imm8, Jumps, Const24, Signed16, PcRel16, Signed8, Offset8
    <2>2. CASE i.op \in Imm16
      <3>1. w.b1 = i.r1
        BY <2>2 DEF getEncodedInstruction, WordOf, Imm24, Imm16, Jumps, Const24, Signed16, PcRel16
      <3> QED  BY <1>1, <2>2, <3>1 DEF DecodedAs, HasReg1, HasReg2, HasReg3,
                 Imm16, Imm8, Signed16, PcRel16, Signed8, Offset8
    <2>3. CASE i.op \in Imm8
      <3>1. w.b1 = i.r1 /\ w.b2 = i.r2
        BY <2>3 DEF getEncodedInstruction, WordOf, Imm24, Imm16, Imm8, Jumps, Const24,
             Signed16, PcRel16, Signed8, Offset8
      <3> QED  BY <1>1, <2>3, <3>1 DEF DecodedAs, HasReg1, HasReg2, HasReg3,
                 Imm8, Signed8, Offset8
    <2>4. CASE i.op \in NoImm
      <3>1. w = WordOf(i.op, i.r1, SecondReg(i), i.r3)
        BY <2>4 DEF getEncodedInstruction, NoImm
      <3>2. w.b1 = i.r1 /\ w.b2 = SecondReg(i) /\ w.b3 = i.r3
        BY <3>1 DEF WordOf
      <3> QED  BY <1>1, <2>4, <3>2 DEF DecodedAs, SecondReg, HasReg1, HasReg2, HasReg3, NoImm,
                 Imm16, Imm8
    <2> QED  BY <1>1, <2>1, <2>2, <2>3, <2>4 DEF NoImm
  <1>4. DecodedImm(i.op, w) = i.imm <=> Representable(i.op, i.imm)
    <2>1. CASE i.op \in Imm24
      <3>1. w.b1 = Byte0(i.imm) /\ w.b2 = Byte1(i.imm) /\ w.b3 = Byte2(i.imm)
        BY <2>1 DEF getEncodedInstruction, WordOf
      <3>2. DecodedImm(i.op, w) = i.imm % 16777216
        BY <1>1, <2>1, <3>1, BytesKeepLowBits DEF DecodedImm
      <3> QED  BY <1>1, <2>1, <3>2, Unsigned DEF Representable
    <2>2. CASE i.op \in Imm16
      <3>1. i.op \notin Imm24
        BY <2>2 DEF Imm24, Imm16, Jumps, Const24, Signed16, PcRel16
      <3>2. w.b2 = Byte0(i.imm) /\ w.b3 = Byte1(i.imm)
        BY <2>2, <3>1 DEF getEncodedInstruction, WordOf
      <3>3. w.b2 + 256 * w.b3 = i.imm % 65536
        BY <1>1, <3>2, BytesKeepLowBits
      <3>4. CASE i.op \in Signed16
        BY <1>1, <3>1, <3>3, <3>4, Signed DEF DecodedImm, Representable
      <3>5. CASE i.op \notin Signed16
        BY <1>1, <2>2, <3>1, <3>3, <3>5, Unsigned DEF DecodedImm, Representable, Imm16
      <3> QED  BY <3>4, <3>5
    <2>3. CASE i.op \in Imm8
      <3>1. i.op \notin Imm24 /\ i.op \notin Imm16
        BY <2>3 DEF Imm24, Imm16, Imm8, Jumps, Const24, Signed16, PcRel16, Signed8, Offset8
      <3>2. w.b3 = i.imm % 256
        BY <1>1, <2>3, <3>1, BytesKeepLowBits DEF getEncodedInstruction, WordOf
      <3>3. CASE i.op \in Signed8
        BY <1>1, <3>1, <3>2, <3>3, Signed DEF DecodedImm, Representable, Imm16
      <3>4. CASE i.op \notin Signed8
        BY <1>1, <2>3, <3>1, <3>2, <3>4, Unsigned DEF DecodedImm, Representable, Imm16, Imm8
      <3> QED  BY <3>3, <3>4
    <2>4. CASE i.op \in NoImm
      BY <1>1, <2>4 DEF DecodedImm, Representable, NoImm, Imm16, Imm8
    <2> QED  BY <1>1, <2>1, <2>2, <2>3, <2>4 DEF NoImm
  <1>5. Decoded(w) = i <=> DecodedImm(i.op, w) = i.imm
    BY <1>1, <1>2, <1>3 DEF Decoded, DecodedAs
  <1> QED  BY <1>4, <1>5 DEF SurvivesExactly

-----------------------------------------------------------------------------
(* The toolchain. *)

\* The names a file can make the parser store (a token that a line lacks is
\* some value too).
Names == {""} \union {l.label : l \in Lines}
         \union {l.toks[2] : l \in Lines} \union {l.toks[3] : l \in Lines}

\* A parsed instruction: one with a symbol has an immediate to put it in.
Parsed == {p \in [insn : Instruction, symbol : Names] :
             p.symbol # "" => p.insn.op \notin NoImm}

Entry == {e \in [insn : Instruction, symbol : Names, label : Names, line : Nat, address : Int] :
            e.symbol # "" => e.insn.op \notin NoImm}

DataObject == [name : Names, before : Nat, address : Int]

RegnamesInv ==
  /\ DOMAIN InitialRegnames \subseteq DOMAIN regnames
  /\ \A r \in DOMAIN regnames : regnames[r] \in RegisterID

ProgramInv ==
  /\ text \in Seq(Lines) /\ Len(text) <= MaxLines
  /\ data_mode \in BOOLEAN /\ lastSeenLabel \in Names /\ phase \in Phase
  /\ fields \in Seq(Int)
  /\ objects \in Seq(DataObject)
  /\ \A n \in DOMAIN objects : objects[n].before <= Len(fields)
  /\ insns \in Seq(Entry)
  /\ \A n \in DOMAIN insns : insns[n].line \in DOMAIN text
  /\ rejected \union unresolved \subseteq DOMAIN text

Bytes(file) == \A k \in DOMAIN file : file[k] \in Byte
OutputInv ==
  /\ Bytes(code_file) /\ Bytes(data_file) /\ Bytes(memory)
  /\ DOMAIN data_file \subseteq Int

IInv == RegnamesInv /\ ProgramInv /\ OutputInv

-----------------------------------------------------------------------------
(***************************************************************************)
(* The names of MachineInfo.cpp are registers, and so is what a lookup     *)
(* finds or enters.                                                        *)
(***************************************************************************)
LEMMA MachineRegisters ==
  \A r \in DOMAIN MachineRegister : MachineRegister[r] \in RegisterID
  BY DEF MachineRegister

LEMMA Registers == RegnamesInv => \A t : getRegisterID(t) \in RegisterID
  BY DEF RegnamesInv, getRegisterID, isRegister, RegisterID, REG_R0

LEMMA Int16 ==
  ASSUME NEW t \in DOMAIN Number
  PROVE  getInt16Constant(t) \in Int
  <1>1. Number[t] \in Int
    BY ToolchainAssumption
  <1>2. Number[t] % 65536 \in Int
    BY <1>1, SMT
  <1> QED  BY <1>2 DEF getInt16Constant, ToInt16

(***************************************************************************)
(* What each handler of parseCodeLine makes of its tokens is an            *)
(* instruction.                                                            *)
(***************************************************************************)
LEMMA OperandsParsed ==
  ASSUME NEW op \in Opcode, NEW r1 \in RegisterID, NEW r2 \in RegisterID, NEW r3 \in RegisterID,
         NEW imm \in Int,
         op \notin HasReg1 => r1 = 0, op \notin HasReg2 => r2 = 0, op \notin HasReg3 => r3 = 0,
         op \in NoImm => imm = 0
  PROVE  Operands(op, r1, r2, r3, imm) \in Parsed
  <1> DEFINE i == Insn(op, r1, r2, r3, imm)
  <1>1. /\ i \in [op : Opcode, r1 : RegisterID, r2 : RegisterID, r3 : RegisterID, imm : Int]
        /\ i.op = op /\ i.r1 = r1 /\ i.r2 = r2 /\ i.r3 = r3 /\ i.imm = imm
    BY DEF Insn
  <1>2. i \in Instruction
    BY <1>1 DEF Instruction
  <1>3. [insn |-> i, symbol |-> ""] \in Parsed
    BY <1>2 DEF Parsed, Names
  <1> QED  BY <1>3 DEF Operands

LEMMA SymbolicParsed ==
  ASSUME NEW op \in Opcode, NEW r1 \in RegisterID, NEW s \in Names,
         op \notin HasReg1 => r1 = 0, op \notin NoImm
  PROVE  Symbolic(op, r1, s) \in Parsed
  <1> DEFINE i == Insn(op, r1, 0, 0, 0)
  <1>1. 0 \in RegisterID
    BY DEF RegisterID
  <1>2. /\ i \in [op : Opcode, r1 : RegisterID, r2 : RegisterID, r3 : RegisterID, imm : Int]
        /\ i.op = op /\ i.r1 = r1 /\ i.r2 = 0 /\ i.r3 = 0 /\ i.imm = 0
    BY <1>1 DEF Insn
  <1>3. i \in Instruction
    BY <1>2 DEF Instruction
  <1>4. [insn |-> i, symbol |-> s] \in Parsed
    BY <1>2, <1>3 DEF Parsed
  <1> QED  BY <1>4 DEF Symbolic

LEMMA UncheckedParsed ==
  ASSUME NEW l \in Lines
  PROVE  Unchecked(l.toks) \in Parsed
  <1> DEFINE t == l.toks
  <1>1. t[2] \in Names /\ t[3] \in Names
    BY DEF Names
  <1>2. 0 \in RegisterID /\ 0 \in Int
    BY DEF RegisterID
  <1>3. CASE t[1] \in DOMAIN JumpOpcode
    <2>1. JumpOpcode[t[1]] \in Jumps
      BY <1>3 DEF JumpOpcode, Jumps
    <2>2. \A op \in Jumps : op \in Opcode /\ op \notin HasReg1 /\ op \notin NoImm
      BY DEF Jumps, Opcode, OpcodeNumber, HasReg1, Imm16, Imm8, Signed16, PcRel16, Signed8,
         Offset8, NoImm, Imm24
    <2>3. Unchecked(t) = Symbolic(JumpOpcode[t[1]], 0, t[2])
      BY <1>3 DEF Unchecked
    <2> QED  BY <1>1, <1>2, <2>1, <2>2, <2>3, SymbolicParsed
  <1>4. CASE t[1] \notin DOMAIN JumpOpcode /\ t[1] \in DOMAIN LoadAddrOpcode
    <2>1. LoadAddrOpcode[t[1]] \in Const24
      BY <1>4 DEF LoadAddrOpcode, Const24
    <2>2. \A op \in Const24 : op \in Opcode /\ op \notin HasReg1 /\ op \notin NoImm
      BY DEF Const24, Opcode, OpcodeNumber, HasReg1, Imm16, Imm8, Signed16, PcRel16, Signed8,
         Offset8, NoImm, Imm24
    <2>3. Unchecked(t) = Symbolic(LoadAddrOpcode[t[1]], 0, t[3])
      BY <1>4 DEF Unchecked
    <2> QED  BY <1>1, <1>2, <2>1, <2>2, <2>3, SymbolicParsed
  <1>5. CASE t[1] \notin DOMAIN JumpOpcode /\ t[1] \notin DOMAIN LoadAddrOpcode
    <2>1. "HALT" \in Opcode
      BY DEF Opcode, OpcodeNumber
    <2>2. Unchecked(t) = Operands("HALT", 0, 0, 0, 0)
      BY <1>5 DEF Unchecked
    <2> QED  BY <1>2, <2>1, <2>2, OperandsParsed
  <1> QED  BY <1>3, <1>4, <1>5

LEMMA CheckedParsed ==
  ASSUME RegnamesInv, NEW l \in Lines
  PROVE  MatchChecked(l.toks) \subseteq Parsed
  <1> DEFINE t == l.toks
  <1>0. t[2] \in Names /\ t[3] \in Names
    BY DEF Names
  <1>1. 0 \in RegisterID /\ 0 \in Int
    BY DEF RegisterID
  <1>2. \A tok : getRegisterID(tok) \in RegisterID
    BY Registers
  <1>3. \A tok : isInt8Constant(tok) => Number[tok] \in Int
    BY ToolchainAssumption DEF isInt8Constant, isNumber
  <1>8. \A tok : isInt16Constant(tok) => getInt16Constant(tok) \in Int
    <2> SUFFICES ASSUME NEW tok, isInt16Constant(tok)
                 PROVE  getInt16Constant(tok) \in Int
      OBVIOUS
    <2>1. tok \in DOMAIN Number
      BY DEF isInt16Constant, isNumber
    <2> QED  BY <2>1, Int16
  <1>4. MatchMov(t) \subseteq Parsed
    <2>1. /\ "MOVE_REG_CONST16" \in Opcode \ NoImm /\ "MOVE_PCREL_REG_CONST16" \in Opcode \ NoImm
          /\ "MOVE_REG_BLOCK_INDEX" \in Opcode /\ "MOVE_REG_REG" \in Opcode
          /\ {"MOVE_REG_CONST16", "MOVE_REG_BLOCK_INDEX", "MOVE_REG_REG",
              "MOVE_PCREL_REG_CONST16"} \subseteq HasReg1
          /\ "MOVE_REG_REG" \in HasReg2
      BY DEF Opcode, OpcodeNumber, NoImm, HasReg1, HasReg2, Imm24, Imm16, Imm8, Signed16, PcRel16,
         Signed8, Offset8, Jumps, Const24
    <2>2. \A r1, r2 \in RegisterID, imm \in Int :
            /\ Operands("MOVE_REG_CONST16", r1, 0, 0, imm) \in Parsed
            /\ Operands("MOVE_REG_BLOCK_INDEX", r1, 0, 0, 0) \in Parsed
            /\ Operands("MOVE_REG_REG", r1, r2, 0, 0) \in Parsed
      BY <1>1, <2>1, OperandsParsed
    <2>3. Symbolic("MOVE_PCREL_REG_CONST16", getRegisterID(t[2]), t[3]) \in Parsed
      BY <1>0, <1>1, <1>2, <2>1, SymbolicParsed
    <2> QED  BY <1>2, <1>8, <2>2, <2>3 DEF MatchMov
  <1>5. MatchAdd(t) \subseteq Parsed
    <2>1. /\ "ADD_REG_REG_CONST" \in Opcode \ NoImm /\ "ADD_REG_REG_REG" \in Opcode
          /\ {"ADD_REG_REG_CONST", "ADD_REG_REG_REG"} \subseteq HasReg1 \intersect HasReg2
          /\ "ADD_REG_REG_REG" \in HasReg3
      BY DEF Opcode, OpcodeNumber, NoImm, HasReg1, HasReg2, HasReg3, Imm24, Imm16, Imm8, Signed16,
         PcRel16, Signed8, Offset8, Jumps, Const24
    <2>2. \A r1, r2, r3 \in RegisterID, imm \in Int :
            /\ Operands("ADD_REG_REG_CONST", r1, r2, 0, imm) \in Parsed
            /\ Operands("ADD_REG_REG_REG", r1, r2, r3, 0) \in Parsed
      BY <1>1, <2>1, OperandsParsed
    <2> QED  BY <1>2, <1>3, <2>2 DEF MatchAdd
  <1>6. MatchShl(t) \subseteq Parsed
    <2>1. /\ "L_SSHIFT_REG_REG_CONST" \in Opcode \ NoImm
          /\ "L_SSHIFT_REG_REG_CONST" \in HasReg1 \intersect HasReg2
      BY DEF Opcode, OpcodeNumber, NoImm, HasReg1, HasReg2, Imm24, Imm16, Imm8, Signed16,
         PcRel16, Signed8, Offset8, Jumps, Const24
    <2>2. \A r1, r2 \in RegisterID, imm \in Int :
            Operands("L_SSHIFT_REG_REG_CONST", r1, r2, 0, imm) \in Parsed
      BY <1>1, <2>1, OperandsParsed
    <2> QED  BY <1>2, <1>3, <2>2 DEF MatchShl
  <1>7. MatchCmp(t) \subseteq Parsed
    <2>1. "CMP_REG_REG" \in Opcode /\ "CMP_REG_REG" \in HasReg1 \intersect HasReg2
      BY DEF Opcode, OpcodeNumber, HasReg1, HasReg2
    <2>2. \A r1, r2 \in RegisterID : Operands("CMP_REG_REG", r1, r2, 0, 0) \in Parsed
      BY <1>1, <2>1, OperandsParsed
    <2> QED  BY <1>2, <2>2 DEF MatchCmp
  <1> QED  BY <1>4, <1>5, <1>6, <1>7 DEF MatchChecked

LEMMA MemoryParsed ==
  ASSUME RegnamesInv, NEW l \in Lines, MemoryToken(l.toks) \in DOMAIN MemoryOperand
  PROVE  MemoryAccess(l.toks) \in Parsed
  <1> DEFINE t == l.toks
             offset == getInt16Constant(MemoryOperand[MemoryToken(t)][1])
  <1>1. offset \in Int
    BY Int16, ToolchainAssumption
  <1>2. \A tok : getRegisterID(tok) \in RegisterID
    BY Registers
  <1>3. /\ {"LOAD_REG_CONST_REG", "STORE_REG_CONST_REG", "LOAD_RESTORE_PC"}
              \subseteq (Opcode \ NoImm) \intersect HasReg1
        /\ {"LOAD_REG_CONST_REG", "STORE_REG_CONST_REG"} \subseteq HasReg2
        /\ 0 \in RegisterID
    BY DEF Opcode, OpcodeNumber, NoImm, HasReg1, HasReg2, Imm24, Imm16, Imm8, Signed16, PcRel16,
       Signed8, Offset8, Jumps, Const24, RegisterID
  <1>4. \A r1, r2 \in RegisterID, imm \in Int :
          /\ Operands("LOAD_REG_CONST_REG", r1, r2, 0, imm) \in Parsed
          /\ Operands("STORE_REG_CONST_REG", r1, r2, 0, imm) \in Parsed
          /\ Operands("LOAD_RESTORE_PC", r1, 0, 0, imm) \in Parsed
    BY <1>3, OperandsParsed
  <1> QED  BY <1>1, <1>2, <1>4 DEF MemoryAccess

-----------------------------------------------------------------------------
(***************************************************************************)
(* Reading a line: the text grows by one, and what pointed at its lines    *)
(* still does.                                                             *)
(***************************************************************************)
LEMMA TextGrows ==
  ASSUME IInv, NEW l \in Lines, ReadLine(l)
  PROVE  /\ text' \in Seq(Lines) /\ Len(text') <= MaxLines
         /\ DOMAIN text \subseteq DOMAIN text' /\ Len(text') \in DOMAIN text'
  BY ToolchainAssumption, AppendProperties DEF IInv, ProgramInv, ReadLine

(***************************************************************************)
(* Program::Add and pos.error keep the program well formed.                *)
(***************************************************************************)
LEMMA AddKeepsProgram ==
  ASSUME IInv, NEW l \in Lines, ReadLine(l), NEW i \in Parsed, Add(i)
  PROVE  /\ insns' \in Seq(Entry) /\ lastSeenLabel' \in Names
         /\ \A n \in DOMAIN insns' : insns'[n].line \in DOMAIN text'
  <1> DEFINE e == [insn |-> i.insn, symbol |-> i.symbol, label |-> lastSeenLabel,
                   line |-> Len(text'), address |-> 0]
  <1>1. DOMAIN text \subseteq DOMAIN text' /\ Len(text') \in DOMAIN text' /\ Len(text') \in Nat
    BY TextGrows
  <1>2. e \in Entry
    <2>1. /\ i.insn \in Instruction /\ i.symbol \in Names
          /\ i.symbol # "" => i.insn.op \notin NoImm
      BY DEF Parsed
    <2>2. lastSeenLabel \in Names
      BY DEF IInv, ProgramInv
    <2>3. /\ e \in [insn : Instruction, symbol : Names, label : Names, line : Nat, address : Int]
          /\ e.symbol = i.symbol /\ e.insn = i.insn
      <3>1. Len(text') \in Nat /\ 0 \in Int
        BY <1>1
      <3> HIDE DEF IInv, Parsed
      <3> QED  BY <2>1, <2>2, <3>1, Zenon
    <2> QED  BY <2>1, <2>3 DEF Entry
  <1>3. insns \in Seq(Entry) /\ insns' = Append(insns, e)
    BY DEF IInv, ProgramInv, Add
  <1>4. /\ insns' \in Seq(Entry)
        /\ DOMAIN insns' = 1 .. Len(insns) + 1
        /\ \A n \in 1 .. Len(insns) : insns'[n] = insns[n]
        /\ insns'[Len(insns) + 1] = e
    BY <1>2, <1>3, AppendProperties
  <1>5. ASSUME NEW n \in DOMAIN insns'
        PROVE  insns'[n].line \in DOMAIN text'
    <2>1. CASE n \in 1 .. Len(insns)
      BY <1>1, <1>3, <1>4, <2>1 DEF IInv, ProgramInv
    <2>2. CASE n = Len(insns) + 1
      BY <1>1, <1>4, <2>2
    <2> QED  BY <1>3, <1>4, <2>1, <2>2
  <1> QED  BY <1>4, <1>5 DEF Add, Names

LEMMA RejectKeepsProgram ==
  ASSUME IInv, NEW l \in Lines, ReadLine(l), rejected' = rejected \union {Len(text')}
  PROVE  rejected' \union unresolved' \subseteq DOMAIN text'
  BY TextGrows DEF IInv, ProgramInv, ReadLine

-----------------------------------------------------------------------------
(* One lemma per handler. *)

(***************************************************************************)
(* The empty program, with the names of MachineInfo.cpp.                   *)
(***************************************************************************)
LEMMA InitInv == Init => IInv
  <1> SUFFICES ASSUME Init PROVE IInv
    OBVIOUS
  <1>1. RegnamesInv
    BY MachineRegisters DEF Init, RegnamesInv, InitialRegnames
  <1>2. ProgramInv
    <2>1. \A S : <<>> \in Seq(S)
      BY EmptySeq
    <2>2. Len(<<>>) = 0 /\ DOMAIN <<>> = {}
      OBVIOUS
    <2>3. "" \in Names /\ "parse" \in Phase /\ 0 <= MaxLines
      BY ToolchainAssumption DEF Names, Phase
    <2> QED  BY <2>1, <2>2, <2>3 DEF Init, ProgramInv
  <1>3. OutputInv
    <2>1. DOMAIN <<>> = {}
      OBVIOUS
    <2> QED  BY <2>1 DEF Init, OutputInv, Bytes
  <1> QED  BY <1>1, <1>2, <1>3 DEF IInv

LEMMA DirectiveInv ==
  ASSUME IInv, NEW l \in Lines, Directive(l) PROVE IInv'
  <1>1. ReadLine(l)
    BY DEF Directive
  <1>2. ProgramInv'
    BY <1>1, TextGrows DEF IInv, ProgramInv, Directive, ReadLine
  <1> QED  BY <1>1, <1>2 DEF IInv, RegnamesInv, OutputInv, Bytes, Directive, ReadLine, outputVars

LEMMA DataLabelInv ==
  ASSUME IInv, NEW l \in Lines, DataLabel(l) PROVE IInv'
  <1> DEFINE o == [name |-> l.label, before |-> Len(fields), address |-> 0]
  <1>1. ReadLine(l) /\ fields \in Seq(Int) /\ objects \in Seq(DataObject)
        /\ objects' = Append(objects, o) /\ fields' = fields
    BY DEF DataLabel, IInv, ProgramInv
  <1>0. l.label \in Names
    BY DEF Names
  <1>2. Len(fields) \in Nat
    BY <1>1
  <1>3. o \in DataObject
    BY <1>0, <1>2 DEF DataObject
  <1>4. /\ objects' \in Seq(DataObject)
        /\ DOMAIN objects' = 1 .. Len(objects) + 1
        /\ \A n \in 1 .. Len(objects) : objects'[n] = objects[n]
        /\ objects'[Len(objects) + 1] = o
    BY <1>1, <1>3, AppendProperties
  <1>5. \A n \in DOMAIN objects' : objects'[n].before <= Len(fields')
    BY <1>1, <1>2, <1>4 DEF IInv, ProgramInv
  <1>6. ProgramInv'
    BY <1>0, <1>1, <1>2, <1>4, <1>5, TextGrows DEF IInv, ProgramInv, DataLabel, ReadLine
  <1> QED  BY <1>1, <1>6 DEF IInv, RegnamesInv, OutputInv, Bytes, DataLabel, ReadLine, outputVars

LEMMA DataFieldInv ==
  ASSUME IInv, NEW l \in Lines, DataField(l) PROVE IInv'
  <1>1. ReadLine(l)
    BY DEF DataField
  <1>2. fields' \in Seq(Int) /\ Len(fields') >= Len(fields) /\ phase' \in Phase
    <2>1. fields \in Seq(Int) /\ phase \in Phase
      BY DEF IInv, ProgramInv
    <2>2. CASE UNCHANGED fields
      BY <2>1, <2>2 DEF DataField, Phase
    <2>3. CASE /\ l.toks[2] \in DOMAIN Number /\ phase' = phase
               /\ fields' = Append(fields, Number[l.toks[2]])
      <3>1. Number[l.toks[2]] \in Int
        BY <2>3, ToolchainAssumption
      <3> QED  BY <2>1, <2>3, <3>1, AppendProperties
    <2> QED  BY <2>2, <2>3 DEF DataField
  <1>3. rejected' \union unresolved' \subseteq DOMAIN text'
    <2>1. CASE UNCHANGED rejected
      BY <1>1, <2>1, TextGrows DEF IInv, ProgramInv, ReadLine
    <2> QED  BY <1>1, <2>1, RejectKeepsProgram DEF DataField
  <1>4. \A n \in DOMAIN objects : objects[n].before <= Len(fields')
    <2>1. ASSUME NEW n \in DOMAIN objects
          PROVE  objects[n].before <= Len(fields) /\ objects[n].before \in Nat
      <3>1. objects \in Seq(DataObject) /\ objects[n].before <= Len(fields)
        BY DEF IInv, ProgramInv
      <3>2. objects[n] \in DataObject
        BY <3>1
      <3> QED  BY <3>1, <3>2 DEF DataObject
    <2> QED  BY <1>2, <2>1 DEF IInv, ProgramInv
  <1>5. ProgramInv'
    BY <1>1, <1>2, <1>3, <1>4, TextGrows DEF IInv, ProgramInv, DataField, ReadLine
  <1> QED  BY <1>1, <1>5 DEF IInv, RegnamesInv, OutputInv, Bytes, DataField, ReadLine, outputVars

LEMMA UnhandledDataLineInv ==
  ASSUME IInv, NEW l \in Lines, UnhandledDataLine(l) PROVE IInv'
  <1>1. ReadLine(l)
    BY DEF UnhandledDataLine
  <1>2. ProgramInv'
    BY <1>1, TextGrows, RejectKeepsProgram DEF IInv, ProgramInv, UnhandledDataLine, ReadLine
  <1> QED  BY <1>1, <1>2 DEF IInv, RegnamesInv, OutputInv, Bytes, UnhandledDataLine, ReadLine,
             outputVars

LEMMA CodeLabelInv ==
  ASSUME IInv, NEW l \in Lines, CodeLabel(l) PROVE IInv'
  <1>1. ReadLine(l) /\ l.label \in Names
    BY DEF CodeLabel, Names
  <1>2. ProgramInv'
    BY <1>1, TextGrows DEF IInv, ProgramInv, CodeLabel, ReadLine
  <1> QED  BY <1>1, <1>2 DEF IInv, RegnamesInv, OutputInv, Bytes, CodeLabel, ReadLine, outputVars

LEMMA UncheckedInsnInv ==
  ASSUME IInv, NEW l \in Lines, UncheckedInsn(l) PROVE IInv'
  <1>1. ReadLine(l) /\ Add(Unchecked(l.toks)) /\ Unchecked(l.toks) \in Parsed
    BY UncheckedParsed DEF UncheckedInsn, CodeLine
  <1>2. ProgramInv'
    BY <1>1, TextGrows, AddKeepsProgram
    DEF IInv, ProgramInv, UncheckedInsn, CodeLine, ReadLine
  <1> QED  BY <1>1, <1>2 DEF IInv, RegnamesInv, OutputInv, Bytes, UncheckedInsn, CodeLine,
             ReadLine, outputVars

LEMMA CheckedInsnInv ==
  ASSUME IInv, NEW l \in Lines, CheckedInsn(l) PROVE IInv'
  <1>1. ReadLine(l) /\ MatchChecked(l.toks) \subseteq Parsed
    BY CheckedParsed DEF CheckedInsn, IInv
  <1>2. ProgramInv'
    <2>1. CASE \E i \in MatchChecked(l.toks) : Add(i) /\ UNCHANGED rejected
      BY <1>1, <2>1, TextGrows, AddKeepsProgram DEF IInv, ProgramInv, CheckedInsn, ReadLine
    <2>2. CASE Reject
      BY <1>1, <2>2, TextGrows, RejectKeepsProgram
      DEF IInv, ProgramInv, CheckedInsn, Reject, ReadLine
    <2> QED  BY <2>1, <2>2 DEF CheckedInsn
  <1> QED  BY <1>1, <1>2 DEF IInv, RegnamesInv, OutputInv, Bytes, CheckedInsn, ReadLine,
             outputVars

LEMMA MemoryInsnInv ==
  ASSUME IInv, NEW l \in Lines, MemoryInsn(l) PROVE IInv'
  <1>1. ReadLine(l)
    BY DEF MemoryInsn, CodeLine
  <1>2. CASE MemoryToken(l.toks) \in DOMAIN MemoryOperand
    <2>1. MemoryAccess(l.toks) \in Parsed /\ Add(MemoryAccess(l.toks)) /\ UNCHANGED phase
      BY <1>2, MemoryParsed DEF MemoryInsn, IInv
    <2>2. ProgramInv'
      BY <1>1, <2>1, TextGrows, AddKeepsProgram
      DEF IInv, ProgramInv, MemoryInsn, CodeLine, ReadLine
    <2>3. RegnamesInv'
      BY <1>2, Registers DEF IInv, RegnamesInv, MemoryInsn, LookedUp
    <2> QED  BY <1>1, <2>2, <2>3 DEF IInv, OutputInv, Bytes, MemoryInsn, CodeLine, ReadLine,
               outputVars
  <1>3. CASE MemoryToken(l.toks) \notin DOMAIN MemoryOperand
    <2>1. /\ UNCHANGED <<insns, lastSeenLabel, regnames, data_mode, objects, fields, rejected>>
          /\ phase' \in Phase
      BY <1>3 DEF MemoryInsn, CodeLine, Phase
    <2>2. ProgramInv'
      BY <1>1, <2>1, TextGrows DEF IInv, ProgramInv, ReadLine
    <2> QED  BY <1>1, <2>1, <2>2 DEF IInv, RegnamesInv, OutputInv, Bytes, ReadLine, outputVars
  <1> QED  BY <1>2, <1>3

-----------------------------------------------------------------------------
(* The linker. *)

(***************************************************************************)
(* A sequence mapped entry by entry is a sequence.                         *)
(***************************************************************************)
LEMMA MappedSeq ==
  ASSUME NEW S, NEW T, NEW s \in Seq(S), NEW f,
         f = [n \in DOMAIN s |-> f[n]], \A n \in DOMAIN s : f[n] \in T
  PROVE  f \in Seq(T) /\ DOMAIN f = DOMAIN s /\ Len(f) = Len(s)
  <1>1. Len(s) \in Nat /\ DOMAIN s = 1 .. Len(s)
    BY LenProperties
  <1>2. f \in [1 .. Len(s) -> T]
    BY <1>1
  <1>3. f \in Seq(T)
    BY <1>1, <1>2, SeqDef
  <1>4. Len(f) \in Nat /\ DOMAIN f = 1 .. Len(f)
    BY <1>3, LenProperties
  <1> QED  BY <1>1, <1>2, <1>3, <1>4

LEMMA LinkObjsInv ==
  ASSUME IInv, LinkObjs PROVE IInv'
  <1>1. objects \in Seq(DataObject)
    BY DEF IInv, ProgramInv
  <1>2. ASSUME NEW n \in DOMAIN objects
        PROVE  /\ objects'[n] \in DataObject
               /\ objects'[n].before = objects[n].before
    <2>1. objects[n] \in DataObject
      BY <1>1
    <2>2. object_address(n) \in Int
      BY <2>1, ToolchainAssumption DEF object_address, DataObject
    <2>3. objects'[n] = [objects[n] EXCEPT !.address = object_address(n)]
      BY DEF LinkObjs
    <2> QED  BY <2>1, <2>2, <2>3 DEF DataObject
  <1>3. objects' = [n \in DOMAIN objects |-> objects'[n]]
    BY DEF LinkObjs
  <1>4. objects' \in Seq(DataObject) /\ DOMAIN objects' = DOMAIN objects
    BY <1>1, <1>2, <1>3, MappedSeq
  <1>5. \A n \in DOMAIN objects' : objects'[n].before <= Len(fields)
    BY <1>2, <1>4 DEF IInv, ProgramInv
  <1>6. ProgramInv'
    BY <1>4, <1>5 DEF IInv, ProgramInv, LinkObjs, Phase
  <1> QED  BY <1>6 DEF IInv, RegnamesInv, OutputInv, Bytes, LinkObjs, outputVars

(***************************************************************************)
(* What Instruction::link writes into an instruction is a number.          *)
(***************************************************************************)
LEMMA LinkedImmIsInt ==
  ASSUME IInv, NEW n \in DOMAIN insns
  PROVE  LinkedImm(n) # {} /\ LinkedImm(n) \subseteq Int
  <1>1. insns \in Seq(Entry) /\ objects \in Seq(DataObject)
    BY DEF IInv, ProgramInv
  <1>2. insns[n].insn.imm \in Int
    <2>1. insns[n] \in Entry
      BY <1>1
    <2>2. insns[n].insn \in Instruction
      BY <2>1 DEF Entry
    <2> QED  BY <2>2 DEF Instruction
  <1>3. ASSUME NEW k \in DOMAIN insns PROVE insn_address(k) \in Int
    BY <1>1, ToolchainAssumption DEF insn_address
  <1>4. ASSUME NEW k \in DOMAIN objects PROVE objects[k].address \in Int
    <2>1. objects[k] \in DataObject
      BY <1>1
    <2> QED  BY <2>1 DEF DataObject
  <1>5. /\ find_data(insns[n].symbol) \subseteq DOMAIN objects
        /\ find_insn(insns[n].symbol) \subseteq DOMAIN insns
    BY DEF find_data, find_insn, Last
  <1> DEFINE F == Found(insns[n])
  <1>6. F \subseteq DOMAIN objects \/ insns[n].insn.op \notin Const24
    BY <1>5 DEF Found
  <1>7. F \subseteq DOMAIN insns \/ insns[n].insn.op \in Const24
    BY <1>5 DEF Found
  <1>8. LinkedImm(n) = IF insns[n].symbol = "" \/ F = {} THEN {insns[n].insn.imm}
                       ELSE IF insns[n].insn.op \in Const24 THEN {objects[k].address : k \in F}
                       ELSE {insn_address(k) - insn_address(n) : k \in F}
    BY DEF LinkedImm
  <1> HIDE DEF F
  <1>9. CASE insns[n].symbol = "" \/ F = {}
    BY <1>2, <1>8, <1>9
  <1>10. CASE ~(insns[n].symbol = "" \/ F = {}) /\ insns[n].insn.op \in Const24
    BY <1>4, <1>6, <1>8, <1>10
  <1>11. CASE ~(insns[n].symbol = "" \/ F = {}) /\ insns[n].insn.op \notin Const24
    <2>1. F # {} /\ F \subseteq DOMAIN insns
      BY <1>7, <1>11
    <2>2. LinkedImm(n) = {insn_address(k) - insn_address(n) : k \in F}
      BY <1>8, <1>11
    <2>3. ASSUME NEW k \in F PROVE insn_address(k) - insn_address(n) \in Int
      <3>1. insn_address(k) \in Int /\ insn_address(n) \in Int
        BY <1>3, <2>1
      <3> HIDE DEF F
      <3> QED  BY <3>1
    <2> QED  BY <2>1, <2>2, <2>3
  <1> QED  BY <1>9, <1>10, <1>11

LEMMA LinkInsnsInv ==
  ASSUME IInv, LinkInsns PROVE IInv'
  <1>1. insns \in Seq(Entry)
    BY DEF IInv, ProgramInv
  <1>2. ASSUME NEW n \in DOMAIN insns
        PROVE  insns'[n] \in Entry /\ insns'[n].line = insns[n].line
    <2> DEFINE k == CHOOSE v \in LinkedImm(n) : TRUE
    <2>1. k \in Int /\ insn_address(n) \in Int
      <3>1. insn_address(n) \in Int
        BY <1>1, ToolchainAssumption DEF insn_address
      <3> QED  BY <3>1, LinkedImmIsInt
    <2>2. insns[n] \in Entry
      BY <1>1
    <2>3. insns'[n] = [insns[n] EXCEPT !.address = insn_address(n), !.insn.imm = k]
      BY DEF LinkInsns
    <2>4. /\ insns[n].insn \in Instruction
          /\ insns[n].symbol # "" => insns[n].insn.op \notin NoImm
          /\ insns[n].symbol = "" => k = insns[n].insn.imm
      BY <2>2 DEF Entry, LinkedImm
    <2>5. [insns[n].insn EXCEPT !.imm = k] \in Instruction
      BY <2>1, <2>4 DEF Instruction
    <2>6. insns'[n] = [[insns[n] EXCEPT !.address = insn_address(n)] EXCEPT
                         !.insn = [insns[n].insn EXCEPT !.imm = k]]
      BY <2>2, <2>3 DEF Entry
    <2> HIDE DEF k
    <2>7. /\ insns'[n].insn = [insns[n].insn EXCEPT !.imm = k]
          /\ insns'[n].symbol = insns[n].symbol
          /\ insns'[n].line = insns[n].line
          /\ insns'[n] \in [insn : Instruction, symbol : Names, label : Names, line : Nat,
                            address : Int]
      BY <2>1, <2>2, <2>5, <2>6 DEF Entry
    <2>8. [insns[n].insn EXCEPT !.imm = k].op = insns[n].insn.op
      BY <2>4 DEF Instruction
    <2> QED  BY <2>4, <2>7, <2>8 DEF Entry
  <1>3. insns' = [n \in DOMAIN insns |-> insns'[n]]
    <2> DEFINE G(n) == [insns[n] EXCEPT !.address = insn_address(n),
                                        !.insn.imm = CHOOSE k \in LinkedImm(n) : TRUE]
    <2>1. insns' = [n \in DOMAIN insns |-> G(n)]
      BY DEF LinkInsns
    <2> HIDE DEF G
    <2> QED  BY <2>1
  <1>4. insns' \in Seq(Entry) /\ DOMAIN insns' = DOMAIN insns
    BY <1>1, <1>2, <1>3, MappedSeq
  <1>5. \A n \in DOMAIN insns' : insns'[n].line \in DOMAIN text
    BY <1>2, <1>4 DEF IInv, ProgramInv
  <1>6. unresolved' \subseteq DOMAIN text
    <2>1. \A n \in DOMAIN insns : insns[n].line \in DOMAIN text
      BY DEF IInv, ProgramInv
    <2>2. Unresolved \subseteq DOMAIN text
      BY <2>1 DEF Unresolved
    <2>3. unresolved \subseteq DOMAIN text
      BY DEF IInv, ProgramInv
    <2> QED  BY <2>2, <2>3 DEF LinkInsns
  <1>7. ProgramInv'
    BY <1>4, <1>5, <1>6 DEF IInv, ProgramInv, LinkInsns, Phase
  <1> QED  BY <1>7 DEF IInv, RegnamesInv, OutputInv, Bytes, LinkInsns, outputVars

-----------------------------------------------------------------------------
(* The object writer and the loader. *)

(***************************************************************************)
(* Only LoadAddr changes its immediate on the way to its word.             *)
(***************************************************************************)
LEMMA AddressPartIsInstruction ==
  ASSUME NEW i \in Instruction PROVE AddressPart(i) \in Instruction
  <1>1. i.imm \in Int
    BY DEF Instruction
  <1>2. i.imm \div 16777216 \in Int /\ (i.imm \div 16777216) \div 16777216 \in Int
    BY <1>1, SMT
  <1>3. i.op \in {"MOVE_R0_CONST24B", "MOVE_R0_CONST24C"} => i.op \notin NoImm
    BY DEF NoImm, Imm24, Const24
  <1> QED  BY <1>2, <1>3 DEF AddressPart, Instruction

LEMMA LowBytes ==
  ASSUME NEW v \in Int
  PROVE  Byte0(v) \in Byte /\ Byte1(v) \in Byte /\ Byte2(v) \in Byte
         /\ (v \div 16777216) % 256 \in Byte
  BY SMT DEF Byte0, Byte1, Byte2, Byte

LEMMA EncodedIsWord ==
  ASSUME NEW i \in Instruction PROVE Encoded(i) \in Word
  <1> DEFINE j == AddressPart(i)
  <1>1. j \in Instruction
    BY AddressPartIsInstruction
  <1>2. /\ j.op \in Opcode /\ j.imm \in Int
        /\ j.r1 \in RegisterID /\ j.r2 \in RegisterID /\ j.r3 \in RegisterID
    BY <1>1 DEF Instruction
  <1>3. j.r1 \in Byte /\ j.r2 \in Byte /\ j.r3 \in Byte /\ SecondReg(j) \in Byte /\ 0 \in Byte
    BY <1>2 DEF RegisterID, Byte, SecondReg, REG_BLOCK_INDEX
  <1>4. Byte0(j.imm) \in Byte /\ Byte1(j.imm) \in Byte /\ Byte2(j.imm) \in Byte
    BY <1>2, LowBytes
  <1>5. OpcodeNumber[j.op] \in Byte
    BY <1>2, OpcodeNumberInjective
  <1>6. \A x, y, z \in Byte : WordOf(j.op, x, y, z) \in Word
    BY <1>5 DEF WordOf, Word
  <1> QED  BY <1>3, <1>4, <1>6 DEF Encoded, getEncodedInstruction

LEMMA WordBytes ==
  ASSUME NEW w \in Word, NEW k \in Int PROVE WordByte(w, k % 4) \in Byte
  <1>1. k % 4 \in {0, 1, 2, 3}
    BY SMT
  <1>2. w.b0 \in Byte /\ w.b1 \in Byte /\ w.b2 \in Byte /\ w.b3 \in Byte
    BY DEF Word
  <1> QED  BY <1>1, <1>2 DEF WordByte

LEMMA LongBytes ==
  ASSUME NEW v \in Int, NEW k \in Int PROVE LongByte(v, k % 8) \in Byte
  <1>1. k % 8 \in {0, 1, 2, 3, 4, 5, 6, 7}
    BY SMT
  <1>2. Byte0(v) \in Byte /\ Byte1(v) \in Byte /\ Byte2(v) \in Byte
        /\ (v \div 16777216) % 256 \in Byte /\ 255 \in Byte /\ 0 \in Byte
    BY LowBytes DEF Byte
  <1> QED  BY <1>1, <1>2 DEF LongByte

LEMMA OverlaidBytes ==
  ASSUME Bytes(memory), NEW file, Bytes(file), DOMAIN file \subseteq Int, NEW start \in Int
  PROVE  Bytes(Overlaid(file, start))
  <1> SUFFICES ASSUME NEW a \in DOMAIN Overlaid(file, start)
               PROVE  Overlaid(file, start)[a] \in Byte
    BY DEF Bytes
  <1>1. CASE a \in DOMAIN memory
    BY <1>1 DEF Bytes, Overlaid
  <1>2. CASE \E k \in DOMAIN file : a = start + k
    <2>1. a - start \in DOMAIN file
      BY <1>2
    <2> QED  BY <2>1 DEF Bytes, Overlaid
  <1> QED  BY <1>1, <1>2 DEF Overlaid

LEMMA WriteCodeInv ==
  ASSUME IInv, WriteCode PROVE IInv'
  <1>1. Bytes(code_file')
    <2> SUFFICES ASSUME NEW k \in 0 .. 4 * Len(insns) - 1
                 PROVE  WordByte(Encoded(insns[(k \div 4) + 1].insn), k % 4) \in Byte
      BY DEF WriteCode, Bytes
    <2>1. insns \in Seq(Entry) /\ Len(insns) \in Nat
      BY DEF IInv, ProgramInv
    <2>2. (k \div 4) + 1 \in 1 .. Len(insns) /\ k \in Int
      BY <2>1, SMT
    <2>3. insns[(k \div 4) + 1] \in Entry
      BY <2>1, <2>2
    <2> QED  BY <2>2, <2>3, EncodedIsWord, WordBytes DEF Entry
  <1> QED  BY <1>1 DEF IInv, RegnamesInv, ProgramInv, OutputInv, Bytes, WriteCode, parserVars, Phase

LEMMA WriteDataInv ==
  ASSUME IInv, WriteData PROVE IInv'
  <1>0. Len(fields) \in Nat /\ fields \in Seq(Int)
    BY DEF IInv, ProgramInv
  <1>1. Bytes(data_file')
    <2> SUFFICES ASSUME NEW k \in 0 .. 8 * Len(fields) - 1
                 PROVE  LongByte(fields[(k \div 8) + 1], k % 8) \in Byte
      BY DEF WriteData, Bytes
    <2>1. (k \div 8) + 1 \in 1 .. Len(fields) /\ k \in Int
      BY <1>0, SMT
    <2>2. fields[(k \div 8) + 1] \in Int
      BY <1>0, <2>1
    <2> QED  BY <2>1, <2>2, LongBytes
  <1>2. DOMAIN data_file' \subseteq Int
    BY <1>0 DEF WriteData
  <1> QED  BY <1>1, <1>2
    DEF IInv, RegnamesInv, ProgramInv, OutputInv, Bytes, WriteData, parserVars, Phase

LEMMA ReadCodeInv ==
  ASSUME IInv, ReadCode PROVE IInv'
  <1>1. Bytes(memory')
    <2>1. PICK w \in UninitializedWords :
            memory' = Overlaid([k \in 0 .. 4 * Len(insns) + 3 |->
                                  IF k \in DOMAIN code_file THEN code_file[k]
                                  ELSE WordByte(w, k % 4)],
                               CODE_SEGMENT_START)
      BY DEF ReadCode
    <2> DEFINE file == [k \in 0 .. 4 * Len(insns) + 3 |->
                          IF k \in DOMAIN code_file THEN code_file[k] ELSE WordByte(w, k % 4)]
    <2>2. w \in Word /\ CODE_SEGMENT_START \in Int /\ Bytes(memory) /\ Bytes(code_file)
          /\ Len(insns) \in Nat
      BY ToolchainAssumption DEF IInv, OutputInv, ProgramInv
    <2>3. DOMAIN file \subseteq Int
      BY <2>2
    <2>4. Bytes(file)
      BY <2>2, <2>3, WordBytes DEF Bytes
    <2> HIDE DEF file
    <2> QED  BY <2>1, <2>2, <2>3, <2>4, OverlaidBytes DEF file
  <1> QED  BY <1>1 DEF IInv, RegnamesInv, ProgramInv, OutputInv, Bytes, ReadCode, parserVars, Phase

LEMMA ReadDataInv ==
  ASSUME IInv, ReadData PROVE IInv'
  <1>1. Bytes(memory')
    BY OverlaidBytes, ToolchainAssumption DEF IInv, OutputInv, ReadData
  <1> QED  BY <1>1 DEF IInv, RegnamesInv, ProgramInv, OutputInv, Bytes, ReadData, parserVars, Phase

-----------------------------------------------------------------------------
(* The theorems. *)

LEMMA NextInv == IInv /\ [Next]_vars => IInv'
  <1> SUFFICES ASSUME IInv, [Next]_vars PROVE IInv'
    OBVIOUS
  <1>1. CASE Parse
    BY <1>1, DirectiveInv, DataLabelInv, DataFieldInv, UnhandledDataLineInv, CodeLabelInv,
       UncheckedInsnInv, CheckedInsnInv, MemoryInsnInv DEF Parse
  <1>2. CASE EndOfFile
    BY <1>2 DEF EndOfFile, IInv, RegnamesInv, ProgramInv, OutputInv, Bytes, parserVars, outputVars,
       Phase
  <1>3. CASE UNCHANGED vars
    BY <1>3 DEF vars, IInv, RegnamesInv, ProgramInv, OutputInv, Bytes, parserVars, outputVars
  <1> QED  BY <1>1, <1>2, <1>3, LinkObjsInv, LinkInsnsInv, WriteCodeInv, WriteDataInv,
             ReadCodeInv, ReadDataInv DEF Next

LEMMA IInvHolds == Spec => []IInv
  BY InitInv, NextInv, PTL DEF Spec

(***************************************************************************)
(* Every variable keeps its type: whatever lines a file has, the parser's  *)
(* map holds registers, instructions have the fields of their format and   *)
(* point at their line, and memory is filled with bytes.                   *)
(***************************************************************************)
THEOREM ToolchainTypeCorrect == Spec => []TypeOK
  <1>1. IInv => TypeOK
    <2> SUFFICES ASSUME IInv PROVE TypeOK
      OBVIOUS
    <2>0. objects \in Seq(DataObject) /\ insns \in Seq(Entry)
      BY DEF IInv, ProgramInv
    <2>1. ASSUME NEW n \in DOMAIN objects PROVE objects[n].before \in 0 .. Len(fields)
      <3>1. objects[n] \in DataObject
        BY <2>0
      <3>2. objects[n].before \in Nat /\ objects[n].before <= Len(fields)
        BY <3>1 DEF DataObject, IInv, ProgramInv
      <3>3. Len(fields) \in Nat
        BY LenProperties DEF IInv, ProgramInv
      <3> QED  BY <3>2, <3>3
    <2>2. \A n \in DOMAIN fields : fields[n] \in Int
      BY DEF IInv, ProgramInv
    <2>3. ASSUME NEW n \in DOMAIN insns PROVE insns[n].insn \in Instruction
      <3>1. insns[n] \in Entry
        BY <2>0
      <3> QED  BY <3>1 DEF Entry
    <2> QED  BY <2>1, <2>2, <2>3 DEF IInv, RegnamesInv, ProgramInv, OutputInv, Bytes, TypeOK
  <1> QED  BY <1>1, IInvHolds, PTL

(***************************************************************************)
(* Every instruction that the parser and the linker make comes back from   *)
(* its word exactly if its immediate is representable: what the word       *)
(* cannot hold is all that the decode stage can get wrong.                 *)
(***************************************************************************)
THEOREM AssembledWordsAreExact == Spec => []WordsAreExact
  <1>1. IInv => WordsAreExact
    <2> SUFFICES ASSUME IInv, NEW n \in DOMAIN insns
                 PROVE  SurvivesExactly(AddressPart(insns[n].insn))
      BY DEF WordsAreExact
    <2>1. insns \in Seq(Entry)
      BY DEF IInv, ProgramInv
    <2>2. insns[n] \in Entry
      BY <2>1
    <2>3. insns[n].insn \in Instruction
      BY <2>2 DEF Entry
    <2>4. AddressPart(insns[n].insn) \in Instruction
      BY <2>3, AddressPartIsInstruction
    <2> QED  BY <2>4, WordsKeepInstructions
  <1> QED  BY <1>1, IInvHolds, PTL
=============================================================================
