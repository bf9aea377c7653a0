----------------------------- MODULE Toolchain -----------------------------
(***************************************************************************)
(* From assembly text to memory: the assembler's parser, linker and object *)
(* writer (Assembler/) and the loader of the simulator (Simulator.cpp).    *)
(*                                                                         *)
(* A source file is read line by line; which lines it has is open, up to   *)
(* MaxLines of them.  A line is a label, or its tokens; comments and blank *)
(* lines are gone.  Tokens are strings, and constants say what the parser  *)
(* makes of their characters: which start with a number and whether        *)
(* anything follows it, which can be a symbol, which have the form of a    *)
(* memory operand and what its two parts are.  Lines have the tokens that  *)
(* their handler reads (a missing one is undefined behaviour), and none is *)
(* empty.                                                                  *)
(*                                                                         *)
(* Addresses count bytes.  The data fields of all objects are one          *)
(* sequence, and an object is its name and the number of fields before it, *)
(* because a field always goes to the object that was declared last.       *)
(***************************************************************************)
EXTENDS InsnCodec, Sequences, FiniteSets

CONSTANTS
  Lines,                \* the lines a file is made of
  MaxLines,             \* how many it may have
  Number,               \* token |-> what std::stoi and std::stol read at its start
  Trailing,             \* the tokens in which something follows that number
  Symbols,              \* the tokens that start with a letter, _ or $
  MemoryOperand,        \* token |-> <<offset, register>>, for k(%reg)
  CODE_SEGMENT_START,
  DATA_SEGMENT_START,
  UninitializedWords    \* what the loader's buffer may hold

ASSUME ToolchainAssumption ==
  /\ MaxLines \in Nat
  /\ \A t \in DOMAIN Number : Number[t] \in Int
  /\ \A t \in DOMAIN MemoryOperand : MemoryOperand[t][1] \in DOMAIN Number
  /\ CODE_SEGMENT_START \in Nat /\ DATA_SEGMENT_START \in Nat
  /\ CODE_SEGMENT_START < DATA_SEGMENT_START
  /\ UninitializedWords \subseteq Word /\ UninitializedWords # {}

VARIABLES
  text,           \* the lines read so far
  data_mode,      \* TRUE between .data and .code
  lastSeenLabel,  \* "" if there is none
  regnames,       \* the parser's map from names to registers
  objects,        \* Program::objects: name, fields before it, address
  fields,         \* the values of the data fields
  insns,          \* Program::insns
  rejected,       \* the lines that the parser reported
  unresolved,     \* the lines of the instructions that the linker reported
  phase,
  code_file, data_file,  \* what the object writer wrote, by offset
  memory          \* the bytes that the loader has written, by address

parserVars == <<text, data_mode, lastSeenLabel, regnames, objects, fields, insns, rejected>>
outputVars == <<code_file, data_file, memory>>
vars == <<parserVars, unresolved, phase, outputVars>>

Phase == {"parse", "link_objs", "link_insns", "write_code", "write_data",
          "read_code", "read_data", "loaded", "terminated"}

\* The registers of the machine, in the order of the enumeration RegisterID.
RegisterName ==
  <<"%r0", "%r1", "%r2", "%r3", "%r4", "%r5", "%r6", "%r7", "%r8", "%r9",
    "%block_index", "%sp", "%flags", "%pc">>

MachineRegister ==
  [r \in {RegisterName[id + 1] : id \in RegisterID} |->
     CHOOSE id \in RegisterID : RegisterName[id + 1] = r]

\* The map of MachineInfo.cpp, which lacks a register.
InitialRegnames == [r \in DOMAIN MachineRegister \ {"%r9"} |-> MachineRegister[r]]

Init ==
  /\ text = <<>> /\ data_mode = FALSE /\ lastSeenLabel = ""
  /\ regnames = InitialRegnames
  /\ objects = <<>> /\ fields = <<>> /\ insns = <<>>
  /\ rejected = {} /\ unresolved = {}
  /\ phase = "parse"
  /\ code_file = <<>> /\ data_file = <<>> /\ memory = <<>>

-----------------------------------------------------------------------------
\* What the parser asks of a token.
isRegister(t) == t \in DOMAIN regnames
getRegisterID(t) == IF isRegister(t) THEN regnames[t] ELSE REG_R0
isSymbol(t) == t \in Symbols
isNumber(t) == t \in DOMAIN Number /\ t \notin Trailing
isInt8Constant(t)  == isNumber(t) /\ -128 <= Number[t] /\ Number[t] <= 127
isInt16Constant(t) == isNumber(t) /\ -32768 <= Number[t] /\ Number[t] <= 32767
getInt16Constant(t) == ToInt16(Number[t] % 65536)

\* regnames[str] enters a name it does not find, with the first register.
LookedUp(names) == [r \in DOMAIN regnames \union names |-> getRegisterID(r)]

JumpOpcode ==
  [jmp |-> "JMP_ALWAYS", je |-> "JMP_EQUAL", jne |-> "JMP_NOT_EQUAL", jl |-> "JMP_LOWER",
   jle |-> "JMP_LOWER_EQUAL", jg |-> "JMP_GREATER", jge |-> "JMP_GREATER_EQUAL"]

LoadAddrOpcode ==
  [loadaddress_lo |-> "MOVE_R0_CONST24A", loadaddress_mid |-> "MOVE_R0_CONST24B",
   loadaddress_hi |-> "MOVE_R0_CONST24C"]

Insn(op, r1, r2, r3, imm) == [op |-> op, r1 |-> r1, r2 |-> r2, r3 |-> r3, imm |-> imm]

\* An instruction object: its operands and, for those that name one, a symbol.
Operands(op, r1, r2, r3, imm) == [insn |-> Insn(op, r1, r2, r3, imm), symbol |-> ""]
Symbolic(op, r1, s) == [insn |-> Insn(op, r1, 0, 0, 0), symbol |-> s]

\* The instruction that a line of tokens stands for, none if nothing matches.
MatchMov(t) ==
  IF ~isRegister(t[2]) THEN {}
  ELSE IF isInt16Constant(t[3])
    THEN {Operands("MOVE_REG_CONST16", getRegisterID(t[2]), 0, 0, getInt16Constant(t[3]))}
  ELSE IF isRegister(t[3]) /\ getRegisterID(t[3]) = REG_BLOCK_INDEX
    THEN {Operands("MOVE_REG_BLOCK_INDEX", getRegisterID(t[2]), 0, 0, 0)}
  ELSE IF isRegister(t[3])
    THEN {Operands("MOVE_REG_REG", getRegisterID(t[2]), getRegisterID(t[3]), 0, 0)}
  ELSE IF isSymbol(t[3])
    THEN {Symbolic("MOVE_PCREL_REG_CONST16", getRegisterID(t[2]), t[3])}
  ELSE {}

MatchAdd(t) ==
  IF Len(t) # 4 \/ ~isRegister(t[2]) \/ ~isRegister(t[3]) THEN {}
  ELSE IF isInt8Constant(t[4])
    THEN {Operands("ADD_REG_REG_CONST", getRegisterID(t[2]), getRegisterID(t[3]), 0,
                   Number[t[4]])}
  ELSE IF isRegister(t[4])
    THEN {Operands("ADD_REG_REG_REG", getRegisterID(t[2]), getRegisterID(t[3]),
                   getRegisterID(t[4]), 0)}
  ELSE {}

MatchShl(t) ==
  IF isRegister(t[2]) /\ isRegister(t[3]) /\ isInt8Constant(t[4])
  THEN {Operands("L_SSHIFT_REG_REG_CONST", getRegisterID(t[2]), getRegisterID(t[3]), 0,
                 Number[t[4]])}
  ELSE {}

MatchCmp(t) ==
  IF isRegister(t[2]) /\ isRegister(t[3])
  THEN {Operands("CMP_REG_REG", getRegisterID(t[2]), getRegisterID(t[3]), 0, 0)}
  ELSE {}

\* The mnemonics whose operands the parser looks at before it takes the line.
MatchChecked(t) ==
  IF t[1] = "mov" THEN MatchMov(t)
  ELSE IF t[1] = "add" THEN MatchAdd(t)
  ELSE IF t[1] = "shl" THEN MatchShl(t)
  ELSE IF t[1] = "cmp" THEN MatchCmp(t)
  ELSE {}

\* halt, jumps and loadaddress: any operand will do, and the register of
\* loadaddress is not even read.
Unchecked(t) ==
  IF t[1] \in DOMAIN JumpOpcode THEN Symbolic(JumpOpcode[t[1]], 0, t[2])
  ELSE IF t[1] \in DOMAIN LoadAddrOpcode THEN Symbolic(LoadAddrOpcode[t[1]], 0, t[3])
  ELSE Operands("HALT", 0, 0, 0, 0)

UncheckedMnemonics == DOMAIN JumpOpcode \union DOMAIN LoadAddrOpcode \union {"halt"}

\* load, store and restorepc: the token of the memory operand, and the names
\* that are looked up without a check.
MemoryToken(t) == IF t[1] = "load" THEN t[3] ELSE t[2]
NamesIn(t) ==
  {MemoryOperand[MemoryToken(t)][2]} \union
  (IF t[1] = "load" THEN {t[2]} ELSE IF t[1] = "store" THEN {t[3]} ELSE {})

MemoryAccess(t) ==
  LET base   == getRegisterID(MemoryOperand[MemoryToken(t)][2])
      offset == getInt16Constant(MemoryOperand[MemoryToken(t)][1])
  IN IF t[1] = "load"
       THEN Operands("LOAD_REG_CONST_REG", getRegisterID(t[2]), base, 0, offset)
     ELSE IF t[1] = "store"
       THEN Operands("STORE_REG_CONST_REG", getRegisterID(t[3]), base, 0, offset)
     ELSE Operands("LOAD_RESTORE_PC", base, 0, 0, offset)

MemoryMnemonics == {"load", "store", "restorepc"}

-----------------------------------------------------------------------------
(* Program::parse and its handlers: one line at a time. *)

DataDirective == [label |-> "", toks |-> <<".data">>]
CodeDirective == [label |-> "", toks |-> <<".code">>]

\* The next line of the file is l.
ReadLine(l) ==
  /\ phase = "parse" /\ Len(text) < MaxLines
  /\ text' = Append(text, l)
  /\ UNCHANGED <<unresolved, outputVars>>

IsTokens(l) == l.label = "" /\ l \notin {DataDirective, CodeDirective}

\* How many tokens the handler of a mnemonic reads; add counts them itself.
TokensRead(mnemonic) ==
  IF mnemonic \in DOMAIN JumpOpcode \union {"restorepc", ".long"} THEN 2
  ELSE IF mnemonic \in DOMAIN LoadAddrOpcode \union {"mov", "cmp", "load", "store"} THEN 3
  ELSE IF mnemonic = "shl" THEN 4
  ELSE 1

\* Tokens are not empty, and their first character tells numbers, symbols and
\* registers apart.
ASSUME TokenAssumption ==
  /\ \A l \in Lines : l.toks \in Seq(STRING) /\ \A k \in DOMAIN l.toks : l.toks[k] # ""
  /\ \A l \in Lines : IsTokens(l) => Len(l.toks) >= TokensRead(l.toks[1])
  /\ DOMAIN Number \intersect Symbols = {}
  /\ DOMAIN MachineRegister \intersect (DOMAIN Number \union Symbols) = {}

Directive(l) ==
  /\ l \in {DataDirective, CodeDirective}
  /\ ReadLine(l)
  /\ data_mode' = (l = DataDirective)
  /\ UNCHANGED <<lastSeenLabel, regnames, objects, fields, insns, rejected, phase>>

DataLabel(l) ==
  /\ data_mode /\ l.label # ""
  /\ ReadLine(l)
  /\ lastSeenLabel' = l.label
  /\ objects' = Append(objects, [name |-> l.label, before |-> Len(fields), address |-> 0])
  /\ UNCHANGED <<data_mode, regnames, fields, insns, rejected, phase>>

\* std::stol takes a value that only starts with a number; on one that does not
\* it throws, and nobody catches it.
DataField(l) ==
  /\ data_mode /\ IsTokens(l) /\ l.toks[1] = ".long"
  /\ ReadLine(l)
  /\ IF l.toks[2] \notin DOMAIN Number
       THEN phase' = "terminated" /\ UNCHANGED <<fields, rejected>>
       ELSE /\ UNCHANGED phase
            /\ IF objects # <<>>
                 THEN fields' = Append(fields, Number[l.toks[2]]) /\ UNCHANGED rejected
                 ELSE rejected' = rejected \union {Len(text')} /\ UNCHANGED fields
  /\ UNCHANGED <<data_mode, lastSeenLabel, regnames, objects, insns>>

UnhandledDataLine(l) ==
  /\ data_mode /\ IsTokens(l) /\ l.toks[1] # ".long"
  /\ ReadLine(l)
  /\ rejected' = rejected \union {Len(text')}
  /\ UNCHANGED <<data_mode, lastSeenLabel, regnames, objects, fields, insns, phase>>

CodeLabel(l) ==
  /\ ~data_mode /\ l.label # ""
  /\ ReadLine(l)
  /\ lastSeenLabel' = l.label
  /\ UNCHANGED <<data_mode, regnames, objects, fields, insns, rejected, phase>>

\* Program::Add: the instruction takes the last label and the label is used up.
Add(i) ==
  /\ insns' = Append(insns, [insn |-> i.insn, symbol |-> i.symbol, label |-> lastSeenLabel,
                             line |-> Len(text'), address |-> 0])
  /\ lastSeenLabel' = ""

\* pos.error prints; the line is dropped and everything goes on.
\* Mutants: the label before the line goes with it; the line is dropped silently.
Reject_DropsLabel ==
  /\ rejected' = rejected \union {Len(text')}
  /\ lastSeenLabel' = ""
  /\ UNCHANGED insns

Reject_Silently == UNCHANGED <<rejected, insns, lastSeenLabel>>

Reject ==
  /\ rejected' = rejected \union {Len(text')}
  /\ UNCHANGED <<insns, lastSeenLabel>>

CodeLine(l, mnemonics) ==
  /\ ~data_mode /\ IsTokens(l) /\ l.toks[1] \in mnemonics
  /\ ReadLine(l)
  /\ UNCHANGED <<data_mode, objects, fields>>

UncheckedInsn(l) ==
  /\ CodeLine(l, UncheckedMnemonics)
  /\ Add(Unchecked(l.toks))
  /\ UNCHANGED <<regnames, rejected, phase>>

\* A line that matches no form of its mnemonic, and every line of a mnemonic
\* that has no case: the unknown ones, and nop.
CheckedInsn(l) ==
  /\ ~data_mode /\ IsTokens(l) /\ l.toks[1] \notin UncheckedMnemonics \union MemoryMnemonics
  /\ ReadLine(l)
  /\ \/ \E i \in MatchChecked(l.toks) : Add(i) /\ UNCHANGED rejected
     \/ MatchChecked(l.toks) = {} /\ Reject
  /\ UNCHANGED <<data_mode, regnames, objects, fields, phase>>

\* std::stoi throws on an operand that does not start with its offset.
MemoryInsn(l) ==
  /\ CodeLine(l, MemoryMnemonics)
  /\ IF MemoryToken(l.toks) \in DOMAIN MemoryOperand
       THEN /\ Add(MemoryAccess(l.toks))
            /\ regnames' = LookedUp(NamesIn(l.toks))
            /\ UNCHANGED phase
       ELSE phase' = "terminated" /\ UNCHANGED <<insns, lastSeenLabel, regnames>>
  /\ UNCHANGED rejected

EndOfFile ==
  /\ phase = "parse" /\ phase' = "link_objs"
  /\ UNCHANGED <<parserVars, unresolved, outputVars>>

-----------------------------------------------------------------------------
(* Linker::link *)

\* Mutant: an object starts behind the first field of the one before it.
object_address_IgnoresFields(n) == DATA_SEGMENT_START + 8 * (n - 1)

object_address(n) == DATA_SEGMENT_START + 8 * objects[n].before

LinkObjs ==
  /\ phase = "link_objs" /\ phase' = "link_insns"
  /\ objects' = [n \in DOMAIN objects |->
                   [objects[n] EXCEPT !.address = object_address(n)]]
  /\ UNCHANGED <<text, data_mode, lastSeenLabel, regnames, fields, insns, rejected,
                 unresolved, outputVars>>

\* The dictionaries: of several entries with one name the last one stands.
Last(S) == {n \in S : \A m \in S : m <= n}
find_insn(name) == Last({n \in DOMAIN insns : insns[n].label = name /\ name # ""})
find_data(name) == Last({n \in DOMAIN objects : objects[n].name = name})

insn_address(n) == CODE_SEGMENT_START + 4 * (n - 1)

Found(i) == IF i.insn.op \in Const24 THEN find_data(i.symbol) ELSE find_insn(i.symbol)

\* The immediate that Instruction::link gives the n-th instruction.
\* Mutant: distances are from the instruction behind the jump.
LinkedImm_FromNext(n) ==
  LET i == insns[n]
  IN IF i.symbol = "" \/ Found(i) = {} THEN {i.insn.imm}
     ELSE IF i.insn.op \in Const24 THEN {objects[k].address : k \in Found(i)}
     ELSE {insn_address(k) - (insn_address(n) + 4) : k \in Found(i)}

LinkedImm(n) ==
  LET i == insns[n]
  IN IF i.symbol = "" \/ Found(i) = {} THEN {i.insn.imm}
     ELSE IF i.insn.op \in Const24 THEN {objects[k].address : k \in Found(i)}
     ELSE {insn_address(k) - insn_address(n) : k \in Found(i)}

\* What has a symbol that is not found is reported and keeps its 0.
Unresolved_Silent == {}
Unresolved ==
  {insns[n].line : n \in {m \in DOMAIN insns : insns[m].symbol # "" /\ Found(insns[m]) = {}}}

LinkInsns ==
  /\ phase = "link_insns" /\ phase' = "write_code"
  /\ insns' = [n \in DOMAIN insns |->
                 [insns[n] EXCEPT !.address = insn_address(n),
                                  !.insn.imm = CHOOSE k \in LinkedImm(n) : TRUE]]
  /\ unresolved' = Unresolved
  /\ UNCHANGED <<text, data_mode, lastSeenLabel, regnames, objects, fields, rejected,
                 outputVars>>

-----------------------------------------------------------------------------
(* ObjectWriter::write, and the loader of the simulator. *)

\* LoadAddr::getEncodedInstruction cuts its part out of the address.
AddressPart(i) ==
  IF i.op = "MOVE_R0_CONST24B" THEN [i EXCEPT !.imm = @ \div 16777216]
  ELSE IF i.op = "MOVE_R0_CONST24C" THEN [i EXCEPT !.imm = (@ \div 16777216) \div 16777216]
  ELSE i

Encoded(i) == getEncodedInstruction(AddressPart(i))

WordByte(w, k) == <<w.b0, w.b1, w.b2, w.b3>>[k + 1]

\* The k-th byte of an int64_t (v has no more than 32 bits).
LongByte(v, k) ==
  IF k < 4 THEN <<Byte0(v), Byte1(v), Byte2(v), (v \div 16777216) % 256>>[k + 1]
  ELSE IF v < 0 THEN 255 ELSE 0

WriteCode ==
  /\ phase = "write_code" /\ phase' = "write_data"
  /\ code_file' = [k \in 0 .. 4 * Len(insns) - 1 |->
                     WordByte(Encoded(insns[(k \div 4) + 1].insn), k % 4)]
  /\ UNCHANGED <<parserVars, unresolved, data_file, memory>>

WriteData ==
  /\ phase = "write_data" /\ phase' = "read_code"
  /\ data_file' = [k \in 0 .. 8 * Len(fields) - 1 |-> LongByte(fields[(k \div 8) + 1], k % 8)]
  /\ UNCHANGED <<parserVars, unresolved, code_file, memory>>

\* file at address start, over what memory holds.
\* Mutant: a byte that the code loader has written stays.
Overlaid_KeepsOld(file, start) ==
  [a \in DOMAIN memory \union {start + k : k \in DOMAIN file} |->
     IF a \in DOMAIN memory THEN memory[a] ELSE file[a - start]]

Overlaid(file, start) ==
  [a \in DOMAIN memory \union {start + k : k \in DOMAIN file} |->
     IF a - start \in DOMAIN file THEN file[a - start] ELSE memory[a]]

\* The stream is at its end only after a read that has failed: one word of an
\* uninitialized buffer is written behind the code.
ReadCode ==
  /\ phase = "read_code" /\ phase' = "read_data"
  /\ \E w \in UninitializedWords :
       memory' = Overlaid([k \in 0 .. 4 * Len(insns) + 3 |->
                             IF k \in DOMAIN code_file THEN code_file[k] ELSE WordByte(w, k % 4)],
                          CODE_SEGMENT_START)
  /\ UNCHANGED <<parserVars, unresolved, code_file, data_file>>

ReadData ==
  /\ phase = "read_data" /\ phase' = "loaded"
  /\ memory' = Overlaid(data_file, DATA_SEGMENT_START)
  /\ UNCHANGED <<parserVars, unresolved, code_file, data_file>>

-----------------------------------------------------------------------------
Parse ==
  \E l \in Lines :
    \/ Directive(l) \/ DataLabel(l) \/ DataField(l) \/ UnhandledDataLine(l)
    \/ CodeLabel(l) \/ UncheckedInsn(l) \/ CheckedInsn(l) \/ MemoryInsn(l)

Next ==
  \/ Parse \/ EndOfFile
  \/ LinkObjs \/ LinkInsns
  \/ WriteCode \/ WriteData
  \/ ReadCode \/ ReadData

Spec == Init /\ [][Next]_vars

-----------------------------------------------------------------------------
(* What the text says, from the lines alone. *)

InData(n) ==
  \E m \in 1 .. n - 1 : /\ text[m] = DataDirective
                        /\ \A k \in m + 1 .. n - 1 : text[k] # CodeDirective

\* The lines that are instructions and fields; lines that were reported are gone.
InsnLines == {n \in DOMAIN text : IsTokens(text[n]) /\ ~InData(n) /\ n \notin rejected}
FieldLines == {n \in DOMAIN text : IsTokens(text[n]) /\ InData(n) /\ n \notin rejected}

\* A label is the address of what follows it.
CodeAddress(n) == CODE_SEGMENT_START + 4 * Cardinality({m \in InsnLines : m < n})
DataAddress(n) == DATA_SEGMENT_START + 8 * Cardinality({m \in FieldLines : m < n})

Definitions(name) == {n \in DOMAIN text : text[n].label = name}
CodeLabels(name) == {n \in Definitions(name) : ~InData(n)}
DataLabels(name) == {n \in Definitions(name) : InData(n)}

Symbol(t) ==
  IF t[1] \in DOMAIN JumpOpcode THEN t[2]
  ELSE IF t[1] \in DOMAIN LoadAddrOpcode \/ (t[1] = "mov" /\ t[3] \in Symbols) THEN t[3]
  ELSE ""

\* The only line that a symbol can mean, if there is just one.
SymbolLines(t) ==
  IF Cardinality(Definitions(Symbol(t))) # 1 THEN {}
  ELSE IF t[1] \in DOMAIN LoadAddrOpcode THEN DataLabels(Symbol(t))
  ELSE CodeLabels(Symbol(t))

\* What a line of tokens says, if its symbol is this far away and at this address.
ReadingOfMov(t, distance) ==
  LET reg(k) == MachineRegister[t[k]]
  IN IF t[3] \in DOMAIN Number THEN Insn("MOVE_REG_CONST16", reg(2), 0, 0, Number[t[3]])
     ELSE IF t[3] \in Symbols THEN Insn("MOVE_PCREL_REG_CONST16", reg(2), 0, 0, distance)
     ELSE IF t[3] = "%block_index" THEN Insn("MOVE_REG_BLOCK_INDEX", reg(2), 0, 0, 0)
     ELSE Insn("MOVE_REG_REG", reg(2), reg(3), 0, 0)

ReadingOfAdd(t) ==
  LET reg(k) == MachineRegister[t[k]]
  IN IF t[4] \in DOMAIN Number
       THEN Insn("ADD_REG_REG_CONST", reg(2), reg(3), 0, Number[t[4]])
       ELSE Insn("ADD_REG_REG_REG", reg(2), reg(3), reg(4), 0)

ReadingOfMemoryAccess(t) ==
  LET reg(k) == MachineRegister[t[k]]
      base   == MachineRegister[MemoryOperand[MemoryToken(t)][2]]
      offset == Number[MemoryOperand[MemoryToken(t)][1]]
  IN IF t[1] = "load" THEN Insn("LOAD_REG_CONST_REG", reg(2), base, 0, offset)
     ELSE IF t[1] = "store" THEN Insn("STORE_REG_CONST_REG", reg(3), base, 0, offset)
     ELSE Insn("LOAD_RESTORE_PC", base, 0, 0, offset)

ReadingOfLoadAddress(t, address) ==
  Insn(LoadAddrOpcode[t[1]], 0, 0, 0,
       IF t[1] = "loadaddress_lo" THEN address % 16777216
       ELSE IF t[1] = "loadaddress_mid" THEN (address \div 16777216) % 16777216
       ELSE (address \div 16777216) \div 16777216)

Reading(t, distance, address) ==
  LET reg(k) == MachineRegister[t[k]]
  IN IF t[1] \in DOMAIN JumpOpcode THEN Insn(JumpOpcode[t[1]], 0, 0, 0, distance)
     ELSE IF t[1] \in DOMAIN LoadAddrOpcode THEN ReadingOfLoadAddress(t, address)
     ELSE IF t[1] \in MemoryMnemonics THEN ReadingOfMemoryAccess(t)
     ELSE IF t[1] = "mov" THEN ReadingOfMov(t, distance)
     ELSE IF t[1] = "add" THEN ReadingOfAdd(t)
     ELSE IF t[1] = "shl" THEN Insn("L_SSHIFT_REG_REG_CONST", reg(2), reg(3), 0, Number[t[4]])
     ELSE IF t[1] = "cmp" THEN Insn("CMP_REG_REG", reg(2), reg(3), 0, 0)
     ELSE Insn("HALT", 0, 0, 0, 0)

\* What the line n says if its symbol is defined at line d (n itself if it has none).
Meaning(n, d) == Reading(text[n].toks, CodeAddress(d) - CodeAddress(n), DataAddress(d))

WordAt(a) ==
  LET byte(b) == IF b \in DOMAIN memory THEN memory[b] ELSE 0
  IN [b0 |-> byte(a), b1 |-> byte(a + 1), b2 |-> byte(a + 2), b3 |-> byte(a + 3)]

\* The decode stage reads line n as line d being its symbol's line would have it.
ReadAsMeant(n, d) ==
  Decodable(WordAt(CodeAddress(n))) /\ Decoded(WordAt(CodeAddress(n))) = Meaning(n, d)

MeaningLines(n) == IF Symbol(text[n].toks) = "" THEN {n} ELSE SymbolLines(text[n].toks)

\* The line names a register that the parser did not know at first: a memory
\* operand of line n, or one that another line has entered.
Misnamed(n) ==
  LET t     == text[n].toks
      known == DOMAIN InitialRegnames
  IN \/ t[1] \in MemoryMnemonics /\ ~(NamesIn(t) \subseteq known)
     \/ \E k \in DOMAIN t : t[k] \in DOMAIN regnames \ known

\* No data is loaded over the instruction of line n.
StaysInMemory(n) ==
  \/ CodeAddress(n) + 4 <= DATA_SEGMENT_START
  \/ CodeAddress(n) >= DATA_SEGMENT_START + 8 * Cardinality(FieldLines)

-----------------------------------------------------------------------------
(* Properties *)

TypeOK ==
  /\ text \in Seq(Lines) /\ Len(text) <= MaxLines
  /\ data_mode \in BOOLEAN /\ phase \in Phase
  /\ DOMAIN InitialRegnames \subseteq DOMAIN regnames
  /\ \A r \in DOMAIN regnames : regnames[r] \in RegisterID
  /\ \A n \in DOMAIN objects : objects[n].before \in 0 .. Len(fields)
  /\ \A n \in DOMAIN fields : fields[n] \in Int
  /\ \A n \in DOMAIN insns :
       insns[n].insn \in Instruction /\ insns[n].line \in DOMAIN text
  /\ rejected \union unresolved \subseteq DOMAIN text
  /\ \A a \in DOMAIN memory : memory[a] \in Byte

\* Whatever else the file holds, and whatever was reported about other lines,
\* an instruction that was not reported is in memory where the text puts it,
\* and the decode stage reads it as the text means it, if its symbol is defined
\* once, its immediate is one that its word can hold, and no data is loaded over
\* it (parser, linker, object writer and loader together).  Unknown names that
\* the parser has entered as registers spoil the lines that name them, no others.
CodeMeansText ==
  phase = "loaded" =>
    \A n \in InsnLines \ unresolved : StaysInMemory(n) /\ ~Misnamed(n) =>
      \A d \in MeaningLines(n) :
        Representable(Meaning(n, d).op, Meaning(n, d).imm) => ReadAsMeant(n, d)

\* The values of the data lines (the number a value starts with, if there is
\* more) are in the data segment, in their order, eight bytes each, whatever the
\* word is that the loader writes behind the code.
DataMeansText ==
  phase = "loaded" =>
    \A n \in FieldLines : \A k \in 0 .. 7 :
      /\ DataAddress(n) + k \in DOMAIN memory
      /\ memory[DataAddress(n) + k] = LongByte(Number[text[n].toks[2]], k)

\* Every instruction line becomes one instruction, in order, or is reported
\* (the error paths of parseCodeLine go on with the next line).
EveryLineAnswered ==
  phase \notin {"terminated"} =>
    /\ {insns[n].line : n \in DOMAIN insns} = InsnLines
    /\ \A m, n \in DOMAIN insns : m < n => insns[m].line < insns[n].line

Linked == phase \notin {"parse", "link_objs", "link_insns", "terminated"}

\* A symbol that no line defines is reported (Assembler.cpp's link methods).
UndefinedReported ==
  Linked => \A n \in InsnLines :
    LET s == Symbol(text[n].toks)
    IN s # "" /\ Definitions(s) = {} /\ ~isRegister(s) => n \in unresolved

\* A code label defined once is found if an instruction is the next thing
\* behind it that is not reported or a directive or a data field.
LabelsResolve ==
  Linked => \A n \in unresolved : \A d \in CodeLabels(Symbol(text[n].toks)) :
    text[n].toks[1] \in DOMAIN LoadAddrOpcode \/
    \A m \in InsnLines : m > d => \E k \in d + 1 .. m - 1 : text[k].label # ""

\* An assembled instruction comes back from its word exactly if its immediate
\* is representable.
WordsAreExact == \A n \in DOMAIN insns : SurvivesExactly(AddressPart(insns[n].insn))

-----------------------------------------------------------------------------
(* What the documentation says and the code does not do. *)

\* A jump reaches its label.  Jumps back do not: Assembler/tests/t1.asm jumps
\* back to a label, and its distance loses its sign in DecodeStage.cpp.
JumpsReachLabels ==
  phase = "loaded" =>
    \A n \in InsnLines \ unresolved : StaysInMemory(n) /\ text[n].toks[1] \in DOMAIN JumpOpcode =>
      \A d \in MeaningLines(n) : ReadAsMeant(n, d)
=============================================================================
