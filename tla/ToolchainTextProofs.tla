------------------------- MODULE ToolchainTextProofs -------------------------
(***************************************************************************)
(* The program is what its text says, for every source file and every word *)
(* that the loader may write behind the code: each instruction line is     *)
(* answered, symbols are found or reported, and code and data are in       *)
(* memory where and as the lines mean them.                                *)
(*                                                                         *)
(* TextInv follows the lines through the parser, the linker, the object    *)
(* writer and the loader.  Nothing is known of them once std::stoi has     *)
(* thrown.                                                                 *)
(***************************************************************************)
EXTENDS ToolchainProofs, FiniteSetTheorems, WellFoundedInduction

(***************************************************************************)
(* What the lines read so far have become.                                 *)
(***************************************************************************)

\* The handlers agree with the text about where the data is, and every line of
\* the code is an instruction, in order.
LineInv ==
  /\ phase = "parse" => (data_mode <=> InData(Len(text) + 1))
  /\ {insns[n].line : n \in DOMAIN insns} = InsnLines
  /\ \A m, n \in DOMAIN insns : m < n => insns[m].line < insns[n].line

\* i, with s as its symbol, is the line's instruction but for the immediate that
\* the linker gives it.
IsReadingOf(i, s, t) ==
  /\ s = Symbol(t)
  /\ i.op \in Const24 <=> t[1] \in DOMAIN LoadAddrOpcode
  /\ \A distance, address \in Int :
       LET r == Reading(t, distance, address)
       IN /\ r \in Instruction
          /\ IF s = "" THEN Representable(r.op, r.imm) => r = i
             ELSE r = [i EXCEPT !.imm = IF t[1] \in DOMAIN LoadAddrOpcode
                                          THEN ReadingOfLoadAddress(t, address).imm
                                          ELSE distance]

\* The line names no register that the parser did not know at first.
WellNamed(t) ==
  /\ t[1] \in MemoryMnemonics => NamesIn(t) \subseteq DOMAIN InitialRegnames
  /\ \A k \in DOMAIN t : t[k] \in DOMAIN regnames => t[k] \in DOMAIN InitialRegnames

\* An instruction and its symbol come from the line with the tokens t.
ComesFrom(i, s, t) ==
  /\ s \in {"", Symbol(t)}
  /\ i.op \in Const24 => t[1] \in DOMAIN LoadAddrOpcode
  /\ Symbol(t) # "" /\ Symbol(t) \notin DOMAIN regnames => s = Symbol(t)
  /\ WellNamed(t) => IsReadingOf(i, s, t)

\* The names of MachineInfo.cpp keep their registers.
NamesKept ==
  \A r \in DOMAIN InitialRegnames : r \in DOMAIN regnames /\ regnames[r] = MachineRegister[r]

\* Every instruction comes from its line.
EntryInv ==
  \A n \in DOMAIN insns :
    ComesFrom(insns[n].insn, insns[n].symbol, text[insns[n].line].toks)

\* No line between two lines is an instruction.
NoneBetween(d, n) == \A m \in InsnLines : ~(d < m /\ m < n)

\* A label stands on a line, and line n is the first instruction behind it.
Labelled(name, n) ==
  \E d \in DOMAIN text : text[d].label = name /\ d < n /\ NoneBetween(d, n)

\* A label that no instruction has is not the last one before any.
NotTaken(d) ==
  /\ \A m \in InsnLines : d < m => \E k \in d + 1 .. m - 1 : text[k].label # ""
  /\ (\E k \in d + 1 .. Len(text) : text[k].label # "") \/ lastSeenLabel = text[d].label

LabelInv ==
  /\ lastSeenLabel # "" => Labelled(lastSeenLabel, Len(text) + 1)
  /\ \A n \in DOMAIN insns : insns[n].label # "" => Labelled(insns[n].label, insns[n].line)
  /\ \A d \in DOMAIN text : text[d].label # "" =>
       (\E n \in DOMAIN insns : insns[n].label = text[d].label) \/ NotTaken(d)

Before(S, n) == {m \in S : m < n}

\* A data label stands behind this many fields.
Declared(name, before) ==
  \E d \in DOMAIN text : /\ text[d].label # "" /\ text[d].label = name /\ InData(d)
                         /\ before = Cardinality(Before(FieldLines, d))

\* Fields and objects are those of the data lines.
DataInv ==
  /\ Cardinality(FieldLines) = Len(fields)
  /\ \A n \in FieldLines :
       /\ text[n].toks[2] \in DOMAIN Number
       /\ fields[Cardinality(Before(FieldLines, n)) + 1] = Number[text[n].toks[2]]
  /\ \A j \in DOMAIN objects : Declared(objects[j].name, objects[j].before)

ParseInv == LineInv /\ NamesKept /\ EntryInv /\ LabelInv /\ DataInv

\* The linker has looked at every symbol.
LinkedInv ==
  /\ phase \notin {"parse", "link_objs"} =>
       \A j \in DOMAIN objects : objects[j].address = object_address(j)
  /\ Linked =>
       /\ unresolved = Unresolved
       /\ \A n \in DOMAIN insns :
            LET i == insns[n]
            IN i.symbol # "" /\ Found(i) # {} =>
                 \E k \in Found(i) :
                   i.insn.imm = IF i.insn.op \in Const24 THEN objects[k].address
                                ELSE insn_address(k) - insn_address(n)

CodeBytes == 0 .. 4 * Len(insns) - 1
DataBytes == 0 .. 8 * Len(fields) - 1

\* The files, and then memory, hold the instructions and the fields.
LoadedInv ==
  /\ phase \in {"write_data", "read_code", "read_data", "loaded"} =>
       /\ DOMAIN code_file = CodeBytes
       /\ \A k \in CodeBytes :
            code_file[k] = WordByte(Encoded(insns[(k \div 4) + 1].insn), k % 4)
  /\ phase \in {"read_code", "read_data", "loaded"} =>
       /\ DOMAIN data_file = DataBytes
       /\ \A k \in DataBytes : data_file[k] = LongByte(fields[(k \div 8) + 1], k % 8)
  /\ phase \in {"read_data", "loaded"} =>
       \A k \in CodeBytes :
         LET a == CODE_SEGMENT_START + k
         IN phase = "read_data" \/ a - DATA_SEGMENT_START \notin DataBytes =>
              a \in DOMAIN memory /\ memory[a] = code_file[k]
  /\ phase = "loaded" =>
       \A k \in DataBytes : /\ DATA_SEGMENT_START + k \in DOMAIN memory
                            /\ memory[DATA_SEGMENT_START + k] = data_file[k]

TextInv == phase # "terminated" => ParseInv /\ LinkedInv /\ LoadedInv

-----------------------------------------------------------------------------
(* Reading a line. *)

LEMMA LineRead ==
  ASSUME IInv, NEW l \in Lines, ReadLine(l)
  PROVE  /\ Len(text) \in Nat /\ DOMAIN text = 1 .. Len(text)
         /\ Len(text') = Len(text) + 1 /\ DOMAIN text' = 1 .. Len(text) + 1
         /\ \A n \in 1 .. Len(text) : text'[n] = text[n]
         /\ text'[Len(text) + 1] = l
         /\ phase = "parse"
         /\ rejected \subseteq DOMAIN text
  <1>1. text \in Seq(Lines) /\ text' = Append(text, l)
    BY DEF IInv, ProgramInv, ReadLine
  <1>2. Len(text) \in Nat /\ DOMAIN text = 1 .. Len(text)
    BY <1>1, LenProperties
  <1>3. /\ Len(text') = Len(text) + 1 /\ DOMAIN text' = 1 .. Len(text) + 1
        /\ \A n \in 1 .. Len(text) : text'[n] = text[n]
        /\ text'[Len(text) + 1] = l
    BY <1>1, AppendProperties
  <1> QED  BY <1>2, <1>3 DEF IInv, ProgramInv, ReadLine

LEMMA DirectivesDiffer == DataDirective # CodeDirective
  <1>1. DataDirective.toks[1] = ".data" /\ CodeDirective.toks[1] = ".code"
    BY DEF DataDirective, CodeDirective
  <1> QED  BY <1>1

LEMMA DataKept ==
  ASSUME IInv, NEW l \in Lines, ReadLine(l), NEW n \in 1 .. Len(text) + 1
  PROVE  InData(n)' <=> InData(n)
  <1> DEFINE N == Len(text)
  <1>1. N \in Nat /\ n \in 1 .. N + 1 /\ \A m \in 1 .. N : text'[m] = text[m]
    BY LineRead
  <1>2. \A m \in 1 .. n - 1 : m \in 1 .. N
    BY <1>1
  <1>3. \A m \in 1 .. n - 1 : \A k \in m + 1 .. n - 1 : k \in 1 .. N
    BY <1>1
  <1> HIDE DEF N
  <1> QED  BY <1>1, <1>2, <1>3 DEF InData

LEMMA DataNext ==
  ASSUME IInv, NEW l \in Lines, ReadLine(l), NEW N, N = Len(text) + 1
  PROVE  InData(N + 1)' <=> l = DataDirective \/ (InData(N) /\ l # CodeDirective)
  <1>1. /\ N \in Nat \ {0} /\ text'[N] = l /\ \A m \in 1 .. N - 1 : text'[m] = text[m]
    BY LineRead
  <1>2. InData(N + 1)' <=>
          \E m \in 1 .. N : /\ text'[m] = DataDirective
                            /\ \A k \in m + 1 .. N : text'[k] # CodeDirective
    <2>1. N + 1 - 1 = N
      BY <1>1
    <2> QED  BY <2>1 DEF InData
  <1>3. InData(N) <=>
          \E m \in 1 .. N - 1 : /\ text[m] = DataDirective
                                /\ \A k \in m + 1 .. N - 1 : text[k] # CodeDirective
    BY DEF InData
  <1>4. ASSUME InData(N + 1)', l # DataDirective
        PROVE  InData(N) /\ l # CodeDirective
    <2>1. PICK m \in 1 .. N : /\ text'[m] = DataDirective
                              /\ \A k \in m + 1 .. N : text'[k] # CodeDirective
      BY <1>2, <1>4
    <2>2. m \in 1 .. N - 1 /\ N \in m + 1 .. N
      BY <1>1, <1>4, <2>1
    <2>3. \A k \in m + 1 .. N - 1 : k \in m + 1 .. N /\ k \in 1 .. N - 1
      BY <1>1, <2>2
    <2> QED  BY <1>1, <1>3, <2>1, <2>2, <2>3
  <1>5. ASSUME l = DataDirective PROVE InData(N + 1)'
    <2>1. N \in 1 .. N /\ N + 1 .. N = {}
      BY <1>1
    <2> QED  BY <1>1, <1>2, <1>5, <2>1
  <1>6. ASSUME InData(N), l # CodeDirective PROVE InData(N + 1)'
    <2>1. PICK m \in 1 .. N - 1 : /\ text[m] = DataDirective
                                  /\ \A k \in m + 1 .. N - 1 : text[k] # CodeDirective
      BY <1>3, <1>6
    <2>2. \A k \in m + 1 .. N : k = N \/ (k \in m + 1 .. N - 1 /\ k \in 1 .. N - 1)
      BY <1>1, <2>1
    <2>3. m \in 1 .. N
      BY <1>1, <2>1
    <2> QED  BY <1>1, <1>2, <1>6, <2>1, <2>2, <2>3
  <1> QED  BY <1>1, <1>4, <1>5, <1>6, DirectivesDiffer

\* The new line, if it is not reported, is an instruction or a field.
LEMMA LinesGrow ==
  ASSUME IInv, LineInv, NEW l \in Lines, ReadLine(l),
         rejected \subseteq rejected', rejected' \subseteq rejected \union {Len(text) + 1}
  PROVE  LET N   == Len(text) + 1
             new == IsTokens(l) /\ N \notin rejected'
         IN /\ InsnLines' = InsnLines \union (IF new /\ ~data_mode THEN {N} ELSE {})
            /\ FieldLines' = FieldLines \union (IF new /\ data_mode THEN {N} ELSE {})
            /\ InsnLines \subseteq 1 .. N - 1 /\ FieldLines \subseteq 1 .. N - 1
  <1> DEFINE N == Len(text) + 1
  <1>1. /\ N \in Nat \ {0} /\ DOMAIN text = 1 .. N - 1 /\ DOMAIN text' = 1 .. N /\ text'[N] = l
        /\ \A n \in 1 .. N - 1 : text'[n] = text[n]
        /\ N \notin rejected
    BY LineRead
  <1>2. \A n \in 1 .. N : InData(n)' <=> InData(n)
    BY DataKept
  <1>3. data_mode <=> InData(N)
    BY LineRead DEF LineInv
  <1>4. \A n : n \in 1 .. N <=> n \in 1 .. N - 1 \/ n = N
    BY <1>1
  <1>5. /\ N \notin 1 .. N - 1
        /\ \A n \in 1 .. N - 1 : n \in rejected' <=> n \in rejected
    BY <1>1
  <1>6. rejected' \subseteq rejected \union {N}
    OBVIOUS
  <1> HIDE DEF N
  <1>7. \A n : n \in InsnLines' <=>
                 n \in InsnLines \/ (n = N /\ IsTokens(l) /\ N \notin rejected' /\ ~data_mode)
    BY <1>1, <1>2, <1>3, <1>4, <1>5 DEF InsnLines
  <1>8. \A n : n \in FieldLines' <=>
                 n \in FieldLines \/ (n = N /\ IsTokens(l) /\ N \notin rejected' /\ data_mode)
    BY <1>1, <1>2, <1>3, <1>4, <1>5 DEF FieldLines
  <1>9. InsnLines \subseteq 1 .. N - 1 /\ FieldLines \subseteq 1 .. N - 1
    BY <1>1 DEF InsnLines, FieldLines
  <1> QED  BY <1>7, <1>8, <1>9 DEF N
-----------------------------------------------------------------------------
(* What the handlers make of a line's tokens is what the line says. *)

LEMMA TokenClasses ==
  /\ "%block_index" \in DOMAIN MachineRegister
  /\ MachineRegister["%block_index"] = REG_BLOCK_INDEX
  /\ \A r \in DOMAIN MachineRegister :
       /\ r \notin DOMAIN Number /\ r \notin Symbols
       /\ MachineRegister[r] = REG_BLOCK_INDEX => r = "%block_index"
  /\ \A s \in Symbols : s \notin DOMAIN Number /\ s \notin DOMAIN MachineRegister
  /\ DOMAIN InitialRegnames \subseteq DOMAIN MachineRegister
  <1>1. /\ DOMAIN MachineRegister = {RegisterName[id + 1] : id \in RegisterID}
        /\ \A r \in DOMAIN MachineRegister :
             MachineRegister[r] = CHOOSE id \in RegisterID : RegisterName[id + 1] = r
    BY DEF MachineRegister
  <1>2. \A r \in DOMAIN MachineRegister :
          MachineRegister[r] \in RegisterID /\ RegisterName[MachineRegister[r] + 1] = r
    BY <1>1
  <1>3. RegisterName[10 + 1] = "%block_index" /\ 10 \in RegisterID
    BY DEF RegisterName, RegisterID
  <1>4. "%block_index" \in DOMAIN MachineRegister
    BY <1>1, <1>3
  <1>5. \A id \in RegisterID : RegisterName[id + 1] = "%block_index" => id = 10
    BY DEF RegisterName, RegisterID
  <1>6. MachineRegister["%block_index"] = REG_BLOCK_INDEX
    BY <1>2, <1>4, <1>5 DEF REG_BLOCK_INDEX
  <1>7. \A r \in DOMAIN MachineRegister :
          MachineRegister[r] = REG_BLOCK_INDEX => r = "%block_index"
    BY <1>2, <1>3 DEF REG_BLOCK_INDEX
  <1>8. DOMAIN InitialRegnames \subseteq DOMAIN MachineRegister
    BY DEF InitialRegnames
  <1> QED  BY <1>4, <1>6, <1>7, <1>8, TokenAssumption

\* The handlers read tokens that are there.
LEMMA TokenThere ==
  ASSUME NEW l \in Lines, IsTokens(l), NEW k \in 1 .. TokensRead(l.toks[1])
  PROVE  k \in DOMAIN l.toks /\ l.toks[k] # ""
  <1>1. /\ l.toks \in Seq(STRING) /\ \A j \in DOMAIN l.toks : l.toks[j] # ""
        /\ Len(l.toks) >= TokensRead(l.toks[1])
    BY TokenAssumption
  <1>2. Len(l.toks) \in Nat /\ DOMAIN l.toks = 1 .. Len(l.toks) /\ TokensRead(l.toks[1]) \in Nat
    <2>1. TokensRead(l.toks[1]) \in Nat
      BY DEF TokensRead
    <2> QED  BY <1>1, <2>1, LenProperties
  <1>3. \A a, b, j : a \in Nat /\ b \in Nat /\ b >= a /\ j \in 1 .. a => j \in 1 .. b
    OBVIOUS
  <1> QED  BY <1>1, <1>2, <1>3

LEMMA TokenCounts ==
  ASSUME NEW t
  PROVE  /\ t[1] \in DOMAIN JumpOpcode \union {"restorepc"} => TokensRead(t[1]) = 2
         /\ t[1] \in DOMAIN LoadAddrOpcode \union {"mov", "cmp", "load", "store"}
              => TokensRead(t[1]) = 3
         /\ t[1] = "shl" => TokensRead(t[1]) = 4
  BY DEF TokensRead, JumpOpcode, LoadAddrOpcode

LEMMA SecondAndThird ==
  ASSUME NEW l \in Lines, IsTokens(l)
  PROVE  /\ TokensRead(l.toks[1]) \in {2, 3, 4} => 2 \in DOMAIN l.toks /\ l.toks[2] # ""
         /\ TokensRead(l.toks[1]) \in {3, 4} => 3 \in DOMAIN l.toks /\ l.toks[3] # ""
  <1>1. /\ TokensRead(l.toks[1]) \in {2, 3, 4} => 2 \in 1 .. TokensRead(l.toks[1])
        /\ TokensRead(l.toks[1]) \in {3, 4} => 3 \in 1 .. TokensRead(l.toks[1])
    OBVIOUS
  <1> QED  BY <1>1, TokenThere

\* The mnemonics that name a symbol.
LEMMA SymbolOf ==
  ASSUME NEW t
  PROVE  /\ t[1] \in DOMAIN JumpOpcode => Symbol(t) = t[2]
         /\ t[1] \in DOMAIN LoadAddrOpcode => Symbol(t) = t[3]
         /\ t[1] = "mov" /\ t[3] \in Symbols => Symbol(t) = t[3]
         /\ t[1] = "mov" /\ t[3] \notin Symbols => Symbol(t) = ""
         /\ t[1] \notin DOMAIN JumpOpcode \union DOMAIN LoadAddrOpcode \union {"mov"}
              => Symbol(t) = ""
  BY DEF Symbol, JumpOpcode, LoadAddrOpcode

LEMMA WithImm ==
  ASSUME NEW i \in Instruction, i.op \notin NoImm, NEW v \in Int
  PROVE  [i EXCEPT !.imm = v] \in Instruction
  BY DEF Instruction

LEMMA ComesFromSymbolic ==
  ASSUME NEW i \in Instruction, NEW s, NEW t, s = Symbol(t), s # "", i.op \notin NoImm,
         i.op \in Const24 <=> t[1] \in DOMAIN LoadAddrOpcode,
         ASSUME WellNamed(t), NEW distance \in Int, NEW address \in Int,
                NEW v, v = IF t[1] \in DOMAIN LoadAddrOpcode
                             THEN ReadingOfLoadAddress(t, address).imm ELSE distance
         PROVE  Reading(t, distance, address) = [i EXCEPT !.imm = v] /\ v \in Int
  PROVE  ComesFrom(i, s, t)
  <1>1. ASSUME WellNamed(t), NEW distance \in Int, NEW address \in Int
        PROVE  /\ Reading(t, distance, address) \in Instruction
               /\ Reading(t, distance, address)
                    = [i EXCEPT !.imm = IF t[1] \in DOMAIN LoadAddrOpcode
                                          THEN ReadingOfLoadAddress(t, address).imm
                                          ELSE distance]
    <2> DEFINE v == IF t[1] \in DOMAIN LoadAddrOpcode
                      THEN ReadingOfLoadAddress(t, address).imm ELSE distance
    <2>1. Reading(t, distance, address) = [i EXCEPT !.imm = v] /\ v \in Int
      BY <1>1
    <2> HIDE DEF v
    <2>2. [i EXCEPT !.imm = v] \in Instruction
      BY <2>1, WithImm
    <2> QED  BY <2>1, <2>2 DEF v
  <1> QED  BY <1>1 DEF ComesFrom, IsReadingOf

\* An instruction without a symbol comes from its line if, once all names are
\* registers, it is what the line says wherever the immediate fits.
LEMMA ComesFromPlain ==
  ASSUME NEW i, NEW t, Symbol(t) = "", i.op \notin Const24, t[1] \notin DOMAIN LoadAddrOpcode,
         ASSUME WellNamed(t), NEW distance \in Int, NEW address \in Int
         PROVE  /\ Reading(t, distance, address) \in Instruction
                /\ LET r == Reading(t, distance, address) IN Representable(r.op, r.imm) => r = i
  PROVE  ComesFrom(i, "", t)
  BY DEF ComesFrom, IsReadingOf

LEMMA WithDistance ==
  ASSUME NEW i, NEW op, NEW r1, NEW v, i = Insn(op, r1, 0, 0, 0)
  PROVE  [i EXCEPT !.imm = v] = Insn(op, r1, 0, 0, v)
  BY DEF Insn

LEMMA UncheckedReading ==
  ASSUME NEW l \in Lines, IsTokens(l), l.toks[1] \in UncheckedMnemonics,
         NEW i, NEW s, i = Unchecked(l.toks).insn, s = Unchecked(l.toks).symbol
  PROVE  ComesFrom(i, s, l.toks)
  <1> DEFINE t == l.toks
  <1>1. /\ i \in Instruction /\ (s # "" => i.op \notin NoImm)
    BY UncheckedParsed DEF Parsed
  <1>2. CASE t[1] \in DOMAIN JumpOpcode
    <2>1. i = Insn(JumpOpcode[t[1]], 0, 0, 0, 0) /\ s = t[2] /\ i.op = JumpOpcode[t[1]]
      BY <1>2 DEF Unchecked, Symbolic, Insn
    <2>2. s = Symbol(t) /\ s # ""
      <3>1. TokensRead(t[1]) = 2 /\ Symbol(t) = t[2]
        BY <1>2, SymbolOf, TokenCounts
      <3>2. t[2] # ""
        BY <3>1, SecondAndThird
      <3> QED  BY <2>1, <3>1, <3>2
    <2>3. i.op \notin Const24 /\ t[1] \notin DOMAIN LoadAddrOpcode
      BY <1>2, <2>1 DEF JumpOpcode, LoadAddrOpcode, Const24
    <2>4. \A distance, address \in Int : Reading(t, distance, address) = [i EXCEPT !.imm = distance]
      BY <1>2, <2>1 DEF Reading, Insn
    <2> HIDE DEF t
    <2> QED  BY <1>1, <2>2, <2>3, <2>4, ComesFromSymbolic DEF t
  <1>3. CASE t[1] \notin DOMAIN JumpOpcode /\ t[1] \in DOMAIN LoadAddrOpcode
    <2>1. i = Insn(LoadAddrOpcode[t[1]], 0, 0, 0, 0) /\ s = t[3] /\ i.op = LoadAddrOpcode[t[1]]
      BY <1>3 DEF Unchecked, Symbolic, Insn
    <2>2. s = Symbol(t) /\ s # ""
      <3>1. TokensRead(t[1]) = 3 /\ Symbol(t) = t[3]
        BY <1>3, SymbolOf, TokenCounts
      <3>2. t[3] # ""
        BY <3>1, SecondAndThird
      <3> QED  BY <2>1, <3>1, <3>2
    <2>3. i.op \in Const24
      BY <1>3, <2>1 DEF LoadAddrOpcode, Const24
    <2>4. ASSUME NEW distance \in Int, NEW address \in Int
          PROVE  /\ Reading(t, distance, address)
                      = [i EXCEPT !.imm = ReadingOfLoadAddress(t, address).imm]
                 /\ ReadingOfLoadAddress(t, address).imm \in Int
      <3>1. address % 16777216 \in Int /\ address \div 16777216 \in Int
        BY SMT
      <3> QED  BY <1>3, <2>1, <3>1 DEF Reading, ReadingOfLoadAddress, Insn
    <2> HIDE DEF t
    <2> QED  BY <1>1, <1>3, <2>2, <2>3, <2>4, ComesFromSymbolic DEF t
  <1>4. CASE t[1] = "halt"
    <2>1. i = Insn("HALT", 0, 0, 0, 0) /\ s = "" /\ i.op = "HALT"
      BY <1>4 DEF Unchecked, Operands, Insn, JumpOpcode, LoadAddrOpcode
    <2>2. /\ s = Symbol(t) /\ i.op \notin Const24
          /\ t[1] \notin DOMAIN LoadAddrOpcode /\ t[1] \notin DOMAIN JumpOpcode
      BY <1>4, <2>1, SymbolOf DEF JumpOpcode, LoadAddrOpcode, Const24
    <2>3. \A distance, address : Reading(t, distance, address) = i
      BY <1>4, <2>1, <2>2 DEF Reading, MemoryMnemonics
    <2> HIDE DEF t
    <2> QED  BY <1>1, <2>1, <2>2, <2>3, ComesFromPlain DEF t
  <1> QED  BY <1>2, <1>3, <1>4 DEF UncheckedMnemonics

\* A name that a well-named line uses as a register is one.
LEMMA KnownRegister ==
  ASSUME NamesKept, NEW t, WellNamed(t), NEW k \in DOMAIN t, isRegister(t[k])
  PROVE  t[k] \in DOMAIN MachineRegister /\ getRegisterID(t[k]) = MachineRegister[t[k]]
  BY TokenClasses DEF NamesKept, WellNamed, isRegister, getRegisterID

LEMMA Int16Exact ==
  ASSUME NEW tok, isInt16Constant(tok)
  PROVE  /\ tok \in DOMAIN Number /\ Number[tok] \in Int
         /\ getInt16Constant(tok) = Number[tok]
  <1>1. /\ tok \in DOMAIN Number /\ Number[tok] \in Int
        /\ -32768 <= Number[tok] /\ Number[tok] < 32768
    BY ToolchainAssumption DEF isInt16Constant, isNumber
  <1>2. ToInt16(Number[tok] % 65536) = Number[tok]
    BY <1>1, Signed
  <1> QED  BY <1>1, <1>2 DEF getInt16Constant

LEMMA CmpReading ==
  ASSUME NamesKept, NEW l \in Lines, IsTokens(l), l.toks[1] = "cmp",
         NEW p, p \in MatchCmp(l.toks), p.insn \in Instruction
  PROVE  ComesFrom(p.insn, p.symbol, l.toks)
  <1> DEFINE t == l.toks
  <1>1. /\ isRegister(t[2]) /\ isRegister(t[3]) /\ p.symbol = ""
        /\ p.insn = Insn("CMP_REG_REG", getRegisterID(t[2]), getRegisterID(t[3]), 0, 0)
        /\ p.insn.op = "CMP_REG_REG"
    <2>1. /\ isRegister(t[2]) /\ isRegister(t[3])
          /\ p = Operands("CMP_REG_REG", getRegisterID(t[2]), getRegisterID(t[3]), 0, 0)
      BY DEF MatchCmp
    <2> QED  BY <2>1 DEF Operands, Insn
  <1>2. /\ Symbol(t) = "" /\ t[1] \notin DOMAIN LoadAddrOpcode /\ t[1] \notin DOMAIN JumpOpcode
        /\ p.insn.op \notin Const24
    BY <1>1, SymbolOf DEF LoadAddrOpcode, JumpOpcode, Const24
  <1>3. 2 \in DOMAIN t /\ 3 \in DOMAIN t
    <2>1. TokensRead(t[1]) \in {3, 4}
      BY TokenCounts
    <2> QED  BY <2>1, SecondAndThird
  <1>4. ASSUME WellNamed(t), NEW distance \in Int, NEW address \in Int
        PROVE  Reading(t, distance, address) = p.insn
    <2>1. Reading(t, distance, address)
            = Insn("CMP_REG_REG", MachineRegister[t[2]], MachineRegister[t[3]], 0, 0)
      BY <1>2 DEF Reading, MemoryMnemonics
    <2>2. getRegisterID(t[2]) = MachineRegister[t[2]] /\ getRegisterID(t[3]) = MachineRegister[t[3]]
      BY <1>1, <1>3, <1>4, KnownRegister
    <2> QED  BY <1>1, <2>1, <2>2
  <1> HIDE DEF t
  <1> QED  BY <1>1, <1>2, <1>4, ComesFromPlain DEF t

LEMMA ShlReading ==
  ASSUME NamesKept, NEW l \in Lines, IsTokens(l), l.toks[1] = "shl",
         NEW p, p \in MatchShl(l.toks), p.insn \in Instruction
  PROVE  ComesFrom(p.insn, p.symbol, l.toks)
  <1> DEFINE t == l.toks
  <1>1. /\ isRegister(t[2]) /\ isRegister(t[3]) /\ p.symbol = ""
        /\ p.insn = Insn("L_SSHIFT_REG_REG_CONST", getRegisterID(t[2]), getRegisterID(t[3]), 0,
                         Number[t[4]])
        /\ p.insn.op = "L_SSHIFT_REG_REG_CONST"
    <2>1. /\ isRegister(t[2]) /\ isRegister(t[3])
          /\ p = Operands("L_SSHIFT_REG_REG_CONST", getRegisterID(t[2]), getRegisterID(t[3]), 0,
                          Number[t[4]])
      BY DEF MatchShl
    <2> QED  BY <2>1 DEF Operands, Insn
  <1>2. /\ Symbol(t) = "" /\ t[1] \notin DOMAIN LoadAddrOpcode /\ t[1] \notin DOMAIN JumpOpcode
        /\ p.insn.op \notin Const24
    BY <1>1, SymbolOf DEF LoadAddrOpcode, JumpOpcode, Const24
  <1>3. 2 \in DOMAIN t /\ 3 \in DOMAIN t
    <2>1. TokensRead(t[1]) \in {3, 4}
      BY TokenCounts
    <2> QED  BY <2>1, SecondAndThird
  <1>4. ASSUME WellNamed(t), NEW distance \in Int, NEW address \in Int
        PROVE  Reading(t, distance, address) = p.insn
    <2>1. Reading(t, distance, address)
            = Insn("L_SSHIFT_REG_REG_CONST", MachineRegister[t[2]], MachineRegister[t[3]], 0,
                   Number[t[4]])
      BY <1>2 DEF Reading, MemoryMnemonics
    <2>2. getRegisterID(t[2]) = MachineRegister[t[2]] /\ getRegisterID(t[3]) = MachineRegister[t[3]]
      BY <1>1, <1>3, <1>4, KnownRegister
    <2> QED  BY <1>1, <2>1, <2>2
  <1> HIDE DEF t
  <1> QED  BY <1>1, <1>2, <1>4, ComesFromPlain DEF t

LEMMA AddReading ==
  ASSUME NamesKept, NEW l \in Lines, IsTokens(l), l.toks[1] = "add",
         NEW p, p \in MatchAdd(l.toks), p.insn \in Instruction
  PROVE  ComesFrom(p.insn, p.symbol, l.toks)
  <1> DEFINE t == l.toks
  <1>1. /\ Len(t) = 4 /\ isRegister(t[2]) /\ isRegister(t[3]) /\ p.symbol = ""
        /\ IF t[4] \in DOMAIN Number /\ isInt8Constant(t[4])
             THEN /\ p.insn = Insn("ADD_REG_REG_CONST", getRegisterID(t[2]), getRegisterID(t[3]),
                                   0, Number[t[4]])
                  /\ p.insn.op = "ADD_REG_REG_CONST"
             ELSE /\ p.insn = Insn("ADD_REG_REG_REG", getRegisterID(t[2]), getRegisterID(t[3]),
                                   getRegisterID(t[4]), 0)
                  /\ p.insn.op = "ADD_REG_REG_REG"
                  /\ isRegister(t[4])
    <2>1. Len(t) = 4 /\ isRegister(t[2]) /\ isRegister(t[3])
      BY DEF MatchAdd
    <2>2. CASE isInt8Constant(t[4])
      <3>1. /\ t[4] \in DOMAIN Number
            /\ p = Operands("ADD_REG_REG_CONST", getRegisterID(t[2]), getRegisterID(t[3]), 0,
                            Number[t[4]])
        BY <2>1, <2>2 DEF MatchAdd, isInt8Constant, isNumber
      <3>2. /\ p.symbol = "" /\ p.insn.op = "ADD_REG_REG_CONST"
            /\ p.insn = Insn("ADD_REG_REG_CONST", getRegisterID(t[2]), getRegisterID(t[3]), 0,
                             Number[t[4]])
        BY <3>1 DEF Operands, Insn
      <3> QED  BY <2>1, <2>2, <3>1, <3>2
    <2>3. CASE ~isInt8Constant(t[4])
      <3>1. /\ isRegister(t[4])
            /\ p = Operands("ADD_REG_REG_REG", getRegisterID(t[2]), getRegisterID(t[3]),
                            getRegisterID(t[4]), 0)
        BY <2>1, <2>3 DEF MatchAdd
      <3>2. /\ p.symbol = "" /\ p.insn.op = "ADD_REG_REG_REG"
            /\ p.insn = Insn("ADD_REG_REG_REG", getRegisterID(t[2]), getRegisterID(t[3]),
                             getRegisterID(t[4]), 0)
        BY <3>1 DEF Operands, Insn
      <3> QED  BY <2>1, <2>3, <3>1, <3>2
    <2> QED  BY <2>2, <2>3
  <1>2. /\ Symbol(t) = "" /\ t[1] \notin DOMAIN LoadAddrOpcode /\ t[1] \notin DOMAIN JumpOpcode
        /\ p.insn.op \notin Const24
    BY <1>1, SymbolOf DEF LoadAddrOpcode, JumpOpcode, Const24
  <1>3. 2 \in DOMAIN t /\ 3 \in DOMAIN t /\ 4 \in DOMAIN t
    <2>1. t \in Seq(STRING)
      BY TokenAssumption
    <2>2. DOMAIN t = 1 .. 4
      BY <1>1, <2>1, LenProperties
    <2> QED  BY <2>2
  <1>4. ASSUME WellNamed(t), NEW distance \in Int, NEW address \in Int
        PROVE  Reading(t, distance, address) = p.insn
    <2>1. Reading(t, distance, address) = ReadingOfAdd(t)
      BY <1>2 DEF Reading, MemoryMnemonics
    <2>2. getRegisterID(t[2]) = MachineRegister[t[2]] /\ getRegisterID(t[3]) = MachineRegister[t[3]]
      BY <1>1, <1>3, <1>4, KnownRegister
    <2>3. isRegister(t[4]) =>
            t[4] \notin DOMAIN Number /\ getRegisterID(t[4]) = MachineRegister[t[4]]
      BY <1>3, <1>4, KnownRegister, TokenClasses
    <2> QED  BY <1>1, <2>1, <2>2, <2>3 DEF ReadingOfAdd
  <1> HIDE DEF t
  <1> QED  BY <1>1, <1>2, <1>4, ComesFromPlain DEF t

LEMMA MovReading ==
  ASSUME NamesKept, NEW l \in Lines, IsTokens(l), l.toks[1] = "mov",
         NEW p, p \in MatchMov(l.toks), p.insn \in Instruction
  PROVE  ComesFrom(p.insn, p.symbol, l.toks)
  <1> DEFINE t == l.toks
  <1>1. /\ t[1] \notin DOMAIN LoadAddrOpcode /\ t[1] \notin DOMAIN JumpOpcode
        /\ 2 \in DOMAIN t /\ 3 \in DOMAIN t /\ t[3] # ""
    <2>1. TokensRead(t[1]) \in {3, 4}
      BY TokenCounts
    <2> QED  BY <2>1, SecondAndThird DEF LoadAddrOpcode, JumpOpcode
  <1>2. \A distance, address : Reading(t, distance, address) = ReadingOfMov(t, distance)
    BY <1>1 DEF Reading, MemoryMnemonics
  <1>3. isRegister(t[2])
    BY DEF MatchMov
  <1>4. WellNamed(t) => getRegisterID(t[2]) = MachineRegister[t[2]]
    BY <1>1, <1>3, KnownRegister
  <1>5. CASE isInt16Constant(t[3])
    <2>1. /\ p.insn = Insn("MOVE_REG_CONST16", getRegisterID(t[2]), 0, 0, getInt16Constant(t[3]))
          /\ p.insn.op = "MOVE_REG_CONST16" /\ p.symbol = ""
      <3>1. p = Operands("MOVE_REG_CONST16", getRegisterID(t[2]), 0, 0, getInt16Constant(t[3]))
        BY <1>3, <1>5 DEF MatchMov
      <3> QED  BY <3>1 DEF Operands, Insn
    <2>2. t[3] \in DOMAIN Number /\ getInt16Constant(t[3]) = Number[t[3]] /\ t[3] \notin Symbols
      BY <1>5, Int16Exact, TokenClasses
    <2>3. p.insn.op \notin Const24 /\ Symbol(t) = ""
      BY <2>1, <2>2, SymbolOf DEF Const24
    <2>4. WellNamed(t) => \A distance, address : Reading(t, distance, address) = p.insn
      BY <1>2, <1>4, <2>1, <2>2 DEF ReadingOfMov
    <2> HIDE DEF t
    <2> QED  BY <1>1, <2>1, <2>3, <2>4, ComesFromPlain DEF t
  <1>6. CASE ~isInt16Constant(t[3]) /\ isRegister(t[3])
    <2>1. /\ p.symbol = ""
          /\ IF getRegisterID(t[3]) = REG_BLOCK_INDEX
               THEN /\ p.insn = Insn("MOVE_REG_BLOCK_INDEX", getRegisterID(t[2]), 0, 0, 0)
                    /\ p.insn.op = "MOVE_REG_BLOCK_INDEX"
               ELSE /\ p.insn = Insn("MOVE_REG_REG", getRegisterID(t[2]), getRegisterID(t[3]), 0, 0)
                    /\ p.insn.op = "MOVE_REG_REG"
      <3>1. CASE getRegisterID(t[3]) = REG_BLOCK_INDEX
        <4>1. p = Operands("MOVE_REG_BLOCK_INDEX", getRegisterID(t[2]), 0, 0, 0)
          BY <1>3, <1>6, <3>1 DEF MatchMov
        <4>2. /\ p.symbol = "" /\ p.insn.op = "MOVE_REG_BLOCK_INDEX"
              /\ p.insn = Insn("MOVE_REG_BLOCK_INDEX", getRegisterID(t[2]), 0, 0, 0)
          BY <4>1 DEF Operands, Insn
        <4> QED  BY <3>1, <4>2
      <3>2. CASE getRegisterID(t[3]) # REG_BLOCK_INDEX
        <4>1. p = Operands("MOVE_REG_REG", getRegisterID(t[2]), getRegisterID(t[3]), 0, 0)
          BY <1>3, <1>6, <3>2 DEF MatchMov
        <4>2. /\ p.symbol = "" /\ p.insn.op = "MOVE_REG_REG"
              /\ p.insn = Insn("MOVE_REG_REG", getRegisterID(t[2]), getRegisterID(t[3]), 0, 0)
          BY <4>1 DEF Operands, Insn
        <4> QED  BY <3>2, <4>2
      <3> QED  BY <3>1, <3>2
    <2>2. p.insn.op \notin Const24
      BY <2>1 DEF Const24
    <2>3. ASSUME WellNamed(t)
          PROVE  t[3] \notin Symbols /\ \A distance, address : Reading(t, distance, address) = p.insn
      <3>1. t[3] \in DOMAIN MachineRegister /\ getRegisterID(t[3]) = MachineRegister[t[3]]
        BY <1>1, <1>6, <2>3, KnownRegister
      <3>2. /\ t[3] \notin DOMAIN Number /\ t[3] \notin Symbols
            /\ t[3] = "%block_index" <=> getRegisterID(t[3]) = REG_BLOCK_INDEX
        BY <3>1, TokenClasses
      <3> QED  BY <1>2, <1>4, <2>1, <2>3, <3>1, <3>2 DEF ReadingOfMov
    <2>4. Symbol(t) = "" \/ (Symbol(t) = t[3] /\ t[3] \in Symbols)
      BY SymbolOf
    <2>5. t[3] \in DOMAIN regnames
      BY <1>6 DEF isRegister
    <2> HIDE DEF t
    <2>6. CASE Symbol(t) = ""
      BY <1>1, <2>1, <2>2, <2>3, <2>6, ComesFromPlain DEF t
    <2>7. CASE Symbol(t) = t[3] /\ t[3] \in Symbols
      BY <2>1, <2>2, <2>3, <2>5, <2>7 DEF ComesFrom, t
    <2> QED  BY <2>4, <2>6, <2>7
  <1>7. CASE ~isInt16Constant(t[3]) /\ ~isRegister(t[3])
    <2>1. /\ p.insn = Insn("MOVE_PCREL_REG_CONST16", getRegisterID(t[2]), 0, 0, 0)
          /\ p.insn.op = "MOVE_PCREL_REG_CONST16" /\ p.symbol = t[3] /\ t[3] \in Symbols
      <3>1. /\ p = Symbolic("MOVE_PCREL_REG_CONST16", getRegisterID(t[2]), t[3])
            /\ t[3] \in Symbols
        BY <1>3, <1>7 DEF MatchMov, isSymbol
      <3> QED  BY <3>1 DEF Symbolic, Insn
    <2>2. /\ p.insn.op \notin Const24 /\ p.symbol = Symbol(t) /\ p.symbol # ""
          /\ p.insn.op \notin NoImm
      BY <1>1, <2>1, SymbolOf DEF Const24, NoImm, Imm16, PcRel16
    <2>3. t[3] \notin DOMAIN Number
      BY <2>1, TokenClasses
    <2>4. ASSUME WellNamed(t), NEW distance \in Int, NEW address \in Int
          PROVE  Reading(t, distance, address) = [p.insn EXCEPT !.imm = distance]
      <3>1. Reading(t, distance, address)
              = Insn("MOVE_PCREL_REG_CONST16", MachineRegister[t[2]], 0, 0, distance)
        BY <1>2, <2>1, <2>3 DEF ReadingOfMov
      <3>2. p.insn = Insn("MOVE_PCREL_REG_CONST16", MachineRegister[t[2]], 0, 0, 0)
        BY <1>4, <2>1, <2>4
      <3>3. PICK i, r : i = p.insn /\ r = MachineRegister[t[2]]
        OBVIOUS
      <3>4. i = Insn("MOVE_PCREL_REG_CONST16", r, 0, 0, 0)
        BY <3>2, <3>3
      <3>5. [i EXCEPT !.imm = distance] = Insn("MOVE_PCREL_REG_CONST16", r, 0, 0, distance)
        BY <3>4, WithDistance
      <3> QED  BY <3>1, <3>3, <3>5
    <2> HIDE DEF t
    <2> QED  BY <1>1, <2>2, <2>4, ComesFromSymbolic DEF t
  <1> QED  BY <1>5, <1>6, <1>7

LEMMA CheckedReading ==
  ASSUME IInv, NamesKept, NEW l \in Lines, IsTokens(l),
         l.toks[1] \notin UncheckedMnemonics \union MemoryMnemonics, NEW p, p \in MatchChecked(l.toks)
  PROVE  ComesFrom(p.insn, p.symbol, l.toks)
  <1>1. p.insn \in Instruction
    BY CheckedParsed DEF Parsed, IInv
  <1> QED  BY <1>1, MovReading, AddReading, ShlReading, CmpReading DEF MatchChecked

LEMMA ComesFromLater ==
  ASSUME NEW i, NEW t, Symbol(t) = "", i.op \notin Const24, t[1] \notin DOMAIN LoadAddrOpcode,
         ASSUME WellNamed(t)', NEW distance \in Int, NEW address \in Int
         PROVE  /\ Reading(t, distance, address) \in Instruction
                /\ LET r == Reading(t, distance, address) IN Representable(r.op, r.imm) => r = i
  PROVE  ComesFrom(i, "", t)'
  BY DEF ComesFrom, IsReadingOf

LEMMA ComesFromKept ==
  ASSUME NEW i, NEW s, NEW t, ComesFrom(i, s, t), DOMAIN regnames \subseteq DOMAIN regnames'
  PROVE  ComesFrom(i, s, t)'
  <1>1. WellNamed(t)' => WellNamed(t)
    BY DEF WellNamed
  <1> QED  BY <1>1 DEF ComesFrom, IsReadingOf

\* An offset that its word can hold is one that getInt16Constant keeps.
LEMMA OffsetFits ==
  ASSUME NEW op, op \in Signed16 \union Offset8, NEW v, v \in Int, Representable(op, v)
  PROVE  -32768 <= v /\ v < 32768
  <1>1. op \notin Imm24 /\ op \notin PcRel16 /\ op \notin Signed8
    BY DEF Imm24, Jumps, Const24, PcRel16, Signed8, Signed16, Offset8
  <1> QED  BY <1>1 DEF Representable

\* load, store and restorepc enter the names they look up; a line whose names the
\* parser knows has the registers it says, and its offset wherever that fits.
LEMMA MemoryReading ==
  ASSUME NamesKept, NEW l \in Lines, IsTokens(l), l.toks[1] \in MemoryMnemonics,
         MemoryToken(l.toks) \in DOMAIN MemoryOperand,
         NEW p \in Parsed, p \in {MemoryAccess(l.toks)}
  PROVE  ComesFrom(p.insn, p.symbol, l.toks)'
  <1> DEFINE t == l.toks
             name == MemoryOperand[MemoryToken(t)][2]
             number == Number[MemoryOperand[MemoryToken(t)][1]]
             offset == getInt16Constant(MemoryOperand[MemoryToken(t)][1])
             known == NamesIn(t) \subseteq DOMAIN InitialRegnames
  <1>1. /\ t[1] \notin DOMAIN LoadAddrOpcode /\ t[1] \notin DOMAIN JumpOpcode
        /\ Symbol(t) = ""
    BY SymbolOf DEF MemoryMnemonics, LoadAddrOpcode, JumpOpcode
  <1>2. \A distance, address : Reading(t, distance, address) = ReadingOfMemoryAccess(t)
    BY <1>1 DEF Reading
  <1>3. number \in Int /\ (-32768 <= number /\ number < 32768 => number = offset)
    <2>1. number \in Int /\ offset = ToInt16(number % 65536)
      BY ToolchainAssumption DEF getInt16Constant
    <2> HIDE DEF number, offset
    <2> QED  BY <2>1, Signed
  <1>4. known => \A r \in NamesIn(t) : getRegisterID(r) = MachineRegister[r]
    BY DEF NamesKept, getRegisterID, isRegister
  <1>5. \E op, r1, r2 :
          /\ op \in Signed16 \union Offset8
          /\ p = Operands(op, r1, r2, 0, offset)
          /\ known => ReadingOfMemoryAccess(t) = Insn(op, r1, r2, 0, number)
    <2>1. CASE t[1] = "load"
      <3>1. p = Operands("LOAD_REG_CONST_REG", getRegisterID(t[2]), getRegisterID(name), 0, offset)
        BY <2>1 DEF MemoryAccess
      <3>2. ReadingOfMemoryAccess(t)
              = Insn("LOAD_REG_CONST_REG", MachineRegister[t[2]], MachineRegister[name], 0, number)
        BY <2>1 DEF ReadingOfMemoryAccess
      <3>3. t[2] \in NamesIn(t) /\ name \in NamesIn(t)
        BY <2>1 DEF NamesIn
      <3>4. "LOAD_REG_CONST_REG" \in Signed16 \union Offset8
        BY DEF Offset8
      <3> HIDE DEF t, name, number, offset, known
      <3> QED  BY <1>4, <3>1, <3>2, <3>3, <3>4
    <2>2. CASE t[1] = "store"
      <3>1. p = Operands("STORE_REG_CONST_REG", getRegisterID(t[3]), getRegisterID(name), 0, offset)
        BY <2>2 DEF MemoryAccess
      <3>2. ReadingOfMemoryAccess(t)
              = Insn("STORE_REG_CONST_REG", MachineRegister[t[3]], MachineRegister[name], 0, number)
        BY <2>2 DEF ReadingOfMemoryAccess
      <3>3. t[3] \in NamesIn(t) /\ name \in NamesIn(t)
        BY <2>2 DEF NamesIn
      <3>4. "STORE_REG_CONST_REG" \in Signed16 \union Offset8
        BY DEF Offset8
      <3> HIDE DEF t, name, number, offset, known
      <3> QED  BY <1>4, <3>1, <3>2, <3>3, <3>4
    <2>3. CASE t[1] = "restorepc"
      <3>1. p = Operands("LOAD_RESTORE_PC", getRegisterID(name), 0, 0, offset)
        BY <2>3 DEF MemoryAccess
      <3>2. ReadingOfMemoryAccess(t) = Insn("LOAD_RESTORE_PC", MachineRegister[name], 0, 0, number)
        BY <2>3 DEF ReadingOfMemoryAccess
      <3>3. name \in NamesIn(t)
        BY DEF NamesIn
      <3>4. "LOAD_RESTORE_PC" \in Signed16 \union Offset8
        BY DEF Signed16
      <3> HIDE DEF t, name, number, offset, known
      <3> QED  BY <1>4, <3>1, <3>2, <3>3, <3>4
    <2> QED  BY <2>1, <2>2, <2>3 DEF MemoryMnemonics
  <1>6. PICK op, r1, r2 :
          /\ op \in Signed16 \union Offset8
          /\ p = Operands(op, r1, r2, 0, offset)
          /\ known => ReadingOfMemoryAccess(t) = Insn(op, r1, r2, 0, number)
    BY <1>5
  <1>7. WellNamed(t)' => known
    BY DEF WellNamed
  <1> HIDE DEF t, number, offset, known
  <1>8. p.symbol = "" /\ p.insn = Insn(op, r1, r2, 0, offset) /\ p.insn.op = op
    <2>1. p = Operands(op, r1, r2, 0, offset)
      BY <1>6
    <2> QED  BY <2>1 DEF Operands, Insn
  <1>9. op \notin Const24
    BY <1>6 DEF Const24, Signed16, Offset8
  <1>10. /\ Insn(op, r1, r2, 0, number) \in Instruction
         /\ Representable(op, number) => number = offset
    <2>1. Insn(op, r1, r2, 0, offset) \in Instruction
      BY <1>8 DEF Parsed
    <2>2. op \in Signed16 \union Offset8
      BY <1>6
    <2>3. number \in Int
      BY <1>3
    <2>4. op \notin NoImm
      BY <2>2 DEF NoImm, Imm16, Imm8
    <2>5. Insn(op, r1, r2, 0, number) \in Instruction
      BY <2>1, <2>3, <2>4 DEF Instruction, Insn
    <2>6. ASSUME Representable(op, number) PROVE number = offset
      <3>1. -32768 <= number /\ number < 32768
        BY <2>2, <2>3, <2>6, OffsetFits
      <3> QED  BY <1>3, <3>1
    <2> QED  BY <2>5, <2>6
  <1>11. Insn(op, r1, r2, 0, number).op = op /\ Insn(op, r1, r2, 0, number).imm = number
    BY DEF Insn
  <1>12. ASSUME WellNamed(t)', NEW distance \in Int, NEW address \in Int
         PROVE  /\ Reading(t, distance, address) \in Instruction
                /\ LET r == Reading(t, distance, address)
                   IN Representable(r.op, r.imm) => r = p.insn
    BY <1>2, <1>6, <1>7, <1>8, <1>10, <1>11, <1>12
  <1>13. ComesFrom(p.insn, "", t)'
    BY <1>1, <1>8, <1>9, <1>12, ComesFromLater
  <1> QED  BY <1>8, <1>13 DEF t

-----------------------------------------------------------------------------
(* What a line adds to the program. *)

NothingAdded(l) ==
  /\ l.label = "" /\ (IsTokens(l) => Len(text') \in rejected')
  /\ UNCHANGED <<lastSeenLabel, objects, fields, insns>>

LabelAdded(l) ==
  /\ l.label # "" /\ lastSeenLabel' = l.label
  /\ objects' = IF data_mode
                  THEN Append(objects, [name |-> l.label, before |-> Len(fields), address |-> 0])
                  ELSE objects
  /\ UNCHANGED <<fields, insns, rejected>>

FieldAdded(l) ==
  /\ IsTokens(l) /\ data_mode /\ l.toks[2] \in DOMAIN Number
  /\ fields' = Append(fields, Number[l.toks[2]])
  /\ UNCHANGED <<lastSeenLabel, objects, insns, rejected>>

InsnAdded(l) ==
  /\ IsTokens(l) /\ ~data_mode
  /\ \E i \in Parsed : Add(i) /\ ComesFrom(i.insn, i.symbol, l.toks)'
  /\ UNCHANGED <<objects, fields, rejected>>

LineStep(l) ==
  /\ ReadLine(l) /\ phase' = "parse"
  /\ data_mode' <=> l = DataDirective \/ (data_mode /\ l # CodeDirective)
  /\ rejected' \in {rejected, rejected \union {Len(text')}}
  /\ DOMAIN regnames \subseteq DOMAIN regnames' /\ NamesKept'
  /\ NothingAdded(l) \/ LabelAdded(l) \/ FieldAdded(l) \/ InsnAdded(l)

LEMMA NoDirective ==
  ASSUME NEW l, IsTokens(l) \/ l.label # "", data_mode' = data_mode
  PROVE  data_mode' <=> l = DataDirective \/ (data_mode /\ l # CodeDirective)
  <1>1. DataDirective.label = "" /\ CodeDirective.label = ""
    BY DEF DataDirective, CodeDirective
  <1>2. l # DataDirective /\ l # CodeDirective
    BY <1>1 DEF IsTokens
  <1> QED  BY <1>2

LEMMA DirectiveStep ==
  ASSUME IInv, NamesKept, NEW l \in Lines, Directive(l) PROVE LineStep(l)
  <1>1. NothingAdded(l)
    <2>1. DataDirective.label = "" /\ CodeDirective.label = ""
      BY DEF DataDirective, CodeDirective
    <2>2. l \in {DataDirective, CodeDirective} /\ ~IsTokens(l)
      BY DEF Directive, IsTokens
    <2>3. l.label = ""
      BY <2>1, <2>2
    <2> QED  BY <2>2, <2>3 DEF Directive, NothingAdded
  <1>2. data_mode' <=> l = DataDirective \/ (data_mode /\ l # CodeDirective)
    BY DirectivesDiffer DEF Directive
  <1> QED  BY <1>1, <1>2 DEF Directive, LineStep, ReadLine, NamesKept

LEMMA LabelStep ==
  ASSUME IInv, NamesKept, NEW l \in Lines, DataLabel(l) \/ CodeLabel(l) PROVE LineStep(l)
  <1>1. LabelAdded(l)
    BY DEF DataLabel, CodeLabel, LabelAdded
  <1>2. data_mode' <=> l = DataDirective \/ (data_mode /\ l # CodeDirective)
    BY NoDirective DEF DataLabel, CodeLabel
  <1> QED  BY <1>1, <1>2 DEF DataLabel, CodeLabel, LineStep, ReadLine, NamesKept

LEMMA DataLineStep ==
  ASSUME IInv, NamesKept, NEW l \in Lines, DataField(l) \/ UnhandledDataLine(l)
  PROVE  phase' = "terminated" \/ LineStep(l)
  <1>1. data_mode' <=> l = DataDirective \/ (data_mode /\ l # CodeDirective)
    BY NoDirective DEF DataField, UnhandledDataLine
  <1>2. /\ ReadLine(l) /\ IsTokens(l) /\ data_mode
        /\ UNCHANGED <<lastSeenLabel, regnames, objects, insns>>
    BY DEF DataField, UnhandledDataLine
  <1>3. CASE DataField(l) /\ l.toks[2] \in DOMAIN Number /\ objects # <<>>
    <2>1. FieldAdded(l) /\ phase' = phase
      BY <1>2, <1>3 DEF DataField, FieldAdded
    <2> QED  BY <1>1, <1>2, <2>1 DEF LineStep, ReadLine, NamesKept, FieldAdded
  <1>4. CASE UnhandledDataLine(l) \/ (DataField(l) /\ l.toks[2] \in DOMAIN Number /\ objects = <<>>)
    <2>1. rejected' = rejected \union {Len(text')} /\ UNCHANGED <<fields, phase>>
      BY <1>4 DEF DataField, UnhandledDataLine
    <2>2. NothingAdded(l)
      BY <1>2, <2>1 DEF NothingAdded, IsTokens
    <2> QED  BY <1>1, <1>2, <2>1, <2>2 DEF LineStep, ReadLine, NamesKept
  <1>5. CASE DataField(l) /\ l.toks[2] \notin DOMAIN Number
    BY <1>5 DEF DataField
  <1> QED  BY <1>3, <1>4, <1>5

LEMMA UncheckedStep ==
  ASSUME IInv, NamesKept, NEW l \in Lines, UncheckedInsn(l) PROVE LineStep(l)
  <1> DEFINE i == Unchecked(l.toks)
  <1>1. /\ ReadLine(l) /\ IsTokens(l) /\ ~data_mode /\ l.toks[1] \in UncheckedMnemonics /\ Add(i)
        /\ UNCHANGED <<data_mode, objects, fields, regnames, rejected, phase>>
    BY DEF UncheckedInsn, CodeLine
  <1>2. data_mode' <=> l = DataDirective \/ (data_mode /\ l # CodeDirective)
    BY <1>1, NoDirective
  <1>3. i \in Parsed
    BY UncheckedParsed
  <1>4. ComesFrom(i.insn, i.symbol, l.toks)
    BY <1>1, UncheckedReading
  <1> HIDE DEF i
  <1>5. ComesFrom(i.insn, i.symbol, l.toks)'
    BY <1>1, <1>4, ComesFromKept
  <1>6. InsnAdded(l)
    BY <1>1, <1>3, <1>5 DEF InsnAdded
  <1> QED  BY <1>1, <1>2, <1>6 DEF LineStep, ReadLine, NamesKept

LEMMA CheckedStep ==
  ASSUME IInv, NamesKept, NEW l \in Lines, CheckedInsn(l) PROVE LineStep(l)
  <1>1. /\ ReadLine(l) /\ IsTokens(l) /\ ~data_mode
        /\ l.toks[1] \notin UncheckedMnemonics \union MemoryMnemonics
        /\ UNCHANGED <<data_mode, objects, fields, regnames, phase>>
    BY DEF CheckedInsn
  <1>2. data_mode' <=> l = DataDirective \/ (data_mode /\ l # CodeDirective)
    BY <1>1, NoDirective
  <1>3. ASSUME NEW i \in MatchChecked(l.toks), Add(i), UNCHANGED rejected PROVE LineStep(l)
    <2>1. i \in Parsed
      BY CheckedParsed DEF IInv
    <2>2. ComesFrom(i.insn, i.symbol, l.toks)'
      BY <1>1, CheckedReading, ComesFromKept
    <2>3. InsnAdded(l)
      BY <1>1, <1>3, <2>1, <2>2 DEF InsnAdded
    <2> QED  BY <1>1, <1>2, <1>3, <2>3 DEF LineStep, ReadLine, NamesKept
  <1>4. CASE Reject
    <2>1. NothingAdded(l)
      BY <1>1, <1>4 DEF NothingAdded, Reject, IsTokens
    <2> QED  BY <1>1, <1>2, <1>4, <2>1 DEF LineStep, ReadLine, NamesKept, Reject
  <1> QED  BY <1>3, <1>4 DEF CheckedInsn

LEMMA MemoryStep ==
  ASSUME IInv, NamesKept, NEW l \in Lines, MemoryInsn(l)
  PROVE  phase' = "terminated" \/ LineStep(l)
  <1>0. PICK i : i \in {MemoryAccess(l.toks)}
    OBVIOUS
  <1>1. /\ ReadLine(l) /\ IsTokens(l) /\ ~data_mode /\ l.toks[1] \in MemoryMnemonics
        /\ UNCHANGED <<data_mode, objects, fields, rejected>>
    BY DEF MemoryInsn, CodeLine
  <1>2. data_mode' <=> l = DataDirective \/ (data_mode /\ l # CodeDirective)
    BY <1>1, NoDirective
  <1>3. CASE MemoryToken(l.toks) \in DOMAIN MemoryOperand
    <2>1. Add(i) /\ regnames' = LookedUp(NamesIn(l.toks)) /\ UNCHANGED phase
      BY <1>0, <1>3 DEF MemoryInsn
    <2>2. i \in Parsed
      BY <1>0, <1>3, MemoryParsed DEF IInv
    <2>3. ComesFrom(i.insn, i.symbol, l.toks)'
      BY <1>0, <1>1, <1>3, <2>2, MemoryReading
    <2>4. InsnAdded(l)
      BY <1>1, <2>1, <2>2, <2>3 DEF InsnAdded
    <2>5. DOMAIN regnames \subseteq DOMAIN regnames' /\ NamesKept'
      BY <2>1 DEF LookedUp, NamesKept, getRegisterID, isRegister
    <2> QED  BY <1>1, <1>2, <2>1, <2>4, <2>5 DEF LineStep, ReadLine
  <1>4. CASE MemoryToken(l.toks) \notin DOMAIN MemoryOperand
    BY <1>4 DEF MemoryInsn
  <1> QED  BY <1>3, <1>4

LEMMA ParseStep ==
  ASSUME IInv, NamesKept, Parse
  PROVE  phase' = "terminated" \/ \E l \in Lines : LineStep(l)
  BY DirectiveStep, LabelStep, DataLineStep, UncheckedStep, CheckedStep, MemoryStep DEF Parse

-----------------------------------------------------------------------------
(* A line keeps what the lines before it have become. *)

LEMMA NewLine ==
  ASSUME IInv, LineInv, NEW l \in Lines, LineStep(l), NEW N, N = Len(text) + 1
  PROVE  /\ N \in Nat \ {0} /\ DOMAIN text = 1 .. N - 1 /\ DOMAIN text' = 1 .. N
         /\ Len(text') = N /\ text'[N] = l
         /\ \A n \in 1 .. N - 1 : text'[n] = text[n]
         /\ InsnLines \subseteq 1 .. N - 1 /\ FieldLines \subseteq 1 .. N - 1
         /\ NothingAdded(l) \/ LabelAdded(l) => InsnLines' = InsnLines /\ FieldLines' = FieldLines
         /\ FieldAdded(l) => InsnLines' = InsnLines /\ FieldLines' = FieldLines \union {N}
         /\ InsnAdded(l) => InsnLines' = InsnLines \union {N} /\ FieldLines' = FieldLines
  <1>1. /\ N \in Nat \ {0} /\ DOMAIN text = 1 .. N - 1 /\ DOMAIN text' = 1 .. N
        /\ Len(text') = N /\ text'[N] = l /\ rejected \subseteq 1 .. N - 1
        /\ \A n \in 1 .. N - 1 : text'[n] = text[n]
    BY LineRead DEF LineStep
  <1> DEFINE new == IsTokens(l) /\ N \notin rejected'
  <1>2. /\ InsnLines' = InsnLines \union (IF new /\ ~data_mode THEN {N} ELSE {})
        /\ FieldLines' = FieldLines \union (IF new /\ data_mode THEN {N} ELSE {})
        /\ InsnLines \subseteq 1 .. N - 1 /\ FieldLines \subseteq 1 .. N - 1
    <2>1. rejected \subseteq rejected' /\ rejected' \subseteq rejected \union {Len(text) + 1}
      BY <1>1 DEF LineStep
    <2>2. ReadLine(l)
      BY DEF LineStep
    <2> QED  BY <2>1, <2>2, LinesGrow
  <1>3. NothingAdded(l) => ~new
    BY <1>1 DEF NothingAdded
  <1>4. LabelAdded(l) => ~new
    BY DEF LabelAdded, IsTokens
  <1>5. FieldAdded(l) => new /\ data_mode
    BY <1>1 DEF FieldAdded
  <1>6. InsnAdded(l) => new /\ ~data_mode
    BY <1>1 DEF InsnAdded
  <1> HIDE DEF new
  <1> QED  BY <1>1, <1>2, <1>3, <1>4, <1>5, <1>6

\* The instruction e is added behind L others, for line N.
Appended(e, L, N) ==
  /\ L \in Nat /\ DOMAIN insns = 1 .. L /\ DOMAIN insns' = 1 .. L + 1
  /\ \A n \in 1 .. L : insns'[n] = insns[n]
  /\ insns'[L + 1] = e /\ e.line = N /\ e.label = lastSeenLabel
  /\ lastSeenLabel' = ""

LEMMA NewInsn ==
  ASSUME IInv, NEW l \in Lines, LineStep(l), InsnAdded(l), NEW N, N = Len(text) + 1
  PROVE  \E e, L : Appended(e, L, N) /\ ComesFrom(e.insn, e.symbol, l.toks)'
  <1>1. PICK i \in Parsed : Add(i) /\ ComesFrom(i.insn, i.symbol, l.toks)'
    BY DEF InsnAdded
  <1>2. Len(text') = N
    BY LineRead DEF LineStep
  <1>3. PICK e : e = [insn |-> i.insn, symbol |-> i.symbol, label |-> lastSeenLabel,
                      line |-> Len(text'), address |-> 0]
    OBVIOUS
  <1>4. insns \in Seq(Entry) /\ insns' = Append(insns, e)
    BY <1>1, <1>3 DEF Add, IInv, ProgramInv
  <1>5. /\ Len(insns) \in Nat /\ DOMAIN insns = 1 .. Len(insns)
        /\ DOMAIN insns' = 1 .. Len(insns) + 1
        /\ \A n \in 1 .. Len(insns) : insns'[n] = insns[n]
        /\ insns'[Len(insns) + 1] = e
    BY <1>4, AppendProperties, LenProperties
  <1>6. e.insn = i.insn /\ e.symbol = i.symbol /\ e.label = lastSeenLabel /\ e.line = Len(text')
    BY <1>3
  <1>7. ComesFrom(e.insn, e.symbol, l.toks)'
    BY <1>1, <1>6
  <1>8. lastSeenLabel' = ""
    BY <1>1 DEF Add
  <1>9. Appended(e, Len(insns), N)
    BY <1>2, <1>5, <1>6, <1>8 DEF Appended
  <1> QED  BY <1>7, <1>9

LEMMA LineInvKept ==
  ASSUME IInv, LineInv, NEW l \in Lines, LineStep(l)
  PROVE  LineInv'
  <1>0. PICK N : N = Len(text) + 1
    OBVIOUS
  <1>1. /\ N \in Nat \ {0} /\ Len(text') = N /\ InsnLines \subseteq 1 .. N - 1
        /\ InsnAdded(l) => InsnLines' = InsnLines \union {N}
        /\ ~InsnAdded(l) => InsnLines' = InsnLines /\ insns' = insns
    BY <1>0, NewLine DEF LineStep, NothingAdded, LabelAdded, FieldAdded
  <1>2. data_mode' <=> InData(Len(text) + 1)'
    <2>1. InData(N + 1)' <=> l = DataDirective \/ (InData(N) /\ l # CodeDirective)
      BY <1>0, DataNext DEF LineStep
    <2>2. data_mode <=> InData(N)
      BY <1>0, LineRead DEF LineInv, LineStep
    <2> QED  BY <1>1, <2>1, <2>2 DEF LineStep
  <1>3. CASE ~InsnAdded(l)
    BY <1>1, <1>2, <1>3 DEF LineInv
  <1>4. CASE InsnAdded(l)
    <2>0. PICK e, L : Appended(e, L, N) /\ ComesFrom(e.insn, e.symbol, l.toks)'
      BY <1>0, <1>4, NewInsn
    <2>1. /\ L \in Nat /\ DOMAIN insns = 1 .. L /\ DOMAIN insns' = 1 .. L + 1
          /\ \A n \in 1 .. L : insns'[n] = insns[n]
          /\ insns'[L + 1] = e /\ e.line = N
      BY <2>0 DEF Appended
    <2>2. \A n : n \in 1 .. L + 1 <=> n \in 1 .. L \/ n = L + 1
      BY <2>1
    <2>3. {insns'[n].line : n \in DOMAIN insns'} = InsnLines'
      BY <1>1, <1>4, <2>1, <2>2 DEF LineInv
    <2>4. ASSUME NEW m \in DOMAIN insns', NEW n \in DOMAIN insns', m < n
          PROVE  insns'[m].line < insns'[n].line
      <3>1. m \in 1 .. L /\ (n \in 1 .. L \/ n = L + 1)
        BY <2>1, <2>4
      <3>2. CASE n \in 1 .. L
        BY <2>1, <2>4, <3>1, <3>2 DEF LineInv
      <3>3. CASE n = L + 1
        <4>1. insns[m].line \in InsnLines
          BY <2>1, <3>1 DEF LineInv
        <4>2. insns[m].line \in 1 .. N - 1 /\ N \in Nat
          BY <1>1, <4>1
        <4>3. insns[m].line < N
          BY <4>2
        <4> QED  BY <2>1, <3>1, <3>3, <4>3
      <3> QED  BY <3>1, <3>2, <3>3
    <2> QED  BY <1>2, <2>3, <2>4 DEF LineInv
  <1> QED  BY <1>3, <1>4

LEMMA EntryInvKept ==
  ASSUME IInv, LineInv, EntryInv, NEW l \in Lines, LineStep(l)
  PROVE  EntryInv'
  <1>0. PICK N : N = Len(text) + 1
    OBVIOUS
  <1>1. /\ text'[N] = l /\ \A n \in 1 .. N - 1 : text'[n] = text[n]
        /\ \A n \in DOMAIN insns : insns[n].line \in 1 .. N - 1
        /\ ~InsnAdded(l) => insns' = insns
        /\ DOMAIN regnames \subseteq DOMAIN regnames'
    <2>1. DOMAIN text = 1 .. N - 1
      BY <1>0, NewLine
    <2>2. \A n \in DOMAIN insns : insns[n].line \in DOMAIN text
      BY DEF IInv, ProgramInv
    <2> QED  BY <1>0, <2>1, <2>2, NewLine DEF LineStep, NothingAdded, LabelAdded, FieldAdded
  <1>2. ASSUME NEW n \in DOMAIN insns, insns'[n] = insns[n]
        PROVE  ComesFrom(insns[n].insn, insns[n].symbol, text[insns[n].line].toks)'
    <2>1. PICK i, s, t : i = insns[n].insn /\ s = insns[n].symbol /\ t = text[insns[n].line].toks
      OBVIOUS
    <2>2. ComesFrom(i, s, t)
      BY <2>1 DEF EntryInv
    <2>3. ComesFrom(i, s, t)'
      BY <1>1, <2>2, ComesFromKept
    <2>4. i = insns'[n].insn /\ s = insns'[n].symbol /\ t = text'[insns'[n].line].toks
      BY <1>1, <1>2, <2>1
    <2> QED  BY <2>3, <2>4
  <1>3. CASE ~InsnAdded(l)
    BY <1>1, <1>2, <1>3 DEF EntryInv
  <1>4. CASE InsnAdded(l)
    <2>0. PICK e, L : Appended(e, L, N) /\ ComesFrom(e.insn, e.symbol, l.toks)'
      BY <1>0, <1>4, NewInsn
    <2>1. /\ L \in Nat /\ DOMAIN insns = 1 .. L /\ DOMAIN insns' = 1 .. L + 1
          /\ \A n \in 1 .. L : insns'[n] = insns[n]
          /\ insns'[L + 1] = e /\ e.line = N
      BY <2>0 DEF Appended
    <2>2. ASSUME NEW n \in 1 .. L
          PROVE  ComesFrom(insns[n].insn, insns[n].symbol, text[insns[n].line].toks)'
      BY <1>2, <2>1
    <2>3. ComesFrom(insns[L + 1].insn, insns[L + 1].symbol, text[insns[L + 1].line].toks)'
      <3>1. PICK i, s, t, n : i = e.insn /\ s = e.symbol /\ t = l.toks /\ n = L + 1
        OBVIOUS
      <3>2. ComesFrom(i, s, t)'
        BY <2>0, <3>1
      <3>3. i = insns'[n].insn /\ s = insns'[n].symbol /\ t = text'[insns'[n].line].toks
        BY <1>1, <2>1, <3>1
      <3> QED  BY <3>1, <3>2, <3>3
    <2>4. \A n \in DOMAIN insns' : n \in 1 .. L \/ n = L + 1
      BY <2>1
    <2> QED  BY <2>2, <2>3, <2>4 DEF EntryInv
  <1> QED  BY <1>3, <1>4

Named(name) == name # ""

\* What reading line N, which is l, does to the lines.
NextLine(l, N) ==
  /\ N \in Nat \ {0} /\ DOMAIN text = 1 .. N - 1 /\ DOMAIN text' = 1 .. N
  /\ Len(text) = N - 1 /\ Len(text') = N /\ text'[N] = l
  /\ \A n \in 1 .. N - 1 : text'[n] = text[n]
  /\ InsnLines \subseteq 1 .. N - 1 /\ FieldLines \subseteq 1 .. N - 1
  /\ NothingAdded(l) \/ LabelAdded(l) => InsnLines' = InsnLines /\ FieldLines' = FieldLines
  /\ FieldAdded(l) => InsnLines' = InsnLines /\ FieldLines' = FieldLines \union {N}
  /\ InsnAdded(l) => InsnLines' = InsnLines \union {N} /\ FieldLines' = FieldLines
  /\ ~InsnAdded(l) => InsnLines' = InsnLines /\ insns' = insns
  /\ InsnAdded(l) => \E e, L : Appended(e, L, N)

LEMMA NextLineExists ==
  ASSUME IInv, LineInv, NEW l \in Lines, LineStep(l)
  PROVE  \E N : NextLine(l, N)
  <1>1. PICK N : N = Len(text) + 1
    OBVIOUS
  <1>2. Len(text) = N - 1
    BY <1>1, LenProperties DEF IInv, ProgramInv
  <1>3. ~InsnAdded(l) => InsnLines' = InsnLines /\ insns' = insns
    BY <1>1, NewLine DEF LineStep, NothingAdded, LabelAdded, FieldAdded
  <1>4. InsnAdded(l) => \E e, L : Appended(e, L, N)
    BY <1>1, NewInsn
  <1> QED  BY <1>1, <1>2, <1>3, <1>4, NewLine DEF NextLine

\* A label in front of the next line's number is still there, and so is what
\* stands between it and a line.
LEMMA LabelledKept ==
  ASSUME NEW l, NEW N, NextLine(l, N), NEW name, NEW n, n \in Int, n <= N, Labelled(name, n),
         InsnLines' \subseteq InsnLines \union {N}
  PROVE  Labelled(name, n)'
  <1>1. /\ N \in Nat \ {0} /\ DOMAIN text = 1 .. N - 1 /\ DOMAIN text' = 1 .. N
        /\ \A d \in 1 .. N - 1 : text'[d] = text[d]
    BY DEF NextLine
  <1>2. PICK d \in DOMAIN text : text[d].label = name /\ d < n /\ NoneBetween(d, n)
    BY DEF Labelled
  <1>3. NoneBetween(d, n)'
    BY <1>1, <1>2 DEF NoneBetween
  <1>4. d \in DOMAIN text' /\ text'[d].label = name
    BY <1>1, <1>2
  <1> QED  BY <1>2, <1>3, <1>4 DEF Labelled

LEMMA NextNumber ==
  ASSUME NEW l, NEW N, NextLine(l, N)
  PROVE  Len(text) + 1 = N
  <1>1. Len(text) = N - 1 /\ N \in Int
    BY DEF NextLine
  <1> QED  BY <1>1

LEMMA InsnLinesNext ==
  ASSUME NEW l, NEW N, NextLine(l, N)
  PROVE  InsnLines' \subseteq InsnLines \union {N} /\ InsnLines \subseteq InsnLines'
  BY DEF NextLine

LEMMA LastLabelKept ==
  ASSUME LabelInv, NEW l \in Lines, LineStep(l), Named(lastSeenLabel'), NEW N, NextLine(l, N)
  PROVE  Labelled(lastSeenLabel, N + 1)'
  <1>1. N \in Nat \ {0} /\ DOMAIN text' = 1 .. N /\ text'[N] = l /\ InsnLines \subseteq 1 .. N - 1
    BY DEF NextLine
  <1>2. ~InsnAdded(l)
    BY DEF NextLine, Appended, Named
  <1>3. InsnLines' = InsnLines
    BY <1>2 DEF NextLine
  <1>4. CASE LabelAdded(l)
    <2>1. NoneBetween(N, N + 1)'
      BY <1>1, <1>3 DEF NoneBetween
    <2>2. N \in DOMAIN text' /\ N < N + 1
      BY <1>1
    <2>3. text'[N].label = lastSeenLabel'
      BY <1>1, <1>4 DEF LabelAdded
    <2> QED  BY <2>1, <2>2, <2>3 DEF Labelled
  <1>5. CASE NothingAdded(l) \/ FieldAdded(l)
    <2>0. PICK name : name = lastSeenLabel
      OBVIOUS
    <2>1. name = lastSeenLabel' /\ Labelled(name, N)
      <3>1. lastSeenLabel' = lastSeenLabel
        BY <1>5 DEF NothingAdded, FieldAdded
      <3>2. Labelled(lastSeenLabel, Len(text) + 1)
        BY <3>1 DEF LabelInv, Named
      <3> QED  BY <2>0, <3>1, <3>2, NextNumber
    <2>2. N \in Int /\ N <= N
      BY <1>1
    <2>3. Labelled(name, N)'
      BY <2>1, <2>2, LabelledKept, InsnLinesNext
    <2>4. PICK d \in DOMAIN text' : text'[d].label = name /\ d < N /\ NoneBetween(d, N)'
      BY <2>3 DEF Labelled
    <2>5. NoneBetween(d, N + 1)'
      BY <1>1, <1>3, <2>4 DEF NoneBetween
    <2>6. d < N + 1
      BY <1>1, <2>4
    <2> QED  BY <2>1, <2>4, <2>5, <2>6 DEF Labelled
  <1> QED  BY <1>2, <1>4, <1>5 DEF LineStep

LEMMA InsnLabelsKept ==
  ASSUME LineInv, LabelInv, NEW l \in Lines, LineStep(l), NEW N, NextLine(l, N),
         NEW n, n \in DOMAIN insns', Named(insns'[n].label)
  PROVE  Labelled(insns[n].label, insns[n].line)'
  <1>1. N \in Nat \ {0} /\ InsnLines \subseteq 1 .. N - 1
    BY DEF NextLine
  <1>2. ASSUME n \in DOMAIN insns, insns'[n] = insns[n]
        PROVE  Labelled(insns[n].label, insns[n].line)'
    <2>0. PICK name, line : name = insns[n].label /\ line = insns[n].line
      OBVIOUS
    <2>1. Labelled(name, line) /\ line \in InsnLines
      BY <1>2, <2>0 DEF LabelInv, LineInv, Named
    <2>2. line \in Int /\ line <= N
      BY <1>1, <2>1
    <2>3. Labelled(name, line)'
      BY <2>1, <2>2, LabelledKept, InsnLinesNext
    <2> QED  BY <1>2, <2>0, <2>3
  <1>3. CASE ~InsnAdded(l)
    BY <1>2, <1>3 DEF NextLine
  <1>4. CASE InsnAdded(l)
    <2>0. PICK e, L : Appended(e, L, N)
      BY <1>4 DEF NextLine
    <2>1. /\ L \in Nat /\ DOMAIN insns = 1 .. L /\ DOMAIN insns' = 1 .. L + 1
          /\ \A k \in 1 .. L : insns'[k] = insns[k]
          /\ insns'[L + 1] = e /\ e.line = N /\ e.label = lastSeenLabel
      BY <2>0 DEF Appended
    <2>2. CASE n \in 1 .. L
      BY <1>2, <2>1, <2>2
    <2>3. CASE n = L + 1
      <3>0. PICK name, line : name = lastSeenLabel /\ line = N
        OBVIOUS
      <3>1. insns'[n].line = line /\ insns'[n].label = name /\ Named(name)
        BY <2>1, <2>3, <3>0
      <3>2. Labelled(name, line)
        BY <3>0, <3>1, NextNumber DEF LabelInv, Named
      <3>3. line \in Int /\ line <= N
        BY <1>1, <3>0
      <3>4. Labelled(name, line)'
        BY <3>2, <3>3, LabelledKept, InsnLinesNext
      <3> QED  BY <3>1, <3>4
    <2> QED  BY <2>1, <2>2, <2>3
  <1> QED  BY <1>3, <1>4

\* A label is taken by the next instruction, or another label comes first.
Taken(name) == \E n \in DOMAIN insns : insns[n].label = name

LEMMA TakenKept ==
  ASSUME NEW l, NEW N, NextLine(l, N), NEW name
  PROVE  /\ Taken(name) => Taken(name)'
         /\ InsnAdded(l) /\ lastSeenLabel = name => Taken(name)'
  <1>1. CASE ~InsnAdded(l)
    BY <1>1 DEF NextLine, Taken
  <1>2. CASE InsnAdded(l)
    <2>1. PICK e, L : Appended(e, L, N)
      BY <1>2 DEF NextLine
    <2>2. /\ L \in Nat /\ DOMAIN insns = 1 .. L /\ DOMAIN insns' = 1 .. L + 1
          /\ \A k \in 1 .. L : insns'[k] = insns[k]
          /\ insns'[L + 1] = e /\ e.label = lastSeenLabel
      BY <2>1 DEF Appended
    <2>3. L + 1 \in 1 .. L + 1 /\ \A k \in 1 .. L : k \in 1 .. L + 1
      BY <2>2
    <2> QED  BY <2>2, <2>3 DEF Taken
  <1> QED  BY <1>1, <1>2

LEMMA LabelsKept ==
  ASSUME LabelInv, NEW l \in Lines, LineStep(l), NEW N, NextLine(l, N),
         NEW d, d \in DOMAIN text', Named(text'[d].label)
  PROVE  Taken(text[d].label)' \/ NotTaken(d)'
  <1>1. /\ N \in Nat \ {0} /\ DOMAIN text = 1 .. N - 1 /\ DOMAIN text' = 1 .. N
        /\ Len(text') = N /\ text'[N] = l
        /\ \A n \in 1 .. N - 1 : text'[n] = text[n]
        /\ InsnLines \subseteq 1 .. N - 1
        /\ InsnAdded(l) => InsnLines' = InsnLines \union {N}
        /\ ~InsnAdded(l) => InsnLines' = InsnLines
    BY DEF NextLine
  <1>2. CASE d = N
    <2>1. l.label # ""
      BY <1>1, <1>2 DEF Named
    <2>2. LabelAdded(l)
      BY <2>1 DEF LineStep, NothingAdded, FieldAdded, InsnAdded, IsTokens
    <2>3. InsnLines' = InsnLines
      BY <2>2 DEF NextLine
    <2>4. lastSeenLabel' = text'[d].label
      BY <1>1, <1>2, <2>2 DEF LabelAdded
    <2>5. \A m \in InsnLines' : ~(d < m)
      BY <1>1, <1>2, <2>3
    <2> QED  BY <2>4, <2>5 DEF NotTaken
  <1>3. CASE d \in 1 .. N - 1
    <2>0. PICK name : name = text[d].label
      OBVIOUS
    <2>1. text'[d].label = name /\ d \in DOMAIN text /\ Named(name)
      BY <1>1, <1>3, <2>0
    <2>2. Taken(name) \/ NotTaken(d)
      BY <2>0, <2>1 DEF LabelInv, Named, Taken
    <2>3. CASE Taken(name) \/ (InsnAdded(l) /\ lastSeenLabel = name)
      <3>1. Taken(name)'
        BY <2>3, TakenKept
      <3> QED  BY <2>1, <3>1
    <2>4. CASE NotTaken(d) /\ ~(InsnAdded(l) /\ lastSeenLabel = name)
      <3>1. \A m \in InsnLines : d < m => \E k \in d + 1 .. m - 1 : Named(text[k].label)
        BY <2>4 DEF NotTaken, Named
      <3>2. (\E k \in d + 1 .. N - 1 : Named(text[k].label)) \/ lastSeenLabel = name
        <4>1. Len(text) = N - 1
          BY DEF NextLine
        <4> QED  BY <2>0, <2>4, <4>1 DEF NotTaken, Named
      <3>3. \A k \in d + 1 .. N - 1 : text'[k] = text[k]
        BY <1>1, <1>3
      <3>4. ASSUME NEW m \in InsnLines', d < m
            PROVE  \E k \in d + 1 .. m - 1 : Named(text'[k].label)
        <4>1. CASE m \in InsnLines
          <5>1. PICK k \in d + 1 .. m - 1 : Named(text[k].label)
            BY <3>1, <3>4, <4>1
          <5>2. k \in d + 1 .. N - 1
            BY <1>1, <1>3, <4>1, <5>1
          <5> QED  BY <3>3, <5>1, <5>2
        <4>2. CASE m \notin InsnLines
          <5>1. InsnAdded(l) /\ m = N
            BY <1>1, <3>4, <4>2
          <5>2. PICK k \in d + 1 .. N - 1 : Named(text[k].label)
            BY <2>4, <3>2, <5>1
          <5> QED  BY <3>3, <5>1, <5>2
        <4> QED  BY <4>1, <4>2
      <3>5. (\E k \in d + 1 .. N : Named(text'[k].label)) \/ lastSeenLabel' = name
        <4>1. CASE \E k \in d + 1 .. N - 1 : Named(text[k].label)
          <5>1. \A k \in d + 1 .. N - 1 : k \in d + 1 .. N
            BY <1>1, <1>3
          <5> QED  BY <3>3, <4>1, <5>1
        <4>2. CASE lastSeenLabel = name /\ LabelAdded(l)
          <5>1. N \in d + 1 .. N
            BY <1>1, <1>3
          <5>2. Named(text'[N].label)
            BY <1>1, <4>2 DEF LabelAdded, Named
          <5> QED  BY <5>1, <5>2
        <4>3. CASE lastSeenLabel = name /\ (NothingAdded(l) \/ FieldAdded(l))
          BY <4>3 DEF NothingAdded, FieldAdded
        <4> QED  BY <2>4, <3>2, <4>1, <4>2, <4>3 DEF LineStep
      <3>6. \A m \in InsnLines' : d < m => \E k \in d + 1 .. m - 1 : Named(text'[k].label)
        BY <3>4
      <3> QED  BY <1>1, <2>1, <3>5, <3>6 DEF NotTaken, Named
    <2> QED  BY <2>2, <2>3, <2>4
  <1> QED  BY <1>1, <1>2, <1>3

LEMMA LabelInvKept ==
  ASSUME LineInv, LabelInv, NEW l \in Lines, LineStep(l), NEW N, NextLine(l, N)
  PROVE  LabelInv'
  <1>1. lastSeenLabel' # "" => Labelled(lastSeenLabel, Len(text) + 1)'
    <2>1. Len(text') = N
      BY DEF NextLine
    <2> QED  BY <2>1, LastLabelKept DEF Named
  <1>2. \A n \in DOMAIN insns' : insns'[n].label # "" => Labelled(insns[n].label, insns[n].line)'
    BY InsnLabelsKept DEF Named
  <1>3. \A d \in DOMAIN text' : text'[d].label # "" =>
          (\E n \in DOMAIN insns' : insns'[n].label = text'[d].label) \/ NotTaken(d)'
    BY LabelsKept DEF Named, Taken
  <1> QED  BY <1>1, <1>2, <1>3 DEF LabelInv

-----------------------------------------------------------------------------
(* Data lines. *)

LEMMA LinesAreFinite ==
  ASSUME NEW N \in Nat, NEW S, S \subseteq 1 .. N, NEW n
  PROVE  /\ IsFiniteSet(S) /\ Cardinality(S) \in Nat
         /\ IsFiniteSet(Before(S, n)) /\ Cardinality(Before(S, n)) \in Nat
         /\ Cardinality(Before(S, n)) <= Cardinality(S)
         /\ Cardinality(S) <= N
  <1>1. IsFiniteSet(1 .. N) /\ Cardinality(1 .. N) = N
    BY FS_Interval
  <1>2. IsFiniteSet(S) /\ Cardinality(S) <= N
    BY <1>1, FS_Subset
  <1>3. Before(S, n) \subseteq S
    BY DEF Before
  <1> QED  BY <1>2, <1>3, FS_Subset, FS_CardinalityType

LEMMA Rank ==
  ASSUME NEW N \in Nat, NEW S, S \subseteq 1 .. N, NEW n \in S
  PROVE  Cardinality(Before(S, n)) + 1 <= Cardinality(S)
  <1> DEFINE B == Before(S, n)
  <1>1. n \notin B /\ B \union {n} \subseteq S
    BY DEF Before
  <1>2. IsFiniteSet(B) /\ IsFiniteSet(S)
    BY LinesAreFinite
  <1> HIDE DEF B
  <1>3. Cardinality(B \union {n}) = Cardinality(B) + 1
    BY <1>1, <1>2, FS_AddElement
  <1>4. Cardinality(B \union {n}) <= Cardinality(S)
    BY <1>1, <1>2, FS_Subset
  <1> QED  BY <1>3, <1>4 DEF B

LEMMA BeforeNext ==
  ASSUME NEW N, NEW S, NEW T, T \in {S, S \union {N}}, NEW n, ~(N < n)
  PROVE  Before(T, n) = Before(S, n)
  BY DEF Before

LEMMA BeforeAll ==
  ASSUME NEW N \in Nat, NEW S, S \subseteq 1 .. N - 1
  PROVE  Before(S, N) = S
  <1>1. \A m \in S : m < N
    OBVIOUS
  <1> QED  BY <1>1 DEF Before

LEMMA FieldLinesNext ==
  ASSUME NEW l \in Lines, LineStep(l), NEW N, NextLine(l, N)
  PROVE  FieldLines' \in {FieldLines, FieldLines \union {N}}
  BY DEF NextLine, LineStep

LEMMA DeclaredKept ==
  ASSUME IInv, NEW l \in Lines, LineStep(l), NEW N, NextLine(l, N), NEW name, NEW before,
         Declared(name, before)
  PROVE  Declared(name, before)'
  <1>1. /\ N \in Nat \ {0} /\ DOMAIN text = 1 .. N - 1 /\ DOMAIN text' = 1 .. N
        /\ \A n \in 1 .. N - 1 : text'[n] = text[n]
        /\ FieldLines \subseteq 1 .. N - 1
    BY DEF NextLine
  <1>2. PICK d \in DOMAIN text : /\ text[d].label # "" /\ text[d].label = name /\ InData(d)
                                 /\ before = Cardinality(Before(FieldLines, d))
    BY DEF Declared
  <1>3. d \in 1 .. N - 1 /\ d \in 1 .. N
    BY <1>1
  <1>4. Before(FieldLines, d)' = Before(FieldLines, d)
    <2>1. PICK S, T : S = FieldLines /\ T = FieldLines'
      OBVIOUS
    <2>2. S \subseteq 1 .. N - 1 /\ T \in {S, S \union {N}}
      BY <1>1, <2>1, FieldLinesNext
    <2>3. ~(N < d)
      BY <1>1, <1>3
    <2>4. Before(T, d) = Before(S, d)
      BY <2>2, <2>3, BeforeNext
    <2> QED  BY <2>1, <2>4 DEF Before
  <1>5. InData(d)'
    <2>1. d \in 1 .. Len(text) + 1
      BY <1>3, NextNumber
    <2> QED  BY <1>2, <2>1, DataKept DEF LineStep
  <1>6. d \in DOMAIN text' /\ text'[d] = text[d]
    BY <1>1, <1>3
  <1> QED  BY <1>2, <1>4, <1>5, <1>6 DEF Declared

\* The fields, in the order of their lines.
FieldsInv ==
  /\ Cardinality(FieldLines) = Len(fields)
  /\ \A n \in FieldLines :
       /\ text[n].toks[2] \in DOMAIN Number
       /\ fields[Cardinality(Before(FieldLines, n)) + 1] = Number[text[n].toks[2]]

LEMMA FieldsKept ==
  ASSUME IInv, FieldsInv, NEW l \in Lines, LineStep(l), NEW N, NextLine(l, N)
  PROVE  FieldsInv'
  <1>1. /\ N \in Nat \ {0} /\ \A n \in 1 .. N - 1 : text'[n] = text[n]
        /\ FieldLines \subseteq 1 .. N - 1 /\ N - 1 \in Nat /\ text'[N] = l
    BY DEF NextLine
  <1>2. PICK S, T : S = FieldLines /\ T = FieldLines'
    OBVIOUS
  <1>3. S \subseteq 1 .. N - 1 /\ T \in {S, S \union {N}}
    BY <1>1, <1>2, FieldLinesNext
  <1>4. IsFiniteSet(S) /\ Cardinality(S) = Len(fields) /\ Len(fields) \in Nat
    BY <1>1, <1>2, <1>3, LinesAreFinite, LenProperties DEF FieldsInv, IInv, ProgramInv
  <1>5. ASSUME NEW n \in S
        PROVE  /\ text'[n].toks[2] \in DOMAIN Number
               /\ Before(T, n) = Before(S, n)
               /\ Cardinality(Before(S, n)) + 1 \in 1 .. Len(fields)
               /\ fields[Cardinality(Before(S, n)) + 1] = Number[text'[n].toks[2]]
    <2>1. ~(N < n) /\ text'[n] = text[n]
      BY <1>1, <1>3
    <2>2. Before(T, n) = Before(S, n)
      BY <1>3, <2>1, BeforeNext
    <2>3. Cardinality(Before(S, n)) \in Nat /\ Cardinality(Before(S, n)) + 1 <= Cardinality(S)
      BY <1>1, <1>3, LinesAreFinite, Rank
    <2>4. Cardinality(Before(S, n)) + 1 \in 1 .. Len(fields)
      BY <1>4, <2>3
    <2> QED  BY <1>2, <2>1, <2>2, <2>4 DEF FieldsInv
  <1>6. CASE FieldAdded(l)
    <2>1. T = S \union {N} /\ N \notin S
      BY <1>1, <1>2, <1>6 DEF NextLine
    <2>2. Cardinality(T) = Len(fields) + 1
      BY <1>4, <2>1, FS_AddElement
    <2>3. /\ l.toks[2] \in DOMAIN Number /\ Number[l.toks[2]] \in Int
          /\ fields' = Append(fields, Number[l.toks[2]]) /\ fields \in Seq(Int)
      BY <1>6, ToolchainAssumption DEF FieldAdded, IInv, ProgramInv
    <2>4. /\ Len(fields') = Len(fields) + 1
          /\ \A k \in 1 .. Len(fields) : fields'[k] = fields[k]
          /\ fields'[Len(fields) + 1] = Number[l.toks[2]]
      BY <2>3, AppendProperties
    <2>5. ASSUME NEW n \in T
          PROVE  /\ text'[n].toks[2] \in DOMAIN Number
                 /\ fields'[Cardinality(Before(T, n)) + 1] = Number[text'[n].toks[2]]
      <3>1. CASE n \in S
        BY <1>5, <2>4, <3>1
      <3>2. CASE n = N
        <4>1. ~(N < N) /\ N \in Nat
          BY <1>1
        <4>2. Before(T, N) = Before(S, N)
          BY <1>3, <4>1, BeforeNext
        <4>3. Before(S, N) = S
          BY <1>3, <4>1, BeforeAll
        <4>4. Before(T, N) = S
          BY <4>2, <4>3
        <4>5. fields'[Cardinality(S) + 1] = Number[text'[N].toks[2]]
          BY <1>1, <1>4, <2>4
        <4> QED  BY <1>1, <2>3, <3>2, <4>4, <4>5
      <3> QED  BY <2>1, <3>1, <3>2
    <2> QED  BY <1>2, <2>2, <2>4, <2>5 DEF FieldsInv, Before
  <1>7. CASE ~FieldAdded(l)
    <2>1. T = S /\ fields' = fields
      BY <1>2, <1>7 DEF NextLine, LineStep, NothingAdded, LabelAdded, InsnAdded
    <2>2. ASSUME NEW n \in T
          PROVE  /\ text'[n].toks[2] \in DOMAIN Number
                 /\ fields'[Cardinality(Before(T, n)) + 1] = Number[text'[n].toks[2]]
      BY <1>5, <2>1
    <2> QED  BY <1>2, <1>4, <2>1, <2>2 DEF FieldsInv, Before
  <1> QED  BY <1>6, <1>7

LEMMA ObjectsKept ==
  ASSUME IInv, LineInv, FieldsInv, NEW l \in Lines, LineStep(l), NEW N, NextLine(l, N),
         \A j \in DOMAIN objects : Declared(objects[j].name, objects[j].before)
  PROVE  \A j \in DOMAIN objects' : Declared(objects[j].name, objects[j].before)'
  <1>1. ASSUME NEW j \in DOMAIN objects, NEW p, p \in {objects[j]}
        PROVE  Declared(p.name, p.before)'
    <2>1. PICK name, before : name = p.name /\ before = p.before
      OBVIOUS
    <2>2. Declared(name, before)
      BY <1>1, <2>1
    <2>3. Declared(name, before)'
      BY <2>2, DeclaredKept
    <2> QED  BY <2>1, <2>3
  <1>2. CASE objects' = objects
    BY <1>1, <1>2
  <1>3. CASE LabelAdded(l) /\ data_mode
    <2>1. PICK o : o = [name |-> l.label, before |-> Len(fields), address |-> 0]
      OBVIOUS
    <2>2. objects' = Append(objects, o) /\ objects \in Seq(DataObject)
      BY <1>3, <2>1 DEF LabelAdded, IInv, ProgramInv
    <2>3. /\ DOMAIN objects' = 1 .. Len(objects) + 1 /\ Len(objects) \in Nat
          /\ DOMAIN objects = 1 .. Len(objects)
          /\ \A j \in 1 .. Len(objects) : objects'[j] = objects[j]
          /\ objects'[Len(objects) + 1] = o
      BY <2>2, AppendProperties, LenProperties
    <2>4. Declared(o.name, o.before)'
      <3>1. /\ N \in Nat \ {0} /\ N - 1 \in Nat /\ DOMAIN text' = 1 .. N /\ text'[N] = l
            /\ FieldLines \subseteq 1 .. N - 1
        BY DEF NextLine
      <3>2. FieldLines' = FieldLines
        BY <1>3 DEF NextLine
      <3>3. N \in DOMAIN text' /\ N \in Nat
        BY <3>1
      <3>4. text'[N].label # "" /\ text'[N].label = o.name
        BY <1>3, <2>1, <3>1 DEF LabelAdded
      <3>5. InData(N)'
        <4>1. data_mode <=> InData(Len(text) + 1)
          BY DEF LineInv, LineStep, ReadLine
        <4>2. InData(N)
          BY <1>3, <4>1, NextNumber
        <4>3. N \in 1 .. Len(text) + 1
          BY <3>3, <3>1, NextNumber
        <4> QED  BY <4>2, <4>3, DataKept DEF LineStep
      <3>6. Before(FieldLines, N)' = FieldLines
        <4>1. PICK S : S = FieldLines
          OBVIOUS
        <4>2. Before(S, N) = S
          BY <3>1, <3>3, <4>1, BeforeAll
        <4> QED  BY <3>2, <4>1, <4>2 DEF Before
      <3>7. o.before = Cardinality(Before(FieldLines, N))'
        BY <2>1, <3>6 DEF FieldsInv
      <3> QED  BY <3>3, <3>4, <3>5, <3>7 DEF Declared
    <2>5. ASSUME NEW j \in DOMAIN objects' PROVE Declared(objects[j].name, objects[j].before)'
      <3>1. j \in 1 .. Len(objects) \/ j = Len(objects) + 1
        BY <2>3
      <3> QED  BY <1>1, <2>3, <2>4, <3>1
    <2> QED  BY <2>5
  <1>4. objects' = objects \/ (LabelAdded(l) /\ data_mode)
    BY DEF LineStep, NothingAdded, LabelAdded, FieldAdded, InsnAdded
  <1> QED  BY <1>2, <1>3, <1>4

LEMMA DataInvKept ==
  ASSUME IInv, LineInv, DataInv, NEW l \in Lines, LineStep(l), NEW N, NextLine(l, N)
  PROVE  DataInv'
  <1>1. FieldsInv /\ \A j \in DOMAIN objects : Declared(objects[j].name, objects[j].before)
    BY DEF DataInv, FieldsInv
  <1>2. FieldsInv' /\ \A j \in DOMAIN objects' : Declared(objects[j].name, objects[j].before)'
    BY <1>1, FieldsKept, ObjectsKept
  <1> QED  BY <1>2 DEF DataInv, FieldsInv

LEMMA ParseInvKept ==
  ASSUME IInv, ParseInv, Parse
  PROVE  phase' = "terminated" \/ ParseInv'
  <1>1. LineInv /\ NamesKept /\ EntryInv /\ LabelInv /\ DataInv
    BY DEF ParseInv
  <1>2. ASSUME NEW l \in Lines, LineStep(l) PROVE ParseInv'
    <2>1. PICK N : NextLine(l, N)
      BY <1>1, <1>2, NextLineExists
    <2>2. LineInv' /\ EntryInv' /\ LabelInv' /\ DataInv'
      BY <1>1, <1>2, <2>1, LineInvKept, EntryInvKept, LabelInvKept, DataInvKept
    <2>3. NamesKept'
      BY <1>2 DEF LineStep
    <2> QED  BY <2>2, <2>3 DEF ParseInv
  <1> QED  BY <1>1, <1>2, ParseStep

-----------------------------------------------------------------------------
(* The steps behind the parser keep what the program has from the text. *)

\* The program has the same lines, labels and names as before.
SameProgram ==
  /\ UNCHANGED <<text, rejected, regnames, lastSeenLabel, fields>>
  /\ DOMAIN insns' = DOMAIN insns /\ DOMAIN objects' = DOMAIN objects
  /\ \A n \in DOMAIN insns : insns'[n].line = insns[n].line /\ insns'[n].label = insns[n].label
  /\ \A j \in DOMAIN objects : /\ objects'[j].name = objects[j].name
                               /\ objects'[j].before = objects[j].before

LEMMA LinesSame ==
  ASSUME UNCHANGED <<text, rejected>>
  PROVE  /\ \A n : InData(n)' <=> InData(n)
         /\ InsnLines' = InsnLines /\ FieldLines' = FieldLines
  <1>1. \A n : InData(n)' <=> InData(n)
    BY DEF InData
  <1> QED  BY <1>1 DEF InsnLines, FieldLines

LEMMA ParseInvSame ==
  ASSUME ParseInv, SameProgram, phase' = "parse" => UNCHANGED <<phase, data_mode>>,
         \A n \in DOMAIN insns :
           ComesFrom(insns'[n].insn, insns'[n].symbol, text[insns[n].line].toks)
  PROVE  ParseInv'
  <1>1. /\ text' = text /\ rejected' = rejected /\ regnames' = regnames
        /\ lastSeenLabel' = lastSeenLabel /\ fields' = fields
        /\ DOMAIN insns' = DOMAIN insns /\ DOMAIN objects' = DOMAIN objects
        /\ \A n \in DOMAIN insns : insns'[n].line = insns[n].line /\ insns'[n].label = insns[n].label
        /\ \A j \in DOMAIN objects : /\ objects'[j].name = objects[j].name
                                     /\ objects'[j].before = objects[j].before
    BY DEF SameProgram
  <1>2. /\ \A n : InData(n)' <=> InData(n)
        /\ InsnLines' = InsnLines /\ FieldLines' = FieldLines
    BY <1>1, LinesSame
  <1>3. LineInv'
    <2>1. phase' = "parse" => (data_mode' <=> InData(Len(text) + 1)')
      BY <1>1, <1>2 DEF ParseInv, LineInv
    <2> QED  BY <1>1, <1>2, <2>1 DEF ParseInv, LineInv
  <1>4. NamesKept'
    BY <1>1 DEF ParseInv, NamesKept
  <1>5. EntryInv'
    <2>1. ASSUME NEW n \in DOMAIN insns'
          PROVE  ComesFrom(insns[n].insn, insns[n].symbol, text[insns[n].line].toks)'
      <3>1. PICK i, s, t : i = insns'[n].insn /\ s = insns'[n].symbol /\ t = text[insns[n].line].toks
        OBVIOUS
      <3>2. ComesFrom(i, s, t)
        BY <1>1, <3>1
      <3>3. ComesFrom(i, s, t)'
        BY <1>1, <3>2, ComesFromKept
      <3>4. t = text'[insns'[n].line].toks
        BY <1>1, <3>1
      <3> QED  BY <3>1, <3>3, <3>4
    <2> QED  BY <2>1 DEF EntryInv
  <1>6. LabelInv'
    <2>1. \A name, n : Labelled(name, n)' <=> Labelled(name, n)
      BY <1>1, <1>2 DEF Labelled, NoneBetween
    <2>2. \A d : NotTaken(d)' <=> NotTaken(d)
      BY <1>1, <1>2 DEF NotTaken
    <2>3. LabelInv
      BY DEF ParseInv
    <2>4. lastSeenLabel' # "" => Labelled(lastSeenLabel, Len(text) + 1)'
      BY <1>1, <2>1, <2>3 DEF LabelInv
    <2>5. \A n \in DOMAIN insns' : insns'[n].label # "" => Labelled(insns[n].label, insns[n].line)'
      BY <1>1, <2>1, <2>3 DEF LabelInv
    <2>6. \A d \in DOMAIN text' : text'[d].label # "" =>
            (\E n \in DOMAIN insns' : insns'[n].label = text'[d].label) \/ NotTaken(d)'
      BY <1>1, <2>2, <2>3 DEF LabelInv
    <2> QED  BY <2>4, <2>5, <2>6 DEF LabelInv
  <1>7. DataInv'
    <2>1. \A name, before : Declared(name, before)' <=> Declared(name, before)
      BY <1>1, <1>2 DEF Declared, Before
    <2>2. DataInv
      BY DEF ParseInv
    <2>3. \A j \in DOMAIN objects' : Declared(objects[j].name, objects[j].before)'
      BY <1>1, <2>1, <2>2 DEF DataInv
    <2> QED  BY <1>1, <1>2, <2>2, <2>3 DEF DataInv, Before
  <1> QED  BY <1>3, <1>4, <1>5, <1>6, <1>7 DEF ParseInv

\* What the linker writes is not what an instruction takes from its line.
LEMMA ImmLater ==
  ASSUME NEW i, i \in Instruction, NEW s, NEW t, Named(s), ComesFrom(i, s, t),
         NEW v, NEW j, j = [i EXCEPT !.imm = v]
  PROVE  ComesFrom(j, s, t)
  <1>1. j.op = i.op /\ \A w : [j EXCEPT !.imm = w] = [i EXCEPT !.imm = w]
    BY DEF Instruction
  <1>2. ASSUME IsReadingOf(i, s, t) PROVE IsReadingOf(j, s, t)
    BY <1>1, <1>2 DEF IsReadingOf, Named
  <1> QED  BY <1>1, <1>2 DEF ComesFrom

LEMMA LinkedInsn ==
  ASSUME IInv, LinkInsns, NEW n \in DOMAIN insns
  PROVE  \E v \in LinkedImm(n) :
           /\ insns'[n].insn = [insns[n].insn EXCEPT !.imm = v]
           /\ insns'[n].line = insns[n].line /\ insns'[n].label = insns[n].label
           /\ insns'[n].symbol = insns[n].symbol
           /\ insns'[n].insn.op = insns[n].insn.op /\ insns'[n].insn.imm = v
  <1>1. PICK v : v = CHOOSE k \in LinkedImm(n) : TRUE
    OBVIOUS
  <1>2. v \in LinkedImm(n)
    BY <1>1, LinkedImmIsInt
  <1>3. insns'[n] = [insns[n] EXCEPT !.address = insn_address(n), !.insn.imm = v]
    BY <1>1 DEF LinkInsns
  <1>4. insns[n] \in Entry
    BY DEF IInv, ProgramInv
  <1>5. insns[n].insn \in Instruction
    BY <1>4 DEF Entry
  <1>6. insns'[n] = [[insns[n] EXCEPT !.address = insn_address(n)] EXCEPT
                       !.insn = [insns[n].insn EXCEPT !.imm = v]]
    BY <1>3, <1>4 DEF Entry
  <1>7. /\ insns'[n].insn = [insns[n].insn EXCEPT !.imm = v]
        /\ insns'[n].line = insns[n].line /\ insns'[n].label = insns[n].label
        /\ insns'[n].symbol = insns[n].symbol
    BY <1>4, <1>6 DEF Entry
  <1>8. [insns[n].insn EXCEPT !.imm = v].op = insns[n].insn.op
        /\ [insns[n].insn EXCEPT !.imm = v].imm = v
    BY <1>5 DEF Instruction
  <1> QED  BY <1>2, <1>7, <1>8

LEMMA LinkInsnsKeeps ==
  ASSUME IInv, ParseInv, LinkInsns
  PROVE  ParseInv' /\ SameProgram
  <1>1. SameProgram
    <2>1. DOMAIN insns' = DOMAIN insns
      BY DEF LinkInsns
    <2>2. \A n \in DOMAIN insns : insns'[n].line = insns[n].line /\ insns'[n].label = insns[n].label
      BY LinkedInsn
    <2> QED  BY <2>1, <2>2 DEF LinkInsns, SameProgram
  <1>2. ASSUME NEW n \in DOMAIN insns
        PROVE  ComesFrom(insns'[n].insn, insns'[n].symbol, text[insns[n].line].toks)
    <2>1. PICK v \in LinkedImm(n) :
            /\ insns'[n].insn = [insns[n].insn EXCEPT !.imm = v]
            /\ insns'[n].symbol = insns[n].symbol
      BY LinkedInsn
    <2>2. PICK i, j, s, t : /\ i = insns[n].insn /\ j = insns'[n].insn /\ s = insns[n].symbol
                            /\ t = text[insns[n].line].toks
      OBVIOUS
    <2>3. insns[n] \in Entry
      BY DEF IInv, ProgramInv
    <2>4. i \in Instruction
      BY <2>2, <2>3 DEF Entry
    <2>5. ComesFrom(i, s, t)
      BY <2>2 DEF ParseInv, EntryInv
    <2>6. j = [i EXCEPT !.imm = v]
      BY <2>1, <2>2
    <2>7. CASE Named(s)
      <3>1. ComesFrom(j, s, t)
        BY <2>4, <2>5, <2>6, <2>7, ImmLater
      <3> QED  BY <2>1, <2>2, <3>1
    <2>8. CASE ~Named(s)
      <3>1. v = i.imm
        BY <2>1, <2>2, <2>8 DEF LinkedImm, Named
      <3>2. j = i
        BY <2>4, <2>6, <3>1 DEF Instruction
      <3> QED  BY <2>1, <2>2, <2>5, <3>2
    <2> QED  BY <2>7, <2>8
  <1>3. phase' # "parse"
    BY DEF LinkInsns
  <1> QED  BY <1>1, <1>2, <1>3, ParseInvSame

LEMMA LinkObjsKeeps ==
  ASSUME IInv, ParseInv, LinkObjs
  PROVE  /\ ParseInv'
         /\ \A j \in DOMAIN objects' : objects'[j].address = object_address(j)'
  <1>1. ASSUME NEW j \in DOMAIN objects
        PROVE  /\ objects'[j].name = objects[j].name /\ objects'[j].before = objects[j].before
               /\ objects'[j].address = object_address(j)
    <2>1. PICK a : a = object_address(j)
      OBVIOUS
    <2>2. objects'[j] = [objects[j] EXCEPT !.address = a]
      BY <2>1 DEF LinkObjs
    <2>3. objects[j] \in DataObject
      BY DEF IInv, ProgramInv
    <2> QED  BY <2>1, <2>2, <2>3 DEF DataObject
  <1>2. DOMAIN objects' = DOMAIN objects
    BY DEF LinkObjs
  <1>3. SameProgram
    BY <1>1, <1>2 DEF LinkObjs, SameProgram
  <1>4. \A n \in DOMAIN insns :
          ComesFrom(insns'[n].insn, insns'[n].symbol, text[insns[n].line].toks)
    BY DEF LinkObjs, ParseInv, EntryInv
  <1>5. phase' # "parse"
    BY DEF LinkObjs
  <1>6. ParseInv'
    BY <1>3, <1>4, <1>5, ParseInvSame
  <1> QED  BY <1>1, <1>2, <1>6 DEF object_address

LEMMA OutputKeeps ==
  ASSUME ParseInv, UNCHANGED parserVars, phase' = "parse" => phase' = phase
  PROVE  ParseInv'
  <1>1. SameProgram
    BY DEF parserVars, SameProgram
  <1>2. \A n \in DOMAIN insns :
          ComesFrom(insns'[n].insn, insns'[n].symbol, text[insns[n].line].toks)
    BY DEF parserVars, ParseInv, EntryInv
  <1> QED  BY <1>1, <1>2, ParseInvSame DEF parserVars

-----------------------------------------------------------------------------
(* The linker. *)

LEMMA FoundSame ==
  ASSUME IInv, LinkInsns
  PROVE  /\ \A s : find_insn(s)' = find_insn(s) /\ find_data(s)' = find_data(s)
         /\ \A n \in DOMAIN insns : Found(insns[n])' = Found(insns[n])
  <1>1. /\ DOMAIN insns' = DOMAIN insns /\ objects' = objects
        /\ \A n \in DOMAIN insns : /\ insns'[n].label = insns[n].label
                                   /\ insns'[n].symbol = insns[n].symbol
                                   /\ insns'[n].insn.op = insns[n].insn.op
    BY LinkedInsn DEF LinkInsns
  <1>2. \A s : find_insn(s)' = find_insn(s) /\ find_data(s)' = find_data(s)
    BY <1>1 DEF find_insn, find_data, Last
  <1> QED  BY <1>1, <1>2 DEF Found

LEMMA LinkInsnsLinks ==
  ASSUME IInv, LinkedInv, LinkInsns
  PROVE  LinkedInv'
  <1>1. /\ phase = "link_insns" /\ phase' = "write_code" /\ objects' = objects
        /\ unresolved' = Unresolved /\ DOMAIN insns' = DOMAIN insns
    BY DEF LinkInsns
  <1>2. \A j \in DOMAIN objects' : objects'[j].address = object_address(j)'
    BY <1>1 DEF LinkedInv, object_address
  <1>3. unresolved' = Unresolved'
    <2>1. \A n \in DOMAIN insns : /\ insns'[n].line = insns[n].line
                                  /\ insns'[n].symbol = insns[n].symbol
                                  /\ Found(insns[n])' = Found(insns[n])
      BY LinkedInsn, FoundSame
    <2> QED  BY <1>1, <2>1 DEF Unresolved
  <1>4. ASSUME NEW n \in DOMAIN insns', NEW F, F = Found(insns[n])', insns'[n].symbol # "", F # {}
        PROVE  \E k \in F : insns'[n].insn.imm = IF insns'[n].insn.op \in Const24
                                                   THEN objects'[k].address
                                                   ELSE insn_address(k) - insn_address(n)
    <2>1. PICK v \in LinkedImm(n) : /\ insns'[n].symbol = insns[n].symbol
                                    /\ insns'[n].insn.op = insns[n].insn.op
                                    /\ insns'[n].insn.imm = v
      BY <1>1, LinkedInsn
    <2>2. F = Found(insns[n])
      BY <1>1, <1>4, FoundSame
    <2> QED  BY <1>1, <1>4, <2>1, <2>2 DEF LinkedImm
  <1> QED  BY <1>1, <1>2, <1>3, <1>4 DEF LinkedInv, Linked

\* Nothing that the linker has looked at changes behind it.
LEMMA LinkedSame ==
  ASSUME LinkedInv, UNCHANGED <<parserVars, unresolved>>,
         phase \notin {"parse", "link_objs", "link_insns", "terminated"}
  PROVE  LinkedInv'
  <1>0. insns' = insns /\ objects' = objects /\ unresolved' = unresolved
    BY DEF parserVars
  <1>2. \A i : Found(i)' = Found(i)
    BY <1>0 DEF Found, find_insn, find_data, Last
  <1>4. unresolved' = Unresolved'
    <2>1. unresolved = Unresolved
      BY DEF LinkedInv, Linked
    <2>2. Unresolved' = Unresolved
      BY <1>0, <1>2 DEF Unresolved
    <2> QED  BY <1>0, <2>1, <2>2
  <1>1. \A j \in DOMAIN objects' : objects'[j].address = object_address(j)'
    <2>1. \A j \in DOMAIN objects : objects[j].address = object_address(j)
      BY DEF LinkedInv
    <2> QED  BY <1>0, <2>1 DEF object_address
  <1>3. ASSUME NEW n \in DOMAIN insns', NEW F, F = Found(insns[n])', insns'[n].symbol # "", F # {}
        PROVE  \E k \in F : insns'[n].insn.imm = IF insns'[n].insn.op \in Const24
                                                   THEN objects'[k].address
                                                   ELSE insn_address(k) - insn_address(n)
    <2>1. F = Found(insns[n]) /\ insns' = insns /\ objects' = objects
      BY <1>0, <1>2, <1>3
    <2> QED  BY <1>3, <2>1 DEF LinkedInv, Linked
  <1> QED  BY <1>1, <1>3, <1>4 DEF LinkedInv

-----------------------------------------------------------------------------
(* The object writer and the loader. *)

LEMMA OverlaidAt ==
  ASSUME NEW file, NEW start \in Int
  PROVE  /\ \A k \in Int : k \in DOMAIN file =>
              start + k \in DOMAIN Overlaid(file, start) /\ Overlaid(file, start)[start + k] = file[k]
         /\ \A a \in DOMAIN memory : a - start \notin DOMAIN file =>
              a \in DOMAIN Overlaid(file, start) /\ Overlaid(file, start)[a] = memory[a]
  <1>1. ASSUME NEW k \in Int, k \in DOMAIN file
        PROVE  start + k \in DOMAIN Overlaid(file, start) /\ Overlaid(file, start)[start + k] = file[k]
    <2>1. (start + k) - start = k
      OBVIOUS
    <2> QED  BY <1>1, <2>1 DEF Overlaid
  <1>2. ASSUME NEW a \in DOMAIN memory, a - start \notin DOMAIN file
        PROVE  a \in DOMAIN Overlaid(file, start) /\ Overlaid(file, start)[a] = memory[a]
    BY <1>2 DEF Overlaid
  <1> QED  BY <1>1, <1>2

LEMMA ReadCodeLoads ==
  ASSUME IInv, LoadedInv, ReadCode
  PROVE  LoadedInv'
  <1>1. /\ phase = "read_code" /\ phase' = "read_data" /\ code_file' = code_file
        /\ data_file' = data_file /\ insns' = insns /\ fields' = fields
    BY DEF ReadCode, parserVars
  <1>2. PICK w, file :
          /\ file = [k \in 0 .. 4 * Len(insns) + 3 |->
                       IF k \in DOMAIN code_file THEN code_file[k] ELSE WordByte(w, k % 4)]
          /\ memory' = Overlaid(file, CODE_SEGMENT_START)
    BY DEF ReadCode
  <1>3. DOMAIN code_file = CodeBytes /\ Len(insns) \in Nat /\ CODE_SEGMENT_START \in Int
    BY <1>1, LenProperties, ToolchainAssumption DEF LoadedInv, IInv, ProgramInv
  <1>4. ASSUME NEW k \in CodeBytes
        PROVE  /\ CODE_SEGMENT_START + k \in DOMAIN memory'
               /\ memory'[CODE_SEGMENT_START + k] = code_file[k]
    <2>1. k \in 0 .. 4 * Len(insns) + 3 /\ k \in Int
      BY <1>3 DEF CodeBytes
    <2>2. k \in DOMAIN file /\ file[k] = code_file[k]
      BY <1>2, <1>3, <2>1
    <2> QED  BY <1>2, <1>3, <2>1, <2>2, OverlaidAt
  <1>5. CodeBytes' = CodeBytes /\ DataBytes' = DataBytes
    BY <1>1 DEF CodeBytes, DataBytes
  <1> QED  BY <1>1, <1>4, <1>5 DEF LoadedInv

LEMMA ReadDataLoads ==
  ASSUME IInv, LoadedInv, ReadData
  PROVE  LoadedInv'
  <1>1. /\ phase = "read_data" /\ phase' = "loaded" /\ code_file' = code_file
        /\ data_file' = data_file /\ insns' = insns /\ fields' = fields
        /\ memory' = Overlaid(data_file, DATA_SEGMENT_START)
    BY DEF ReadData, parserVars
  <1>2. /\ DOMAIN data_file = DataBytes /\ DataBytes \subseteq Int /\ DATA_SEGMENT_START \in Int
        /\ CodeBytes \subseteq Int /\ CODE_SEGMENT_START \in Int
    BY <1>1, LenProperties, ToolchainAssumption
       DEF LoadedInv, IInv, ProgramInv, DataBytes, CodeBytes
  <1>3. ASSUME NEW k \in DataBytes
        PROVE  /\ DATA_SEGMENT_START + k \in DOMAIN memory'
               /\ memory'[DATA_SEGMENT_START + k] = data_file[k]
    BY <1>1, <1>2, OverlaidAt
  <1>4. ASSUME NEW k \in CodeBytes, NEW a, a = CODE_SEGMENT_START + k,
               a - DATA_SEGMENT_START \notin DataBytes
        PROVE  a \in DOMAIN memory' /\ memory'[a] = code_file[k]
    <2>1. a \in DOMAIN memory /\ memory[a] = code_file[k]
      BY <1>1, <1>4 DEF LoadedInv
    <2> QED  BY <1>1, <1>2, <1>4, <2>1, OverlaidAt
  <1>5. CodeBytes' = CodeBytes /\ DataBytes' = DataBytes
    BY <1>1 DEF CodeBytes, DataBytes
  <1> QED  BY <1>1, <1>3, <1>4, <1>5 DEF LoadedInv

LEMMA WritersLoad ==
  ASSUME LoadedInv, WriteCode \/ WriteData
  PROVE  LoadedInv'
  <1>1. insns' = insns /\ fields' = fields
    BY DEF WriteCode, WriteData, parserVars
  <1>2. CodeBytes' = CodeBytes /\ DataBytes' = DataBytes
    BY <1>1 DEF CodeBytes, DataBytes
  <1>3. CASE WriteCode
    BY <1>1, <1>2, <1>3 DEF WriteCode, LoadedInv, CodeBytes
  <1>4. CASE WriteData
    BY <1>1, <1>2, <1>4 DEF WriteData, LoadedInv, DataBytes
  <1> QED  BY <1>3, <1>4

-----------------------------------------------------------------------------
(* Together. *)

LEMMA InitText == Init => TextInv
  <1> SUFFICES ASSUME Init PROVE TextInv
    OBVIOUS
  <1>1. /\ text = <<>> /\ data_mode = FALSE /\ lastSeenLabel = "" /\ objects = <<>>
        /\ fields = <<>> /\ insns = <<>> /\ phase = "parse" /\ regnames = InitialRegnames
    BY DEF Init
  <1>2. DOMAIN <<>> = {} /\ Len(<<>>) = 0
    OBVIOUS
  <1>3. DOMAIN text = {} /\ DOMAIN insns = {} /\ DOMAIN objects = {} /\ Len(fields) = 0 /\ Len(text) = 0
    BY <1>1, <1>2
  <1>4. InsnLines = {} /\ FieldLines = {}
    BY <1>3 DEF InsnLines, FieldLines
  <1>5. LineInv
    <2>1. ~InData(Len(text) + 1)
      BY <1>3 DEF InData
    <2> QED  BY <1>1, <1>3, <1>4, <2>1 DEF LineInv
  <1>6. NamesKept
    BY <1>1 DEF NamesKept, InitialRegnames
  <1>7. EntryInv /\ LabelInv
    BY <1>1, <1>3 DEF EntryInv, LabelInv
  <1>8. DataInv
    BY <1>3, <1>4, FS_EmptySet DEF DataInv
  <1>9. LinkedInv /\ LoadedInv
    BY <1>1 DEF LinkedInv, Linked, LoadedInv
  <1> QED  BY <1>5, <1>6, <1>7, <1>8, <1>9 DEF TextInv, ParseInv

LEMMA NextText == IInv /\ TextInv /\ [Next]_vars => TextInv'
  <1> SUFFICES ASSUME IInv, TextInv, [Next]_vars PROVE TextInv'
    OBVIOUS
  <1>1. CASE Parse
    <2>1. phase = "parse" /\ phase' \in {"parse", "terminated"}
      BY <1>1 DEF Parse, Directive, DataLabel, DataField, UnhandledDataLine, CodeLabel,
                  UncheckedInsn, CheckedInsn, MemoryInsn, CodeLine, ReadLine
    <2>2. phase' = "terminated" \/ ParseInv'
      BY <1>1, <2>1, ParseInvKept DEF TextInv
    <2>3. phase' = "terminated" \/ (LinkedInv' /\ LoadedInv')
      BY <2>1 DEF LinkedInv, Linked, LoadedInv
    <2> QED  BY <2>2, <2>3 DEF TextInv
  <1>2. CASE EndOfFile
    <2>1. phase = "parse" /\ phase' = "link_objs" /\ UNCHANGED parserVars
      BY <1>2 DEF EndOfFile
    <2>2. ParseInv'
      BY <2>1, OutputKeeps DEF TextInv
    <2> QED  BY <2>1, <2>2 DEF TextInv, LinkedInv, Linked, LoadedInv
  <1>3. CASE LinkObjs
    <2>1. phase = "link_objs" /\ phase' = "link_insns"
      BY <1>3 DEF LinkObjs
    <2>2. ParseInv' /\ LinkedInv'
      BY <1>3, <2>1, LinkObjsKeeps DEF TextInv, LinkedInv, Linked
    <2> QED  BY <2>1, <2>2 DEF TextInv, LoadedInv
  <1>4. CASE LinkInsns
    <2>1. phase = "link_insns" /\ phase' = "write_code"
      BY <1>4 DEF LinkInsns
    <2>2. ParseInv' /\ LinkedInv'
      BY <1>4, <2>1, LinkInsnsKeeps, LinkInsnsLinks DEF TextInv
    <2> QED  BY <2>1, <2>2 DEF TextInv, LoadedInv
  <1>5. CASE WriteCode \/ WriteData \/ ReadCode \/ ReadData
    <2>1. /\ phase \notin {"parse", "link_objs", "link_insns", "terminated"} /\ phase' # "parse"
          /\ UNCHANGED <<parserVars, unresolved>>
      BY <1>5 DEF WriteCode, WriteData, ReadCode, ReadData
    <2>2. ParseInv' /\ LinkedInv'
      BY <2>1, OutputKeeps, LinkedSame DEF TextInv
    <2>3. LoadedInv'
      BY <1>5, <2>1, WritersLoad, ReadCodeLoads, ReadDataLoads DEF TextInv
    <2> QED  BY <2>2, <2>3 DEF TextInv
  <1>6. CASE UNCHANGED vars
    <2>1. UNCHANGED <<parserVars, unresolved, phase, outputVars>>
      BY <1>6 DEF vars
    <2>2. CASE phase = "terminated"
      BY <2>1, <2>2 DEF TextInv
    <2>3. CASE phase # "terminated"
      <3>1. ParseInv'
        BY <2>1, <2>3, OutputKeeps DEF TextInv
      <3>2. LinkedInv'
        <4>1. CASE phase \in {"parse", "link_objs"}
          BY <2>1, <4>1 DEF LinkedInv, Linked
        <4>2. CASE phase = "link_insns"
          <5>1. \A j \in DOMAIN objects : objects[j].address = object_address(j)
            BY <2>3, <4>2 DEF TextInv, LinkedInv
          <5>2. \A j \in DOMAIN objects' : objects'[j].address = object_address(j)'
            BY <2>1, <5>1 DEF parserVars, object_address
          <5>3. phase' = "link_insns"
            BY <2>1, <4>2
          <5> QED  BY <5>2, <5>3 DEF LinkedInv, Linked
        <4>3. CASE phase \notin {"parse", "link_objs", "link_insns"}
          BY <2>1, <2>3, <4>3, LinkedSame DEF TextInv
        <4> QED  BY <4>1, <4>2, <4>3
      <3>3. LoadedInv'
        <4>1. CodeBytes' = CodeBytes /\ DataBytes' = DataBytes
          BY <2>1 DEF CodeBytes, DataBytes, parserVars
        <4> QED  BY <2>1, <2>3, <4>1 DEF TextInv, LoadedInv, parserVars, outputVars
      <3> QED  BY <3>1, <3>2, <3>3 DEF TextInv
    <2> QED  BY <2>2, <2>3
  <1> QED  BY <1>1, <1>2, <1>3, <1>4, <1>5, <1>6 DEF Next

LEMMA TextInvHolds == Spec => [](IInv /\ TextInv)
  <1>1. Init => IInv /\ TextInv
    BY InitInv, InitText
  <1>2. IInv /\ TextInv /\ [Next]_vars => (IInv /\ TextInv)'
    BY NextInv, NextText
  <1> QED  BY <1>1, <1>2, PTL DEF Spec

-----------------------------------------------------------------------------
(***************************************************************************)
(* Every line of the code becomes an instruction, in its order, or is      *)
(* reported.                                                               *)
(***************************************************************************)
THEOREM EveryLineIsAnswered == Spec => []EveryLineAnswered
  <1>1. TextInv => EveryLineAnswered
    BY DEF TextInv, ParseInv, LineInv, EveryLineAnswered
  <1> QED  BY <1>1, TextInvHolds, PTL

LEMMA InsnOfLine ==
  ASSUME IInv, ParseInv, NEW n, n \in InsnLines
  PROVE  \E m \in DOMAIN insns : insns[m].line = n
  BY DEF ParseInv, LineInv

(***************************************************************************)
(* A symbol that no line defines is reported.                              *)
(***************************************************************************)
THEOREM UndefinedIsReported == Spec => []UndefinedReported
  <1>1. IInv /\ TextInv => UndefinedReported
    <2> SUFFICES ASSUME IInv, TextInv, Linked, NEW n, n \in InsnLines, NEW s, s = Symbol(text[n].toks),
                        Named(s), Definitions(s) = {}, ~isRegister(s)
                 PROVE  n \in unresolved
      BY DEF UndefinedReported, Named
    <2>0. ParseInv /\ LinkedInv
      BY DEF TextInv, Linked
    <2>1. PICK m \in DOMAIN insns : insns[m].line = n
      BY <2>0, InsnOfLine
    <2>2. insns[m].symbol = s
      <3>1. ComesFrom(insns[m].insn, insns[m].symbol, text[n].toks)
        BY <2>0, <2>1 DEF ParseInv, EntryInv
      <3> QED  BY <3>1 DEF ComesFrom, isRegister, Named
    <2>3. \A d \in DOMAIN text : text[d].label # s
      BY DEF Definitions
    <2>4. find_data(s) = {}
      <3>1. ASSUME NEW j \in DOMAIN objects, objects[j].name = s PROVE FALSE
        <4>1. Declared(s, objects[j].before)
          BY <2>0, <3>1 DEF ParseInv, DataInv
        <4> QED  BY <2>3, <4>1 DEF Declared
      <3> QED  BY <3>1 DEF find_data, Last
    <2>5. find_insn(s) = {}
      <3>1. ASSUME NEW k \in DOMAIN insns, insns[k].label = s PROVE FALSE
        <4>1. Labelled(s, insns[k].line)
          BY <2>0, <3>1 DEF ParseInv, LabelInv, Named
        <4> QED  BY <2>3, <4>1 DEF Labelled
      <3> QED  BY <3>1 DEF find_insn, Last
    <2>6. Found(insns[m]) = {}
      BY <2>2, <2>4, <2>5 DEF Found
    <2>7. unresolved = Unresolved
      BY <2>0 DEF LinkedInv
    <2> QED  BY <2>1, <2>2, <2>6, <2>7 DEF Unresolved, Named
  <1> QED  BY <1>1, TextInvHolds, PTL

\* A set of entries that is not empty has a last one.
LEMMA LastExists ==
  ASSUME NEW N \in Nat, NEW S, S \subseteq 1 .. N, S # {}
  PROVE  Last(S) # {}
  <1> DEFINE back == {N - n : n \in S}
  <1>0. \A n \in S : n \in Int /\ N - n \in Nat
    OBVIOUS
  <1>1. back \subseteq Nat /\ back # {}
    BY <1>0
  <1> HIDE DEF back
  <1>2. PICK b \in back : \A c \in back : ~(c < b)
    <2>1. PICK b \in back : \A c \in back : <<c, b>> \notin OpToRel(<, Nat)
      BY <1>1, NatLessThanWellFounded, WFMin
    <2> QED  BY <1>1, <2>1 DEF OpToRel
  <1>3. PICK n \in S : b = N - n
    BY DEF back
  <1>4. ASSUME NEW m \in S PROVE m <= n
    <2>1. N - m \in back
      BY DEF back
    <2>2. ~(N - m < N - n)
      BY <1>2, <1>3, <2>1
    <2> QED  BY <1>0, <2>2
  <1> QED  BY <1>3, <1>4 DEF Last

(***************************************************************************)
(* A code label that is not found has another label, or nothing, between   *)
(* it and every instruction behind it.                                     *)
(***************************************************************************)
THEOREM CodeLabelsResolve == Spec => []LabelsResolve
  <1>1. IInv /\ TextInv => LabelsResolve
    <2> SUFFICES ASSUME IInv, TextInv, Linked, NEW n, n \in unresolved, NEW t, t = text[n].toks,
                        NEW d, d \in CodeLabels(Symbol(t)), t[1] \notin DOMAIN LoadAddrOpcode
                 PROVE  \A m \in InsnLines : d < m => \E k \in d + 1 .. m - 1 : text[k].label # ""
      <3>1. \A d, m : d < m <=> m > d
        OBVIOUS
      <3> QED  BY <3>1 DEF LabelsResolve
    <2>0. ParseInv /\ LinkedInv
      BY DEF TextInv, Linked
    <2>1. PICK m \in DOMAIN insns : /\ n = insns[m].line /\ Named(insns[m].symbol)
                                    /\ Found(insns[m]) = {}
      BY <2>0 DEF LinkedInv, Unresolved, Named
    <2>2. ComesFrom(insns[m].insn, insns[m].symbol, t)
      BY <2>0, <2>1 DEF ParseInv, EntryInv
    <2>3. PICK s : s = Symbol(t)
      OBVIOUS
    <2>4. insns[m].symbol = s /\ insns[m].insn.op \notin Const24
      BY <2>1, <2>2, <2>3 DEF ComesFrom, Named
    <2>5. find_insn(s) = {}
      BY <2>1, <2>4 DEF Found
    <2>6. \A k \in DOMAIN insns : insns[k].label # s
      <3>1. PICK S : S = {k \in DOMAIN insns : insns[k].label = s /\ s # ""}
        OBVIOUS
      <3>2. Last(S) = {}
        BY <2>5, <3>1 DEF find_insn
      <3>3. Len(insns) \in Nat /\ DOMAIN insns = 1 .. Len(insns)
        BY LenProperties DEF IInv, ProgramInv
      <3>4. S = {}
        BY <3>1, <3>2, <3>3, LastExists
      <3> QED  BY <2>1, <2>4, <3>1, <3>4 DEF Named
    <2>7. d \in DOMAIN text /\ text[d].label = s
      BY <2>3 DEF CodeLabels, Definitions
    <2>8. NotTaken(d)
      BY <2>0, <2>1, <2>4, <2>6, <2>7 DEF ParseInv, LabelInv, Named
    <2> QED  BY <2>8 DEF NotTaken
  <1> QED  BY <1>1, TextInvHolds, PTL

(***************************************************************************)
(* The values of the data lines are in the data segment, in their order.   *)
(***************************************************************************)
THEOREM DataIsLoaded == Spec => []DataMeansText
  <1>1. IInv /\ TextInv => DataMeansText
    <2> SUFFICES ASSUME IInv, TextInv, phase = "loaded", NEW n, n \in FieldLines, NEW k \in 0 .. 7
                 PROVE  /\ DataAddress(n) + k \in DOMAIN memory
                        /\ memory[DataAddress(n) + k] = LongByte(Number[text[n].toks[2]], k)
      BY DEF DataMeansText
    <2>0. DataInv /\ LoadedInv
      BY DEF TextInv, ParseInv
    <2>1. PICK j : j = Cardinality(Before(FieldLines, n))
      OBVIOUS
    <2>2. FieldLines \subseteq 1 .. Len(text) /\ Len(text) \in Nat
      BY LenProperties DEF FieldLines, IInv, ProgramInv
    <2>3. j \in Nat /\ j + 1 <= Len(fields) /\ Len(fields) \in Nat
      BY <2>0, <2>1, <2>2, LinesAreFinite, Rank, LenProperties DEF DataInv, IInv, ProgramInv
    <2>4. fields[j + 1] = Number[text[n].toks[2]]
      BY <2>0, <2>1 DEF DataInv
    <2>5. PICK b \in Int : b = 8 * j + k
      BY <2>3
    <2>6. b \in 0 .. 8 * Len(fields) - 1 /\ b \div 8 = j /\ b % 8 = k
      BY <2>3, <2>5, SMT
    <2>7. b \in DataBytes
      BY <2>6 DEF DataBytes
    <2>8. /\ DATA_SEGMENT_START + b \in DOMAIN memory
          /\ memory[DATA_SEGMENT_START + b] = LongByte(fields[(b \div 8) + 1], b % 8)
      BY <2>0, <2>7 DEF LoadedInv
    <2>9. DataAddress(n) + k = DATA_SEGMENT_START + b
      <3>1. DataAddress(n) = DATA_SEGMENT_START + 8 * j
        BY <2>1 DEF DataAddress, Before
      <3> QED  BY <2>3, <2>5, <3>1, ToolchainAssumption
    <2> QED  BY <2>4, <2>6, <2>8, <2>9
  <1> QED  BY <1>1, TextInvHolds, PTL

-----------------------------------------------------------------------------
(* The instruction lines are where their instructions are. *)

\* The n-th of some numbers in their order has n - 1 before it.
LEMMA RankOfLine ==
  ASSUME NEW L \in Nat, NEW f, f \in [1 .. L -> Int],
         \A m, n \in 1 .. L : m < n => f[m] < f[n], NEW S, S = {f[m] : m \in 1 .. L},
         NEW p \in 1 .. L
  PROVE  Cardinality(Before(S, f[p])) = p - 1
  <1> DEFINE T == Before(S, f[p])
             g == [m \in 1 .. p - 1 |-> f[m]]
  <1>1. \A m \in 1 .. p - 1 : m \in 1 .. L /\ m < p
    OBVIOUS
  <1>2. \A m, n \in 1 .. L : m < n \/ n < m \/ m = n
    OBVIOUS
  <1>3. \A m \in 1 .. L : f[m] < f[p] => m \in 1 .. p - 1
    <2>1. ASSUME NEW m \in 1 .. L, f[m] < f[p], ~(m < p) PROVE FALSE
      <3>1. f[p] < f[m] \/ f[p] = f[m]
        BY <1>2, <2>1
      <3>2. f[p] \in Int /\ f[m] \in Int
        OBVIOUS
      <3> QED  BY <2>1, <3>1, <3>2
    <2>2. \A m \in 1 .. L : m < p => m \in 1 .. p - 1
      OBVIOUS
    <2> QED  BY <2>1, <2>2
  <1>4. g \in Bijection(1 .. p - 1, T)
    <2>1. \A m \in 1 .. p - 1 : f[m] \in S /\ f[m] < f[p]
      BY <1>1
    <2>2. g \in [1 .. p - 1 -> T]
      BY <2>1 DEF Before
    <2>3. \A m, n \in 1 .. p - 1 : g[m] = g[n] => m = n
      <3>1. ASSUME NEW m \in 1 .. p - 1, NEW n \in 1 .. p - 1, f[m] = f[n], m # n PROVE FALSE
        <4>1. f[m] < f[n] \/ f[n] < f[m]
          BY <1>1, <1>2, <3>1
        <4>2. f[m] \in Int /\ f[n] \in Int
          BY <1>1
        <4> QED  BY <3>1, <4>1, <4>2
      <3> QED  BY <3>1
    <2>4. \A x \in T : \E m \in 1 .. p - 1 : g[m] = x
      <3>1. \A x \in T : \E m \in 1 .. L : x = f[m] /\ f[m] < f[p]
        BY DEF Before
      <3> QED  BY <1>3, <3>1
    <2> QED  BY <2>2, <2>3, <2>4 DEF Bijection, Injection, Surjection, IsInjective
  <1>5. IsFiniteSet(1 .. p - 1) /\ Cardinality(1 .. p - 1) = p - 1
    <2>1. p - 1 \in Int /\ ~(1 > p - 1 /\ p - 1 # 0) /\ 1 \in Int
      OBVIOUS
    <2>2. Cardinality(1 .. p - 1) = IF 1 > p - 1 THEN 0 ELSE (p - 1) - 1 + 1
      BY <2>1, FS_Interval
    <2> QED  BY <2>1, <2>2, FS_Interval
  <1>6. ExistsBijection(1 .. p - 1, T)
    BY <1>4 DEF ExistsBijection
  <1> QED  BY <1>5, <1>6, FS_Bijection

LEMMA CodeAddressOfInsn ==
  ASSUME IInv, LineInv, NEW p \in DOMAIN insns
  PROVE  /\ Cardinality(Before(InsnLines, insns[p].line)) = p - 1
         /\ CodeAddress(insns[p].line) = insn_address(p)
         /\ p \in 1 .. Len(insns) /\ Len(insns) \in Nat
  <1>1. Len(insns) \in Nat /\ DOMAIN insns = 1 .. Len(insns) /\ insns \in Seq(Entry)
    BY LenProperties DEF IInv, ProgramInv
  <1>2. PICK L, f, S : /\ L = Len(insns) /\ f = [m \in 1 .. Len(insns) |-> insns[m].line]
                       /\ S = {f[m] : m \in 1 .. L}
    OBVIOUS
  <1>3. f \in [1 .. L -> Int]
    <2>1. ASSUME NEW m \in 1 .. Len(insns) PROVE insns[m].line \in Int
      <3>1. insns[m] \in Entry
        BY <1>1
      <3>2. insns[m].line \in Nat
        BY <3>1 DEF Entry
      <3> QED  BY <3>2
    <2> QED  BY <1>2, <2>1
  <1>4. \A m, n \in 1 .. L : m < n => f[m] < f[n]
    BY <1>1, <1>2 DEF LineInv
  <1>5. S = InsnLines
    BY <1>1, <1>2 DEF LineInv
  <1>6. L \in Nat /\ p \in 1 .. L
    BY <1>1, <1>2
  <1>7. Cardinality(Before(S, f[p])) = p - 1
    <2>1. S = {f[m] : m \in 1 .. L}
      BY <1>2
    <2> QED  BY <1>3, <1>4, <1>6, <2>1, RankOfLine
  <1>8. Cardinality(Before(InsnLines, insns[p].line)) = p - 1
    BY <1>1, <1>2, <1>5, <1>7
  <1>9. CodeAddress(insns[p].line) = insn_address(p)
    BY <1>8 DEF CodeAddress, Before, insn_address
  <1> QED  BY <1>1, <1>8, <1>9

LEMMA ByteOfWord ==
  ASSUME NEW L \in Nat, NEW p \in 1 .. L, NEW b \in 0 .. 3, NEW start \in Int
  PROVE  \E k \in 0 .. 4 * L - 1 : /\ k \div 4 = p - 1 /\ k % 4 = b
                                   /\ start + k = start + 4 * (p - 1) + b
  <1>1. PICK k \in Int : k = 4 * (p - 1) + b
    OBVIOUS
  <1>2. k \in 0 .. 4 * L - 1 /\ k \div 4 = p - 1 /\ k % 4 = b
    BY <1>1, SMT
  <1>3. start + k = start + 4 * (p - 1) + b
    BY <1>1
  <1> QED  BY <1>2, <1>3

\* What the loader has put where line n is, if no data is there.
AllLoaded == phase = "loaded"

LEMMA LoadedCode ==
  ASSUME LoadedInv, AllLoaded, NEW k \in CodeBytes, NEW a, a = CODE_SEGMENT_START + k,
         a - DATA_SEGMENT_START \notin DataBytes
  PROVE  a \in DOMAIN memory /\ memory[a] = code_file[k]
  BY DEF LoadedInv, AllLoaded

LEMMA WordInMemory ==
  ASSUME IInv, TextInv, AllLoaded, NEW p \in DOMAIN insns, NEW n, n = insns[p].line,
         StaysInMemory(n)
  PROVE  WordAt(CodeAddress(n)) = Encoded(insns[p].insn)
  <1>0. LineInv /\ DataInv /\ LoadedInv
    BY DEF TextInv, ParseInv, AllLoaded
  <1>1. /\ CodeAddress(n) = CODE_SEGMENT_START + 4 * (p - 1)
        /\ p \in 1 .. Len(insns) /\ Len(insns) \in Nat
    BY <1>0, CodeAddressOfInsn DEF insn_address
  <1>2. /\ CODE_SEGMENT_START \in Int /\ DATA_SEGMENT_START \in Int
        /\ Cardinality(FieldLines) = Len(fields) /\ Len(fields) \in Nat
    BY <1>0, ToolchainAssumption, LenProperties DEF DataInv, IInv, ProgramInv
  <1>3. PICK A \in Int : A = CODE_SEGMENT_START + 4 * (p - 1)
    BY <1>1, <1>2
  <1>4. A + 4 <= DATA_SEGMENT_START \/ A >= DATA_SEGMENT_START + 8 * Len(fields)
    BY <1>1, <1>2, <1>3 DEF StaysInMemory
  <1>5. PICK w \in Word : w = Encoded(insns[p].insn)
    <2>1. insns[p] \in Entry
      BY DEF IInv, ProgramInv
    <2>2. insns[p].insn \in Instruction
      BY <2>1 DEF Entry
    <2> QED  BY <2>2, EncodedIsWord
  <1>6. ASSUME NEW b \in 0 .. 3
        PROVE  A + b \in DOMAIN memory /\ memory[A + b] = WordByte(w, b)
    <2>1. PICK k \in 0 .. 4 * Len(insns) - 1 :
            /\ k \div 4 = p - 1 /\ k % 4 = b
            /\ CODE_SEGMENT_START + k = CODE_SEGMENT_START + 4 * (p - 1) + b
      BY <1>1, <1>2, ByteOfWord
    <2>2. PICK a : a = CODE_SEGMENT_START + k
      OBVIOUS
    <2>3. a = A + b /\ a \in Int
      BY <1>2, <1>3, <2>1, <2>2
    <2>4. (k \div 4) + 1 = p
      BY <1>1, <2>1
    <2>5. k \in CodeBytes
      BY DEF CodeBytes
    <2>6. a - DATA_SEGMENT_START \notin DataBytes
      <3>1. ~(0 <= a - DATA_SEGMENT_START /\ a - DATA_SEGMENT_START <= 8 * Len(fields) - 1)
        BY <1>2, <1>4, <2>3
      <3> QED  BY <3>1 DEF DataBytes
    <2>7. code_file[k] = WordByte(w, b)
      BY <1>0, <1>5, <2>1, <2>4, <2>5 DEF LoadedInv, AllLoaded
    <2>8. a \in DOMAIN memory /\ memory[a] = code_file[k]
      BY <1>0, <2>2, <2>5, <2>6, LoadedCode
    <2> QED  BY <2>3, <2>7, <2>8
  <1>7. /\ A \in DOMAIN memory /\ memory[A] = w.b0
        /\ A + 1 \in DOMAIN memory /\ memory[A + 1] = w.b1
        /\ A + 2 \in DOMAIN memory /\ memory[A + 2] = w.b2
        /\ A + 3 \in DOMAIN memory /\ memory[A + 3] = w.b3
    <2>1. A + 0 = A
      BY <1>1, <1>2, <1>3
    <2>2. WordByte(w, 0) = w.b0 /\ WordByte(w, 1) = w.b1 /\ WordByte(w, 2) = w.b2 /\ WordByte(w, 3) = w.b3
      BY DEF WordByte
    <2>3. 0 \in 0 .. 3 /\ 1 \in 0 .. 3 /\ 2 \in 0 .. 3 /\ 3 \in 0 .. 3
      OBVIOUS
    <2> QED  BY <1>6, <2>1, <2>2, <2>3
  <1>8. WordAt(A) = [b0 |-> w.b0, b1 |-> w.b1, b2 |-> w.b2, b3 |-> w.b3]
    BY <1>7 DEF WordAt
  <1>9. w = [b0 |-> w.b0, b1 |-> w.b1, b2 |-> w.b2, b3 |-> w.b3]
    BY DEF Word
  <1> QED  BY <1>1, <1>3, <1>5, <1>8, <1>9

\* A word is read back as the instruction that it encodes.
LEMMA WordReadBack ==
  ASSUME NEW r \in Instruction, Representable(r.op, r.imm), NEW w, w = getEncodedInstruction(r)
  PROVE  Decodable(w) /\ Decoded(w) = r
  <1>1. Decoded(w) = r
    BY WordsKeepInstructions DEF SurvivesExactly
  <1>2. r.op \in Opcode
    BY DEF Instruction
  <1>3. w.b0 = OpcodeNumber[r.op]
    BY DEF getEncodedInstruction, WordOf
  <1> QED  BY <1>1, <1>2, <1>3 DEF Decodable

\* What the word of an instruction keeps of its address.
LEMMA PartOfAddress ==
  ASSUME NEW A \in Nat
  PROVE  /\ Byte0(A % 16777216) = Byte0(A) /\ Byte1(A % 16777216) = Byte1(A)
         /\ Byte2(A % 16777216) = Byte2(A)
  <1>1. PICK q, m : q = A \div 16777216 /\ m = A % 16777216
    OBVIOUS
  <1>2. q \in Nat /\ m \in Nat /\ m < 16777216 /\ A = 16777216 * q + m
    BY <1>1, SMT
  <1>3. m % 256 = A % 256
    BY <1>2, SMT
  <1>4. (m \div 256) % 256 = (A \div 256) % 256
    <2>1. A \div 256 = 65536 * q + (m \div 256)
      BY <1>2, SMT
    <2>2. m \div 256 \in Nat
      BY <1>2, SMT
    <2> QED  BY <1>2, <2>1, <2>2, SMT
  <1>5. (m \div 65536) % 256 = (A \div 65536) % 256
    <2>1. A \div 65536 = 256 * q + (m \div 65536)
      BY <1>2, SMT
    <2>2. m \div 65536 \in Nat
      BY <1>2, SMT
    <2> QED  BY <1>2, <2>1, <2>2, SMT
  <1> QED  BY <1>1, <1>3, <1>4, <1>5 DEF Byte0, Byte1, Byte2

-----------------------------------------------------------------------------
(* What the linker gives a symbol that one line defines. *)

LEMMA SymbolFound ==
  ASSUME LinkedInv, Linked, NEW p \in DOMAIN insns, insns[p].line \notin unresolved,
         Named(insns[p].symbol)
  PROVE  \E k \in Found(insns[p]) :
           insns[p].insn.imm = IF insns[p].insn.op \in Const24 THEN objects[k].address
                               ELSE insn_address(k) - insn_address(p)
  <1>1. Found(insns[p]) # {}
    BY DEF LinkedInv, Unresolved, Named
  <1> QED  BY <1>1 DEF LinkedInv, Named

LEMMA CodeSymbol ==
  ASSUME IInv, ParseInv, LinkedInv, Linked, NEW p \in DOMAIN insns,
         insns[p].line \notin unresolved, NEW s, s = insns[p].symbol, Named(s),
         NEW d, Definitions(s) = {d}, insns[p].insn.op \notin Const24
  PROVE  insns[p].insn.imm = CodeAddress(d) - CodeAddress(insns[p].line)
  <1>0. LineInv /\ LabelInv
    BY DEF ParseInv
  <1>1. PICK k \in Found(insns[p]) : insns[p].insn.imm = insn_address(k) - insn_address(p)
    BY SymbolFound
  <1>2. k \in DOMAIN insns /\ insns[k].label = s
    BY <1>1 DEF Found, find_insn, Last
  <1>3. PICK line : line = insns[k].line
    OBVIOUS
  <1>4. d < line /\ NoneBetween(d, line) /\ d \in DOMAIN text /\ text[d].label = s
    <2>1. Labelled(s, line)
      BY <1>0, <1>2, <1>3 DEF LabelInv, Named
    <2>2. PICK e \in DOMAIN text : text[e].label = s /\ e < line /\ NoneBetween(e, line)
      BY <2>1 DEF Labelled
    <2>3. e = d
      BY <2>2 DEF Definitions
    <2> QED  BY <2>2, <2>3
  <1>5. d \notin InsnLines /\ InsnLines \subseteq Int /\ d \in Int /\ line \in Int
    <2>1. DOMAIN text = 1 .. Len(text) /\ Len(text) \in Nat
      BY LenProperties DEF IInv, ProgramInv
    <2>2. d \notin InsnLines /\ InsnLines \subseteq DOMAIN text
      BY <1>4 DEF InsnLines, IsTokens, Named
    <2>3. line \in InsnLines
      BY <1>0, <1>2, <1>3 DEF LineInv
    <2> QED  BY <1>4, <2>1, <2>2, <2>3
  <1>6. Before(InsnLines, d) = Before(InsnLines, line)
    <2>1. \A m \in InsnLines : m < d => m < line
      BY <1>4, <1>5
    <2>2. \A m \in InsnLines : m < line => m < d
      <3>1. ASSUME NEW m \in InsnLines, m < line, ~(m < d) PROVE FALSE
        <4>1. ~(d < m) /\ m # d
          BY <1>4, <1>5, <3>1 DEF NoneBetween
        <4> QED  BY <1>5, <3>1, <4>1
      <3> QED  BY <3>1
    <2> QED  BY <2>1, <2>2 DEF Before
  <1>7. CodeAddress(d) = insn_address(k)
    <2>1. Cardinality(Before(InsnLines, d)) = k - 1
      BY <1>0, <1>2, <1>3, <1>6, CodeAddressOfInsn
    <2> QED  BY <2>1 DEF CodeAddress, Before, insn_address
  <1>8. CodeAddress(insns[p].line) = insn_address(p)
    BY <1>0, CodeAddressOfInsn
  <1> QED  BY <1>1, <1>7, <1>8

LEMMA DataSymbol ==
  ASSUME IInv, ParseInv, LinkedInv, Linked, NEW p \in DOMAIN insns,
         insns[p].line \notin unresolved, NEW s, s = insns[p].symbol, Named(s),
         NEW d, Definitions(s) = {d}, insns[p].insn.op \in Const24
  PROVE  insns[p].insn.imm = DataAddress(d)
  <1>1. PICK k \in Found(insns[p]) : insns[p].insn.imm = objects[k].address
    BY SymbolFound
  <1>2. k \in DOMAIN objects /\ objects[k].name = s
    BY <1>1 DEF Found, find_data, Last
  <1>3. objects[k].address = DATA_SEGMENT_START + 8 * objects[k].before
    BY <1>2 DEF LinkedInv, Linked, object_address
  <1>4. PICK b : b = objects[k].before
    OBVIOUS
  <1>5. b = Cardinality(Before(FieldLines, d))
    <2>1. Declared(s, b)
      BY <1>2, <1>4 DEF ParseInv, DataInv
    <2>2. PICK e \in DOMAIN text : text[e].label = s /\ b = Cardinality(Before(FieldLines, e))
      BY <2>1 DEF Declared
    <2>3. e = d
      BY <2>2 DEF Definitions
    <2> QED  BY <2>2, <2>3
  <1> QED  BY <1>1, <1>3, <1>4, <1>5 DEF DataAddress, Before

LEMMA Addresses ==
  ASSUME IInv, NEW d
  PROVE  CodeAddress(d) \in Int /\ DataAddress(d) \in Nat
  <1>1. Len(text) \in Nat /\ DOMAIN text = 1 .. Len(text)
    BY LenProperties DEF IInv, ProgramInv
  <1>2. InsnLines \subseteq 1 .. Len(text) /\ FieldLines \subseteq 1 .. Len(text)
    BY <1>1 DEF InsnLines, FieldLines
  <1>3. /\ Cardinality(Before(InsnLines, d)) \in Nat
        /\ Cardinality(Before(FieldLines, d)) \in Nat
    BY <1>1, <1>2, LinesAreFinite
  <1> QED  BY <1>3, ToolchainAssumption DEF CodeAddress, DataAddress, Before

-----------------------------------------------------------------------------
(* An instruction with its distance or address is encoded as the line means. *)

\* The parts of an address are those that the three loadaddress lines mean.
LEMMA AddressWord ==
  ASSUME NEW i \in Instruction, NEW t, t[1] \in DOMAIN LoadAddrOpcode,
         NEW A \in Nat, i.imm = A,
         NEW r \in Instruction, r = ReadingOfLoadAddress(t, A),
         NEW v, r = [i EXCEPT !.imm = v]
  PROVE  Encoded(i) = getEncodedInstruction(r)
  <1>1. r.op = LoadAddrOpcode[t[1]] /\ r.imm = v /\ i.op = r.op /\ r.op \in Imm24
    <2>1. r.op = LoadAddrOpcode[t[1]]
      BY DEF ReadingOfLoadAddress, Insn
    <2>2. r.imm = v /\ i.op = r.op
      BY DEF Instruction
    <2>3. LoadAddrOpcode[t[1]] \in Imm24
      BY DEF LoadAddrOpcode, Imm24, Const24
    <2> QED  BY <2>1, <2>2, <2>3
  <1>2. PICK B : B = A \div 16777216
    OBVIOUS
  <1>3. B \in Nat
    BY <1>2, SMT
  <1>4. ASSUME NEW C \in Nat, NEW j \in Instruction, j = [i EXCEPT !.imm = C],
               r.imm = C % 16777216
        PROVE  getEncodedInstruction(j) = getEncodedInstruction(r)
    <2>1. getEncodedInstruction(j) = WordOf(r.op, Byte0(C), Byte1(C), Byte2(C))
      BY <1>1, <1>4 DEF getEncodedInstruction, Instruction
    <2>2. getEncodedInstruction(r) = WordOf(r.op, Byte0(r.imm), Byte1(r.imm), Byte2(r.imm))
      BY <1>1 DEF getEncodedInstruction
    <2> QED  BY <1>4, <2>1, <2>2, PartOfAddress
  <1>5. CASE t[1] = "loadaddress_lo"
    <2>1. i.op = "MOVE_R0_CONST24A" /\ r.imm = A % 16777216
      BY <1>1, <1>5 DEF LoadAddrOpcode, ReadingOfLoadAddress, Insn
    <2>2. AddressPart(i) = i /\ i = [i EXCEPT !.imm = A]
      BY <2>1 DEF AddressPart, Instruction
    <2> QED  BY <1>4, <2>1, <2>2 DEF Encoded
  <1>6. CASE t[1] = "loadaddress_mid"
    <2>1. i.op = "MOVE_R0_CONST24B" /\ r.imm = B % 16777216
      BY <1>1, <1>2, <1>6 DEF LoadAddrOpcode, ReadingOfLoadAddress, Insn
    <2>2. AddressPart(i) = [i EXCEPT !.imm = B] /\ AddressPart(i) \in Instruction
      BY <1>2, <1>3, <2>1 DEF AddressPart, Instruction
    <2> QED  BY <1>3, <1>4, <2>1, <2>2 DEF Encoded
  <1>7. CASE t[1] = "loadaddress_hi"
    <2>1. i.op = "MOVE_R0_CONST24C" /\ v = (A \div 16777216) \div 16777216
      BY <1>1, <1>7 DEF LoadAddrOpcode, ReadingOfLoadAddress, Insn
    <2>2. AddressPart(i) = [i EXCEPT !.imm = v]
      BY <2>1 DEF AddressPart
    <2> QED  BY <2>2 DEF Encoded
  <1> QED  BY <1>5, <1>6, <1>7 DEF LoadAddrOpcode

\* What it is to be the instruction of a line.
LEMMA ReadingParts ==
  ASSUME NEW i, NEW s, NEW t, IsReadingOf(i, s, t)
  PROVE  /\ s = Symbol(t)
         /\ i.op \in Const24 <=> t[1] \in DOMAIN LoadAddrOpcode
  BY Zenon DEF IsReadingOf

LEMMA MeantWord ==
  ASSUME NEW i, i \in Instruction, NEW s, NEW t, IsReadingOf(i, s, t),
         NEW distance \in Int, NEW address \in Nat,
         NEW r, r = Reading(t, distance, address), Representable(r.op, r.imm),
         t[1] \in DOMAIN LoadAddrOpcode => Named(s),
         Named(s) => i.imm = IF t[1] \in DOMAIN LoadAddrOpcode THEN address ELSE distance
  PROVE  r \in Instruction /\ Encoded(i) = getEncodedInstruction(r)
  <1>1. /\ r \in Instruction
        /\ ~Named(s) => r = i
        /\ Named(s) => r = [i EXCEPT !.imm = IF t[1] \in DOMAIN LoadAddrOpcode
                                               THEN ReadingOfLoadAddress(t, address).imm
                                               ELSE distance]
        /\ i.op \in Const24 <=> t[1] \in DOMAIN LoadAddrOpcode
    <2>1. address \in Int /\ distance \in Int
      OBVIOUS
    <2>2. i.op \in Const24 <=> t[1] \in DOMAIN LoadAddrOpcode
      BY ReadingParts
    <2>3. /\ Reading(t, distance, address) \in Instruction
          /\ IF s = "" THEN Representable(Reading(t, distance, address).op,
                                          Reading(t, distance, address).imm)
                              => Reading(t, distance, address) = i
             ELSE Reading(t, distance, address) =
                    [i EXCEPT !.imm = IF t[1] \in DOMAIN LoadAddrOpcode
                                        THEN ReadingOfLoadAddress(t, address).imm
                                        ELSE distance]
      BY <2>1, Zenon DEF IsReadingOf
    <2>4. r \in Instruction
      BY <2>3
    <2>5. s = "" => r = i
      BY <2>3, Zenon
    <2>6. s # "" => r = [i EXCEPT !.imm = IF t[1] \in DOMAIN LoadAddrOpcode
                                           THEN ReadingOfLoadAddress(t, address).imm
                                           ELSE distance]
      BY <2>3, Zenon
    <2> QED  BY <2>2, <2>4, <2>5, <2>6, Zenon DEF Named
  <1>2. CASE t[1] \notin DOMAIN LoadAddrOpcode
    <2>1. r = i
      BY <1>1, <1>2 DEF Instruction
    <2>2. AddressPart(i) = i
      BY <1>1, <1>2 DEF AddressPart, Const24
    <2> QED  BY <1>1, <2>1, <2>2 DEF Encoded
  <1>3. CASE t[1] \in DOMAIN LoadAddrOpcode
    <2>1. PICK v : v = ReadingOfLoadAddress(t, address).imm
      OBVIOUS
    <2>2. r = [i EXCEPT !.imm = v]
      BY <1>1, <1>3, <2>1
    <2>3. t[1] \notin DOMAIN JumpOpcode
      BY <1>3 DEF LoadAddrOpcode, JumpOpcode
    <2>4. r = ReadingOfLoadAddress(t, address)
      BY <1>3, <2>3 DEF Reading
    <2>5. i.imm = address
      BY <1>3
    <2>6. Encoded(i) = getEncodedInstruction(r)
      BY <1>1, <1>3, <2>2, <2>4, <2>5, AddressWord
    <2> QED  BY <1>1, <2>6
  <1> QED  BY <1>2, <1>3

(***************************************************************************)
(* Whatever the file holds, an instruction that was not reported is in     *)
(* memory where the text puts it, and the decode stage reads it as the     *)
(* text means it.                                                          *)
(***************************************************************************)
THEOREM CodeIsLoaded == Spec => []CodeMeansText
  <1>1. IInv /\ TextInv => CodeMeansText
    <2> SUFFICES ASSUME IInv, TextInv, AllLoaded,
                        NEW n, n \in InsnLines, n \notin unresolved, StaysInMemory(n), ~Misnamed(n),
                        NEW d, d \in MeaningLines(n),
                        Representable(Meaning(n, d).op, Meaning(n, d).imm)
                 PROVE  ReadAsMeant(n, d)
      BY DEF CodeMeansText, AllLoaded
    <2>0. ParseInv /\ LinkedInv /\ LineInv /\ EntryInv /\ Linked
      BY DEF TextInv, ParseInv, Linked, AllLoaded
    <2>1. PICK p \in DOMAIN insns : insns[p].line = n
      BY <2>0, InsnOfLine
    <2>2. PICK i, s, t, l : /\ i = insns[p].insn /\ s = insns[p].symbol
                            /\ t = text[n].toks /\ l = text[n]
      OBVIOUS
    <2>3. i \in Instruction
      <3>1. insns[p] \in Entry
        BY DEF IInv, ProgramInv
      <3> QED  BY <2>2, <3>1 DEF Entry
    <2>4. IsReadingOf(i, s, t) /\ s = Symbol(t)
      <3>1. ComesFrom(i, s, t)
        BY <2>0, <2>1, <2>2 DEF EntryInv
      <3>2. WellNamed(t)
        BY <2>2 DEF Misnamed, WellNamed
      <3> QED  BY <3>1, <3>2, ReadingParts DEF ComesFrom
    <2>5. t[1] \in DOMAIN LoadAddrOpcode => Named(s)
      <3>1. l \in Lines /\ IsTokens(l) /\ l.toks = t
        BY <2>2 DEF InsnLines, IInv, ProgramInv
      <3>2. t[1] \in DOMAIN LoadAddrOpcode => Symbol(t) = t[3] /\ TokensRead(t[1]) = 3
        BY SymbolOf, TokenCounts
      <3> QED  BY <2>4, <3>1, <3>2, SecondAndThird DEF Named
    <2>6. PICK distance, address : /\ distance = CodeAddress(d) - CodeAddress(n)
                                   /\ address = DataAddress(d)
      OBVIOUS
    <2>7. distance \in Int /\ address \in Nat
      BY <2>6, Addresses
    <2>8. Named(s) => i.imm = IF t[1] \in DOMAIN LoadAddrOpcode THEN address ELSE distance
      <3> SUFFICES ASSUME Named(s)
                   PROVE  i.imm = IF t[1] \in DOMAIN LoadAddrOpcode THEN address ELSE distance
        OBVIOUS
      <3>1. d \in SymbolLines(t)
        BY <2>2, <2>4 DEF MeaningLines, Named
      <3>2. Definitions(s) = {d}
        <4>1. Cardinality(Definitions(s)) = 1 /\ d \in Definitions(s)
          BY <2>4, <3>1 DEF SymbolLines, DataLabels, CodeLabels
        <4>2. IsFiniteSet(Definitions(s))
          <5>1. Definitions(s) \subseteq 1 .. Len(text) /\ Len(text) \in Nat
            BY LenProperties DEF Definitions, IInv, ProgramInv
          <5> QED  BY <5>1, LinesAreFinite
        <4>3. \E x : Definitions(s) = {x}
          BY <4>1, <4>2, FS_Singleton
        <4> QED  BY <4>1, <4>3
      <3>3. CASE t[1] \in DOMAIN LoadAddrOpcode
        <4>1. insns[p].insn.op \in Const24
          BY <2>2, <2>4, <3>3, ReadingParts
        <4> QED  BY <2>0, <2>1, <2>2, <2>6, <3>2, <3>3, <4>1, DataSymbol
      <3>4. CASE t[1] \notin DOMAIN LoadAddrOpcode
        <4>1. insns[p].insn.op \notin Const24
          BY <2>2, <2>4, <3>4, ReadingParts
        <4> QED  BY <2>0, <2>1, <2>2, <2>6, <3>2, <3>4, <4>1, CodeSymbol
      <3> QED  BY <3>3, <3>4
    <2>9. PICK r : r = Reading(t, distance, address)
      OBVIOUS
    <2>10. r = Meaning(n, d) /\ Representable(r.op, r.imm)
      BY <2>2, <2>6, <2>9 DEF Meaning
    <2>11. r \in Instruction /\ Encoded(i) = getEncodedInstruction(r)
      BY <2>3, <2>4, <2>5, <2>7, <2>8, <2>9, <2>10, MeantWord
    <2>12. WordAt(CodeAddress(n)) = Encoded(i)
      BY <2>1, <2>2, WordInMemory
    <2>13. Decodable(Encoded(i)) /\ Decoded(Encoded(i)) = r
      BY <2>10, <2>11, WordReadBack
    <2> QED  BY <2>10, <2>12, <2>13 DEF ReadAsMeant
  <1> QED  BY <1>1, TextInvHolds, PTL
=============================================================================
