---------------------------- MODULE SimtIsaProofs ----------------------------
(***************************************************************************)
(* The pipeline, driven in lockstep, implements the instruction set.       *)
(*                                                                         *)
(* What is in flight is a chain: behind every instruction that does not    *)
(* change the control flow comes the next one of the program, up to the    *)
(* place the fetch stage is at (InOrder).  Each packet carries what its    *)
(* instruction gives on the registers as they are now (FetchedRight,       *)
(* Fresh), because no older instruction in flight writes an operand of a   *)
(* younger one that was decoded.  So when the store stage is done with the *)
(* oldest one, it has done a step of the instruction set.                  *)
(*                                                                         *)
(* The scoreboard alone does not make operands fresh: a register is marked *)
(* when its writer leaves the execute stage, so the decode stage must not  *)
(* look before.  The rounds see to that (RoundOrder), whatever order       *)
(* the components are registered in.                                       *)
(***************************************************************************)
EXTENDS SimtLockstep, SimtGroupsProofs, SimtScoreboardProofs

-----------------------------------------------------------------------------
(* Fetching. *)

\* A line of two instructions is the one of the code at an address.
LineOf(line, address) ==
  line[0] = InsnAt(prog, address) /\ line[1] = InsnAt(prog, address + 1)

FetchAddress == get_address_to_fetch_from_PC(fetch_PC)

\* Wherever a line or an instruction is on its way to the decode stage, it is
\* the one at the program counter it is for.
FetchedRight ==
  /\ LineOf(insn_data_cached, address_cached)
  /\ insn_request # None => insn_request = FetchAddress
  /\ insn_response # None => LineOf(insn_response, FetchAddress)
  /\ fetch_at = "response" => LineOf(response, FetchAddress)
  /\ fetch_at = "filled" => address_cached = FetchAddress
  /\ fetch_at \in {"selected", "sending"} => insn = InsnAt(prog, fetch_PC)
  /\ fetch_decode # None => fetch_decode.insn = InsnAt(prog, fetch_decode.PC)
  /\ decode_at = "switch" => decode_pkt.insn = InsnAt(prog, decode_pkt.PC)

-----------------------------------------------------------------------------
(* What a packet carries. *)

InsnOf(p) == InsnAt(prog, p.PC)

\* The decode stage's translation of an instruction, on the present registers.
DecodedRight(p) ==
  LET i == InsnOf(p)
  IN /\ i.op # "NOP"
     /\ p.opcode = ExecuteOpcode(i.op) /\ p.regID = DestReg(i)
     /\ p.value0 = Value0(i) /\ p.value1 = Value1(i, p.PC) /\ p.value2 = Value2(i)
     /\ p.offset = i.imm
     /\ p.wanted = IF i.op \in CondJumps THEN CondJumpFlags[i.op] ELSE {}

ToRegister == MovesToReg \union MovesToR0 \union Arithmetic \union {"CMP_REG_REG"}

Target(i) == IF i.op = "CMP_REG_REG" THEN REG_FLAGS ELSE DestReg(i)

\* The result of an instruction that needs no memory, on the present registers.
ResultOf(i, pc) ==
  LET R == regs.value
      K == create_vec(i.imm)
  IN CASE i.op = "MOVE_REG_BLOCK_INDEX"   -> create_vec_incrementing_values
       [] i.op = "MOVE_REG_REG"           -> R[i.r2]
       [] i.op = "MOVE_REG_CONST16"       -> K
       [] i.op = "MOVE_PCREL_REG_CONST16" -> create_vec(i.imm + pc)
       [] i.op = "MOVE_R0_CONST24A"       -> K
       [] i.op = "MOVE_R0_CONST24B"       -> or_shift_left(R[REG_R0], K, ORB_SHIFT)
       [] i.op = "MOVE_R0_CONST24C"       -> or_shift_left(R[REG_R0], K, ORC_SHIFT)
       [] i.op = "ADD_REG_REG_REG"        -> add(R[i.r2], R[i.r3])
       [] i.op = "ADD_REG_REG_CONST"      -> add(R[i.r2], K)
       [] i.op = "L_SSHIFT_REG_REG_CONST" -> shift_left(R[i.r2], K)
       [] i.op = "CMP_REG_REG"            -> compare_vecs(R[i.r1], R[i.r2])

\* The lanes of a packet's group that take its conditional jump.
Taken(p) ==
  get_cmp_mask(p.exec_mask, regs.value[REG_FLAGS], CondJumpFlags[InsnOf(p).op])

CondJumpRight(p) ==
  LET next   == p.PC + 1
      target == p.PC + InsnOf(p).imm
  IN \/ /\ Taken(p) = {}
        /\ p.opcode = "STORAGE_JMP" /\ p.dest_address = next
     \/ /\ Taken(p) # {} /\ Taken(p) = p.exec_mask
        /\ p.opcode = "STORAGE_JMP" /\ p.dest_address = target
     \/ /\ Taken(p) # {} /\ Taken(p) # p.exec_mask
        /\ p.opcode = "STORAGE_CJMP" /\ p.dest_address = target /\ p.src_address = next
        /\ p.execution_flags_true = Taken(p)
        /\ p.execution_flags_false = p.exec_mask \ Taken(p)

\* The execute stage's translation of it.
ExecutedRight(p) ==
  LET i == InsnOf(p)
      R == regs.value
      K == create_vec(i.imm)
  IN /\ i.op # "NOP"
     /\ i.op \in ToRegister =>
          /\ p.opcode = "STORAGE_STORE_VALUE_INTO_REG" /\ ~p.is_store_to_pc
          /\ p.dest_reg = Target(i) /\ p.src_value = ResultOf(i, p.PC)
     /\ i.op = "LOAD_REG_CONST_REG" =>
          /\ p.opcode = "STORAGE_LOAD_MEM_INTO_REG" /\ ~p.is_store_to_pc
          /\ p.dest_reg = i.r1 /\ p.src_value = add(K, R[i.r2])
     /\ i.op = "LOAD_RESTORE_PC" =>
          /\ p.opcode = "STORAGE_LOAD_MEM_INTO_REG" /\ p.is_store_to_pc
          /\ p.dest_reg = REG_PC /\ p.src_value = add(K, R[i.r1])
     /\ i.op = "STORE_REG_CONST_REG" =>
          /\ p.opcode = "STORAGE_STORE_REG_INTO_MEM" /\ ~p.is_store_to_pc
          /\ p.dest_value = add(K, R[i.r2]) /\ p.src_value = R[i.r1]
     /\ i.op = "JMP_ALWAYS" =>
          p.opcode = "STORAGE_JMP" /\ p.dest_address = p.PC + i.imm
     /\ i.op \in CondJumps => CondJumpRight(p)
     /\ i.op = "HALT" => p.opcode = "STORAGE_HALT"

\* The registers an instruction reads before it is executed, and until it is.
Reads(i) == Operands(i) \union (IF i.op \in CondJumps THEN {REG_FLAGS} ELSE {})

\* Every decoded instruction in flight carries what it gives on the registers as
\* they are, and no older one in flight writes what it reads.
DecodedFresh ==
  /\ decode_execute # None =>
       /\ execute_at = "top"
       /\ DecodedRight(decode_execute)
       /\ \A r \in Operands(InsnOf(decode_execute)) : PendingWrites(r) = 0
  /\ execute_at = "switch" =>
       /\ DecodedRight(execute_pkt)
       /\ \A r \in Operands(InsnOf(execute_pkt)) : PendingWrites(r) = 0

ExecutedFresh ==
  /\ execute_store # None =>
       /\ ExecutedRight(execute_store)
       /\ \A r \in Reads(InsnOf(execute_store)) : store_at # "top" => ~WritesReg(store_pkt, r)
  /\ store_at # "top" => ExecutedRight(store_pkt)

Fresh == DecodedFresh /\ ExecutedFresh

-----------------------------------------------------------------------------
(* The order of the program. *)

\* A thread group that stands at a packet, and right behind it.
At(p)     == Place(p.PC, p.exec_mask)
Behind(p) == Place(p.PC + 1, p.exec_mask)

\* The running group as seen from the fetch stage, and from each place further
\* down: where the oldest instruction is that has not got past it.
ToFetch   == IF store_fetch # None THEN Place(store_fetch.newpc, store_fetch.exec_mask)
             ELSE IF fetch_at = "redirect"
                  THEN Place(jmp_retarget.newpc, jmp_retarget.exec_mask)
                  ELSE Place(fetch_PC, exec_mask)
ToDecode  == IF fetch_decode # None THEN At(fetch_decode) ELSE ToFetch
InDecode  == IF decode_at = "switch" THEN At(decode_pkt) ELSE ToDecode
ToExecute == IF decode_execute # None THEN At(decode_execute) ELSE InDecode
InExecute == IF execute_at = "switch" THEN At(execute_pkt) ELSE ToExecute
ToStore   == IF execute_store # None THEN At(execute_store) ELSE InExecute
InStore   == IF store_at # "top" THEN At(store_pkt) ELSE ToStore

FallsThrough(p) == ~changesControlFlow(InsnOf(p).op)

\* Behind every instruction in flight that is no jump comes the next one.
InOrder ==
  /\ fetch_decode # None /\ FallsThrough(fetch_decode) => ToFetch = Behind(fetch_decode)
  /\ decode_at = "switch" /\ FallsThrough(decode_pkt) => ToDecode = Behind(decode_pkt)
  /\ decode_execute # None /\ FallsThrough(decode_execute) => InDecode = Behind(decode_execute)
  /\ execute_at = "switch" /\ FallsThrough(execute_pkt) => ToExecute = Behind(execute_pkt)
  /\ execute_store # None /\ FallsThrough(execute_store) => InExecute = Behind(execute_store)
  /\ store_at # "top" /\ FallsThrough(store_pkt) => ToStore = Behind(store_pkt)

-----------------------------------------------------------------------------
(* Loads and rounds. *)

WordsAt(address) ==
  [t \in Threads |-> IF address[t] \in Addr THEN mem[address[t]] ELSE 0]

\* A load that waits has everything before it in memory when it is answered.
LoadRight ==
  /\ IsRead(vec_request) => vec_request.address = store_pkt.src_value
  /\ IsRead(vec_accepted) =>
       vec_accepted.address = store_pkt.src_value /\ vec_request = None
  /\ vec_response # None =>
       /\ vec_response.payload = WordsAt(store_pkt.src_value)
       /\ vec_request = None /\ vec_accepted = None
  /\ store_at = "loaded" =>
       /\ loaded = WordsAt(store_pkt.src_value)
       /\ vec_request = None /\ vec_accepted = None

Position(c) == CHOOSE k \in DOMAIN Order : Order[k] = c

\* On the way round from a turn, the execute stage comes before the decode stage.
ExecuteFirst(now) ==
  LET d == Position("decode")
      e == Position("execute")
  IN \/ now <= e /\ e < d
     \/ e < d /\ d < now
     \/ d < now /\ now <= e

RoundOrder ==
  /\ turn \in 1 .. Len(Order)
  /\ decode_at = "switch" /\ execute_at = "switch" => ExecuteFirst(turn)

IsaInv == FetchedRight /\ Fresh /\ InOrder /\ LoadRight /\ RoundOrder

-----------------------------------------------------------------------------
(***************************************************************************)
(* The program.                                                            *)
(***************************************************************************)
ProgramInv == DOMAIN prog \subseteq Nat /\ ~ReadsPc(prog)

LEMMA ProgramKept == [Next]_vars => prog' = prog
  <1> USE DEF vars
  <1>1. FetchStage => prog' = prog
    BY DEF FetchStage, FetchNext, FetchAwaitRedirect, FetchReceiveRedirect, FetchRetarget,
           FetchRetargeted, FetchLineArrives, FetchFillLine, FetchSelect, FetchSend, NotFetch
  <1>2. DecodeStage => prog' = prog
    BY DEF DecodeStage, DecodeReceive, DecodeNop, DecodeSend, NotDecode
  <1>3. ExecuteStage => prog' = prog
    BY DEF ExecuteStage, ExecuteReceive, ExecuteWriteRegister, ExecuteLoad, ExecuteStore,
           ExecuteRestorePc, ExecuteCondJmp, ExecuteJmp, ExecuteHalt, NotExecute
  <1>4. StoreStage => prog' = prog
    BY DEF StoreStage, StoreReceive, StoreValueIntoReg, StoreRegIntoMem, StoreSendRead,
           StoreAcceptResponse, StoreLoaded, StoreJmp, StoreCjmp, StoreHalt, StoreResume,
           NotStore
  <1>5. Memory => prog' = prog
    BY DEF Memory, InsnMemoryRespond, VecMemoryAccept, VecMemoryFinish, VecMemoryRead,
           VecMemoryWrite
  <1> QED  BY <1>1, <1>2, <1>3, <1>4, <1>5 DEF Next

\* From an instruction that does something no NOP is passed; from a NOP the same
\* ones as from its successor.
LEMMA NopsPassed ==
  ASSUME DOMAIN prog \subseteq Nat, NEW pc \in Int
  PROVE  /\ InsnAt(prog, pc).op # "NOP" => AfterNops(prog, pc) = pc
         /\ InsnAt(prog, pc).op = "NOP" => AfterNops(prog, pc) = AfterNops(prog, pc + 1)
  <1> DEFINE Real(n) == {q \in DOMAIN prog : q >= n /\ prog[q].op # "NOP"}
  <1>1. \A n : AfterNops(prog, n) = IF Real(n) = {} THEN -1
                                    ELSE CHOOSE q \in Real(n) : \A r \in Real(n) : q <= r
    BY DEF AfterNops
  <1>2. ASSUME InsnAt(prog, pc).op # "NOP"
        PROVE  AfterNops(prog, pc) = pc
    <2>1. pc \in Real(pc) /\ \A r \in Real(pc) : pc <= r
      BY <1>2 DEF InsnAt, ZeroInsn
    <2>2. \A q \in Real(pc) : (\A r \in Real(pc) : q <= r) => q = pc
      <3> SUFFICES ASSUME NEW q \in Real(pc), \A r \in Real(pc) : q <= r PROVE q = pc
        OBVIOUS
      <3>1. q \in Nat /\ q <= pc /\ pc <= q
        BY <2>1
      <3> QED  BY <3>1
    <2> HIDE DEF Real
    <2> QED  BY <1>1, <2>1, <2>2
  <1>3. ASSUME InsnAt(prog, pc).op = "NOP"
        PROVE  AfterNops(prog, pc) = AfterNops(prog, pc + 1)
    <2>1. \A q \in DOMAIN prog : prog[q].op # "NOP" => q # pc
      BY <1>3 DEF InsnAt
    <2>2. \A q \in DOMAIN prog : prog[q].op # "NOP" => (q >= pc <=> q >= pc + 1)
      BY <2>1
    <2>3. Real(pc) = Real(pc + 1)
      BY <2>2
    <2> HIDE DEF Real
    <2> QED  BY <1>1, <2>3
  <1> QED  BY <1>2, <1>3

-----------------------------------------------------------------------------
(***************************************************************************)
(* Fetching.                                                               *)
(***************************************************************************)
\* Reading the line buffer gives the instruction at the program counter.
LEMMA SelectRight ==
  ASSUME TypeInv, FetchedRight, SelectInsn, fetch_PC \in {address_cached, address_cached + 1}
  PROVE  insn' = InsnAt(prog, fetch_PC)
  BY DEF TypeInv, TypeOK, FetchedRight, LineOf, SelectInsn

LEMMA LineHoldsPc ==
  ASSUME TypeInv
  PROVE  FetchAddress \in Int /\ fetch_PC \in {FetchAddress, FetchAddress + 1}
  <1>1. fetch_PC \in Int
    BY DEF TypeInv, TypeOK
  <1>2. fetch_PC % 2 \in {0, 1}
    BY <1>1
  <1> QED  BY <1>1, <1>2 DEF FetchAddress, get_address_to_fetch_from_PC

\* The memory answers with the line of the address it was asked for.
LEMMA LineAnswered ==
  ASSUME TypeInv, FetchedRight, InsnMemoryRespond
  PROVE  LineOf(insn_response', FetchAddress)
  <1>1. insn_request = FetchAddress /\ FetchAddress \in Int
    BY LineHoldsPc DEF InsnMemoryRespond, FetchedRight
  <1>2. insn_response' = [half \in {0, 1} |-> InsnAt(prog, FetchAddress + half)]
    BY <1>1 DEF InsnMemoryRespond
  <1>3. FetchAddress + 0 = FetchAddress
    BY <1>1
  <1> QED  BY <1>2, <1>3 DEF LineOf

LEMMA InitFetchedRight == Init => FetchedRight
  <1> SUFFICES ASSUME Init PROVE FetchedRight
    OBVIOUS
  <1>1. DOMAIN prog \subseteq Nat
    BY CodeIsAddressable DEF Init, MemoryInit
  <1>2. InsnAt(prog, -2) = ZeroInsn /\ InsnAt(prog, -2 + 1) = ZeroInsn
    BY <1>1 DEF InsnAt
  <1> QED  BY <1>2 DEF Init, MemoryInit, FetchedRight, LineOf

LEMMA FetchFetchedRight ==
  ASSUME TypeInv, ControlInv, FetchedRight, FetchStage
  PROVE  FetchedRight'
  <1>0. prog' = prog /\ UNCHANGED decodeVars
    BY DEF FetchStage, FetchNext, FetchAwaitRedirect, FetchReceiveRedirect, FetchRetarget,
           FetchRetargeted, FetchLineArrives, FetchFillLine, FetchSelect, FetchSend, NotFetch
  <1>a. fetch_at # "await_line" => insn_request = None /\ insn_response = None
    BY AtMostOneRead
  <1>b. FetchAddress \in Int /\ fetch_PC \in {FetchAddress, FetchAddress + 1}
    BY LineHoldsPc
  <1> USE <1>0, <1>a DEF FetchedRight, LineOf, FetchAddress, decodeVars, insnBus
  <1>1. CASE FetchNext \/ FetchRetargeted
    <2>1. TestCacheAddress /\ insn_request = None /\ insn_response = None
      BY <1>1 DEF FetchNext, FetchRetargeted
    <2>2. UNCHANGED <<fetch_PC, address_cached, insn_data_cached, fetch_decode>>
      BY <2>1 DEF TestCacheAddress
    <2>3. CASE fetch_PC \in {address_cached, address_cached + 1}
      BY <2>1, <2>2, <2>3, SelectRight DEF TestCacheAddress
    <2>4. CASE fetch_PC \notin {address_cached, address_cached + 1}
      BY <2>1, <2>2, <2>4 DEF TestCacheAddress, GetResponse
    <2> QED  BY <2>3, <2>4
  <1>2. CASE FetchAwaitRedirect \/ FetchReceiveRedirect
    BY <1>2 DEF FetchAwaitRedirect, FetchReceiveRedirect
  <1>3. CASE FetchRetarget
    BY <1>3 DEF FetchRetarget
  <1>4. CASE FetchLineArrives
    BY <1>4 DEF FetchLineArrives, GetResponse
  <1>5. CASE FetchFillLine
    BY <1>5 DEF FetchFillLine
  <1>6. CASE FetchSelect
    BY <1>b, <1>6, SelectRight DEF FetchSelect
  <1>7. CASE FetchSend
    BY <1>7 DEF FetchSend
  <1> QED
    BY <1>1, <1>2, <1>3, <1>4, <1>5, <1>6, <1>7 DEF FetchStage

LEMMA StepFetchedRight ==
  ASSUME TypeInv, ControlInv, FetchedRight, [Next]_vars
  PROVE  FetchedRight'
  <1>0. prog' = prog
    BY ProgramKept
  <1> USE <1>0 DEF FetchedRight, LineOf, FetchAddress, fetchVars, decodeVars, insnBus
  <1>1. CASE DecodeStage
    BY <1>1 DEF DecodeStage, DecodeReceive, DecodeNop, DecodeSend, NotDecode
  <1>2. CASE ExecuteStage
    BY <1>2
    DEF ExecuteStage, ExecuteReceive, ExecuteWriteRegister, ExecuteLoad, ExecuteStore,
        ExecuteRestorePc, ExecuteCondJmp, ExecuteJmp, ExecuteHalt, NotExecute
  <1>3. CASE StoreStage
    BY <1>3
    DEF StoreStage, StoreReceive, StoreValueIntoReg, StoreRegIntoMem, StoreSendRead,
        StoreAcceptResponse, StoreLoaded, StoreJmp, StoreCjmp, StoreHalt, StoreResume, NotStore
  <1>4. CASE Memory
    <2>1. UNCHANGED <<fetchVars, decodeVars, fetch_decode>>
      BY <1>4 DEF Memory, NotMemory
    <2>2. CASE InsnMemoryRespond
      <3>1. LineOf(insn_response', FetchAddress) /\ insn_request' = None
        BY <2>2, LineAnswered DEF InsnMemoryRespond
      <3> QED  BY <2>1, <3>1
    <2>3. CASE VecMemoryAccept \/ VecMemoryFinish
      BY <2>1, <2>3 DEF VecMemoryAccept, VecMemoryFinish, VecMemoryRead, VecMemoryWrite
    <2> QED  BY <1>4, <2>2, <2>3 DEF Memory
  <1>5. CASE UNCHANGED vars
    BY <1>5 DEF vars
  <1> QED  BY <1>1, <1>2, <1>3, <1>4, <1>5, FetchFetchedRight DEF Next

-----------------------------------------------------------------------------
(***************************************************************************)
(* The order of the program.                                               *)
(***************************************************************************)
LEMMA InitInOrder == Init => InOrder
  BY DEF Init, InOrder

\* The redirect is all there is in flight, and while it is not awaited there is none.
LEMMA NoRedirectUnawaited ==
  ASSUME TypeInv, ControlInv
  PROVE  /\ ~AwaitsRedirect => store_fetch = None
         /\ store_fetch # None => fetch_at # "redirect"
  <1>1. regs.hasHalted \in BOOLEAN
    BY DEF TypeInv, TypeOK, RegisterSet
  <1> QED
    BY <1>1 DEF ControlInv, OneRedirectPerJump, ControlInFlight, One, AwaitsRedirect

\* What the fetch stage sends is where it stood, and it moves to the one behind.
LEMMA FetchInOrder ==
  ASSUME TypeInv, ControlInv, FetchedRight, InOrder, FetchStage
  PROVE  InOrder' /\ InStore' = InStore
  <1>1. /\ ToDecode' = ToDecode
        /\ fetch_decode' # None /\ FallsThrough(fetch_decode)' => ToFetch' = Behind(fetch_decode)'
    <2>0. prog' = prog
      BY ProgramKept DEF Next
    <2>1. CASE FetchSend /\ fetch_decode = None
      <3>1. /\ fetch_at # "redirect" /\ store_fetch = None
            /\ fetch_at' = "top" /\ store_fetch' = None /\ exec_mask' = exec_mask
        BY <2>1, NoRedirectUnawaited DEF FetchSend, AwaitsRedirect
      <3>2. /\ fetch_decode' = [exec_mask |-> exec_mask, PC |-> fetch_PC, insn |-> insn]
            /\ fetch_PC' = fetch_PC + 1
        BY <2>1 DEF FetchSend
      <3>3. /\ fetch_decode' \in FetchToDecodeBusPacket
        BY <3>2 DEF FetchToDecodeBusPacket, TypeInv, TypeOK
      <3>4. fetch_decode' # None /\ fetch_decode'.PC = fetch_PC /\ fetch_decode'.exec_mask = exec_mask
        BY <3>2, <3>3, NoneIsNoPacket
      <3> QED
        BY <2>0, <2>1, <3>1, <3>2, <3>4 DEF ToDecode, ToFetch, At, Behind, Place
    <2>2. CASE FetchSend /\ fetch_decode # None
      <3>1. /\ UNCHANGED <<fetch_decode, fetch_PC, store_fetch, exec_mask, jmp_retarget>>
            /\ fetch_at # "redirect" /\ fetch_at' # "redirect"
        BY <2>2 DEF FetchSend
      <3> QED
        BY <2>0, <3>1 DEF ToDecode, ToFetch, At, Behind, Place, InOrder, FallsThrough, InsnOf
    <2>3. CASE FetchReceiveRedirect
      <3>1. fetch_at # "redirect"
        BY <2>3 DEF FetchReceiveRedirect
      <3> QED
        BY <2>0, <2>3, <3>1
        DEF FetchReceiveRedirect, ToDecode, ToFetch, At, Behind, Place, InOrder, FallsThrough, InsnOf
    <2>4. CASE FetchRetarget
      <3>1. store_fetch = None
        BY <2>4, NoRedirectUnawaited DEF FetchRetarget, AwaitsRedirect
      <3> QED
        BY <2>0, <2>4, <3>1
        DEF FetchRetarget, ToDecode, ToFetch, At, Behind, Place, InOrder, FallsThrough, InsnOf
    <2>5. CASE ~FetchSend /\ ~FetchReceiveRedirect /\ ~FetchRetarget
      <3>1. /\ UNCHANGED <<fetch_decode, fetch_PC, store_fetch, exec_mask, jmp_retarget>>
            /\ fetch_at # "redirect" /\ fetch_at' # "redirect"
        BY <2>5
        DEF FetchStage, FetchNext, FetchAwaitRedirect, FetchRetargeted, FetchLineArrives,
            FetchFillLine, FetchSelect, TestCacheAddress, GetResponse
      <3> QED
        BY <2>0, <3>1 DEF ToDecode, ToFetch, At, Behind, Place, InOrder, FallsThrough, InsnOf
    <2> QED  BY <2>1, <2>2, <2>3, <2>4, <2>5
  <1>2. UNCHANGED <<prog, decodeVars, decode_execute, executeVars, execute_store, storeVars>>
    BY DEF FetchStage, FetchNext, FetchAwaitRedirect, FetchReceiveRedirect, FetchRetarget,
           FetchRetargeted, FetchLineArrives, FetchFillLine, FetchSelect, FetchSend, NotFetch
  <1> HIDE DEF ToDecode
  <1> QED
    BY <1>1, <1>2
    DEF InOrder, InStore, ToStore, InExecute, ToExecute, InDecode, At, Place, Behind, Place, FallsThrough,
        InsnOf, decodeVars, executeVars, storeVars

\* A NOP is as good as the instruction behind it.
LEMMA DecodeInOrder ==
  ASSUME TypeInv, ControlInv, FetchedRight, ProgramInv, InOrder, DecodeStage
  PROVE  InOrder' /\ InStore' = InStore
  <1>0. /\ UNCHANGED <<prog, fetchVars, store_fetch, executeVars, execute_store, storeVars>>
        /\ ToFetch' = ToFetch
    BY DEF DecodeStage, DecodeReceive, DecodeNop, DecodeSend, NotDecode, fetchVars, ToFetch, Place
  <1> HIDE DEF ToFetch
  <1>1. CASE DecodeReceive
    <2>1. /\ fetch_decode # None /\ fetch_decode' = None /\ decode_pkt' = fetch_decode
          /\ decode_at = "top" /\ decode_at' = "switch" /\ decode_execute' = decode_execute
      BY <1>1 DEF DecodeReceive
    <2> QED
      BY <1>0, <2>1
      DEF InOrder, InStore, ToStore, InExecute, ToExecute, InDecode, ToDecode, At, Behind, Place,
          FallsThrough, InsnOf, executeVars, storeVars
  <1>2. CASE DecodeNop
    <2>1. /\ decode_at = "switch" /\ decode_at' = "top"
          /\ UNCHANGED <<decode_pkt, fetch_decode, decode_execute>>
          /\ InsnOf(decode_pkt).op = "NOP"
      BY <1>2 DEF DecodeNop, FetchedRight, InsnOf
    <2>2. FallsThrough(decode_pkt)
      BY <2>1 DEF FallsThrough, changesControlFlow, ControlFlow, CondJumps, CondJumpFlags
    <2>3. decode_pkt.PC \in Int
      BY <2>1 DEF TypeInv, TypeOK, SlotsFilled, Slot, FetchToDecodeBusPacket
    <2>4. At(decode_pkt) = Behind(decode_pkt)
      BY <2>1, <2>3, NopsPassed DEF At, Behind, Place, InsnOf, ProgramInv
    <2>5. InDecode' = InDecode /\ ToDecode' = ToDecode
      BY <1>0, <2>1, <2>2, <2>4 DEF InOrder, InDecode, ToDecode, At, Place
    <2> HIDE DEF InDecode, ToDecode
    <2> QED
      BY <1>0, <2>1, <2>5
      DEF InOrder, InStore, ToStore, InExecute, ToExecute, At, Behind, Place,
          FallsThrough, InsnOf, executeVars, storeVars
  <1>3. CASE DecodeSend
    <2>1. /\ decode_at = "switch" /\ decode_at' = "top" /\ decode_execute = None
          /\ UNCHANGED <<decode_pkt, fetch_decode>>
      BY <1>3 DEF DecodeSend, ControlInv, SlotsFree
    <2>2. decode_execute' \in DecodeExecPacket
      BY <1>3, DecodedType DEF DecodeSend, TypeInv, TypeOK, SlotsFilled, Slot
    <2>3. /\ decode_execute' # None /\ decode_execute'.PC = decode_pkt.PC
          /\ decode_execute'.exec_mask = decode_pkt.exec_mask
      BY <1>3, <2>2, NoneIsNoPacket DEF DecodeSend
    <2> QED
      BY <1>0, <2>1, <2>3
      DEF InOrder, InStore, ToStore, InExecute, ToExecute, InDecode, ToDecode, At, Behind, Place,
          FallsThrough, InsnOf, executeVars, storeVars
  <1> QED  BY <1>1, <1>2, <1>3 DEF DecodeStage

\* The execute stage passes on the place and the mask it was given.
LEMMA ExecutePasses ==
  ASSUME TypeInv, ExecuteStage, ~ExecuteReceive
  PROVE  /\ execute_at = "switch" /\ execute_at' = "top"
         /\ execute_store' # None /\ execute_store' \in ExecStagePacket
         /\ execute_store'.PC = execute_pkt.PC
         /\ execute_store'.exec_mask = execute_pkt.exec_mask
         /\ UNCHANGED <<execute_pkt, decode_execute>>
  <1>1. /\ execute_at = "switch" /\ execute_at' = "top"
        /\ UNCHANGED <<execute_pkt, decode_execute>>
    BY DEF ExecuteStage, ExecuteWriteRegister, ExecuteLoad, ExecuteStore, ExecuteRestorePc,
           ExecuteCondJmp, ExecuteJmp, ExecuteHalt, Executing, SendToStore
  <1>2. execute_store' \in ExecStagePacket
    BY ExecutePackets
  <1>3. execute_store' # None
    BY <1>2, NoneIsNoPacket
  <1>4. execute_store'.PC = execute_pkt.PC /\ execute_store'.exec_mask = execute_pkt.exec_mask
    <2>1. CASE ExecuteWriteRegister \/ ExecuteLoad
      BY <2>1 DEF ExecuteWriteRegister, ExecuteLoad, SendToStore, StoragePacket
    <2>2. CASE ExecuteStore \/ ExecuteRestorePc
      BY <2>2 DEF ExecuteStore, ExecuteRestorePc, SendToStore, StoragePacket
    <2>3. CASE ExecuteCondJmp
      BY <2>3 DEF ExecuteCondJmp, SendToStore, StoragePacket
    <2>4. CASE ExecuteJmp \/ ExecuteHalt
      BY <2>4 DEF ExecuteJmp, ExecuteHalt, SendToStore, StoragePacket
    <2> QED  BY <2>1, <2>2, <2>3, <2>4 DEF ExecuteStage
  <1> QED  BY <1>1, <1>2, <1>3, <1>4

LEMMA ExecuteInOrder ==
  ASSUME TypeInv, ControlInv, InOrder, ExecuteStage
  PROVE  InOrder' /\ InStore' = InStore
  <1>0. /\ UNCHANGED <<prog, fetchVars, store_fetch, fetch_decode, decodeVars, storeVars>>
        /\ ToFetch' = ToFetch /\ ToDecode' = ToDecode /\ InDecode' = InDecode
    <2>1. UNCHANGED <<prog, fetchVars, store_fetch, fetch_decode, decodeVars, storeVars>>
      BY DEF ExecuteStage, ExecuteReceive, ExecuteWriteRegister, ExecuteLoad, ExecuteStore,
             ExecuteRestorePc, ExecuteCondJmp, ExecuteJmp, ExecuteHalt, NotExecute
    <2> QED
      BY <2>1 DEF ToFetch, ToDecode, InDecode, At, Place, fetchVars, decodeVars
  <1>1. CASE ExecuteReceive
    <2>1. /\ decode_execute # None /\ decode_execute' = None /\ execute_pkt' = decode_execute
          /\ execute_at = "top" /\ execute_at' = "switch" /\ execute_store' = execute_store
      BY <1>1 DEF ExecuteReceive
    <2> QED
      BY <1>0, <2>1
      DEF InOrder, InStore, ToStore, InExecute, ToExecute, At, Behind, Place,
          FallsThrough, InsnOf, decodeVars, storeVars
  <1>2. CASE ~ExecuteReceive
    <2>1. execute_store = None
      BY <1>2, ExecutePasses DEF ControlInv, SlotsFree
    <2> QED
      BY <1>0, <1>2, <2>1, ExecutePasses
      DEF InOrder, InStore, ToStore, InExecute, ToExecute, At, Behind, Place,
          FallsThrough, InsnOf, decodeVars, storeVars
  <1> QED  BY <1>1, <1>2

LEMMA ReceiveInOrder ==
  ASSUME TypeInv, ControlInv, InOrder, StoreReceive
  PROVE  InOrder' /\ InStore' = InStore
  <1>0. /\ UNCHANGED <<prog, fetchVars, store_fetch, fetch_decode, decodeVars, decode_execute,
                       executeVars>>
        /\ ToFetch' = ToFetch /\ ToDecode' = ToDecode /\ InDecode' = InDecode
        /\ ToExecute' = ToExecute /\ InExecute' = InExecute
    <2>1. UNCHANGED <<prog, fetchVars, store_fetch, fetch_decode, decodeVars, decode_execute,
                       executeVars>>
      BY DEF StoreReceive, NotStore
    <2> QED
      BY <2>1 DEF ToFetch, ToDecode, InDecode, ToExecute, InExecute, At, Place, fetchVars, decodeVars,
                  executeVars
  <1>1. /\ execute_store # None /\ execute_store' = None /\ store_pkt' = execute_store
        /\ store_at = "top" /\ store_at' = "switch"
    BY DEF StoreReceive
  <1> QED
    BY <1>0, <1>1
    DEF InOrder, InStore, ToStore, At, Place, Behind, Place, FallsThrough, InsnOf, decodeVars, executeVars

\* When the oldest instruction is done and is no jump, the next one is the oldest.
LEMMA FinishInOrder ==
  ASSUME InOrder, store_at # "top", store_at' = "top",
         UNCHANGED <<prog, fetchVars, store_fetch, fetch_decode, decodeVars, decode_execute,
                     executeVars, execute_store>>
  PROVE  InOrder' /\ (FallsThrough(store_pkt) => InStore' = Behind(store_pkt))
  <1>1. /\ ToFetch' = ToFetch /\ ToDecode' = ToDecode /\ InDecode' = InDecode
        /\ ToExecute' = ToExecute /\ InExecute' = InExecute /\ ToStore' = ToStore
    BY DEF ToFetch, ToDecode, InDecode, ToExecute, InExecute, ToStore, At, Place, fetchVars,
           decodeVars, executeVars
  <1> QED
    BY <1>1 DEF InOrder, InStore, Behind, Place, FallsThrough, InsnOf, decodeVars, executeVars

\* With the pipeline empty and a redirect on the bus, the group stands at its target.
LEMMA RedirectInOrder ==
  ASSUME Drained', store_fetch' # None
  PROVE  /\ InOrder'
         /\ InStore' = Place(store_fetch.newpc, store_fetch.exec_mask)'
  <1>1. /\ fetch_decode' = None /\ decode_at' = "top" /\ decode_execute' = None
        /\ execute_at' = "top" /\ execute_store' = None /\ store_at' = "top"
    BY DEF Drained, ExecuteEmpty, DecodeEmpty, FrontEmpty
  <1>2. InOrder'
    BY <1>1 DEF InOrder
  <1>3. InStore' = ToFetch'
    BY <1>1 DEF InStore, ToStore, InExecute, ToExecute, InDecode, ToDecode
  <1> QED  BY <1>2, <1>3 DEF ToFetch

-----------------------------------------------------------------------------
(***************************************************************************)
(* Loads.                                                                  *)
(***************************************************************************)
LEMMA InitLoadRight == Init => LoadRight
  BY DEF Init, MemoryInit, LoadRight, IsRead

LEMMA MemoryLoadRight ==
  ASSUME TypeInv, ControlInv, LoadRight, Memory
  PROVE  LoadRight'
  <1>1. UNCHANGED <<store_at, store_pkt, loaded>>
    BY DEF Memory, NotMemory, storeVars
  <1>2. CASE InsnMemoryRespond
    BY <1>1, <1>2 DEF InsnMemoryRespond, LoadRight, IsRead, WordsAt, vecBus
  <1>3. CASE VecMemoryAccept
    <2>1. /\ vec_accepted = None /\ vec_request # None /\ vec_accepted' = vec_request
          /\ vec_request' = None /\ UNCHANGED <<mem, vec_response>>
      BY <1>3 DEF VecMemoryAccept
    <2> QED  BY <1>1, <2>1 DEF LoadRight, IsRead, WordsAt
  <1>4. CASE VecMemoryRead
    <2>1. /\ IsRead(vec_accepted) /\ vec_accepted' = None /\ UNCHANGED <<mem, vec_request>>
      BY <1>4 DEF VecMemoryRead
    <2>2. /\ vec_accepted.address = store_pkt.src_value /\ vec_request = None
          /\ store_at = "await_load"
      BY <2>1, AtMostOneRead DEF LoadRight
    <2>3. vec_response'.payload = WordsAt(vec_accepted.address)
      <3>1. vec_accepted \in VecBusPacket
        BY <2>1 DEF IsRead, TypeInv, TypeOK, Slot
      <3> QED  BY <1>4, <3>1 DEF VecMemoryRead, VecBusPacket, WordsAt
    <2>4. WordsAt(store_pkt.src_value)' = WordsAt(store_pkt.src_value)
      BY <1>1, <2>1 DEF WordsAt
    <2> HIDE DEF WordsAt
    <2> QED  BY <1>1, <2>1, <2>2, <2>3, <2>4 DEF LoadRight, IsRead
  <1>5. CASE VecMemoryWrite
    <2>1. IsWrite(vec_accepted) /\ vec_accepted' = None /\ UNCHANGED vecBus
      BY <1>5 DEF VecMemoryWrite
    <2>2. vec_response = None /\ store_at # "loaded"
      BY <2>1 DEF LoadRight, IsWrite
    <2> QED  BY <1>1, <2>1, <2>2 DEF LoadRight, IsRead, vecBus
  <1> QED  BY <1>2, <1>3, <1>4, <1>5 DEF Memory, VecMemoryFinish

LEMMA StoreLoadRight ==
  ASSUME TypeInv, ControlInv, LoadRight, StoreStage
  PROVE  LoadRight'
  <1>0. UNCHANGED <<mem, vec_accepted>>
    BY DEF StoreStage, StoreReceive, StoreValueIntoReg, StoreRegIntoMem, StoreSendRead,
           StoreAcceptResponse, StoreLoaded, StoreJmp, StoreCjmp, StoreHalt, StoreResume, NotStore
  <1>a. store_at # "await_load" => /\ ~IsRead(vec_request) /\ ~IsRead(vec_accepted)
                                   /\ vec_response = None
    BY AtMostOneRead
  <1>1. CASE StoreSendRead
    <2>1. /\ store_at = "switch" /\ vec_response = None /\ ~IsRead(vec_accepted)
      BY <1>a, <1>1 DEF StoreSendRead, Storing
    <2>2. /\ store_at' = "await_load" /\ vec_response' = None
          /\ vec_request'.address = store_pkt.src_value /\ store_pkt' = store_pkt
      BY <1>1, <2>1 DEF StoreSendRead, AcceptResponse
    <2> QED  BY <1>0, <2>1, <2>2 DEF LoadRight, IsRead
  <1>2. CASE StoreAcceptResponse
    <2>1. /\ vec_response # None /\ store_at' = "loaded" /\ vec_response' = None
          /\ loaded' = vec_response.payload /\ UNCHANGED <<store_pkt, vec_request>>
      BY <1>2 DEF StoreAcceptResponse, AcceptResponse
    <2> QED  BY <1>0, <2>1 DEF LoadRight, WordsAt, IsRead
  <1>3. CASE StoreRegIntoMem
    <2>1. /\ store_at = "switch" /\ store_at' = "top" /\ vec_response' = vec_response
          /\ vec_request'.packet_type = "write"
      BY <1>3 DEF StoreRegIntoMem, Storing
    <2> QED  BY <1>0, <1>a, <2>1 DEF LoadRight, IsRead
  <1>4. CASE ~StoreSendRead /\ ~StoreAcceptResponse /\ ~StoreRegIntoMem
    <2>1. /\ store_at # "await_load" /\ store_at' \notin {"await_load", "loaded"}
          /\ UNCHANGED vecBus
      BY <1>4
      DEF StoreStage, StoreReceive, StoreValueIntoReg, StoreLoaded, StoreJmp, StoreCjmp,
          StoreHalt, StoreResume, Storing
    <2> QED  BY <1>0, <1>a, <2>1 DEF LoadRight, IsRead, vecBus
  <1> QED  BY <1>1, <1>2, <1>3, <1>4

LEMMA StepLoadRight ==
  ASSUME TypeInv, ControlInv, LoadRight, [Next]_vars
  PROVE  LoadRight'
  <1>1. CASE FetchStage \/ DecodeStage \/ ExecuteStage \/ UNCHANGED vars
    <2>1. UNCHANGED <<mem, store_at, store_pkt, loaded, vecBus, vec_accepted>>
      BY <1>1
      DEF FetchStage, FetchNext, FetchAwaitRedirect, FetchReceiveRedirect, FetchRetarget,
          FetchRetargeted, FetchLineArrives, FetchFillLine, FetchSelect, FetchSend, NotFetch,
          DecodeStage, DecodeReceive, DecodeNop, DecodeSend, NotDecode, ExecuteStage,
          ExecuteReceive, ExecuteWriteRegister, ExecuteLoad, ExecuteStore, ExecuteRestorePc,
          ExecuteCondJmp, ExecuteJmp, ExecuteHalt, NotExecute, storeVars, vars
    <2> QED  BY <2>1 DEF LoadRight, WordsAt, IsRead, vecBus
  <1>2. CASE StoreStage
    BY <1>2, StoreLoadRight
  <1>3. CASE Memory
    BY <1>3, MemoryLoadRight
  <1> QED  BY <1>1, <1>2, <1>3 DEF Next

-----------------------------------------------------------------------------
(***************************************************************************)
(* Rounds.                                                                 *)
(***************************************************************************)
\* Going round from the turn of the decode stage, or past any turn but that of the
\* execute stage, the execute stage comes first; at the decode stage's turn it does not.
LEMMA GoingRound ==
  ASSUME NEW n \in Nat, NEW t \in 1 .. n, NEW d \in 1 .. n, NEW e \in 1 .. n, d # e
  PROVE  LET first(now) == \/ now <= e /\ e < d
                           \/ e < d /\ d < now
                           \/ d < now /\ now <= e
             next       == IF t = n THEN 1 ELSE t + 1
         IN /\ next \in 1 .. n
            /\ t = d => ~first(t) /\ first(next)
            /\ t # e /\ first(t) => first(next)
  OBVIOUS

LEMMA TurnsPass ==
  ASSUME turn \in 1 .. Len(Order), turn' = IF turn = Len(Order) THEN 1 ELSE turn + 1
  PROVE  /\ turn' \in 1 .. Len(Order)
         /\ Order[turn] = "decode" => ~ExecuteFirst(turn) /\ ExecuteFirst(turn')
         /\ Order[turn] # "execute" /\ ExecuteFirst(turn) => ExecuteFirst(turn')
  <1> DEFINE d == Position("decode")
             e == Position("execute")
             n == Len(Order)
  <1>1. n \in Nat /\ DOMAIN Order = 1 .. n
    BY EveryComponentHasItsTurn
  <1>2. \A c \in Component : Position(c) \in DOMAIN Order /\ Order[Position(c)] = c
    BY EveryComponentHasItsTurn DEF Position
  <1>3. /\ d \in 1 .. n /\ e \in 1 .. n /\ d # e
        /\ Order[d] = "decode" /\ Order[e] = "execute"
    BY <1>1, <1>2 DEF Component
  <1>4. (Order[turn] = "decode" => turn = d) /\ (Order[turn] # "execute" => turn # e)
    BY <1>1, <1>3, EveryComponentHasItsTurn
  <1>5. \A now : ExecuteFirst(now) <=> \/ now <= e /\ e < d
                                       \/ e < d /\ d < now
                                       \/ d < now /\ now <= e
    BY DEF ExecuteFirst
  <1> HIDE DEF d, e, n
  <1>6. turn \in 1 .. n /\ turn' = IF turn = n THEN 1 ELSE turn + 1
    BY DEF n
  <1>7. /\ turn' \in 1 .. n
        /\ turn = d => ~ExecuteFirst(turn) /\ ExecuteFirst(turn')
        /\ turn # e /\ ExecuteFirst(turn) => ExecuteFirst(turn')
    BY <1>1, <1>3, <1>5, <1>6, GoingRound
  <1> QED  BY <1>4, <1>7 DEF n

\* Only the decode stage's turn takes a packet out of the decode stage, and only
\* that of the execute stage changes what the execute stage holds.
LEMMA TurnsAlone ==
  ASSUME LockstepNext
  PROVE  /\ Order[turn] # "decode" => UNCHANGED decodeVars
         /\ Order[turn] # "execute" => UNCHANGED executeVars
         /\ Order[turn] = "decode" => DecodeStage \/ (DecodePolls /\ UNCHANGED vars)
         /\ Order[turn] = "execute" => ExecuteStage \/ (ExecutePolls /\ UNCHANGED vars)
  <1>1. FetchStage => UNCHANGED <<decodeVars, executeVars>>
    BY DEF FetchStage, FetchNext, FetchAwaitRedirect, FetchReceiveRedirect, FetchRetarget,
           FetchRetargeted, FetchLineArrives, FetchFillLine, FetchSelect, FetchSend, NotFetch
  <1>2. DecodeStage => UNCHANGED executeVars
    BY DEF DecodeStage, DecodeReceive, DecodeNop, DecodeSend, NotDecode
  <1>3. ExecuteStage => UNCHANGED decodeVars
    BY DEF ExecuteStage, ExecuteReceive, ExecuteWriteRegister, ExecuteLoad, ExecuteStore,
           ExecuteRestorePc, ExecuteCondJmp, ExecuteJmp, ExecuteHalt, NotExecute
  <1>4. StoreStage => UNCHANGED <<decodeVars, executeVars>>
    BY DEF StoreStage, StoreReceive, StoreValueIntoReg, StoreRegIntoMem, StoreSendRead,
           StoreAcceptResponse, StoreLoaded, StoreJmp, StoreCjmp, StoreHalt, StoreResume, NotStore
  <1>5. \A c : MemoryTurn(c) => UNCHANGED <<decodeVars, executeVars>>
    BY DEF MemoryTurn, NotMemory, vars
  <1>6. \A c : Polls(c) => UNCHANGED <<decodeVars, executeVars>>
    BY DEF Polls, vars
  <1>7. PICK c : c = Order[turn] /\ (Stage(c) \/ Polls(c) \/ MemoryTurn(c))
    BY DEF LockstepNext
  <1>8. (c # "decode" => UNCHANGED decodeVars) /\ (c # "execute" => UNCHANGED executeVars)
    BY <1>1, <1>2, <1>3, <1>4, <1>5, <1>6, <1>7 DEF Stage
  <1>9. /\ c = "decode" => DecodeStage \/ (DecodePolls /\ UNCHANGED vars)
        /\ c = "execute" => ExecuteStage \/ (ExecutePolls /\ UNCHANGED vars)
    BY <1>7 DEF Stage, Polls, MemoryTurn
  <1> QED  BY <1>7, <1>8, <1>9

\* When the decode stage is done with a packet, the execute stage holds none.
DecodeWaitsForExecute ==
  decode_at = "switch" /\ decode_at' # "switch" => execute_at = "top"

LEMMA InitRoundOrder == LockstepInit => RoundOrder
  <1> SUFFICES ASSUME LockstepInit PROVE RoundOrder
    OBVIOUS
  <1>1. 1 \in 1 .. Len(Order)
    BY EveryComponentHasItsTurn DEF Component
  <1> QED  BY <1>1 DEF LockstepInit, Init, RoundOrder

LEMMA StepRoundOrder ==
  ASSUME TypeInv, ControlInv, RoundOrder, [LockstepNext]_lockstepVars
  PROVE  RoundOrder' /\ DecodeWaitsForExecute
  <1> USE DEF RoundOrder, DecodeWaitsForExecute, decodeVars, executeVars
  <1>1. CASE UNCHANGED lockstepVars
    BY <1>1 DEF lockstepVars, vars, ExecuteFirst
  <1>2. CASE LockstepNext
    <2>1. /\ turn' \in 1 .. Len(Order)
          /\ Order[turn] = "decode" => ~ExecuteFirst(turn) /\ ExecuteFirst(turn')
          /\ Order[turn] # "execute" /\ ExecuteFirst(turn) => ExecuteFirst(turn')
      BY <1>2, TurnsPass DEF LockstepNext
    <2>2. execute_at \in {"top", "switch"}
      BY DEF TypeInv, TypeOK
    <2> DEFINE atDecode == Order[turn] = "decode"
               atExecute == Order[turn] = "execute"
    <2>3. ExecuteFirst(turn)' <=> ExecuteFirst(turn')
      BY DEF ExecuteFirst
    <2>4. CASE atDecode
      <3>1. ~ExecuteFirst(turn) /\ ExecuteFirst(turn') /\ ~(decode_at = "switch" /\ execute_at = "switch")
        BY <2>1, <2>4
      <3> QED  BY <2>1, <2>2, <2>3, <3>1
    <2>5. CASE ~atDecode /\ ~atExecute
      <3>1. UNCHANGED <<decode_at, execute_at>>
        BY <1>2, <2>5, TurnsAlone
      <3> QED  BY <2>1, <2>3, <2>5, <3>1
    <2>6. CASE ~atDecode /\ atExecute
      <3>1. decode_at' = decode_at
        BY <1>2, <2>6, TurnsAlone
      <3>2. ~(decode_at = "switch" /\ execute_at' = "switch")
        <4>1. CASE ExecuteReceive
          BY <3>1, <4>1 DEF ExecuteReceive, ControlInv, SlotsFree
        <4>2. CASE ExecuteStage /\ ~ExecuteReceive
          BY <4>2, ExecutePasses
        <4>3. CASE ExecutePolls /\ UNCHANGED vars
          <5>1. execute_at' = execute_at
            BY <4>3 DEF vars
          <5>2. execute_at = "switch" => ControlInExecute
            BY <4>3 DEF ExecutePolls, Executing, ControlInExecute, ExecuteControl
          <5> QED
            BY <5>1, <5>2 DEF ControlInv, NothingBehindJump, DecodeEmpty
        <4> QED  BY <1>2, <2>6, <4>1, <4>2, <4>3, TurnsAlone
      <3> QED  BY <2>1, <3>1, <3>2
    <2> QED  BY <2>4, <2>5, <2>6
  <1> QED  BY <1>1, <1>2

-----------------------------------------------------------------------------
(***************************************************************************)
(* Operands.                                                               *)
(***************************************************************************)
\* A register the scoreboard calls valid awaits no write.
LEMMA ValidAwaitsNoWrite ==
  ASSUME TypeInv, ScoreInv, NEW r \in RegisterID \ {REG_PC}, is_valid(r)
  PROVE  PendingWrites(r) = 0
  <1>1. PendingWrites(r) \in {0, 1, 2}
    BY DEF PendingWrites, One
  <1>2. regs.written_regs[r] \in TinyCounter
    BY CounterTypes DEF TypeInv
  <1>3. regs.written_regs[r] = (regs.written_regs[r] + PendingWrites(r)) % TINY_COUNTER_RANGE
    BY DEF ScoreInv, ScoreboardExact, is_valid
  <1> DEFINE w == regs.written_regs[r]
             p == PendingWrites(r)
  <1> HIDE DEF w, p
  <1>4. CASE p = 1
    <2>1. w = (w + 1) % TINY_COUNTER_RANGE /\ w \in TinyCounter
      BY <1>2, <1>3, <1>4 DEF w, p
    <2>2. w = w + 1 \/ w = w + 1 - TINY_COUNTER_RANGE
      BY <2>1, CounterWraps
    <2> QED  BY <2>1, <2>2, SimtPipelineAssumption DEF TinyCounter
  <1>5. CASE p = 2
    <2>1. w = (w + 2) % TINY_COUNTER_RANGE /\ w \in TinyCounter
      BY <1>2, <1>3, <1>5 DEF w, p
    <2>2. w = w + 2 \/ w = w + 2 - TINY_COUNTER_RANGE
      BY <2>1, CounterWraps
    <2> QED  BY <2>1, <2>2, SimtPipelineAssumption DEF TinyCounter
  <1> QED  BY <1>1, <1>4, <1>5 DEF p

\* What an instruction of the program reads.
LEMMA OperandTypes ==
  ASSUME TypeInv, ProgramInv, NEW pc \in Int
  PROVE  /\ InsnAt(prog, pc) \in Instruction
         /\ Operands(InsnAt(prog, pc)) \subseteq RegisterID \ {REG_PC}
         /\ Reads(InsnAt(prog, pc)) \subseteq RegisterID \ {REG_PC}
  <1>1. InsnAt(prog, pc) \in Instruction
    BY InsnAtType DEF TypeInv
  <1>2. \A i \in Instruction : Operands(i) \subseteq RegisterID
    BY VectorOpsAssumption DEF Instruction, Operands
  <1>3. REG_PC \notin Operands(InsnAt(prog, pc))
    <2>1. CASE pc \in DOMAIN prog
      BY <2>1 DEF ProgramInv, ReadsPc, InsnAt
    <2>2. CASE pc \notin DOMAIN prog
      BY <2>2 DEF InsnAt, ZeroInsn, Operands
    <2> QED  BY <2>1, <2>2
  <1>4. REG_FLAGS \in RegisterID \ {REG_PC}
    BY VectorOpsAssumption, FlagsAreNotThePc
  <1> QED  BY <1>1, <1>2, <1>3, <1>4 DEF Reads

\* A packet stays right as long as its operands keep their values.
LEMMA DecodedKept ==
  ASSUME NEW p, DecodedRight(p), prog' = prog,
         \A r \in Operands(InsnOf(p)) : regs'.value[r] = regs.value[r]
  PROVE  DecodedRight(p)'
  <1> PICK i : i = InsnOf(p)
    OBVIOUS
  <1>0. InsnOf(p)' = i
    BY DEF InsnOf
  <1>1. Value0(i)' = Value0(i)
    BY DEF Value0, Operands
  <1>2. Value1(i, p.PC)' = Value1(i, p.PC)
    BY DEF Value1, Operands
  <1>3. Value2(i)' = Value2(i)
    BY DEF Value2, Operands
  <1> QED  BY <1>0, <1>1, <1>2, <1>3 DEF DecodedRight

LEMMA ExecutedKept ==
  ASSUME NEW p, ExecutedRight(p), prog' = prog,
         \A r \in Reads(InsnOf(p)) : regs'.value[r] = regs.value[r]
  PROVE  ExecutedRight(p)'
  <1> PICK i : i = InsnOf(p)
    OBVIOUS
  <1>0. InsnOf(p)' = i
    BY DEF InsnOf
  <1>a. \A r \in Operands(i) : regs'.value[r] = regs.value[r]
    BY DEF Reads
  <1>1. i.op \in ToRegister => ResultOf(i, p.PC)' = ResultOf(i, p.PC)
    BY <1>a DEF ResultOf, Operands, ToRegister, MovesToReg, MovesToR0, Arithmetic
  <1>2. i.op \in CondJumps => Taken(p)' = Taken(p)
    <2>1. i.op \in CondJumps => regs'.value[REG_FLAGS] = regs.value[REG_FLAGS]
      BY DEF Reads
    <2> QED  BY <1>0, <2>1 DEF Taken
  <1>3. i.op \in CondJumps => (CondJumpRight(p)' <=> CondJumpRight(p))
    BY <1>0, <1>2 DEF CondJumpRight
  <1>4. /\ i.op = "LOAD_REG_CONST_REG" => regs'.value[i.r2] = regs.value[i.r2]
        /\ i.op = "LOAD_RESTORE_PC" => regs'.value[i.r1] = regs.value[i.r1]
        /\ i.op = "STORE_REG_CONST_REG" => /\ regs'.value[i.r1] = regs.value[i.r1]
                                           /\ regs'.value[i.r2] = regs.value[i.r2]
    BY <1>a DEF Operands
  <1> QED  BY <1>0, <1>1, <1>3, <1>4 DEF ExecutedRight

\* Which instruction an opcode of the execute stage stands for.
LEMMA OpcodeInverse ==
  ASSUME NEW op \in Opcode \ {"NOP"}
  PROVE  /\ ExecuteOpcode(op) \in RegisterWriters => op \in ToRegister
         /\ ExecuteOpcode(op) = "EXEC_LOAD_REG" => op = "LOAD_REG_CONST_REG"
         /\ ExecuteOpcode(op) = "EXEC_STORE_ADDR_VALUE" => op = "STORE_REG_CONST_REG"
         /\ ExecuteOpcode(op) = "EXEC_LOAD_RESTORE_PC" => op = "LOAD_RESTORE_PC"
         /\ ExecuteOpcode(op) = "EXEC_COND_JMP" => op \in CondJumps
         /\ ExecuteOpcode(op) = "EXEC_JMP" => op = "JMP_ALWAYS"
         /\ ExecuteOpcode(op) = "EXEC_HALT" => op = "HALT"
  <1> USE DEF ExecuteOpcode
  <1>1. ExecuteOpcode(op) \in RegisterWriters => op \in ToRegister
    BY DEF RegisterWriters, ToRegister, Opcode, MovesToReg, MovesToR0, Arithmetic, ControlFlow,
           CondJumps, CondJumpFlags
  <1>2. /\ ExecuteOpcode(op) = "EXEC_LOAD_REG" => op = "LOAD_REG_CONST_REG"
        /\ ExecuteOpcode(op) = "EXEC_STORE_ADDR_VALUE" => op = "STORE_REG_CONST_REG"
        /\ ExecuteOpcode(op) = "EXEC_LOAD_RESTORE_PC" => op = "LOAD_RESTORE_PC"
    BY DEF Opcode, MovesToReg, MovesToR0, Arithmetic, ControlFlow, CondJumps, CondJumpFlags
  <1>3. /\ ExecuteOpcode(op) = "EXEC_COND_JMP" => op \in CondJumps
        /\ ExecuteOpcode(op) = "EXEC_JMP" => op = "JMP_ALWAYS"
        /\ ExecuteOpcode(op) = "EXEC_HALT" => op = "HALT"
    BY DEF Opcode, MovesToReg, MovesToR0, Arithmetic, ControlFlow, CondJumps, CondJumpFlags
  <1> QED  BY <1>1, <1>2, <1>3

\* The kinds of instructions exclude each other.
LEMMA KindsDiffer ==
  /\ ToRegister \intersect ({"LOAD_REG_CONST_REG", "LOAD_RESTORE_PC", "STORE_REG_CONST_REG",
                             "JMP_ALWAYS", "HALT", "NOP"} \union CondJumps) = {}
  /\ CondJumps \intersect {"LOAD_REG_CONST_REG", "LOAD_RESTORE_PC", "STORE_REG_CONST_REG",
                           "JMP_ALWAYS", "HALT", "NOP"} = {}
  BY DEF ToRegister, MovesToReg, MovesToR0, Arithmetic, CondJumps, CondJumpFlags

LEMMA ResultRight ==
  ASSUME NEW i \in Instruction, NEW e, NEW R, R = regs.value, i.op \in ToRegister,
         e = execute_pkt, e.opcode = ExecuteOpcode(i.op), e.regID = DestReg(i),
         e.value0 = Value0(i), e.value1 = Value1(i, e.PC), e.value2 = Value2(i)
  PROVE  ExecuteDest = Target(i) /\ ExecuteResult = ResultOf(i, e.PC)
  <1>1. CASE i.op \in MovesToReg \union {"MOVE_R0_CONST24A"}
    <2>1. e.opcode = "EXEC_MOVE_REG_VALUE" /\ i.op # "CMP_REG_REG"
      BY <1>1 DEF ExecuteOpcode, MovesToReg, CondJumps, CondJumpFlags
    <2>2. Value1(i, e.PC) = ResultOf(i, e.PC)
      BY <1>1 DEF Value1, ResultOf, MovesToReg
    <2> QED  BY <2>1, <2>2 DEF ExecuteDest, Target, ExecuteResult
  <1>2. CASE i.op = "MOVE_R0_CONST24B"
    BY <1>2 DEF ExecuteOpcode, MovesToReg, CondJumps, CondJumpFlags, Value1, Value2, ExecuteDest,
                Target, ExecuteResult, ResultOf
  <1>3. CASE i.op = "MOVE_R0_CONST24C"
    BY <1>3 DEF ExecuteOpcode, MovesToReg, CondJumps, CondJumpFlags, Value1, Value2, ExecuteDest,
                Target, ExecuteResult, ResultOf
  <1>4. CASE i.op = "ADD_REG_REG_REG"
    BY <1>4 DEF ExecuteOpcode, MovesToReg, CondJumps, CondJumpFlags, Value1, Value2, ExecuteDest,
                Target, ExecuteResult, ResultOf
  <1>5. CASE i.op = "ADD_REG_REG_CONST"
    BY <1>5 DEF ExecuteOpcode, MovesToReg, CondJumps, CondJumpFlags, Value1, Value2, ExecuteDest,
                Target, ExecuteResult, ResultOf
  <1>6. CASE i.op = "L_SSHIFT_REG_REG_CONST"
    BY <1>6 DEF ExecuteOpcode, MovesToReg, CondJumps, CondJumpFlags, Value1, Value2, ExecuteDest,
                Target, ExecuteResult, ResultOf
  <1>7. CASE i.op = "CMP_REG_REG"
    BY <1>7 DEF ExecuteOpcode, MovesToReg, CondJumps, CondJumpFlags, Value0, Value1, ExecuteDest,
                Target, ExecuteResult, ResultOf
  <1> QED
    BY <1>1, <1>2, <1>3, <1>4, <1>5, <1>6, <1>7 DEF ToRegister, MovesToR0, Arithmetic

\* What the execute stage makes of a packet that is right.
LEMMA ExecuteRight ==
  ASSUME TypeInv, ControlInv, ScoreInv, ProgramInv, Fresh, ExecuteStage, ~ExecuteReceive,
         NEW p, p = execute_store'
  PROVE  /\ ExecutedRight(p)
         /\ \A r \in Reads(InsnOf(p)) : PendingWrites(r) = 0
  <1> PICK e : e = execute_pkt
    OBVIOUS
  <1>1. /\ execute_at = "switch" /\ e \in DecodeExecPacket /\ DecodedRight(e)
        /\ \A r \in Operands(InsnOf(e)) : PendingWrites(r) = 0
    BY ExecutePasses DEF Fresh, DecodedFresh, TypeInv, TypeOK, SlotsFilled, Slot
  <1>2. p.PC = e.PC /\ p.exec_mask = e.exec_mask
    BY ExecutePasses
  <1> PICK i : i = InsnOf(e)
    OBVIOUS
  <1>3. InsnOf(p) = i /\ i \in Instruction
    BY <1>1, <1>2, OperandTypes DEF InsnOf, DecodeExecPacket
  <1>4. /\ i.op \in Opcode \ {"NOP"}
        /\ e.opcode = ExecuteOpcode(i.op) /\ e.regID = DestReg(i)
        /\ e.value0 = Value0(i) /\ e.value1 = Value1(i, e.PC) /\ e.value2 = Value2(i)
        /\ e.offset = i.imm
        /\ e.wanted = IF i.op \in CondJumps THEN CondJumpFlags[i.op] ELSE {}
    BY <1>1, <1>3 DEF DecodedRight, Instruction
  <1>5. i.op \notin CondJumps => Reads(i) = Operands(i)
    BY DEF Reads
  <1>6. CASE ExecuteWriteRegister
    <2>1. i.op \in ToRegister
      BY <1>4, <1>6, OpcodeInverse DEF ExecuteWriteRegister, Executing
    <2>2. /\ p.opcode = "STORAGE_STORE_VALUE_INTO_REG" /\ p.is_store_to_pc = FALSE
          /\ p.dest_reg = ExecuteDest /\ p.src_value = ExecuteResult
      BY <1>6 DEF ExecuteWriteRegister, SendToStore, StoragePacket
    <2>3. ExecuteDest = Target(i) /\ ExecuteResult = ResultOf(i, p.PC)
      BY <1>2, <1>3, <1>4, <2>1, ResultRight
    <2> QED  BY <1>1, <1>3, <1>4, <1>5, <2>1, <2>2, <2>3, KindsDiffer DEF ExecutedRight
  <1>7. CASE ExecuteLoad
    <2>1. i.op = "LOAD_REG_CONST_REG"
      BY <1>4, <1>7, OpcodeInverse DEF ExecuteLoad, Executing
    <2>2. /\ p.opcode = "STORAGE_LOAD_MEM_INTO_REG" /\ p.is_store_to_pc = FALSE
          /\ p.dest_reg = e.regID /\ p.src_value = add(e.value1, e.value2)
      BY <1>7 DEF ExecuteLoad, SendToStore, StoragePacket
    <2>3. /\ e.value1 = create_vec(i.imm) /\ e.value2 = regs.value[i.r2] /\ e.regID = i.r1
      BY <1>4, <2>1 DEF Value1, Value2, DestReg, MovesToR0
    <2> QED  BY <1>1, <1>3, <1>4, <1>5, <2>1, <2>2, <2>3, KindsDiffer DEF ExecutedRight
  <1>8. CASE ExecuteStore
    <2>1. i.op = "STORE_REG_CONST_REG"
      BY <1>4, <1>8, OpcodeInverse DEF ExecuteStore, Executing
    <2>2. /\ p.opcode = "STORAGE_STORE_REG_INTO_MEM" /\ p.is_store_to_pc = FALSE
          /\ p.dest_value = add(e.value1, e.value2) /\ p.src_value = e.value0
      BY <1>8 DEF ExecuteStore, SendToStore, StoragePacket
    <2>3. /\ e.value1 = create_vec(i.imm) /\ e.value2 = regs.value[i.r2]
          /\ e.value0 = regs.value[i.r1]
      BY <1>4, <2>1 DEF Value0, Value1, Value2
    <2> QED  BY <1>1, <1>3, <1>4, <1>5, <2>1, <2>2, <2>3, KindsDiffer DEF ExecutedRight
  <1>9. CASE ExecuteRestorePc
    <2>1. i.op = "LOAD_RESTORE_PC"
      BY <1>4, <1>9, OpcodeInverse DEF ExecuteRestorePc, Executing
    <2>2. /\ p.opcode = "STORAGE_LOAD_MEM_INTO_REG" /\ p.is_store_to_pc
          /\ p.dest_reg = REG_PC /\ p.src_value = add(e.value0, e.value1)
      BY <1>9 DEF ExecuteRestorePc, SendToStore, StoragePacket
    <2>3. e.value0 = create_vec(i.imm) /\ e.value1 = regs.value[i.r1]
      BY <1>4, <2>1 DEF Value0, Value1
    <2> QED  BY <1>1, <1>3, <1>4, <1>5, <2>1, <2>2, <2>3, KindsDiffer DEF ExecutedRight
  <1>10. CASE ExecuteCondJmp
    <2>1. i.op \in CondJumps
      BY <1>4, <1>10, OpcodeInverse DEF ExecuteCondJmp, Executing
    <2>2. PendingWrites(REG_FLAGS) = 0
      BY <1>10, ValidAwaitsNoWrite, VectorOpsAssumption, FlagsAreNotThePc DEF ExecuteCondJmp
    <2>3. Taken(p) = get_cmp_mask(e.exec_mask, regs.value[REG_FLAGS], e.wanted)
      BY <1>2, <1>3, <1>4, <2>1 DEF Taken
    <2>4. CondJumpRight(p)
      <3> DEFINE taken == get_cmp_mask(e.exec_mask, regs.value[REG_FLAGS], e.wanted)
      <3>1. p = IF taken = {}
                THEN [StoragePacket("STORAGE_JMP") EXCEPT !.dest_address = e.PC + 1]
                ELSE IF taken = e.exec_mask
                THEN [StoragePacket("STORAGE_JMP") EXCEPT !.dest_address = e.PC + e.offset]
                ELSE [StoragePacket("STORAGE_CJMP")
                        EXCEPT !.dest_address = e.PC + e.offset, !.src_address = e.PC + 1,
                               !.execution_flags_true = taken,
                               !.execution_flags_false = e.exec_mask \ taken]
        BY <1>10 DEF ExecuteCondJmp, SendToStore
      <3> HIDE DEF taken
      <3>2. Taken(p) = taken
        BY <2>3 DEF taken
      <3>3. CASE taken = {}
        BY <1>2, <1>3, <3>1, <3>2, <3>3 DEF CondJumpRight, StoragePacket
      <3>4. CASE taken # {} /\ taken = e.exec_mask
        <4>1. p = [StoragePacket("STORAGE_JMP") EXCEPT !.dest_address = e.PC + e.offset]
          BY <3>1, <3>4
        <4>2. p.opcode = "STORAGE_JMP" /\ p.dest_address = e.PC + e.offset
          BY <4>1 DEF StoragePacket
        <4>3. Taken(p) # {} /\ Taken(p) = p.exec_mask
          BY <1>2, <3>2, <3>4
        <4> QED  BY <1>2, <1>3, <1>4, <4>2, <4>3 DEF CondJumpRight
      <3>5. CASE taken # {} /\ taken # e.exec_mask
        BY <1>2, <1>3, <1>4, <3>1, <3>2, <3>5 DEF CondJumpRight, StoragePacket
      <3> QED  BY <3>3, <3>4, <3>5
    <2>5. \A r \in Reads(i) : PendingWrites(r) = 0
      BY <1>1, <2>2 DEF Reads
    <2> QED  BY <1>3, <2>1, <2>4, <2>5, KindsDiffer DEF ExecutedRight
  <1>11. CASE ExecuteJmp
    <2>1. i.op = "JMP_ALWAYS"
      BY <1>4, <1>11, OpcodeInverse DEF ExecuteJmp, Executing
    <2>2. p.opcode = "STORAGE_JMP" /\ p.dest_address = e.PC + e.offset
      BY <1>11 DEF ExecuteJmp, SendToStore, StoragePacket
    <2> QED  BY <1>1, <1>2, <1>3, <1>4, <1>5, <2>1, <2>2, KindsDiffer DEF ExecutedRight
  <1>12. CASE ExecuteHalt
    <2>1. i.op = "HALT"
      BY <1>4, <1>12, OpcodeInverse DEF ExecuteHalt, Executing
    <2>2. p.opcode = "STORAGE_HALT"
      BY <1>12 DEF ExecuteHalt, SendToStore, StoragePacket
    <2> QED  BY <1>1, <1>3, <1>4, <1>5, <2>1, <2>2, KindsDiffer DEF ExecutedRight
  <1> QED
    BY <1>6, <1>7, <1>8, <1>9, <1>10, <1>11, <1>12 DEF ExecuteStage

\* A packet that is in flight before and after a step was fetched.
LEMMA PacketPlaces ==
  ASSUME TypeInv
  PROVE  /\ decode_execute # None => decode_execute.PC \in Int
         /\ execute_at = "switch" => execute_pkt.PC \in Int
         /\ execute_store # None => execute_store.PC \in Int
         /\ store_at # "top" => store_pkt.PC \in Int
  BY DEF TypeInv, TypeOK, SlotsFilled, Slot, DecodeExecPacket, ExecStagePacket

\* What awaits no write keeps its value: decoded packets stay fresh.
LEMMA DecodedStaysFresh ==
  ASSUME TypeInv, ProgramInv, DecodedFresh, prog' = prog,
         UNCHANGED <<decode_execute, execute_at, execute_pkt>>,
         \A r \in RegisterID : PendingWrites(r) = 0 =>
           PendingWrites(r)' = 0 /\ regs'.value[r] = regs.value[r]
  PROVE  DecodedFresh'
  <1>1. ASSUME NEW p, DecodedRight(p), p.PC \in Int,
               \A r \in Operands(InsnOf(p)) : PendingWrites(r) = 0
        PROVE  /\ DecodedRight(p)'
               /\ \A r \in Operands(InsnOf(p))' : PendingWrites(r)' = 0
    <2>1. Operands(InsnOf(p)) \subseteq RegisterID /\ InsnOf(p)' = InsnOf(p)
      BY <1>1, OperandTypes DEF InsnOf
    <2>2. \A r \in Operands(InsnOf(p)) : PendingWrites(r)' = 0 /\ regs'.value[r] = regs.value[r]
      BY <1>1, <2>1
    <2>3. DecodedRight(p)'
      BY <1>1, <2>2, DecodedKept
    <2> QED  BY <2>1, <2>2, <2>3
  <1>2. ASSUME decode_execute # None
        PROVE  /\ execute_at' = "top" /\ DecodedRight(decode_execute)'
               /\ \A r \in Operands(InsnOf(decode_execute))' : PendingWrites(r)' = 0
    <2> PICK p : p = decode_execute
      OBVIOUS
    <2>1. DecodedRight(p) /\ p.PC \in Int /\ \A r \in Operands(InsnOf(p)) : PendingWrites(r) = 0
      BY <1>2, PacketPlaces DEF DecodedFresh
    <2>2. DecodedRight(p)' /\ \A r \in Operands(InsnOf(p))' : PendingWrites(r)' = 0
      BY <1>1, <2>1
    <2>3. decode_execute' = p /\ execute_at' = "top"
      BY <1>2 DEF DecodedFresh
    <2> QED  BY <2>2, <2>3
  <1>3. ASSUME execute_at = "switch"
        PROVE  /\ DecodedRight(execute_pkt)'
               /\ \A r \in Operands(InsnOf(execute_pkt))' : PendingWrites(r)' = 0
    <2> PICK p : p = execute_pkt
      OBVIOUS
    <2>1. DecodedRight(p) /\ p.PC \in Int /\ \A r \in Operands(InsnOf(p)) : PendingWrites(r) = 0
      BY <1>3, PacketPlaces DEF DecodedFresh
    <2>2. DecodedRight(p)' /\ \A r \in Operands(InsnOf(p))' : PendingWrites(r)' = 0
      BY <1>1, <2>1
    <2>3. execute_pkt' = p
      OBVIOUS
    <2> QED  BY <2>2, <2>3
  <1> QED  BY <1>2, <1>3 DEF DecodedFresh

\* A register write leaves the other registers alone.
LEMMA OthersUnwritten ==
  ASSUME TypeInv, NEW d \in RegisterID, NEW v
  PROVE  \A r \in RegisterID : r # d => Written(d, v).value[r] = regs.value[r]
  BY DEF Written, TypeInv, TypeOK, RegisterSet

\* A step of the store stage that finishes, or goes on with, an instruction.
LEMMA StoreEffect ==
  ASSUME TypeInv, ControlInv, StoreStage, ~StoreReceive, ~StoreResume
  PROVE  /\ store_at # "top" /\ UNCHANGED <<execute_store, store_pkt>>
         /\ \A r \in RegisterID : ~WritesReg(store_pkt, r) => regs'.value[r] = regs.value[r]
         /\ store_at' # "top" => regs' = regs
  <1>1. CASE StoreValueIntoReg \/ StoreLoaded
    <2>1. /\ store_at # "top" /\ store_at' = "top" /\ UNCHANGED <<execute_store, store_pkt>>
          /\ store_pkt.opcode \in {"STORAGE_STORE_VALUE_INTO_REG", "STORAGE_LOAD_MEM_INTO_REG"}
          /\ \E v : regs' = Written(store_pkt.dest_reg, v)
      BY <1>1 DEF StoreValueIntoReg, StoreLoaded, Storing, ControlInv, PacketShapes
    <2>2. store_pkt.dest_reg \in RegisterID
      BY <2>1 DEF TypeInv, TypeOK, SlotsFilled, Slot, ExecStagePacket
    <2> QED  BY <2>1, <2>2, OthersUnwritten DEF WritesReg
  <1>2. CASE StoreHalt
    <2>1. /\ store_at # "top" /\ UNCHANGED <<execute_store, store_pkt>>
          /\ regs' = regs \/ (regs' = [regs EXCEPT !.hasHalted = TRUE] /\ store_at' = "top")
      BY <1>2 DEF StoreHalt, Storing
    <2>2. [regs EXCEPT !.hasHalted = TRUE].value = regs.value
      BY DEF TypeInv, TypeOK, RegisterSet
    <2> QED  BY <2>1, <2>2
  <1>3. CASE StoreRegIntoMem \/ StoreSendRead \/ StoreAcceptResponse \/ StoreJmp \/ StoreCjmp
    BY <1>3 DEF StoreRegIntoMem, StoreSendRead, StoreAcceptResponse, StoreJmp, StoreCjmp, Storing
  <1> QED  BY <1>1, <1>2, <1>3 DEF StoreStage

LEMMA StoreFresh ==
  ASSUME TypeInv, ControlInv, ProgramInv, Fresh, StoreStage
  PROVE  Fresh'
  <1>0. prog' = prog /\ UNCHANGED <<decode_execute, execute_at, execute_pkt>>
    BY DEF StoreStage, StoreReceive, StoreValueIntoReg, StoreRegIntoMem, StoreSendRead,
           StoreAcceptResponse, StoreLoaded, StoreJmp, StoreCjmp, StoreHalt, StoreResume, NotStore,
           executeVars
  <1>1. CASE StoreReceive
    <2>1. /\ regs' = regs /\ store_at = "top" /\ store_at' = "switch"
          /\ store_pkt' = execute_store /\ execute_store # None /\ execute_store' = None
      BY <1>1 DEF StoreReceive
    <2>2. \A r \in RegisterID : PendingWrites(r)' = PendingWrites(r)
      BY <2>1 DEF PendingWrites, One, WritesReg
    <2>3. DecodedFresh'
      BY <1>0, <2>1, <2>2, DecodedStaysFresh DEF Fresh
    <2>4. ExecutedFresh'
      <3> PICK p : p = execute_store
        OBVIOUS
      <3>1. ExecutedRight(p)
        BY <2>1 DEF Fresh, ExecutedFresh
      <3>2. ExecutedRight(p)'
        BY <1>0, <2>1, <3>1, ExecutedKept
      <3>3. store_pkt' = p
        BY <2>1
      <3> QED  BY <2>1, <3>2, <3>3 DEF ExecutedFresh
    <2> QED  BY <2>3, <2>4 DEF Fresh
  <1>2. CASE StoreResume
    <2>1. ControlInStore
      BY <1>2 DEF StoreResume, ControlInStore, Redirects, ControlInv, PacketShapes
    <2>2. ExecuteEmpty
      BY <2>1 DEF ControlInv, NothingBehindJump
    <2> QED
      BY <1>0, <1>2, <2>2
      DEF StoreResume, ExecuteEmpty, DecodeEmpty, FrontEmpty, Fresh, DecodedFresh, ExecutedFresh
  <1>3. CASE ~StoreReceive /\ ~StoreResume
    <2>1. /\ store_at # "top" /\ UNCHANGED <<execute_store, store_pkt>>
          /\ \A r \in RegisterID : ~WritesReg(store_pkt, r) => regs'.value[r] = regs.value[r]
          /\ store_at' # "top" => regs' = regs
      BY <1>3, StoreEffect
    <2>2. \A r \in RegisterID : PendingWrites(r) = 0 =>
                                  PendingWrites(r)' = 0 /\ ~WritesReg(store_pkt, r)
      BY <2>1 DEF PendingWrites, One, WritesReg
    <2>3. DecodedFresh'
      BY <1>0, <2>1, <2>2, DecodedStaysFresh DEF Fresh
    <2>4. ASSUME execute_store # None
          PROVE  /\ ExecutedRight(execute_store)'
                 /\ \A r \in Reads(InsnOf(execute_store))' :
                      store_at' # "top" => ~WritesReg(store_pkt', r)
      <3> PICK p : p = execute_store
        OBVIOUS
      <3>1. /\ ExecutedRight(p) /\ p.PC \in Int
            /\ \A r \in Reads(InsnOf(p)) : ~WritesReg(store_pkt, r)
        BY <2>1, <2>4, PacketPlaces DEF Fresh, ExecutedFresh
      <3>2. Reads(InsnOf(p)) \subseteq RegisterID /\ InsnOf(p)' = InsnOf(p)
        BY <1>0, <3>1, OperandTypes DEF InsnOf
      <3>3. ExecutedRight(p)'
        BY <1>0, <2>1, <3>1, <3>2, ExecutedKept
      <3>4. execute_store' = p /\ store_pkt' = store_pkt
        BY <2>1
      <3> QED  BY <3>1, <3>2, <3>3, <3>4
    <2>5. ASSUME store_at' # "top" PROVE ExecutedRight(store_pkt)'
      <3> PICK p : p = store_pkt
        OBVIOUS
      <3>1. ExecutedRight(p) /\ regs' = regs /\ store_pkt' = p
        BY <2>1, <2>5 DEF Fresh, ExecutedFresh
      <3>2. ExecutedRight(p)'
        BY <1>0, <3>1, ExecutedKept
      <3> QED  BY <3>1, <3>2
    <2>6. ExecutedFresh'
      BY <2>1, <2>4, <2>5 DEF ExecutedFresh
    <2> QED  BY <2>3, <2>6 DEF Fresh
  <1> QED  BY <1>1, <1>2, <1>3

\* The other stages leave the values of the registers alone.
LEMMA ExecuteValues ==
  ASSUME TypeInv, ExecuteStage
  PROVE  regs'.value = regs.value
  <1>1. \A d : Invalidated(d).value = regs.value
    BY DEF Invalidated, TypeInv, TypeOK, RegisterSet
  <1> QED
    BY <1>1 DEF ExecuteStage, ExecuteReceive, ExecuteWriteRegister, ExecuteLoad, ExecuteStore,
                ExecuteRestorePc, ExecuteCondJmp, ExecuteJmp, ExecuteHalt

LEMMA ExecuteFresh ==
  ASSUME TypeInv, ControlInv, ScoreInv, ProgramInv, Fresh, ExecuteStage
  PROVE  Fresh'
  <1>0. prog' = prog /\ UNCHANGED storeVars /\ regs'.value = regs.value
    BY ExecuteValues
    DEF ExecuteStage, ExecuteReceive, ExecuteWriteRegister, ExecuteLoad, ExecuteStore,
        ExecuteRestorePc, ExecuteCondJmp, ExecuteJmp, ExecuteHalt, NotExecute
  <1>1. ASSUME store_at' # "top" PROVE ExecutedRight(store_pkt)'
    <2> PICK p : p = store_pkt
      OBVIOUS
    <2>1. ExecutedRight(p) /\ store_pkt' = p
      BY <1>0, <1>1 DEF Fresh, ExecutedFresh, storeVars
    <2>2. ExecutedRight(p)'
      BY <1>0, <2>1, ExecutedKept
    <2> QED  BY <2>1, <2>2
  <1>2. CASE ExecuteReceive
    <2>1. /\ execute_at = "top" /\ execute_store = None /\ execute_at' = "switch"
          /\ decode_execute # None /\ decode_execute' = None /\ execute_pkt' = decode_execute
          /\ execute_store' = execute_store /\ regs' = regs
      BY <1>2 DEF ExecuteReceive
    <2>2. \A r \in RegisterID : PendingWrites(r)' = PendingWrites(r)
      BY <1>0, <2>1 DEF PendingWrites, One, WritesReg, storeVars
    <2> PICK p : p = decode_execute
      OBVIOUS
    <2>3. DecodedRight(p) /\ p.PC \in Int /\ \A r \in Operands(InsnOf(p)) : PendingWrites(r) = 0
      BY <2>1, PacketPlaces DEF Fresh, DecodedFresh
    <2>4. Operands(InsnOf(p)) \subseteq RegisterID /\ InsnOf(p)' = InsnOf(p)
      BY <1>0, <2>3, OperandTypes DEF InsnOf
    <2>5. DecodedRight(p)' /\ \A r \in Operands(InsnOf(p))' : PendingWrites(r)' = 0
      BY <1>0, <2>1, <2>2, <2>3, <2>4, DecodedKept
    <2>6. DecodedFresh'
      BY <2>1, <2>5 DEF DecodedFresh
    <2> QED  BY <1>1, <2>1, <2>6 DEF Fresh, ExecutedFresh
  <1>3. CASE ~ExecuteReceive
    <2>1. /\ execute_at = "switch" /\ execute_at' = "top" /\ decode_execute' = decode_execute
          /\ execute_store' # None
      BY <1>3, ExecutePasses
    <2>2. decode_execute = None
      BY <2>1 DEF Fresh, DecodedFresh
    <2> PICK p : p = execute_store'
      OBVIOUS
    <2>3. ExecutedRight(p) /\ \A r \in Reads(InsnOf(p)) : PendingWrites(r) = 0
      BY <1>3, ExecuteRight
    <2>4. ExecutedRight(p)' /\ InsnOf(p)' = InsnOf(p)
      BY <1>0, <2>3, ExecutedKept DEF InsnOf
    <2>5. \A r : PendingWrites(r) = 0 /\ store_at' # "top" => ~WritesReg(store_pkt', r)
      BY <1>0 DEF PendingWrites, One, WritesReg, storeVars
    <2>6. ExecutedFresh'
      BY <1>1, <2>3, <2>4, <2>5 DEF ExecutedFresh
    <2> QED  BY <2>1, <2>2, <2>6 DEF Fresh, DecodedFresh
  <1> QED  BY <1>2, <1>3

LEMMA OthersFresh ==
  ASSUME TypeInv, ProgramInv, Fresh, prog' = prog,
         UNCHANGED <<regs, execute_at, execute_pkt, execute_store, storeVars>>,
         decode_execute' = decode_execute \/ DecodedFresh'
  PROVE  Fresh'
  <1>1. \A r \in RegisterID : PendingWrites(r)' = PendingWrites(r)
    BY DEF PendingWrites, One, WritesReg, storeVars
  <1>2. DecodedFresh'
    BY <1>1, DecodedStaysFresh DEF Fresh
  <1>3. \A p : ExecutedRight(p) => ExecutedRight(p)'
    BY ExecutedKept
  <1>4. \A p : InsnOf(p)' = InsnOf(p)
    BY DEF InsnOf
  <1>5. execute_store # None => ExecutedRight(execute_store)'
    <2> PICK p : p = execute_store
      OBVIOUS
    <2> QED  BY <1>3 DEF Fresh, ExecutedFresh
  <1>6. store_at # "top" => ExecutedRight(store_pkt)'
    <2> PICK p : p = store_pkt
      OBVIOUS
    <2>1. store_pkt' = p
      BY DEF storeVars
    <2> QED  BY <1>3, <2>1 DEF Fresh, ExecutedFresh
  <1>7. ExecutedFresh'
    BY <1>4, <1>5, <1>6 DEF Fresh, ExecutedFresh, storeVars, InsnOf, WritesReg
  <1> QED  BY <1>2, <1>7 DEF Fresh

\* The decode stage reads its operands when no write to them is in flight.
LEMMA DecodeFresh ==
  ASSUME TypeInv, ControlInv, ScoreInv, ProgramInv, FetchedRight, Fresh, DecodeStage,
         DecodeWaitsForExecute
  PROVE  Fresh'
  <1>0. prog' = prog /\ UNCHANGED <<regs, execute_at, execute_pkt, execute_store, storeVars>>
    BY DEF DecodeStage, DecodeReceive, DecodeNop, DecodeSend, NotDecode, executeVars
  <1>1. CASE DecodeReceive \/ DecodeNop
    <2>1. decode_execute' = decode_execute
      BY <1>1 DEF DecodeReceive, DecodeNop
    <2> QED  BY <1>0, <2>1, OthersFresh
  <1>2. CASE DecodeSend
    <2>1. /\ decode_at = "switch" /\ decode_at' = "top" /\ execute_at' = "top"
          /\ decode_pkt \in FetchToDecodeBusPacket
      BY <1>0, <1>2
      DEF DecodeSend, DecodeWaitsForExecute, TypeInv, TypeOK, SlotsFilled, Slot
    <2> PICK i : i = decode_pkt.insn
      OBVIOUS
    <2> PICK p : p = decode_execute'
      OBVIOUS
    <2>2. /\ p.PC = decode_pkt.PC /\ p.opcode = ExecuteOpcode(i.op) /\ p.regID = DestReg(i)
          /\ p.value0 = Value0(i) /\ p.value1 = Value1(i, p.PC) /\ p.value2 = Value2(i)
          /\ p.offset = i.imm
          /\ p.wanted = IF i.op \in CondJumps THEN CondJumpFlags[i.op] ELSE {}
      BY <1>2 DEF DecodeSend
    <2>3. i = InsnOf(p) /\ i.op # "NOP" /\ p.PC \in Int
      BY <1>2, <2>1, <2>2 DEF DecodeSend, FetchedRight, InsnOf, FetchToDecodeBusPacket
    <2>4. DecodedRight(p)
      BY <2>2, <2>3 DEF DecodedRight
    <2>5. Operands(i) \subseteq RegisterID \ {REG_PC} /\ \A r \in Operands(i) : is_valid(r)
      BY <1>2, <2>3, OperandTypes DEF DecodeSend, InsnOf
    <2>6. \A r \in Operands(i) : PendingWrites(r) = 0
      BY <2>5, ValidAwaitsNoWrite
    <2>7. DecodedRight(p)' /\ InsnOf(p)' = i
      BY <1>0, <2>3, <2>4, DecodedKept DEF InsnOf
    <2>8. \A r : PendingWrites(r)' = PendingWrites(r)
      BY <1>0 DEF PendingWrites, WritesReg, storeVars
    <2>9. \A r \in Operands(InsnOf(p))' : PendingWrites(r)' = 0
      BY <2>6, <2>7, <2>8
    <2>10. DecodedFresh'
      BY <2>1, <2>7, <2>9 DEF DecodedFresh
    <2> QED  BY <1>0, <2>10, OthersFresh
  <1> QED  BY <1>1, <1>2 DEF DecodeStage

LEMMA InitFresh == Init => Fresh
  BY DEF Init, Fresh, DecodedFresh, ExecutedFresh

LEMMA StepFresh ==
  ASSUME TypeInv, ControlInv, ScoreInv, ProgramInv, FetchedRight, Fresh,
         DecodeWaitsForExecute, [Next]_vars
  PROVE  Fresh'
  <1>1. CASE FetchStage \/ Memory \/ UNCHANGED vars
    <2>1. UNCHANGED <<regs, decode_execute, execute_at, execute_pkt, execute_store, storeVars>>
      BY <1>1
      DEF FetchStage, FetchNext, FetchAwaitRedirect, FetchReceiveRedirect, FetchRetarget,
          FetchRetargeted, FetchLineArrives, FetchFillLine, FetchSelect, FetchSend, NotFetch,
          Memory, NotMemory, vars, executeVars
    <2>2. prog' = prog
      BY ProgramKept
    <2> QED  BY <2>1, <2>2, OthersFresh
  <1> QED  BY <1>1, DecodeFresh, ExecuteFresh, StoreFresh DEF Next

-----------------------------------------------------------------------------
(***************************************************************************)
(* The invariant.                                                          *)
(***************************************************************************)
LEMMA InitProgramInv == Init /\ ~ReadsPc(prog) => ProgramInv
  BY CodeIsAddressable DEF Init, MemoryInit, ProgramInv

\* Driven in lockstep, the core takes the steps of SimtPipeline.
LEMMA LockstepTakesSteps == [LockstepNext]_lockstepVars => [Next]_vars
  <1>1. \A c : Stage(c) => Next
    BY DEF Stage, Next
  <1>2. \A c : Polls(c) => UNCHANGED vars
    BY DEF Polls
  <1>3. \A c : MemoryTurn(c) => Memory \/ UNCHANGED vars
    BY DEF MemoryTurn, Memory
  <1> QED  BY <1>1, <1>2, <1>3 DEF LockstepNext, lockstepVars, Next

LEMMA LockstepRefines == LockstepSpec => Spec
  BY LockstepTakesSteps, PTL DEF LockstepSpec, LockstepInit, Spec

\* After a store that finishes, or before, the oldest instruction is the same one
\* for every other step.
LEMMA StoreInOrder ==
  ASSUME TypeInv, ControlInv, TypeInv', ControlInv', InOrder, StoreStage
  PROVE  InOrder'
  <1>1. CASE StoreReceive
    BY <1>1, ReceiveInOrder
  <1>2. CASE StoreSendRead \/ StoreAcceptResponse \/ (StoreHalt /\ store_at' # "top")
    <2>1. /\ UNCHANGED <<prog, fetchVars, store_fetch, fetch_decode, decodeVars, decode_execute,
                         executeVars, execute_store, store_pkt>>
          /\ store_at # "top" /\ store_at' # "top"
      BY <1>2 DEF StoreSendRead, StoreAcceptResponse, StoreHalt, AcceptResponse, Storing, NotStore
    <2>2. /\ ToFetch' = ToFetch /\ ToDecode' = ToDecode /\ InDecode' = InDecode
          /\ ToExecute' = ToExecute /\ InExecute' = InExecute /\ ToStore' = ToStore
      BY <2>1 DEF ToFetch, ToDecode, InDecode, ToExecute, InExecute, ToStore, At, Place, fetchVars,
                  decodeVars, executeVars
    <2> HIDE DEF ToFetch, ToDecode, InDecode, ToExecute, InExecute, ToStore
    <2> QED
      BY <2>1, <2>2 DEF InOrder, Behind, Place, FallsThrough, InsnOf, decodeVars, executeVars
  <1>3. CASE store_at # "top" /\ store_at' = "top" /\ store_fetch' = store_fetch
    <2>1. UNCHANGED <<prog, fetchVars, fetch_decode, decodeVars, decode_execute, executeVars>>
      BY DEF StoreStage, StoreReceive, StoreValueIntoReg, StoreRegIntoMem, StoreSendRead,
             StoreAcceptResponse, StoreLoaded, StoreJmp, StoreCjmp, StoreHalt, StoreResume, NotStore
    <2>2. execute_store' = execute_store
      BY <1>3 DEF StoreStage, StoreReceive, StoreValueIntoReg, StoreRegIntoMem, StoreSendRead,
             StoreAcceptResponse, StoreLoaded, StoreJmp, StoreCjmp, StoreHalt, StoreResume
    <2>3. UNCHANGED <<prog, fetchVars, store_fetch, fetch_decode, decodeVars, decode_execute,
                     executeVars, execute_store>>
      BY <1>3, <2>1, <2>2
    <2> QED  BY <1>3, <2>3, FinishInOrder
  <1>4. CASE StoreLoaded \/ StoreJmp \/ StoreCjmp \/ StoreResume
    <2>1. store_at # "top" /\ store_at' = "top"
      BY <1>4 DEF StoreLoaded, StoreJmp, StoreCjmp, StoreResume, Storing
    <2>2. store_fetch' = store_fetch \/ store_fetch' \in StoreToFetchPacket
      BY <1>4, StorePackets DEF StoreLoaded
    <2>3. CASE store_fetch' # None
      <3>1. Drained'
        BY <2>3 DEF ControlInv, NothingBehindJump
      <3> QED  BY <2>3, <3>1, RedirectInOrder
    <2>4. CASE store_fetch' = None
      <3>1. store_fetch' = store_fetch
        BY <2>2, <2>4, NoneIsNoPacket
      <3> QED  BY <1>3, <2>1, <3>1
    <2> QED  BY <2>3, <2>4
  <1>5. CASE StoreValueIntoReg \/ StoreRegIntoMem \/ (StoreHalt /\ store_at' = "top")
    <2>1. store_at # "top" /\ store_at' = "top" /\ store_fetch' = store_fetch
      BY <1>5 DEF StoreValueIntoReg, StoreRegIntoMem, StoreHalt, Storing
    <2> QED  BY <1>3, <2>1
  <1> QED  BY <1>1, <1>2, <1>4, <1>5 DEF StoreStage

LEMMA IdleInOrder ==
  ASSUME InOrder, UNCHANGED <<prog, fetchVars, store_fetch, fetch_decode, decodeVars,
                              decode_execute, executeVars, execute_store, storeVars>>
  PROVE  InOrder' /\ InStore' = InStore
  <1>1. /\ ToFetch' = ToFetch /\ ToDecode' = ToDecode /\ InDecode' = InDecode
        /\ ToExecute' = ToExecute /\ InExecute' = InExecute /\ ToStore' = ToStore
    BY DEF ToFetch, ToDecode, InDecode, ToExecute, InExecute, ToStore, At, Place, fetchVars,
           decodeVars, executeVars
  <1> HIDE DEF ToFetch, ToDecode, InDecode, ToExecute, InExecute, ToStore
  <1> QED
    BY <1>1 DEF InOrder, InStore, At, Behind, Place, FallsThrough, InsnOf, decodeVars,
                executeVars, storeVars

LEMMA StepInOrder ==
  ASSUME TypeInv, ControlInv, TypeInv', ControlInv', ProgramInv, FetchedRight, InOrder,
         [Next]_vars
  PROVE  InOrder'
  <1>1. CASE Memory \/ UNCHANGED vars
    <2>1. UNCHANGED <<fetchVars, store_fetch, fetch_decode, decodeVars,
                      decode_execute, executeVars, execute_store, storeVars>>
      BY <1>1 DEF Memory, NotMemory, vars
    <2> QED  BY <2>1, ProgramKept, IdleInOrder
  <1> QED
    BY <1>1, FetchInOrder, DecodeInOrder, ExecuteInOrder, StoreInOrder DEF Next

LEMMA ProgramStays ==
  ASSUME ProgramInv, [Next]_vars
  PROVE  ProgramInv'
  BY ProgramKept DEF ProgramInv, ReadsPc

LEMMA IsaInvHolds == LockstepSpec /\ ~ReadsPc(prog) => [](ProgramInv /\ IsaInv)
  <1>1. LockstepInit /\ ~ReadsPc(prog) => ProgramInv /\ IsaInv
    BY InitProgramInv, InitFetchedRight, InitFresh, InitInOrder, InitLoadRight, InitRoundOrder
    DEF LockstepInit, IsaInv
  <1>2. /\ TypeInv /\ ControlInv /\ TypeInv' /\ ControlInv' /\ ScoreInv
        /\ ProgramInv /\ IsaInv /\ [LockstepNext]_lockstepVars
        => ProgramInv' /\ IsaInv'
    <2> SUFFICES ASSUME TypeInv, ControlInv, TypeInv', ControlInv', ScoreInv, ProgramInv, IsaInv,
                        [LockstepNext]_lockstepVars
                 PROVE  ProgramInv' /\ IsaInv'
      OBVIOUS
    <2>1. [Next]_vars
      BY LockstepTakesSteps
    <2>2. RoundOrder' /\ DecodeWaitsForExecute
      BY StepRoundOrder DEF IsaInv
    <2> QED
      BY <2>1, <2>2, ProgramStays, StepFetchedRight, StepFresh, StepInOrder, StepLoadRight
      DEF IsaInv
  <1> QED
    BY <1>1, <1>2, LockstepRefines, TypeInvHolds, ControlInvHolds, ScoreInvHolds, PTL
    DEF LockstepSpec

-----------------------------------------------------------------------------
(***************************************************************************)
(* The instruction set's operators are those of the pipeline.              *)
(***************************************************************************)
LEMMA SameVectors ==
  /\ \A k : ISA!create_vec(k) = create_vec(k)
  /\ ISA!create_vec_incrementing_values = create_vec_incrementing_values
  /\ \A v, w : ISA!add(v, w) = add(v, w)
  /\ \A v, w : ISA!shift_left(v, w) = shift_left(v, w)
  /\ \A v, w, n : ISA!or_shift_left(v, w, n) = or_shift_left(v, w, n)
  /\ \A v, w : ISA!compare_vecs(v, w) = compare_vecs(v, w)
  /\ ISA!Threads = Threads /\ ISA!ALL_THREADS_EXEC_MASK = ALL_THREADS_EXEC_MASK
  <1>0. ISA!Threads = Threads /\ \A x : ISA!Wrap(x) = Wrap(x)
    BY DEF ISA!Threads, Threads, ISA!Wrap, Wrap
  <1>1. \A x, y : ISA!get_compare_result(x, y) = get_compare_result(x, y)
    BY DEF ISA!get_compare_result, get_compare_result, ISA!FLAGS_MASK_EQ, ISA!FLAGS_MASK_GT,
           ISA!FLAGS_MASK_LT, FLAGS_MASK_EQ, FLAGS_MASK_GT, FLAGS_MASK_LT
  <1>2. \A k : ISA!create_vec(k) = create_vec(k)
    BY <1>0 DEF ISA!create_vec, create_vec
  <1>3. ISA!create_vec_incrementing_values = create_vec_incrementing_values
    BY <1>0 DEF ISA!create_vec_incrementing_values, create_vec_incrementing_values
  <1>4. \A v, w : ISA!add(v, w) = add(v, w)
    BY <1>0 DEF ISA!add, add
  <1>5. \A v, w : ISA!shift_left(v, w) = shift_left(v, w)
    BY <1>0 DEF ISA!shift_left, shift_left
  <1>6. \A v, w, n : ISA!or_shift_left(v, w, n) = or_shift_left(v, w, n)
    BY <1>0 DEF ISA!or_shift_left, or_shift_left
  <1>7. \A v, w : ISA!compare_vecs(v, w) = compare_vecs(v, w)
    BY <1>0, <1>1 DEF ISA!compare_vecs, compare_vecs
  <1> QED
    BY <1>0, <1>2, <1>3, <1>4, <1>5, <1>6, <1>7
    DEF ISA!ALL_THREADS_EXEC_MASK, ALL_THREADS_EXEC_MASK

LEMMA SameInstructions ==
  /\ \A code, pc : ISA!InsnAt(code, pc) = InsnAt(code, pc)
  /\ \A code, pc : ISA!AfterNops(code, pc) = AfterNops(code, pc)
  /\ \A i : ISA!DestReg(i) = DestReg(i)
  /\ ISA!CondJumps = CondJumps /\ ISA!CondJumpFlags = CondJumpFlags
  /\ ISA!MovesToReg = MovesToReg /\ ISA!MovesToR0 = MovesToR0 /\ ISA!Arithmetic = Arithmetic
  /\ \A mask, flags, wanted :
       ISA!get_cmp_mask(mask, flags, wanted) = get_cmp_mask(mask, flags, wanted)
  <1>1. \A code, pc : ISA!InsnAt(code, pc) = InsnAt(code, pc)
    BY DEF ISA!InsnAt, InsnAt, ISA!ZeroInsn, ZeroInsn
  <1>2. \A code, pc : ISA!AfterNops(code, pc) = AfterNops(code, pc)
    BY Zenon DEF ISA!AfterNops, AfterNops
  <1>3. ISA!MovesToR0 = MovesToR0 /\ ISA!MovesToReg = MovesToReg /\ ISA!Arithmetic = Arithmetic
    BY DEF ISA!MovesToR0, MovesToR0, ISA!MovesToReg, MovesToReg, ISA!Arithmetic, Arithmetic
  <1>4. \A i : ISA!DestReg(i) = DestReg(i)
    BY <1>3 DEF ISA!DestReg, DestReg
  <1>5. ISA!CondJumpFlags = CondJumpFlags
    BY Zenon DEF ISA!CondJumpFlags, CondJumpFlags, ISA!FLAGS_MASK_EQ, ISA!FLAGS_MASK_GT,
           ISA!FLAGS_MASK_LT, FLAGS_MASK_EQ, FLAGS_MASK_GT, FLAGS_MASK_LT
  <1>6. ISA!CondJumps = CondJumps
    BY <1>5 DEF ISA!CondJumps, CondJumps
  <1>7. \A mask, flags, wanted :
          ISA!get_cmp_mask(mask, flags, wanted) = get_cmp_mask(mask, flags, wanted)
    BY Zenon DEF ISA!get_cmp_mask, get_cmp_mask
  <1> QED  BY <1>1, <1>2, <1>3, <1>4, <1>5, <1>6, <1>7

-----------------------------------------------------------------------------
(***************************************************************************)
(* Where the instruction set stands.                                       *)
(***************************************************************************)
\* The running group of the refinement.
Runs == IF regs.hasHalted THEN None ELSE Oldest

LEMMA OldestIsInStore == Oldest = InStore
  BY DEF Oldest, InStore, ToStore, InExecute, ToExecute, InDecode, ToDecode, ToFetch, At

LEMMA OldestIsInStoreNext == Oldest' = InStore'
  BY DEF Oldest, InStore, ToStore, InExecute, ToExecute, InDecode, ToDecode, ToFetch, At

\* While the store stage holds an instruction, it is the next one of the program.
LEMMA StandsAtStore ==
  ASSUME TypeInv, ControlInv, HaltedDrained, ProgramInv, Fresh, store_at # "top",
         NEW p, p = store_pkt
  PROVE  /\ ~regs.hasHalted /\ p \in ExecStagePacket /\ ExecutedRight(p)
         /\ InsnOf(p) \in Instruction /\ InsnOf(p).op # "NOP"
         /\ Runs = [PC |-> p.PC, exec_mask |-> p.exec_mask] /\ Runs # None
         /\ ISA!Insn = InsnOf(p)
  <1>1. p \in ExecStagePacket /\ ExecutedRight(p)
    BY DEF TypeInv, TypeOK, SlotsFilled, Slot, Fresh, ExecutedFresh
  <1>2. p.PC \in Int /\ p.exec_mask \in ExecMask
    BY <1>1 DEF ExecStagePacket
  <1>3. InsnOf(p) \in Instruction /\ InsnOf(p).op # "NOP"
    BY <1>1, <1>2, OperandTypes DEF InsnOf, ExecutedRight
  <1>4. ~regs.hasHalted
    BY DEF HaltedDrained, Drained
  <1>5. AfterNops(prog, p.PC) = p.PC
    BY <1>2, <1>3, NopsPassed DEF InsnOf, ProgramInv
  <1>6. Oldest = [PC |-> p.PC, exec_mask |-> p.exec_mask]
    BY <1>5 DEF Oldest, Place
  <1>7. Runs = [PC |-> p.PC, exec_mask |-> p.exec_mask]
    BY <1>4, <1>6 DEF Runs
  <1>8. Runs # None
    BY <1>2, <1>7, NoneIsNoGroup
  <1>9. ISA!Insn = InsnOf(p)
    BY <1>7, SameInstructions DEF ISA!Insn, InsnOf, Runs
  <1> QED  BY <1>1, <1>3, <1>4, <1>7, <1>8, <1>9

\* Behind an instruction that is no jump, the next one is where the group stands.
LEMMA RunsBehind ==
  ASSUME InOrder, store_at # "top", store_at' = "top", ~regs.hasHalted', FallsThrough(store_pkt),
         UNCHANGED <<prog, fetchVars, store_fetch, fetch_decode, decodeVars, decode_execute,
                     executeVars, execute_store>>
  PROVE  Runs' = Behind(store_pkt)
  BY FinishInOrder, OldestIsInStoreNext DEF Runs

\* A redirect on the bus is where the group stands.
LEMMA RunsRedirected ==
  ASSUME ControlInv', ~regs.hasHalted', prog' = prog, NEW mask, NEW pc,
         store_fetch' = [exec_mask |-> mask, newpc |-> pc], mask \in ExecMask, pc \in Int
  PROVE  Runs' = Place(pc, mask)
  <1>1. store_fetch' # None
    <2>1. store_fetch' \in StoreToFetchPacket
      BY DEF StoreToFetchPacket
    <2> QED  BY <2>1, NoneIsNoPacket
  <1>2. Drained'
    BY <1>1 DEF ControlInv, NothingBehindJump
  <1>3. InStore' = Place(store_fetch.newpc, store_fetch.exec_mask)'
    BY <1>1, <1>2, RedirectInOrder
  <1>4. InStore' = Place(pc, mask)
    BY <1>3 DEF Place
  <1> QED  BY <1>4, OldestIsInStoreNext DEF Runs

\* A step that moves nothing on leaves the instruction set where it stands.
LEMMA RunsStays ==
  ASSUME InStore' = InStore, regs'.hasHalted = regs.hasHalted
  PROVE  Runs' = Runs
  BY OldestIsInStore, OldestIsInStoreNext DEF Runs

-----------------------------------------------------------------------------
(***************************************************************************)
(* The memory in effect.                                                   *)
(***************************************************************************)
Carried(m, pkt) == IF IsWrite(pkt) THEN AfterWrite(m, pkt) ELSE m

LEMMA InEffect == MemoryInEffect = Carried(Carried(mem, vec_accepted), vec_request)
  BY DEF MemoryInEffect, Carried

LEMMA InEffectNext ==
  MemoryInEffect' = Carried(Carried(mem', vec_accepted'), vec_request')
  BY DEF MemoryInEffect, Carried, IsWrite, AfterWrite

\* The memory carries out what is in effect already.
LEMMA MemoryChangesNothing ==
  ASSUME Memory
  PROVE  MemoryInEffect' = MemoryInEffect
  <1>0. \A m : Carried(m, None) = m
    BY DEF Carried, IsWrite
  <1>1. CASE InsnMemoryRespond
    BY <1>1, InEffect, InEffectNext DEF InsnMemoryRespond, vecBus
  <1>2. CASE VecMemoryAccept
    BY <1>0, <1>2, InEffect, InEffectNext DEF VecMemoryAccept
  <1>3. CASE VecMemoryRead
    <2>1. \A m : Carried(m, vec_accepted) = m
      BY <1>3 DEF VecMemoryRead, Carried, IsRead, IsWrite
    <2> QED  BY <1>0, <1>3, <2>1, InEffect, InEffectNext DEF VecMemoryRead
  <1>4. CASE VecMemoryWrite
    <2>1. Carried(mem, vec_accepted) = mem'
      BY <1>4 DEF VecMemoryWrite, Carried
    <2> QED  BY <1>0, <1>4, <2>1, InEffect, InEffectNext DEF VecMemoryWrite, vecBus
  <1> QED  BY <1>1, <1>2, <1>3, <1>4 DEF Memory, VecMemoryFinish

\* Of the lanes that write to one word, one is the last.
LEMMA LastLaneExists ==
  ASSUME NEW S \in SUBSET Threads, S # {}
  PROVE  \E t \in S : \A u \in S : u <= t
  <1>1. NUMBER_OF_VECTOR_THREADS \in Nat \ {0}
    BY VectorOpsAssumption
  <1> DEFINE Down(t) == NUMBER_OF_VECTOR_THREADS - 1 - t
             D == {Down(t) : t \in S}
  <1>2. D \subseteq Nat /\ D # {}
    <2>1. \A t \in S : Down(t) \in Nat
      BY <1>1 DEF Threads
    <2>2. \E t \in S : TRUE
      OBVIOUS
    <2> QED  BY <2>1, <2>2
  <1>3. PICK d \in D : \A c \in D : ~(<<c, d>> \in OpToRel(<, Nat))
    BY <1>2, NatLessThanWellFounded, WFMin
  <1>4. \A c \in D : ~(c < d)
    BY <1>2, <1>3 DEF OpToRel
  <1>5. PICK t \in S : d = Down(t)
    BY <1>3
  <1>6. ASSUME NEW u \in S PROVE u <= t
    <2>1. ~(Down(u) < Down(t))
      BY <1>4, <1>5
    <2> QED  BY <1>1, <2>1 DEF Threads
  <1> QED  BY <1>5, <1>6

\* The lanes that write to a word, and the last of some lanes.
LanesTo(address, a) == {t \in Threads : address[t] = a}
LastOf(S) == CHOOSE t \in S : \A u \in S : u <= t

\* A write as the instruction set has it.
LEMMA WriteByLastLane ==
  ASSUME NEW m, NEW pkt, NEW a \in Addr, NEW S, S = LanesTo(pkt.address, a)
  PROVE  AfterWrite(m, pkt)[a] = IF S = {} THEN m[a] ELSE pkt.payload[LastOf(S)]
  <1> DEFINE Last == {t \in Threads : /\ pkt.address[t] = a
                                      /\ \A u \in Threads : u > t => pkt.address[u] # a}
  <1>1. AfterWrite(m, pkt)[a] = IF Last # {} THEN pkt.payload[CHOOSE t \in Last : TRUE] ELSE m[a]
    BY DEF AfterWrite
  <1>0. S \subseteq Threads /\ \A t \in Threads : t \in S <=> pkt.address[t] = a
    BY DEF LanesTo
  <1>2. CASE S = {}
    <2>1. Last = {}
      BY <1>0, <1>2
    <2> QED  BY <1>1, <1>2, <2>1
  <1>3. CASE S # {}
    <2> PICK top : top = LastOf(S)
      OBVIOUS
    <2>1. \E t \in S : \A u \in S : u <= t
      BY <1>0, <1>3, LastLaneExists
    <2>2. top \in S /\ \A u \in S : u <= top
      BY <2>1 DEF LastOf
    <2>3. Threads \subseteq Int
      BY VectorOpsAssumption DEF Threads
    <2>4. top \in Last
      BY <1>0, <2>2, <2>3
    <2>5. \A t \in Last : t = top
      BY <1>0, <2>2, <2>3
    <2> HIDE DEF Last
    <2>6. (CHOOSE t \in Last : TRUE) = top
      BY <2>4, <2>5
    <2> QED  BY <1>1, <1>3, <2>4, <2>6
  <1> QED  BY <1>2, <1>3

\* A write that is carried out twice is carried out once.
LEMMA WriteTwice ==
  ASSUME NEW m, NEW pkt
  PROVE  AfterWrite(AfterWrite(m, pkt), pkt) = AfterWrite(m, pkt)
  BY DEF AfterWrite

-----------------------------------------------------------------------------
(***************************************************************************)
(* The groups that wait.                                                   *)
(***************************************************************************)
WaitingGroup == {Group(c) : c \in ThreadContext}
InRing(s)    == [k \in DOMAIN s |-> Group(s[k])]

LEMMA SuspendedIs ==
  Suspended = IF store_at = "resume"
              THEN <<Group(new_thread_ctxt)>> \o InRing(SuspendedGroups)
              ELSE InRing(SuspendedGroups)
  BY DEF Suspended, InRing

LEMMA SuspendedIsNext ==
  Suspended' = IF store_at' = "resume"
               THEN <<Group(new_thread_ctxt')>> \o InRing(SuspendedGroups')
               ELSE InRing(SuspendedGroups')
  BY DEF Suspended, InRing, Group

LEMMA RingIsSequence ==
  ASSUME NEW s \in Seq(ThreadContext)
  PROVE  /\ InRing(s) \in Seq(WaitingGroup)
         /\ Len(InRing(s)) = Len(s) /\ Len(s) \in Nat
         /\ \A k \in 1 .. Len(s) : InRing(s)[k] = Group(s[k])
  <1>1. DOMAIN s = 1 .. Len(s) /\ Len(s) \in Nat /\ \A k \in 1 .. Len(s) : s[k] \in ThreadContext
    BY LenProperties
  <1>2. InRing(s) \in [1 .. Len(s) -> WaitingGroup]
    BY <1>1 DEF InRing, WaitingGroup
  <1>3. InRing(s) \in Seq(WaitingGroup)
    BY <1>1, <1>2, SeqDef
  <1>4. Len(InRing(s)) = Len(s)
    BY <1>1, <1>2, <1>3, LenProperties
  <1>5. \A k \in 1 .. Len(s) : InRing(s)[k] = Group(s[k])
    BY <1>1 DEF InRing
  <1> QED  BY <1>1, <1>3, <1>4, <1>5

LEMMA RingAppend ==
  ASSUME NEW s \in Seq(ThreadContext), NEW c \in ThreadContext
  PROVE  InRing(Append(s, c)) = Append(InRing(s), Group(c))
  <1> DEFINE t == Append(s, c)
             n == Len(s)
             L == InRing(t)
             R == Append(InRing(s), Group(c))
  <1>1. /\ t \in Seq(ThreadContext) /\ Len(t) = n + 1 /\ t[n + 1] = c
        /\ \A k \in 1 .. n : t[k] = s[k]
    BY AppendProperties
  <1>2. n \in Nat /\ Group(c) \in WaitingGroup
    BY RingIsSequence DEF WaitingGroup
  <1> HIDE DEF t
  <1>3. /\ R \in Seq(WaitingGroup) /\ Len(R) = n + 1
        /\ R[n + 1] = Group(c) /\ \A k \in 1 .. n : R[k] = InRing(s)[k]
    BY <1>2, AppendProperties, RingIsSequence
  <1>4. /\ L \in Seq(WaitingGroup) /\ Len(L) = n + 1
        /\ \A k \in 1 .. n + 1 : L[k] = Group(t[k])
    BY <1>1, RingIsSequence
  <1>5. \A k \in 1 .. n : InRing(s)[k] = Group(s[k])
    BY RingIsSequence
  <1> HIDE DEF L, R, n
  <1>6. \A k \in 1 .. n + 1 : k \in 1 .. n \/ k = n + 1
    BY <1>2
  <1>7. \A k \in 1 .. n + 1 : L[k] = R[k]
    BY <1>1, <1>3, <1>4, <1>5, <1>6
  <1>8. L = R
    BY <1>3, <1>4, <1>7, SeqEqual
  <1> QED  BY <1>8 DEF L, R, t

\* One group in front of others.
LEMMA GroupInFront ==
  ASSUME NEW f \in Seq(WaitingGroup), NEW q \in Seq(WaitingGroup), Len(f) = 1
  PROVE  /\ f \o q \in Seq(WaitingGroup) /\ Len(f \o q) = 1 + Len(q)
         /\ \A k \in 1 .. 1 + Len(q) : (f \o q)[k] = IF k <= 1 THEN f[k] ELSE q[k - 1]
  <1>1. /\ f \o q \in Seq(WaitingGroup) /\ Len(f \o q) = Len(f) + Len(q)
        /\ \A k \in 1 .. Len(f) + Len(q) :
             (f \o q)[k] = IF k <= Len(f) THEN f[k] ELSE q[k - Len(f)]
    BY ConcatProperties, Zenon
  <1> QED  BY <1>1

LEMMA RingPop ==
  ASSUME NEW s \in Seq(ThreadContext), s # <<>>
  PROVE  InRing(s) = <<Group(Head(s))>> \o InRing(Tail(s))
  <1>1. /\ Tail(s) \in Seq(ThreadContext) /\ Len(Tail(s)) = Len(s) - 1
        /\ \A k \in 1 .. Len(Tail(s)) : Tail(s)[k] = s[k + 1]
        /\ Head(s) = s[1] /\ Head(s) \in ThreadContext
    BY HeadTailProperties
  <1> PICK t \in Seq(ThreadContext) : t = Tail(s)
    BY <1>1
  <1> PICK f : f = <<Group(Head(s))>>
    OBVIOUS
  <1> PICK q : q = InRing(t)
    OBVIOUS
  <1> PICK n : n = Len(t)
    OBVIOUS
  <1>2. f \in Seq(WaitingGroup) /\ Len(f) = 1 /\ f[1] = Group(Head(s))
    BY <1>1 DEF WaitingGroup
  <1>3. n \in Nat /\ Len(s) = n + 1
    BY <1>1, RingIsSequence
  <1>4. /\ q \in Seq(WaitingGroup) /\ Len(q) = n
        /\ \A k \in 1 .. n : q[k] = Group(t[k])
    BY RingIsSequence
  <1> PICK R : R = f \o q
    OBVIOUS
  <1>6. /\ R \in Seq(WaitingGroup) /\ Len(R) = 1 + n
        /\ \A k \in 1 .. 1 + n : R[k] = IF k <= 1 THEN f[k] ELSE q[k - 1]
    BY <1>2, <1>4, GroupInFront
  <1> PICK L : L = InRing(s)
    OBVIOUS
  <1>7. /\ L \in Seq(WaitingGroup) /\ Len(L) = 1 + n
        /\ \A k \in 1 .. 1 + n : L[k] = Group(s[k])
    BY <1>3, RingIsSequence
  <1>8. ASSUME NEW k \in 1 .. 1 + n PROVE L[k] = R[k]
    <2>1. CASE k = 1
      BY <1>1, <1>2, <1>6, <1>7, <2>1
    <2>2. CASE k # 1
      <3>1. k - 1 \in 1 .. n /\ ~(k <= 1) /\ (k - 1) + 1 = k
        BY <1>3, <2>2
      <3>2. R[k] = Group(t[k - 1])
        BY <1>4, <1>6, <3>1
      <3>3. t[k - 1] = s[k]
        BY <1>1, <3>1
      <3> QED  BY <1>7, <3>2, <3>3
    <2> QED  BY <2>1, <2>2
  <1>9. L = R
    BY <1>6, <1>7, <1>8, SeqEqual
  <1> QED  BY <1>9

\* What is at the head of a sequence, and what follows it.
LEMMA RingFirst ==
  ASSUME NEW g \in WaitingGroup, NEW s \in Seq(WaitingGroup)
  PROVE  /\ <<g>> \o s # <<>>
         /\ Head(<<g>> \o s) = g /\ Tail(<<g>> \o s) = s
  <1> DEFINE f == <<g>>
             t == f \o s
  <1>1. f \in Seq(WaitingGroup) /\ Len(f) = 1 /\ f[1] = g
    OBVIOUS
  <1> HIDE DEF f
  <1>2. Len(s) \in Nat
    BY LenProperties
  <1>3. /\ t \in Seq(WaitingGroup) /\ Len(t) = 1 + Len(s)
        /\ \A i \in 1 .. 1 + Len(s) : t[i] = IF i <= 1 THEN f[i] ELSE s[i - 1]
    BY <1>1, GroupInFront
  <1> HIDE DEF t
  <1>4. t # <<>> /\ t[1] = g
    BY <1>1, <1>2, <1>3, EmptySeq
  <1>5. Head(t) = g
    BY <1>3, <1>4
  <1>6. /\ Tail(t) \in Seq(WaitingGroup) /\ Len(Tail(t)) = Len(s)
        /\ \A i \in 1 .. Len(s) : Tail(t)[i] = t[i + 1]
    BY <1>2, <1>3, <1>4, HeadTailProperties
  <1>7. \A i \in 1 .. Len(s) : Tail(t)[i] = s[i]
    <2> SUFFICES ASSUME NEW i \in 1 .. Len(s) PROVE Tail(t)[i] = s[i]
      OBVIOUS
    <2>1. i + 1 \in 1 .. 1 + Len(s) /\ ~(i + 1 <= 1) /\ (i + 1) - 1 = i
      BY <1>2
    <2> QED  BY <1>3, <1>6, <2>1
  <1>8. Tail(t) = s
    BY <1>6, <1>7, SeqEqual
  <1> QED  BY <1>4, <1>5, <1>8 DEF t, f

-----------------------------------------------------------------------------
(***************************************************************************)
(* What the store stage finishes is a step of the instruction set.         *)
(***************************************************************************)
\* The instruction a packet for the store stage comes from.
LEMMA StoredKinds ==
  ASSUME NEW p, ExecutedRight(p), InsnOf(p) \in Instruction
  PROVE  /\ p.opcode = "STORAGE_STORE_VALUE_INTO_REG" => InsnOf(p).op \in ToRegister
         /\ p.opcode = "STORAGE_STORE_REG_INTO_MEM" => InsnOf(p).op = "STORE_REG_CONST_REG"
         /\ p.opcode = "STORAGE_LOAD_MEM_INTO_REG" =>
              InsnOf(p).op \in {"LOAD_REG_CONST_REG", "LOAD_RESTORE_PC"}
         /\ p.opcode = "STORAGE_JMP" => InsnOf(p).op = "JMP_ALWAYS" \/ InsnOf(p).op \in CondJumps
         /\ p.opcode = "STORAGE_CJMP" => InsnOf(p).op \in CondJumps
         /\ p.opcode = "STORAGE_HALT" => InsnOf(p).op = "HALT"
  <1> PICK op : op = InsnOf(p).op
    OBVIOUS
  <1>1. op \in ToRegister \union CondJumps
               \union {"LOAD_REG_CONST_REG", "LOAD_RESTORE_PC", "STORE_REG_CONST_REG",
                       "JMP_ALWAYS", "HALT"}
    BY DEF ExecutedRight, Instruction, Opcode, ToRegister, ControlFlow
  <1>2. op \in CondJumps => p.opcode \in {"STORAGE_JMP", "STORAGE_CJMP"}
    BY DEF ExecutedRight, CondJumpRight
  <1> QED  BY <1>1, <1>2 DEF ExecutedRight

\* The instructions that go on with the next one.
LEMMA GoesOn ==
  ASSUME NEW p, InsnOf(p).op \in ToRegister \union {"LOAD_REG_CONST_REG", "STORE_REG_CONST_REG"}
  PROVE  FallsThrough(p)
  BY KindsDiffer DEF FallsThrough, changesControlFlow, ControlFlow

LEMMA IsaRunning ==
  ASSUME NEW ops, Runs # None, ISA!Insn.op \in ops
  PROVE  ISA!Running(ops)
  BY DEF ISA!Running, Runs

LEMMA IsaContinues ==
  ASSUME NEW pc, NEW mask, Runs' = Place(pc, mask)
  PROVE  ISA!Continue(pc, mask)
  BY SameInstructions DEF ISA!Continue, Runs, Place

LEMMA IsaAdvances ==
  ASSUME NEW p, Runs = [PC |-> p.PC, exec_mask |-> p.exec_mask], Runs' = Behind(p)
  PROVE  ISA!Advance
  <1>1. ISA!Continue(p.PC + 1, p.exec_mask)
    BY IsaContinues DEF Behind
  <1>2. /\ (IF regs.hasHalted THEN None ELSE Oldest).PC = p.PC
        /\ (IF regs.hasHalted THEN None ELSE Oldest).exec_mask = p.exec_mask
    BY DEF Runs
  <1> QED  BY <1>1, <1>2 DEF ISA!Advance

\* A step that changes nothing the instruction set speaks of.
LEMMA IsaStutters ==
  ASSUME prog' = prog, Runs' = Runs, regs'.value = regs.value,
         MemoryInEffect' = MemoryInEffect, Suspended' = Suspended
  PROVE  UNCHANGED ISA!isaVars
  BY DEF ISA!isaVars, Runs

LEMMA EffectKept ==
  ASSUME UNCHANGED <<mem, vec_accepted, vec_request>>
  PROVE  MemoryInEffect' = MemoryInEffect
  BY InEffect, InEffectNext

LEMMA SuspendedKept ==
  ASSUME UNCHANGED queueVars, store_at # "resume", store_at' # "resume"
  PROVE  Suspended' = Suspended
  BY SuspendedIs, SuspendedIsNext, QueueKept

\* What a write to a register does.
LEMMA WrittenValue ==
  ASSUME TypeInv, NEW d \in RegisterID, NEW v, regs' = Written(d, v)
  PROVE  regs'.value = [regs.value EXCEPT ![d] = v] /\ regs'.hasHalted = regs.hasHalted
  BY DEF Written, TypeInv, TypeOK, RegisterSet

LEMMA IsaResult ==
  ASSUME NEW p, NEW i, i = InsnOf(p), ISA!Insn = i,
         Runs = [PC |-> p.PC, exec_mask |-> p.exec_mask],
         i.op \in ToRegister, i.op # "CMP_REG_REG"
  PROVE  ISA!Result = ResultOf(i, p.PC)
  <1>1. (IF regs.hasHalted THEN None ELSE Oldest).PC = p.PC
    BY DEF Runs
  <1> QED
    BY <1>1, SameVectors DEF ISA!Result, ResultOf, ToRegister, MovesToReg, MovesToR0, Arithmetic

\* Where the instruction set's step starts from.
StateInv == TypeInv /\ ControlInv /\ GroupInv /\ HaltedDrained /\ ProgramInv /\ IsaInv

\* What the store stage leaves alone when it finishes an instruction that is no jump.
LEMMA FinishIsa ==
  ASSUME StateInv, StoreValueIntoReg \/ StoreRegIntoMem \/ StoreLoaded, NEW p, p = store_pkt,
         FallsThrough(p), store_fetch' = store_fetch, regs'.hasHalted = regs.hasHalted
  PROVE  /\ prog' = prog /\ Suspended' = Suspended
         /\ ISA!Advance
  <1>1. /\ store_at # "top" /\ store_at # "resume" /\ store_at' = "top"
        /\ UNCHANGED <<prog, fetchVars, fetch_decode, decodeVars, decode_execute, executeVars,
                       execute_store, queueVars>>
    BY DEF StoreValueIntoReg, StoreRegIntoMem, StoreLoaded, Storing, NotStore
  <1>2. ~regs.hasHalted /\ Runs = [PC |-> p.PC, exec_mask |-> p.exec_mask]
    BY <1>1, StandsAtStore DEF StateInv, IsaInv
  <1>3. Runs' = Behind(p)
    BY <1>1, <1>2, RunsBehind DEF StateInv, IsaInv
  <1> QED  BY <1>1, <1>2, <1>3, IsaAdvances, SuspendedKept

\* A result that goes to a register.
LEMMA ValueIsa ==
  ASSUME StateInv, StoreValueIntoReg
  PROVE  ISA!Next
  <1> PICK p : p = store_pkt
    OBVIOUS
  <1> PICK i : i = InsnOf(p)
    OBVIOUS
  <1>1. store_at # "top" /\ p.opcode = "STORAGE_STORE_VALUE_INTO_REG"
    BY DEF StoreValueIntoReg, Storing
  <1>2. /\ p \in ExecStagePacket /\ ExecutedRight(p) /\ i \in Instruction
        /\ Runs = [PC |-> p.PC, exec_mask |-> p.exec_mask] /\ Runs # None /\ ISA!Insn = i
    BY <1>1, StandsAtStore DEF StateInv, IsaInv
  <1>3. i.op \in ToRegister
    BY <1>1, <1>2, StoredKinds
  <1>4. p.dest_reg = Target(i) /\ p.src_value = ResultOf(i, p.PC) /\ p.dest_reg \in RegisterID
    BY <1>2, <1>3 DEF ExecutedRight, ExecStagePacket
  <1>5. /\ regs'.value = [regs.value EXCEPT ![p.dest_reg] = p.src_value]
        /\ regs'.hasHalted = regs.hasHalted
    BY <1>4, WrittenValue DEF StoreValueIntoReg, StateInv
  <1>6. UNCHANGED <<mem, vec_accepted, vec_request, store_fetch>>
    BY DEF StoreValueIntoReg, NotStore, vecBus
  <1>7. prog' = prog /\ Suspended' = Suspended /\ ISA!Advance /\ MemoryInEffect' = MemoryInEffect
    BY <1>3, <1>5, <1>6, FinishIsa, GoesOn, EffectKept
  <1>8. CASE i.op = "CMP_REG_REG"
    <2>1. ISA!Running({"CMP_REG_REG"})
      BY <1>2, <1>8, IsaRunning
    <2>2. /\ p.dest_reg = REG_FLAGS
          /\ p.src_value = ISA!compare_vecs(regs.value[i.r1], regs.value[i.r2])
      BY <1>4, <1>8, SameVectors DEF Target, ResultOf
    <2>3. ISA!Compare
      BY <1>2, <1>5, <1>7, <2>1, <2>2 DEF ISA!Compare
    <2> QED  BY <2>3 DEF ISA!Next
  <1>9. CASE i.op # "CMP_REG_REG"
    <2>1. i.op \in ISA!MovesToReg \union ISA!MovesToR0 \union ISA!Arithmetic
                     \union {"LOAD_REG_CONST_REG"}
      BY <1>3, <1>9, SameInstructions DEF ToRegister
    <2>2. ISA!Running(ISA!MovesToReg \union ISA!MovesToR0 \union ISA!Arithmetic
                      \union {"LOAD_REG_CONST_REG"})
      BY <1>2, <2>1, IsaRunning
    <2>3. p.dest_reg = ISA!DestReg(i) /\ p.src_value = ISA!Result
      BY <1>2, <1>3, <1>4, <1>9, IsaResult, SameInstructions DEF Target
    <2>4. ISA!WriteRegister
      BY <1>2, <1>5, <1>7, <2>2, <2>3 DEF ISA!WriteRegister
    <2> QED  BY <2>4 DEF ISA!Next
  <1> QED  BY <1>8, <1>9

\* A vector that goes to memory.  The request slot may hold the same store already.
LEMMA StoreIsa ==
  ASSUME StateInv, StoreRegIntoMem, vec_request # None => vec_request' = vec_request
  PROVE  ISA!Next
  <1> PICK p : p = store_pkt
    OBVIOUS
  <1> PICK i : i = InsnOf(p)
    OBVIOUS
  <1>1. store_at = "switch" /\ p.opcode = "STORAGE_STORE_REG_INTO_MEM"
    BY DEF StoreRegIntoMem, Storing
  <1>2. /\ p \in ExecStagePacket /\ ExecutedRight(p) /\ i \in Instruction
        /\ Runs = [PC |-> p.PC, exec_mask |-> p.exec_mask] /\ Runs # None /\ ISA!Insn = i
    BY <1>1, StandsAtStore DEF StateInv, IsaInv
  <1>3. i.op = "STORE_REG_CONST_REG"
    BY <1>1, <1>2, StoredKinds
  <1>4. /\ p.dest_value = add(create_vec(i.imm), regs.value[i.r2])
        /\ p.src_value = regs.value[i.r1]
    BY <1>2, <1>3 DEF ExecutedRight
  <1>5. UNCHANGED <<mem, vec_accepted, store_fetch, regs>>
    BY DEF StoreRegIntoMem, NotStore
  <1>6. prog' = prog /\ Suspended' = Suspended /\ ISA!Advance
    BY <1>3, <1>5, FinishIsa, GoesOn
  <1> PICK q : q = vec_request'
    OBVIOUS
  <1>7. q = [packet_type |-> "write", address |-> p.dest_value, payload |-> p.src_value]
    BY DEF StoreRegIntoMem
  <1>8. IsWrite(q) /\ q.address = p.dest_value /\ q.payload = p.src_value
    <2>1. q \in VecBusPacket
      BY <1>2, <1>7 DEF VecBusPacket, ExecStagePacket
    <2> QED  BY <1>7, <2>1, NoneIsNoPacket DEF IsWrite
  <1> PICK m : m = Carried(mem, vec_accepted)
    OBVIOUS
  <1>9. MemoryInEffect' = AfterWrite(m, q)
    BY <1>5, <1>8, InEffectNext DEF Carried
  <1>10. \A a \in Addr : AfterWrite(MemoryInEffect, q)[a] = AfterWrite(m, q)[a]
         /\ AfterWrite(MemoryInEffect, q) = AfterWrite(m, q)
    <2>1. CASE vec_request = None
      BY <2>1, InEffect DEF Carried, IsWrite
    <2>2. CASE vec_request # None
      <3>1. MemoryInEffect = AfterWrite(m, q)
        BY <1>8, <2>2, InEffect DEF Carried
      <3> QED  BY <3>1, WriteTwice
    <2> QED  BY <2>1, <2>2
  <1>11. MemoryInEffect' = AfterWrite(MemoryInEffect, q)
    <2> QED  BY <1>9, <1>10 DEF AfterWrite
  <1> PICK e : e = MemoryInEffect
    OBVIOUS
  <1> DEFINE New(a) == IF LanesTo(p.dest_value, a) = {} THEN e[a]
                       ELSE p.src_value[LastOf(LanesTo(p.dest_value, a))]
  <1>12. MemoryInEffect' = [a \in Addr |-> New(a)]
    <2>1. \A a \in Addr : AfterWrite(e, q)[a] = New(a)
      BY <1>8, WriteByLastLane
    <2>2. AfterWrite(e, q) = [a \in Addr |-> AfterWrite(e, q)[a]]
      BY DEF AfterWrite
    <2> HIDE DEF New
    <2> QED  BY <1>11, <2>1, <2>2
  <1>13. ISA!Running({"STORE_REG_CONST_REG"})
    BY <1>2, <1>3, IsaRunning
  <1> DEFINE address  == ISA!add(ISA!create_vec(ISA!Insn.imm), regs.value[ISA!Insn.r2])
             Lanes(a) == {t \in ISA!Threads : address[t] = a}
             AsIsa(a) == IF Lanes(a) = {} THEN MemoryInEffect[a]
                         ELSE regs.value[ISA!Insn.r1][CHOOSE t \in Lanes(a) :
                                                        \A u \in Lanes(a) : u <= t]
  <1>14. \A a : New(a) = AsIsa(a)
    <2> TAKE a
    <2>1. address = p.dest_value /\ p.src_value = regs.value[ISA!Insn.r1]
      BY <1>2, <1>4, SameVectors
    <2> HIDE DEF address
    <2>2. Lanes(a) = LanesTo(p.dest_value, a)
      BY <2>1, SameVectors DEF LanesTo
    <2> HIDE DEF Lanes
    <2>3. (CHOOSE t \in Lanes(a) : \A u \in Lanes(a) : u <= t) = LastOf(Lanes(a))
      BY DEF LastOf
    <2> QED  BY <2>1, <2>2, <2>3
  <1>15. MemoryInEffect' = [a \in Addr |-> AsIsa(a)]
    <2> HIDE DEF New, AsIsa
    <2> QED  BY <1>12, <1>14
  <1>16. ISA!StoreToMemory
    BY <1>5, <1>6, <1>13, <1>15, Zenon DEF ISA!StoreToMemory
  <1> QED  BY <1>16 DEF ISA!Next

LEMMA IsaMemory ==
  ASSUME NEW address, MemoryInEffect = mem
  PROVE  ISA!Memory(address) = WordsAt(address)
  BY SameVectors DEF ISA!Memory, WordsAt

LEMMA NothingOnItsWay ==
  ASSUME vec_request = None, vec_accepted = None
  PROVE  MemoryInEffect = mem
  BY InEffect DEF Carried, IsWrite

\* A load, or a return, that was answered.
LEMMA LoadIsa ==
  ASSUME StateInv, ControlInv', StoreLoaded
  PROVE  ISA!Next
  <1> PICK p : p = store_pkt
    OBVIOUS
  <1> PICK i : i = InsnOf(p)
    OBVIOUS
  <1>1. store_at = "loaded" /\ p.opcode = "STORAGE_LOAD_MEM_INTO_REG"
    BY DEF StoreLoaded, StateInv, ControlInv, PacketShapes
  <1>2. /\ p \in ExecStagePacket /\ ExecutedRight(p) /\ i \in Instruction /\ ~regs.hasHalted
        /\ Runs = [PC |-> p.PC, exec_mask |-> p.exec_mask] /\ Runs # None /\ ISA!Insn = i
    BY <1>1, StandsAtStore DEF StateInv, IsaInv
  <1>3. i.op \in {"LOAD_REG_CONST_REG", "LOAD_RESTORE_PC"}
    BY <1>1, <1>2, StoredKinds
  <1>4. p.dest_reg \in RegisterID /\ p.exec_mask \in ExecMask
    BY <1>2 DEF ExecStagePacket
  <1>5. /\ regs'.value = [regs.value EXCEPT ![p.dest_reg] = loaded]
        /\ regs'.hasHalted = regs.hasHalted
    BY <1>4, WrittenValue DEF StoreLoaded, StateInv
  <1>6. UNCHANGED <<prog, mem, vec_accepted, vec_request, queueVars>> /\ store_at' = "top"
    BY DEF StoreLoaded, NotStore, vecBus
  <1>7. /\ loaded = WordsAt(p.src_value) /\ MemoryInEffect = mem
        /\ MemoryInEffect' = MemoryInEffect
    BY <1>1, <1>6, NothingOnItsWay, EffectKept DEF StateInv, IsaInv, LoadRight
  <1>8. CASE i.op = "LOAD_REG_CONST_REG"
    <2>1. /\ ~p.is_store_to_pc /\ p.dest_reg = i.r1
          /\ p.src_value = add(create_vec(i.imm), regs.value[i.r2])
      BY <1>2, <1>8 DEF ExecutedRight
    <2>2. prog' = prog /\ Suspended' = Suspended /\ ISA!Advance
      BY <1>5, <1>8, <2>1, FinishIsa, GoesOn DEF StoreLoaded
    <2>3. ISA!Running(ISA!MovesToReg \union ISA!MovesToR0 \union ISA!Arithmetic
                      \union {"LOAD_REG_CONST_REG"})
      BY <1>2, <1>8, IsaRunning
    <2>4. p.dest_reg = ISA!DestReg(i)
      BY <1>8, <2>1, SameInstructions DEF DestReg, MovesToR0
    <2>5. ISA!Result = ISA!Memory(ISA!add(ISA!create_vec(i.imm), regs.value[i.r2]))
      BY <1>2, <1>8 DEF ISA!Result
    <2>6. loaded = ISA!Result
      BY <1>7, <2>1, <2>5, IsaMemory, SameVectors
    <2>7. ISA!WriteRegister
      BY <1>2, <1>5, <1>7, <2>2, <2>3, <2>4, <2>6 DEF ISA!WriteRegister
    <2> QED  BY <2>7 DEF ISA!Next
  <1>9. CASE i.op = "LOAD_RESTORE_PC"
    <2>1. /\ p.is_store_to_pc /\ p.dest_reg = REG_PC
          /\ p.src_value = add(create_vec(i.imm), regs.value[i.r1])
      BY <1>2, <1>9 DEF ExecutedRight
    <2>2. loaded[0] \in Int
      <3>1. loaded \in VectorValue /\ 0 \in Threads
        BY <1>1, VectorOpsAssumption DEF StateInv, TypeInv, TypeOK, SlotsFilled, Slot, Threads
      <3> QED  BY <3>1, VectorOpsAssumption DEF VectorValue, LaneValue
    <2>3. store_fetch' = [exec_mask |-> p.exec_mask, newpc |-> loaded[0]]
      BY <2>1 DEF StoreLoaded, SendToFetch
    <2>4. Runs' = Place(loaded[0], p.exec_mask)
      BY <1>2, <1>4, <1>5, <1>6, <2>2, <2>3, RunsRedirected
    <2>5. Suspended' = Suspended
      BY <1>1, <1>6, SuspendedKept
    <2>6. ISA!Running({"LOAD_RESTORE_PC"})
      BY <1>2, <1>9, IsaRunning
    <2>7. loaded = ISA!Memory(ISA!add(ISA!create_vec(ISA!Insn.imm), regs.value[ISA!Insn.r1]))
      BY <1>2, <1>7, <2>1, IsaMemory, SameVectors
    <2>8. p.exec_mask = (IF regs.hasHalted THEN None ELSE Oldest).exec_mask
      BY <1>2 DEF Runs
    <2>9. ISA!Continue(loaded[0], (IF regs.hasHalted THEN None ELSE Oldest).exec_mask)
      BY <2>4, <2>8, IsaContinues
    <2>10. ISA!RestorePc
      BY <1>5, <1>6, <1>7, <2>1, <2>5, <2>6, <2>7, <2>9 DEF ISA!RestorePc
    <2> QED  BY <2>10 DEF ISA!Next
  <1> QED  BY <1>3, <1>8, <1>9

\* What a redirect of the store stage leaves alone, and where it leads.
LEMMA RedirectIsa ==
  ASSUME StateInv, ControlInv', NEW mask \in ExecMask, NEW pc \in Int, SendToFetch(mask, pc),
         ~regs'.hasHalted, prog' = prog
  PROVE  ISA!Continue(pc, mask)
  BY RunsRedirected, IsaContinues DEF SendToFetch

\* A jump that the lanes take together.
LEMMA JumpIsa ==
  ASSUME StateInv, ControlInv', StoreJmp
  PROVE  ISA!Next
  <1> PICK p : p = store_pkt
    OBVIOUS
  <1> PICK i : i = InsnOf(p)
    OBVIOUS
  <1>1. store_at = "switch" /\ p.opcode = "STORAGE_JMP"
    BY DEF StoreJmp, Storing
  <1>2. /\ p \in ExecStagePacket /\ ExecutedRight(p) /\ i \in Instruction /\ ~regs.hasHalted
        /\ Runs = [PC |-> p.PC, exec_mask |-> p.exec_mask] /\ Runs # None /\ ISA!Insn = i
    BY <1>1, StandsAtStore DEF StateInv, IsaInv
  <1>3. i.op = "JMP_ALWAYS" \/ i.op \in CondJumps
    BY <1>1, <1>2, StoredKinds
  <1>4. p.exec_mask \in ExecMask /\ p.dest_address \in Int
    BY <1>2 DEF ExecStagePacket
  <1>5. UNCHANGED <<prog, mem, vec_accepted, vec_request, queueVars, regs>> /\ store_at' = "top"
    BY DEF StoreJmp, NotStore, vecBus
  <1>6. MemoryInEffect' = MemoryInEffect /\ Suspended' = Suspended
    BY <1>1, <1>5, EffectKept, SuspendedKept
  <1>7. ISA!Continue(p.dest_address, p.exec_mask)
    BY <1>2, <1>4, <1>5, RedirectIsa DEF StoreJmp
  <1>8. /\ (IF regs.hasHalted THEN None ELSE Oldest).PC = p.PC
        /\ (IF regs.hasHalted THEN None ELSE Oldest).exec_mask = p.exec_mask
    BY <1>2 DEF Runs
  <1>9. CASE i.op = "JMP_ALWAYS"
    <2>1. ISA!Running({"JMP_ALWAYS"}) /\ p.dest_address = p.PC + i.imm
      BY <1>2, <1>9, IsaRunning DEF ExecutedRight
    <2>2. ISA!Jump
      BY <1>2, <1>5, <1>6, <1>7, <1>8, <2>1 DEF ISA!Jump
    <2> QED  BY <2>2 DEF ISA!Next
  <1>10. CASE i.op \in CondJumps
    <2>1. ISA!Running(ISA!CondJumps)
      BY <1>2, <1>10, IsaRunning, SameInstructions
    <2> PICK taken : taken = Taken(p)
      OBVIOUS
    <2>2. taken = ISA!get_cmp_mask(p.exec_mask, regs.value[REG_FLAGS], ISA!CondJumpFlags[i.op])
      BY SameInstructions DEF Taken
    <2>3. \/ taken = {} /\ p.dest_address = p.PC + 1
          \/ taken # {} /\ taken = p.exec_mask /\ p.dest_address = p.PC + i.imm
      BY <1>1, <1>2, <1>10 DEF ExecutedRight, CondJumpRight
    <2>4. taken = {} => ISA!Advance
      BY <1>7, <1>8, <2>3 DEF ISA!Advance
    <2>5. ISA!CondJump
      BY <1>2, <1>5, <1>6, <1>7, <1>8, <2>1, <2>2, <2>3, <2>4 DEF ISA!CondJump
    <2> QED  BY <2>5 DEF ISA!Next
  <1> QED  BY <1>3, <1>9, <1>10

\* A jump on which the lanes part: the group that jumps is queued behind the others.
LEMMA PartIsa ==
  ASSUME StateInv, TypeInv', ControlInv', StoreCjmp
  PROVE  ISA!Next
  <1> PICK p : p = store_pkt
    OBVIOUS
  <1> PICK i : i = InsnOf(p)
    OBVIOUS
  <1>1. store_at = "switch" /\ p.opcode = "STORAGE_CJMP" /\ Storing("STORAGE_CJMP")
    BY DEF StoreCjmp, Storing
  <1>2. /\ p \in ExecStagePacket /\ ExecutedRight(p) /\ i \in Instruction /\ ~regs.hasHalted
        /\ Runs = [PC |-> p.PC, exec_mask |-> p.exec_mask] /\ Runs # None /\ ISA!Insn = i
    BY <1>1, StandsAtStore DEF StateInv, IsaInv
  <1>3. i.op \in CondJumps
    BY <1>1, <1>2, StoredKinds
  <1> PICK taken : taken = Taken(p)
    OBVIOUS
  <1>4. /\ taken # {} /\ taken # p.exec_mask
        /\ p.dest_address = p.PC + i.imm /\ p.src_address = p.PC + 1
        /\ p.execution_flags_true = taken /\ p.execution_flags_false = p.exec_mask \ taken
    BY <1>1, <1>2, <1>3 DEF ExecutedRight, CondJumpRight
  <1>5. /\ p.execution_flags_true \in ExecMask /\ p.execution_flags_false \in ExecMask
        /\ p.dest_address \in Int /\ p.src_address \in Int
    BY <1>2 DEF ExecStagePacket
  <1>6. /\ UNCHANGED <<prog, mem, vec_accepted, vec_request, regs>>
        /\ store_at' = "top" /\ store_at # "resume"
    BY <1>1 DEF StoreCjmp, NotStore, vecBus
  <1> PICK c : c = [regs |-> regs, PC |-> p.dest_address, exec_mask |-> p.execution_flags_true]
    OBVIOUS
  <1>7. c \in ThreadContext
    BY <1>5 DEF ThreadContext, StateInv, TypeInv, TypeOK
  <1>8. push_to_front(c) /\ SendToFetch(p.execution_flags_false, p.src_address)
    BY DEF StoreCjmp
  <1>9. get_next_pos(write_pos) # read_pos
    BY <1>1, PushFindsSlot DEF StateInv, QueueNeverFull
  <1>10. SuspendedGroups' = Append(SuspendedGroups, c) /\ SuspendedGroups \in Seq(ThreadContext)
    BY <1>7, <1>8, <1>9, PushAppends, SuspendedType DEF StateInv, SuspendedInOrder
  <1>11. Suspended' = Append(Suspended, Group(c))
    <2>1. InRing(SuspendedGroups') = Append(InRing(SuspendedGroups), Group(c))
      BY <1>7, <1>10, RingAppend
    <2> QED  BY <1>6, <2>1, SuspendedIs, SuspendedIsNext
  <1>12. Group(c) = [regs |-> regs.value, PC |-> p.dest_address, exec_mask |-> taken]
    BY <1>4 DEF Group
  <1>13. MemoryInEffect' = MemoryInEffect
    BY <1>6, EffectKept
  <1>14. ISA!Continue(p.src_address, p.execution_flags_false)
    BY <1>2, <1>5, <1>6, <1>8, RedirectIsa
  <1>15. /\ (IF regs.hasHalted THEN None ELSE Oldest).PC = p.PC
         /\ (IF regs.hasHalted THEN None ELSE Oldest).exec_mask = p.exec_mask
    BY <1>2 DEF Runs
  <1>16. ISA!Running(ISA!CondJumps)
    BY <1>2, <1>3, IsaRunning, SameInstructions
  <1>17. taken = ISA!get_cmp_mask(p.exec_mask, regs.value[REG_FLAGS], ISA!CondJumpFlags[i.op])
    BY SameInstructions DEF Taken
  <1>18. ISA!CondJump
    BY <1>2, <1>4, <1>6, <1>11, <1>12, <1>13, <1>14, <1>15, <1>16, <1>17 DEF ISA!CondJump
  <1> QED  BY <1>18 DEF ISA!Next

\* The last group ends.
LEMMA LastHaltIsa ==
  ASSUME StateInv, StoreHalt, is_empty
  PROVE  ISA!Next
  <1> PICK p : p = store_pkt
    OBVIOUS
  <1>1. store_at = "switch" /\ p.opcode = "STORAGE_HALT"
    BY DEF StoreHalt, Storing
  <1>2. /\ ExecutedRight(p) /\ InsnOf(p) \in Instruction
        /\ Runs # None /\ ISA!Insn = InsnOf(p)
    BY <1>1, StandsAtStore DEF StateInv, IsaInv
  <1>3. ISA!Running({"HALT"})
    BY <1>1, <1>2, StoredKinds, IsaRunning
  <1>4. /\ UNCHANGED <<prog, mem, vec_accepted, vec_request, queueVars>>
        /\ store_at' = "top" /\ regs' = [regs EXCEPT !.hasHalted = TRUE]
    BY DEF StoreHalt, NotStore, vecBus, queueVars
  <1>5. regs'.hasHalted /\ regs'.value = regs.value
    BY <1>4 DEF StateInv, TypeInv, TypeOK, RegisterSet
  <1>6. Suspended = <<>>
    <2>1. read_pos \in RingPos /\ write_pos \in RingPos
      BY DEF StateInv, TypeInv, TypeOK
    <2>2. QueueLength = 0
      BY <2>1, QueueGeometry
    <2>3. SuspendedGroups = <<>>
      BY <2>2 DEF SuspendedGroups
    <2>4. InRing(SuspendedGroups) = <<>>
      BY <2>3 DEF InRing
    <2> QED  BY <1>1, <2>4, SuspendedIs
  <1>7. Suspended' = Suspended /\ MemoryInEffect' = MemoryInEffect
    BY <1>1, <1>4, SuspendedKept, EffectKept
  <1>8. ISA!HaltGroup
    BY <1>3, <1>4, <1>5, <1>6, <1>7 DEF ISA!HaltGroup
  <1> QED  BY <1>8 DEF ISA!Next

\* A group ends and the one that waited longest is taken off the queue; it still
\* counts as waiting.
LEMMA PopIsa ==
  ASSUME StateInv, TypeInv', StoreHalt, ~is_empty
  PROVE  UNCHANGED ISA!isaVars
  <1>1. /\ store_at = "switch" /\ store_at' = "resume" /\ regs' = regs
        /\ new_thread_ctxt' = contexts[read_pos] /\ read_pos' = get_next_pos(read_pos)
        /\ UNCHANGED <<prog, mem, vec_accepted, vec_request, contexts, write_pos, store_pkt>>
    BY DEF StoreHalt, Storing, NotStore, vecBus
  <1> PICK s : s = SuspendedGroups
    OBVIOUS
  <1>2. /\ s \in Seq(ThreadContext) /\ s # <<>> /\ Head(s) = new_thread_ctxt'
        /\ SuspendedGroups' = Tail(s)
    BY <1>1, PopTakesHead, SuspendedType DEF StateInv, SuspendedInOrder
  <1>3. Suspended' = <<Group(Head(s))>> \o InRing(Tail(s))
    BY <1>1, <1>2, SuspendedIsNext
  <1>4. Suspended = InRing(s)
    BY <1>1, SuspendedIs
  <1>5. Suspended' = Suspended
    BY <1>2, <1>3, <1>4, RingPop
  <1>6. InStore' = InStore
    BY <1>1 DEF InStore, At, Place
  <1>7. Runs' = Runs
    BY <1>1, <1>6, RunsStays
  <1> QED  BY <1>1, <1>5, <1>7, EffectKept, IsaStutters

\* The group that was taken off the queue goes on, with its registers.
LEMMA ResumeIsa ==
  ASSUME StateInv, ControlInv', StoreResume
  PROVE  ISA!Next
  <1> PICK p : p = store_pkt
    OBVIOUS
  <1> PICK c : c = new_thread_ctxt
    OBVIOUS
  <1>1. store_at = "resume" /\ p.opcode = "STORAGE_HALT"
    BY DEF StoreResume, StateInv, ControlInv, PacketShapes
  <1>2. /\ ExecutedRight(p) /\ InsnOf(p) \in Instruction
        /\ Runs # None /\ ISA!Insn = InsnOf(p)
    BY <1>1, StandsAtStore DEF StateInv, IsaInv
  <1>3. ISA!Running({"HALT"})
    BY <1>1, <1>2, StoredKinds, IsaRunning
  <1>4. c \in ThreadContext /\ ~c.regs.hasHalted
    BY <1>1 DEF StateInv, TypeInv, TypeOK, SlotsFilled, Slot, ControlInv, NoHaltSuspended
  <1>5. c.PC \in Int /\ c.exec_mask \in ExecMask
    BY <1>4 DEF ThreadContext
  <1>6. /\ UNCHANGED <<prog, mem, vec_accepted, vec_request, queueVars>>
        /\ store_at' = "top" /\ regs' = c.regs /\ SendToFetch(c.exec_mask, c.PC)
    BY DEF StoreResume, NotStore, vecBus
  <1>7. MemoryInEffect' = MemoryInEffect
    BY <1>6, EffectKept
  <1>8. SuspendedGroups' = SuspendedGroups /\ SuspendedGroups \in Seq(ThreadContext)
    BY <1>6, QueueKept, SuspendedType DEF StateInv, SuspendedInOrder
  <1> PICK s : s = InRing(SuspendedGroups)
    OBVIOUS
  <1>9. Suspended = <<Group(c)>> \o s /\ Suspended' = s
    BY <1>1, <1>6, <1>8, SuspendedIs, SuspendedIsNext
  <1>10. s \in Seq(WaitingGroup) /\ Group(c) \in WaitingGroup
    BY <1>4, <1>8, RingIsSequence DEF WaitingGroup
  <1>11. /\ Suspended # <<>> /\ Head(Suspended) = Group(c)
         /\ Tail(Suspended) = Suspended'
    BY <1>9, <1>10, RingFirst
  <1>12. /\ Group(c).regs = c.regs.value /\ Group(c).PC = c.PC
         /\ Group(c).exec_mask = c.exec_mask
    BY DEF Group
  <1>13. ISA!Continue(c.PC, c.exec_mask)
    BY <1>4, <1>5, <1>6, RedirectIsa
  <1>14. ISA!HaltGroup
    BY <1>3, <1>6, <1>7, <1>11, <1>12, <1>13 DEF ISA!HaltGroup
  <1> QED  BY <1>14 DEF ISA!Next

-----------------------------------------------------------------------------
(***************************************************************************)
(* What moves an instruction on, or waits, does not show.                  *)
(***************************************************************************)
LEMMA StagesIsa ==
  ASSUME StateInv, FetchStage \/ DecodeStage \/ ExecuteStage
  PROVE  UNCHANGED ISA!isaVars
  <1>1. /\ UNCHANGED <<prog, mem, vec_accepted, vecBus, queueVars, storeVars>>
        /\ regs' = regs \/ ExecuteStage
    BY DEF FetchStage, FetchNext, FetchAwaitRedirect, FetchReceiveRedirect, FetchRetarget,
           FetchRetargeted, FetchLineArrives, FetchFillLine, FetchSelect, FetchSend, NotFetch,
           DecodeStage, DecodeReceive, DecodeNop, DecodeSend, NotDecode,
           ExecuteStage, ExecuteReceive, ExecuteWriteRegister, ExecuteLoad, ExecuteStore,
           ExecuteRestorePc, ExecuteCondJmp, ExecuteJmp, ExecuteHalt, NotExecute
  <1>2. regs'.value = regs.value /\ regs'.hasHalted = regs.hasHalted
    <2>1. \A d : Invalidated(d).hasHalted = regs.hasHalted
      BY DEF Invalidated, StateInv, TypeInv, TypeOK, RegisterSet
    <2>2. ExecuteStage => regs'.hasHalted = regs.hasHalted
      BY <2>1 DEF ExecuteStage, ExecuteReceive, ExecuteWriteRegister, ExecuteLoad, ExecuteStore,
                  ExecuteRestorePc, ExecuteCondJmp, ExecuteJmp, ExecuteHalt
    <2>3. ExecuteStage => regs'.value = regs.value
      BY ExecuteValues DEF StateInv
    <2> QED  BY <1>1, <2>2, <2>3
  <1>3. InStore' = InStore
    BY FetchInOrder, DecodeInOrder, ExecuteInOrder DEF StateInv, IsaInv
  <1>4. Runs' = Runs
    BY <1>2, <1>3, RunsStays
  <1>5. Suspended' = Suspended
    BY <1>1, SuspendedIs, SuspendedIsNext, QueueKept DEF storeVars, Group
  <1> QED  BY <1>1, <1>2, <1>4, <1>5, EffectKept, IsaStutters DEF vecBus

\* The store stage takes an instruction, sends a read, or takes its answer.
LEMMA StoreWaitsIsa ==
  ASSUME StateInv, StoreReceive \/ StoreSendRead \/ StoreAcceptResponse,
         vec_request # None => vec_request' \in {vec_request, None}
  PROVE  UNCHANGED ISA!isaVars
  <1>1. UNCHANGED <<prog, mem, vec_accepted, queueVars, regs>>
    BY DEF StoreReceive, StoreSendRead, StoreAcceptResponse, NotStore
  <1>2. store_at # "resume" /\ store_at' # "resume"
    BY DEF StoreReceive, StoreSendRead, StoreAcceptResponse, AcceptResponse, Storing
  <1>3. InStore' = InStore
    <2>1. CASE StoreReceive
      BY <2>1, ReceiveInOrder DEF StateInv, IsaInv
    <2>2. CASE StoreSendRead \/ StoreAcceptResponse
      <3>1. store_at # "top" /\ store_at' # "top" /\ store_pkt' = store_pkt
        BY <2>2 DEF StoreSendRead, StoreAcceptResponse, AcceptResponse, Storing
      <3> QED  BY <1>1, <3>1 DEF InStore, At, Place
    <2> QED  BY <2>1, <2>2
  <1>4. MemoryInEffect' = MemoryInEffect
    <2>1. CASE StoreReceive \/ StoreAcceptResponse
      <3>1. vec_request' = vec_request
        BY <2>1 DEF StoreReceive, StoreAcceptResponse, vecBus
      <3> QED  BY <1>1, <3>1, EffectKept
    <2>2. CASE StoreSendRead
      <3>1. store_at = "switch" /\ store_pkt # None
        BY <2>2 DEF StoreSendRead, Storing, StateInv, TypeInv, SlotsFilled
      <3>2. ~IsRead(vec_request)
        BY <3>1, AtMostOneRead DEF StateInv
      <3> PICK q : q = vec_request'
        OBVIOUS
      <3>3. q = [packet_type |-> "read", address |-> store_pkt.src_value,
                 payload |-> create_vec(0)]
        BY <2>2 DEF StoreSendRead
      <3>4. q \in VecBusPacket
        <4>1. store_pkt \in ExecStagePacket
          BY <3>1 DEF StateInv, TypeInv, TypeOK, Slot
        <4> QED  BY <3>3, <4>1, VectorTypes DEF ExecStagePacket, VecBusPacket
      <3>5. IsRead(q) /\ ~IsWrite(q)
        BY <3>3, <3>4, NoneIsNoPacket DEF IsRead, IsWrite
      <3>6. vec_request = None
        BY <3>2, <3>4, <3>5, NoneIsNoPacket
      <3> QED  BY <1>1, <3>5, <3>6, InEffect, InEffectNext DEF Carried, IsWrite
    <2> QED  BY <2>1, <2>2
  <1> QED  BY <1>1, <1>2, <1>3, <1>4, RunsStays, SuspendedKept, IsaStutters

LEMMA MemoryIsa ==
  ASSUME Memory
  PROVE  UNCHANGED ISA!isaVars
  <1>1. UNCHANGED <<prog, regs, queueVars, storeVars, fetchVars, decodeVars, executeVars,
                    fetch_decode, decode_execute, execute_store, store_fetch>>
    BY ProgramKept DEF Memory, NotMemory, Next
  <1>2. InStore' = InStore
    BY <1>1 DEF InStore, ToStore, InExecute, ToExecute, InDecode, ToDecode, ToFetch, At, Place,
                fetchVars, decodeVars, executeVars, storeVars
  <1>3. Suspended' = Suspended
    BY <1>1, SuspendedIs, SuspendedIsNext, QueueKept DEF storeVars, Group
  <1> QED  BY <1>1, <1>2, <1>3, RunsStays, MemoryChangesNothing, IsaStutters

LEMMA StutterIsa ==
  ASSUME UNCHANGED vars
  PROVE  UNCHANGED ISA!isaVars
  <1>1. UNCHANGED <<prog, mem, regs, queueVars, storeVars, fetchVars, decodeVars, executeVars,
                    fetch_decode, decode_execute, execute_store, store_fetch, vec_request,
                    vec_accepted>>
    BY DEF vars, vecBus
  <1>2. InStore' = InStore
    BY <1>1 DEF InStore, ToStore, InExecute, ToExecute, InDecode, ToDecode, ToFetch, At, Place,
                fetchVars, decodeVars, executeVars, storeVars
  <1>3. Suspended' = Suspended
    BY <1>1, SuspendedIs, SuspendedIsNext, QueueKept DEF storeVars, Group
  <1> QED  BY <1>1, <1>2, <1>3, RunsStays, EffectKept, IsaStutters

-----------------------------------------------------------------------------
(***************************************************************************)
(* The refinement.                                                         *)
(***************************************************************************)
LEMMA StepIsa ==
  ASSUME StateInv, TypeInv', ControlInv', [Next]_vars,
         vec_request # None => vec_request' \in {vec_request, None}
  PROVE  ISA!Next \/ UNCHANGED ISA!isaVars
  <1>1. CASE FetchStage \/ DecodeStage \/ ExecuteStage
    BY <1>1, StagesIsa
  <1>2. CASE StoreReceive \/ StoreSendRead \/ StoreAcceptResponse
    BY <1>2, StoreWaitsIsa
  <1>3. CASE StoreValueIntoReg
    BY <1>3, ValueIsa
  <1>4. CASE StoreRegIntoMem
    <2>1. vec_request' # None
      <3>1. store_pkt \in ExecStagePacket
        BY <1>4 DEF StoreRegIntoMem, Storing, StateInv, TypeInv, TypeOK, SlotsFilled, Slot
      <3>2. vec_request' \in VecBusPacket
        BY <1>4, <3>1 DEF StoreRegIntoMem, ExecStagePacket, VecBusPacket
      <3> QED  BY <3>2, NoneIsNoPacket
    <2> QED  BY <1>4, <2>1, StoreIsa
  <1>5. CASE StoreLoaded
    BY <1>5, LoadIsa
  <1>6. CASE StoreJmp
    BY <1>6, JumpIsa
  <1>7. CASE StoreCjmp
    BY <1>7, PartIsa
  <1>8. CASE StoreHalt
    BY <1>8, LastHaltIsa, PopIsa
  <1>9. CASE StoreResume
    BY <1>9, ResumeIsa
  <1>10. CASE Memory
    BY <1>10, MemoryIsa
  <1>11. CASE UNCHANGED vars
    BY <1>11, StutterIsa
  <1> QED
    BY <1>1, <1>2, <1>3, <1>4, <1>5, <1>6, <1>7, <1>8, <1>9, <1>10, <1>11 DEF Next, StoreStage

LEMMA InitIsa == Init => ISA!Init
  <1> SUFFICES ASSUME Init PROVE ISA!Init
    OBVIOUS
  <1>1. PICK image \in Images : prog = image.code /\ mem = image.data
    BY DEF Init, MemoryInit
  <1>2. MemoryInEffect = mem
    BY NothingOnItsWay DEF Init, MemoryInit
  <1>3. Suspended = <<>>
    <2>1. SuspendedGroups = <<>>
      BY DEF Init, SuspendedGroups, QueueLength
    <2>2. InRing(SuspendedGroups) = <<>>
      BY <2>1 DEF InRing
    <2> QED  BY <2>2, SuspendedIs DEF Init
  <1>4. Runs = Place(0, ALL_THREADS_EXEC_MASK)
    BY OldestIsInStore
    DEF Init, Runs, InStore, ToStore, InExecute, ToExecute, InDecode, ToDecode, ToFetch
  <1>5. regs.value = [r \in RegisterID |-> ISA!create_vec(0)]
    BY SameVectors DEF Init
  <1>6. (IF regs.hasHalted THEN None ELSE Oldest)
          = [PC |-> ISA!AfterNops(prog, 0), exec_mask |-> ISA!ALL_THREADS_EXEC_MASK]
    BY <1>4, SameVectors, SameInstructions DEF Runs, Place
  <1> QED  BY <1>1, <1>2, <1>3, <1>5, <1>6 DEF ISA!Init

\* The oldest instruction in flight is always the next one of the program, and
\* every decoded one carries the operands its predecessors left, although decode,
\* execute and store work on three instructions at a time and the scoreboard
\* learns of a write only when the execute stage is done (DecodeStage.cpp:96-100,
\* ExecuteStage.cpp, RegisterFile.h): for a program that does not read REG_PC.
THEOREM OperandsFreshInOrder == LockstepSpec /\ ~ReadsPc(prog) => [](Fresh /\ InOrder)
  <1>1. IsaInv => Fresh /\ InOrder
    BY DEF IsaInv
  <1> QED  BY <1>1, IsaInvHolds, PTL

\* Resumed in the order of SimComponentRegistry::run, the pipeline does what the
\* instruction set says: each step is the next instruction of the program on the
\* registers and the memory its predecessors left, or does not show.  The two
\* hypotheses are what the code does not see to: a program that reads REG_PC may
\* do so before a return has written it, and a store that the memory controller
\* has not taken yet is overwritten by the next request.
THEOREM PipelineImplementsIsa ==
  LockstepSpec /\ ~ReadsPc(prog) /\ StoresNotOverwritten => ImplementsIsa
  <1> DEFINE Kept == vec_request # None => vec_request' \in {vec_request, None}
  <1>1. StateInv /\ TypeInv' /\ ControlInv' /\ [LockstepNext]_lockstepVars /\ [Kept]_vars
        => [ISA!Next]_(ISA!isaVars)
    <2> SUFFICES ASSUME StateInv, TypeInv', ControlInv', [LockstepNext]_lockstepVars, [Kept]_vars
                 PROVE  ISA!Next \/ UNCHANGED ISA!isaVars
      OBVIOUS
    <2>1. [Next]_vars
      BY LockstepTakesSteps
    <2>2. CASE UNCHANGED vars
      BY <2>2, StutterIsa
    <2>3. CASE Kept
      BY <2>1, <2>3, StepIsa
    <2> QED  BY <2>2, <2>3
  <1>2. TypeInv /\ ControlInv /\ GroupInv /\ HaltedDrained /\ ProgramInv /\ IsaInv <=> StateInv
    BY DEF StateInv
  <1>3. LockstepInit => ISA!Init
    BY InitIsa DEF LockstepInit
  <1> QED
    BY <1>1, <1>2, <1>3, LockstepRefines, TypeInvHolds, ControlInvHolds, GroupInvHolds, HaltedInv,
       IsaInvHolds, PTL
    DEF LockstepSpec, StoresNotOverwritten, ImplementsIsa, ISA!Spec
=============================================================================
