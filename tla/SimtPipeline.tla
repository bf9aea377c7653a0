---------------------------- MODULE SimtPipeline ----------------------------
(***************************************************************************)
(* The core: the fetch, decode, execute and store coroutines, the one-slot *)
(* buses between them, the register file with its scoreboard, the queue of *)
(* diverged thread groups and the vector memory controller.                *)
(*                                                                         *)
(* A coroutine runs from one CONTEXT_SWITCH() to the next without being    *)
(* interrupted; each such segment is one action, and the *_at variable of  *)
(* the stage says at which switch it is suspended.  A segment that would   *)
(* only poll (a while loop whose condition still holds) changes nothing    *)
(* and has no action here.  Next leaves the order of the components open;  *)
(* module SimtLockstep resumes them in the order of the simulator.         *)
(*                                                                         *)
(* The memory is that of module CoreMemory: it answers an instruction      *)
(* fetch, and finishes what the vector memory controller does, at any      *)
(* later time.                                                             *)
(* Asserts are not guards: a release build compiles them out, so an        *)
(* overrun slot is overwritten here and the invariants speak of it.        *)
(***************************************************************************)
EXTENDS CoreMemory, Sequences

CONSTANTS
  MAX_THREAD_CONTEXTS, \* slots of the divergence queue's ring (64)
  TINY_COUNTER_RANGE   \* values of a TinyCounter (256: it is a uint8_t)

VARIABLES
  fetch_at, have_outstanding_jmp, fetch_PC, exec_mask, jmp_retarget,
  address_cached,       \* PC of the first instruction of the line buffer
  insn_data_cached,     \* the two instructions of the line buffer
  response,             \* the line taken off the bus, before it is buffered
  insn,                 \* the instruction selected for sending
  decode_at, decode_pkt,
  execute_at, execute_pkt,
  store_at, store_pkt, loaded, new_thread_ctxt,
  fetch_decode, decode_execute, execute_store, store_fetch,  \* the buses
  regs,                 \* the register file's RegisterSet
  contexts, read_pos, write_pos   \* the divergence queue

fetchVars   == <<fetch_at, have_outstanding_jmp, fetch_PC, exec_mask, jmp_retarget,
                 address_cached, insn_data_cached, response, insn>>
decodeVars  == <<decode_at, decode_pkt>>
executeVars == <<execute_at, execute_pkt>>
storeVars   == <<store_at, store_pkt, loaded, new_thread_ctxt>>
queueVars   == <<contexts, read_pos, write_pos>>
vars == <<prog, mem, fetchVars, decodeVars, executeVars, storeVars,
          fetch_decode, decode_execute, execute_store, store_fetch,
          regs, queueVars, insnBus, vecBus, vec_accepted>>

-----------------------------------------------------------------------------
\* What travels on the buses.
ExecuteStageOpcode ==
  {"EXEC_MOVE_REG_VALUE", "EXEC_STORE_ADDR_VALUE", "EXEC_JMP",
   "EXEC_LOAD_RESTORE_PC", "EXEC_LOAD_REG", "EXEC_CMP", "EXEC_COND_JMP",
   "EXEC_ADD_REG_VALUE_VALUE", "EXEC_SHL_REG_VALUE_VALUE",
   "EXEC_ORB_REG_VALUE", "EXEC_ORC_REG_VALUE", "EXEC_HALT"}

StorageStageOpcode ==
  {"STORAGE_STORE_VALUE_INTO_REG", "STORAGE_STORE_REG_INTO_MEM", "STORAGE_JMP",
   "STORAGE_LOAD_MEM_INTO_REG", "STORAGE_CJMP", "STORAGE_HALT"}

FetchToDecodeBusPacket == [exec_mask : ExecMask, PC : Int, insn : Instruction]

\* value0 of DecodeExecPacket is a union of a register and a vector; the jump
\* offset and the wanted flags of the jumps, splat over a vector in the code,
\* are scalars here.
DecodeExecPacket ==
  [exec_mask : ExecMask, PC : Int, opcode : ExecuteStageOpcode,
   regID : RegisterID, value0 : VectorValue, value1 : VectorValue,
   value2 : VectorValue, offset : Int, wanted : SUBSET {2, 4, 8}]

ExecStagePacket ==
  [exec_mask : ExecMask, PC : Int, opcode : StorageStageOpcode,
   dest_reg : RegisterID, dest_value : VectorValue, src_value : VectorValue,
   dest_address : Int, src_address : Int, is_store_to_pc : BOOLEAN,
   execution_flags_true : ExecMask, execution_flags_false : ExecMask]

StoreToFetchPacket == [exec_mask : ExecMask, newpc : Int]

TinyCounter == 0 .. TINY_COUNTER_RANGE - 1
RegisterSet == [invalidated_regs : [RegisterID -> TinyCounter],
                written_regs : [RegisterID -> TinyCounter],
                value : [RegisterID -> VectorValue],
                hasHalted : BOOLEAN]  \* the HALT bit of machine_flags
ThreadContext == [regs : RegisterSet, PC : Int, exec_mask : ExecMask]
RingPos == 0 .. MAX_THREAD_CONTEXTS - 1

ASSUME SimtPipelineAssumption ==
  /\ Addr \subseteq LaneValue
  /\ MAX_THREAD_CONTEXTS \in Nat \ {0}
  /\ TINY_COUNTER_RANGE \in Nat \ {0, 1, 2}
  /\ \A image \in Images :
       /\ \A pc \in DOMAIN image.code : image.code[pc] \in Instruction
       /\ image.data \in [Addr -> LaneValue]
  /\ None \notin (FetchToDecodeBusPacket \union DecodeExecPacket \union ExecStagePacket
                  \union StoreToFetchPacket \union VecBusPacket \union ThreadContext
                  \union VectorValue \union InsnLine \union Int)

\* Addresses are unsigned: the one the line buffer starts with is no code's.
ASSUME CodeIsAddressable == \A image \in Images : DOMAIN image.code \subseteq Nat

\* The ring is made for as many thread groups as there can be: 64 slots for 8
\* lanes, of which one stays empty.
ASSUME QueueHoldsAllGroups == NUMBER_OF_VECTOR_THREADS <= MAX_THREAD_CONTEXTS

-----------------------------------------------------------------------------
Init ==
  /\ MemoryInit
  /\ fetch_at = "top" /\ have_outstanding_jmp = FALSE
  /\ fetch_PC = 0 /\ exec_mask = ALL_THREADS_EXEC_MASK /\ jmp_retarget = None
  /\ address_cached = -2 /\ insn_data_cached = [half \in {0, 1} |-> ZeroInsn]
  /\ response = None /\ insn = ZeroInsn
  /\ decode_at = "top" /\ decode_pkt = None
  /\ execute_at = "top" /\ execute_pkt = None
  /\ store_at = "top" /\ store_pkt = None /\ loaded = None /\ new_thread_ctxt = None
  /\ fetch_decode = None /\ decode_execute = None
  /\ execute_store = None /\ store_fetch = None
  /\ regs = [invalidated_regs |-> [r \in RegisterID |-> 0],
             written_regs |-> [r \in RegisterID |-> 0],
             value |-> [r \in RegisterID |-> create_vec(0)],
             hasHalted |-> FALSE]
  /\ contexts = [pos \in RingPos |-> None] /\ read_pos = 0 /\ write_pos = 0

-----------------------------------------------------------------------------
\* The fetch stage.
get_address_to_fetch_from_PC(pc) == pc - (pc % 2)

NotFetch == UNCHANGED <<prog, mem, decodeVars, executeVars, storeVars, decode_execute,
                        execute_store, regs, queueVars, vecBus, vec_accepted>>

SelectInsn ==
  insn' = IF address_cached = fetch_PC THEN insn_data_cached[0]
          ELSE IF address_cached + 1 = fetch_PC THEN insn_data_cached[1]
          ELSE ZeroInsn

\* The line is taken off the bus if it has come.
GetResponse(waiting) ==
  IF insn_response # None
  THEN /\ fetch_at' = "response"
       /\ response' = insn_response
       /\ insn_response' = None
  ELSE /\ fetch_at' = waiting
       /\ UNCHANGED <<response, insn_response>>

\* The segment that tests the line buffer and asks for the line on a miss.
TestCacheAddress ==
  /\ IF fetch_PC \in {address_cached, address_cached + 1}
     THEN /\ fetch_at' = "selected"
          /\ SelectInsn
          /\ UNCHANGED <<response, insnBus>>
     ELSE /\ insn_request' = get_address_to_fetch_from_PC(fetch_PC)
          /\ GetResponse("await_line")
          /\ UNCHANGED insn
  /\ UNCHANGED <<fetch_PC, exec_mask, jmp_retarget, address_cached, insn_data_cached,
                 fetch_decode, store_fetch>>

FetchNext ==
  /\ fetch_at = "top" /\ ~have_outstanding_jmp
  /\ TestCacheAddress
  /\ UNCHANGED have_outstanding_jmp /\ NotFetch

FetchAwaitRedirect ==
  /\ fetch_at = "top" /\ have_outstanding_jmp /\ store_fetch = None
  /\ fetch_at' = "await_redirect"
  /\ have_outstanding_jmp' = FALSE
  /\ UNCHANGED <<fetch_PC, exec_mask, jmp_retarget, address_cached, insn_data_cached,
                 response, insn, fetch_decode, store_fetch, insnBus>>
  /\ NotFetch

FetchReceiveRedirect ==
  /\ fetch_at = "await_redirect" \/ (fetch_at = "top" /\ have_outstanding_jmp)
  /\ store_fetch # None
  /\ jmp_retarget' = store_fetch
  /\ store_fetch' = None
  /\ fetch_at' = "redirect"
  /\ have_outstanding_jmp' = FALSE
  /\ UNCHANGED <<fetch_PC, exec_mask, address_cached, insn_data_cached, response, insn,
                 fetch_decode, insnBus>>
  /\ NotFetch

FetchRetarget ==
  /\ fetch_at = "redirect"
  /\ fetch_PC' = jmp_retarget.newpc
  /\ exec_mask' = jmp_retarget.exec_mask
  /\ fetch_at' = "retargeted"
  /\ UNCHANGED <<have_outstanding_jmp, jmp_retarget, address_cached, insn_data_cached,
                 response, insn, fetch_decode, store_fetch, insnBus>>
  /\ NotFetch

FetchRetargeted ==
  /\ fetch_at = "retargeted"
  /\ TestCacheAddress
  /\ UNCHANGED have_outstanding_jmp /\ NotFetch

FetchLineArrives ==
  /\ fetch_at = "await_line" /\ insn_response # None
  /\ GetResponse("await_line")
  /\ UNCHANGED <<have_outstanding_jmp, fetch_PC, exec_mask, jmp_retarget, address_cached,
                 insn_data_cached, insn, fetch_decode, store_fetch, insn_request>>
  /\ NotFetch

FetchFillLine ==
  /\ fetch_at = "response"
  /\ address_cached' = get_address_to_fetch_from_PC(fetch_PC)
  /\ insn_data_cached' = response
  /\ fetch_at' = "filled"
  /\ UNCHANGED <<have_outstanding_jmp, fetch_PC, exec_mask, jmp_retarget, response, insn,
                 fetch_decode, store_fetch, insnBus>>
  /\ NotFetch

FetchSelect ==
  /\ fetch_at = "filled"
  /\ SelectInsn
  /\ fetch_at' = "selected"
  /\ UNCHANGED <<have_outstanding_jmp, fetch_PC, exec_mask, jmp_retarget, address_cached,
                 insn_data_cached, response, fetch_decode, store_fetch, insnBus>>
  /\ NotFetch

\* The instruction is sent when the bus is free; whether fetching has to stop
\* behind it is settled before the wait.
FetchSend ==
  /\ fetch_at \in {"selected", "sending"}
  /\ IF fetch_at = "selected"
     THEN have_outstanding_jmp' = changesControlFlow(insn.op)
     ELSE UNCHANGED have_outstanding_jmp
  /\ IF fetch_decode = None
     THEN /\ fetch_decode' = [exec_mask |-> exec_mask, PC |-> fetch_PC, insn |-> insn]
          /\ fetch_PC' = fetch_PC + 1
          /\ fetch_at' = "top"
     ELSE /\ fetch_at = "selected"
          /\ fetch_at' = "sending"
          /\ UNCHANGED <<fetch_PC, fetch_decode>>
  /\ UNCHANGED <<exec_mask, jmp_retarget, address_cached, insn_data_cached, response,
                 insn, store_fetch, insnBus>>
  /\ NotFetch

FetchStage == \/ FetchNext \/ FetchAwaitRedirect \/ FetchReceiveRedirect
              \/ FetchRetarget \/ FetchRetargeted \/ FetchLineArrives
              \/ FetchFillLine \/ FetchSelect \/ FetchSend

-----------------------------------------------------------------------------
\* The scoreboard of the register file.
is_valid(r) == regs.written_regs[r] = regs.invalidated_regs[r]

\* Mutant: a counter without the width of its field.
Invalidated_Unbounded(r) == [regs EXCEPT !.invalidated_regs[r] = @ + 1]

Invalidated(r) ==
  [regs EXCEPT !.invalidated_regs[r] = (@ + 1) % TINY_COUNTER_RANGE]

\* Mutant: the value is written but the register is not marked valid.
Written_Unmarked(r, v) == [regs EXCEPT !.value[r] = v]

Written(r, v) ==
  [regs EXCEPT !.written_regs[r] = (@ + 1) % TINY_COUNTER_RANGE, !.value[r] = v]

-----------------------------------------------------------------------------
\* The decode stage.
NotDecode == UNCHANGED <<prog, mem, fetchVars, executeVars, storeVars, execute_store,
                         store_fetch, regs, queueVars, insnBus, vecBus, vec_accepted>>

ExecuteOpcode(op) ==
  CASE op \in MovesToReg \union {"MOVE_R0_CONST24A"}         -> "EXEC_MOVE_REG_VALUE"
    [] op = "MOVE_R0_CONST24B"                               -> "EXEC_ORB_REG_VALUE"
    [] op = "MOVE_R0_CONST24C"                               -> "EXEC_ORC_REG_VALUE"
    [] op \in {"ADD_REG_REG_REG", "ADD_REG_REG_CONST"}       -> "EXEC_ADD_REG_VALUE_VALUE"
    [] op = "L_SSHIFT_REG_REG_CONST"                         -> "EXEC_SHL_REG_VALUE_VALUE"
    [] op = "LOAD_REG_CONST_REG"                             -> "EXEC_LOAD_REG"
    [] op = "STORE_REG_CONST_REG"                            -> "EXEC_STORE_ADDR_VALUE"
    [] op = "CMP_REG_REG"                                    -> "EXEC_CMP"
    [] op \in CondJumps                                      -> "EXEC_COND_JMP"
    [] op = "JMP_ALWAYS"                                     -> "EXEC_JMP"
    [] op = "LOAD_RESTORE_PC"                                -> "EXEC_LOAD_RESTORE_PC"
    [] op = "HALT"                                           -> "EXEC_HALT"

\* The operand vectors of the packet for the execute stage.
Value0(i) == IF i.op \in {"STORE_REG_CONST_REG", "CMP_REG_REG"} THEN regs.value[i.r1]
             ELSE create_vec(i.imm)
Value1(i, pc) ==
  CASE i.op = "MOVE_PCREL_REG_CONST16"                         -> create_vec(i.imm + pc)
    [] i.op = "MOVE_REG_BLOCK_INDEX"                           -> create_vec_incrementing_values
    [] i.op \in {"MOVE_REG_REG", "L_SSHIFT_REG_REG_CONST", "ADD_REG_REG_REG",
                 "ADD_REG_REG_CONST", "CMP_REG_REG"}           -> regs.value[i.r2]
    [] i.op = "LOAD_RESTORE_PC"                                -> regs.value[i.r1]
    [] OTHER                                                   -> create_vec(i.imm)
Value2(i) ==
  CASE i.op = "ADD_REG_REG_REG"                             -> regs.value[i.r3]
    [] i.op \in {"STORE_REG_CONST_REG", "LOAD_REG_CONST_REG"} -> regs.value[i.r2]
    [] i.op \in {"MOVE_R0_CONST24B", "MOVE_R0_CONST24C"}    -> regs.value[REG_R0]
    [] OTHER                                                -> create_vec(i.imm)

\* Mutant: the stage does not wait for its output slot before it receives.
DecodeReceive_Early ==
  /\ decode_at = "top" /\ fetch_decode # None
  /\ decode_pkt' = fetch_decode
  /\ fetch_decode' = None
  /\ decode_at' = "switch"
  /\ UNCHANGED decode_execute /\ NotDecode

DecodeReceive ==
  /\ decode_at = "top" /\ decode_execute = None /\ fetch_decode # None
  /\ decode_pkt' = fetch_decode
  /\ fetch_decode' = None
  /\ decode_at' = "switch"
  /\ UNCHANGED decode_execute /\ NotDecode

DecodeNop ==
  /\ decode_at = "switch" /\ decode_pkt.insn.op = "NOP"
  /\ decode_at' = "top"
  /\ UNCHANGED <<decode_pkt, fetch_decode, decode_execute>> /\ NotDecode

DecodeSend ==
  /\ decode_at = "switch" /\ decode_pkt.insn.op # "NOP"
  /\ \A r \in Operands(decode_pkt.insn) : is_valid(r)
  /\ LET i == decode_pkt.insn
     IN decode_execute' =
          [exec_mask |-> decode_pkt.exec_mask, PC |-> decode_pkt.PC,
           opcode |-> ExecuteOpcode(i.op), regID |-> DestReg(i),
           value0 |-> Value0(i), value1 |-> Value1(i, decode_pkt.PC), value2 |-> Value2(i),
           offset |-> i.imm,
           wanted |-> IF i.op \in CondJumps THEN CondJumpFlags[i.op] ELSE {}]
  /\ decode_at' = "top"
  /\ UNCHANGED <<decode_pkt, fetch_decode>> /\ NotDecode

DecodeStage == DecodeReceive \/ DecodeNop \/ DecodeSend

-----------------------------------------------------------------------------
\* The execute stage.
NotExecute == UNCHANGED <<prog, mem, fetchVars, decodeVars, storeVars, fetch_decode,
                          store_fetch, queueVars, insnBus, vecBus, vec_accepted>>

\* A packet for the store stage; its union fields carry nothing yet.
StoragePacket(opcode) ==
  [exec_mask |-> execute_pkt.exec_mask, PC |-> execute_pkt.PC, opcode |-> opcode,
   dest_reg |-> execute_pkt.regID, dest_value |-> create_vec(0), src_value |-> create_vec(0),
   dest_address |-> 0, src_address |-> 0, is_store_to_pc |-> FALSE,
   execution_flags_true |-> {}, execution_flags_false |-> {}]

Executing(opcodes) == execute_at = "switch" /\ execute_pkt.opcode \in opcodes

SendToStore(pkt) ==
  /\ execute_store' = pkt
  /\ execute_at' = "top"
  /\ UNCHANGED <<execute_pkt, decode_execute>>

ExecuteReceive ==
  /\ execute_at = "top" /\ execute_store = None /\ decode_execute # None
  /\ execute_pkt' = decode_execute
  /\ decode_execute' = None
  /\ execute_at' = "switch"
  /\ UNCHANGED <<execute_store, regs>> /\ NotExecute

RegisterWriters ==
  {"EXEC_CMP", "EXEC_MOVE_REG_VALUE", "EXEC_ORB_REG_VALUE", "EXEC_ORC_REG_VALUE",
   "EXEC_SHL_REG_VALUE_VALUE", "EXEC_ADD_REG_VALUE_VALUE"}

ExecuteDest == IF execute_pkt.opcode = "EXEC_CMP" THEN REG_FLAGS ELSE execute_pkt.regID

ExecuteResult ==
  LET p == execute_pkt
  IN CASE p.opcode = "EXEC_CMP"                 -> compare_vecs(p.value0, p.value1)
       [] p.opcode = "EXEC_MOVE_REG_VALUE"      -> p.value1
       [] p.opcode = "EXEC_ORB_REG_VALUE"       -> or_shift_left(p.value2, p.value1, ORB_SHIFT)
       [] p.opcode = "EXEC_ORC_REG_VALUE"       -> or_shift_left(p.value2, p.value1, ORC_SHIFT)
       [] p.opcode = "EXEC_SHL_REG_VALUE_VALUE" -> shift_left(p.value1, p.value2)
       [] p.opcode = "EXEC_ADD_REG_VALUE_VALUE" -> add(p.value1, p.value2)

ExecuteWriteRegister ==
  /\ Executing(RegisterWriters)
  /\ regs' = Invalidated(ExecuteDest)
  /\ SendToStore([StoragePacket("STORAGE_STORE_VALUE_INTO_REG")
                    EXCEPT !.dest_reg = ExecuteDest, !.src_value = ExecuteResult])
  /\ NotExecute

\* Mutant: a load does not mark its destination invalid.
ExecuteLoad_Unmarked ==
  /\ Executing({"EXEC_LOAD_REG"})
  /\ SendToStore([StoragePacket("STORAGE_LOAD_MEM_INTO_REG")
                    EXCEPT !.src_value = add(execute_pkt.value1, execute_pkt.value2)])
  /\ UNCHANGED regs /\ NotExecute

ExecuteLoad ==
  /\ Executing({"EXEC_LOAD_REG"})
  /\ regs' = Invalidated(execute_pkt.regID)
  /\ SendToStore([StoragePacket("STORAGE_LOAD_MEM_INTO_REG")
                    EXCEPT !.src_value = add(execute_pkt.value1, execute_pkt.value2)])
  /\ NotExecute

ExecuteStore ==
  /\ Executing({"EXEC_STORE_ADDR_VALUE"})
  /\ SendToStore([StoragePacket("STORAGE_STORE_REG_INTO_MEM")
                    EXCEPT !.dest_value = add(execute_pkt.value1, execute_pkt.value2),
                           !.src_value = execute_pkt.value0])
  /\ UNCHANGED regs /\ NotExecute

\* Unlike a load, it leaves REG_PC marked as it is.
ExecuteRestorePc ==
  /\ Executing({"EXEC_LOAD_RESTORE_PC"})
  /\ SendToStore([StoragePacket("STORAGE_LOAD_MEM_INTO_REG")
                    EXCEPT !.dest_reg = REG_PC, !.is_store_to_pc = TRUE,
                           !.src_value = add(execute_pkt.value0, execute_pkt.value1)])
  /\ UNCHANGED regs /\ NotExecute

ExecuteCondJmp ==
  /\ Executing({"EXEC_COND_JMP"})
  /\ is_valid(REG_FLAGS)
  /\ LET mask   == execute_pkt.exec_mask
         taken  == get_cmp_mask(mask, regs.value[REG_FLAGS], execute_pkt.wanted)
         next   == execute_pkt.PC + 1
         target == execute_pkt.PC + execute_pkt.offset
     IN SendToStore(
          IF taken = {} THEN [StoragePacket("STORAGE_JMP") EXCEPT !.dest_address = next]
          ELSE IF taken = mask
          THEN [StoragePacket("STORAGE_JMP") EXCEPT !.dest_address = target]
          ELSE [StoragePacket("STORAGE_CJMP")
                  EXCEPT !.dest_address = target, !.src_address = next,
                         !.execution_flags_true = taken,
                         !.execution_flags_false = mask \ taken])
  /\ UNCHANGED regs /\ NotExecute

ExecuteJmp ==
  /\ Executing({"EXEC_JMP"})
  /\ SendToStore([StoragePacket("STORAGE_JMP")
                    EXCEPT !.dest_address = execute_pkt.PC + execute_pkt.offset])
  /\ UNCHANGED regs /\ NotExecute

ExecuteHalt ==
  /\ Executing({"EXEC_HALT"})
  /\ SendToStore(StoragePacket("STORAGE_HALT"))
  /\ UNCHANGED regs /\ NotExecute

ExecuteStage == \/ ExecuteReceive \/ ExecuteWriteRegister \/ ExecuteLoad
                \/ ExecuteStore \/ ExecuteRestorePc \/ ExecuteCondJmp
                \/ ExecuteJmp \/ ExecuteHalt

-----------------------------------------------------------------------------
\* The divergence queue, a ring of which one slot stays empty.
\* Mutant: the ring wraps one slot early.
get_next_pos_Early(pos) == IF pos = MAX_THREAD_CONTEXTS - 2 THEN 0 ELSE pos + 1

get_next_pos(pos) == IF pos = MAX_THREAD_CONTEXTS - 1 THEN 0 ELSE pos + 1
is_empty == read_pos = write_pos

push_to_front(ctxt) ==
  /\ contexts' = [contexts EXCEPT ![write_pos] = ctxt]
  /\ write_pos' = get_next_pos(write_pos)
  /\ UNCHANGED read_pos

-----------------------------------------------------------------------------
\* The store stage.
NotStore == UNCHANGED <<prog, mem, fetchVars, decodeVars, executeVars, fetch_decode,
                        decode_execute, insnBus, vec_accepted>>

Storing(opcode) == store_at = "switch" /\ store_pkt.opcode = opcode

SendToFetch(mask, pc) == store_fetch' = [exec_mask |-> mask, newpc |-> pc]

StoreReceive ==
  /\ store_at = "top" /\ execute_store # None
  /\ store_pkt' = execute_store
  /\ execute_store' = None
  /\ store_at' = "switch"
  /\ UNCHANGED <<loaded, new_thread_ctxt, store_fetch, regs, queueVars, vecBus>>
  /\ NotStore

StoreValueIntoReg ==
  /\ Storing("STORAGE_STORE_VALUE_INTO_REG")
  /\ regs' = Written(store_pkt.dest_reg, store_pkt.src_value)
  /\ store_at' = "top"
  /\ UNCHANGED <<store_pkt, loaded, new_thread_ctxt, execute_store, store_fetch,
                 queueVars, vecBus>>
  /\ NotStore

\* A write is sent whether or not the request slot is taken.
StoreRegIntoMem ==
  /\ Storing("STORAGE_STORE_REG_INTO_MEM")
  /\ vec_request' = [packet_type |-> "write", address |-> store_pkt.dest_value,
                     payload |-> store_pkt.src_value]
  /\ store_at' = "top"
  /\ UNCHANGED <<store_pkt, loaded, new_thread_ctxt, execute_store, store_fetch, regs,
                 queueVars, vec_response>>
  /\ NotStore

\* The payload is taken off the bus if it has come.
AcceptResponse ==
  IF vec_response # None
  THEN /\ store_at' = "loaded"
       /\ loaded' = vec_response.payload
       /\ vec_response' = None
  ELSE /\ store_at' = "await_load"
       /\ UNCHANGED <<loaded, vec_response>>

\* Mutant: the stage does not wait for the answer.
StoreSendRead_NoWait ==
  /\ Storing("STORAGE_LOAD_MEM_INTO_REG")
  /\ vec_request' = [packet_type |-> "read", address |-> store_pkt.src_value,
                     payload |-> create_vec(0)]
  /\ store_at' = "top"
  /\ UNCHANGED <<loaded, vec_response, store_pkt, new_thread_ctxt, execute_store, store_fetch,
                 regs, queueVars>>
  /\ NotStore

StoreSendRead ==
  /\ Storing("STORAGE_LOAD_MEM_INTO_REG")
  /\ vec_request' = [packet_type |-> "read", address |-> store_pkt.src_value,
                     payload |-> create_vec(0)]
  /\ AcceptResponse
  /\ UNCHANGED <<store_pkt, new_thread_ctxt, execute_store, store_fetch, regs, queueVars>>
  /\ NotStore

StoreAcceptResponse ==
  /\ store_at = "await_load" /\ vec_response # None
  /\ AcceptResponse
  /\ UNCHANGED <<store_pkt, new_thread_ctxt, execute_store, store_fetch, regs, queueVars,
                 vec_request>>
  /\ NotStore

\* Mutant: a return loads the address but does not redirect the fetch stage.
StoreLoaded_NoRedirect ==
  /\ store_at = "loaded"
  /\ regs' = Written(store_pkt.dest_reg, loaded)
  /\ store_at' = "top"
  /\ UNCHANGED <<store_pkt, loaded, new_thread_ctxt, execute_store, store_fetch, queueVars,
                 vecBus>>
  /\ NotStore

StoreLoaded ==
  /\ store_at = "loaded"
  /\ regs' = Written(store_pkt.dest_reg, loaded)
  /\ IF store_pkt.is_store_to_pc
     THEN SendToFetch(store_pkt.exec_mask, loaded[0])
     ELSE UNCHANGED store_fetch
  /\ store_at' = "top"
  /\ UNCHANGED <<store_pkt, loaded, new_thread_ctxt, execute_store, queueVars, vecBus>>
  /\ NotStore

StoreJmp ==
  /\ Storing("STORAGE_JMP")
  /\ SendToFetch(store_pkt.exec_mask, store_pkt.dest_address)
  /\ store_at' = "top"
  /\ UNCHANGED <<store_pkt, loaded, new_thread_ctxt, execute_store, regs, queueVars,
                 vecBus>>
  /\ NotStore

\* Mutant: the lanes that do not jump keep the execution mask of the whole group.
StoreCjmp_WholeMask ==
  /\ Storing("STORAGE_CJMP")
  /\ push_to_front([regs |-> regs, PC |-> store_pkt.dest_address,
                    exec_mask |-> store_pkt.execution_flags_true])
  /\ SendToFetch(store_pkt.exec_mask, store_pkt.src_address)
  /\ store_at' = "top"
  /\ UNCHANGED <<store_pkt, loaded, new_thread_ctxt, execute_store, regs, vecBus>>
  /\ NotStore

\* Mutant: the group is split but the fetch stage is not told to go on.
StoreCjmp_NoRedirect ==
  /\ Storing("STORAGE_CJMP")
  /\ push_to_front([regs |-> regs, PC |-> store_pkt.dest_address,
                    exec_mask |-> store_pkt.execution_flags_true])
  /\ store_at' = "top"
  /\ UNCHANGED <<store_pkt, loaded, new_thread_ctxt, execute_store, store_fetch, regs, vecBus>>
  /\ NotStore

StoreCjmp ==
  /\ Storing("STORAGE_CJMP")
  /\ push_to_front([regs |-> regs, PC |-> store_pkt.dest_address,
                    exec_mask |-> store_pkt.execution_flags_true])
  /\ SendToFetch(store_pkt.execution_flags_false, store_pkt.src_address)
  /\ store_at' = "top"
  /\ UNCHANGED <<store_pkt, loaded, new_thread_ctxt, execute_store, regs, vecBus>>
  /\ NotStore

\* Mutant: the group that was suspended last goes on, as with a stack.
StoreHalt_Newest ==
  /\ Storing("STORAGE_HALT")
  /\ IF is_empty
     THEN /\ regs' = [regs EXCEPT !.hasHalted = TRUE]
          /\ store_at' = "top"
          /\ UNCHANGED <<new_thread_ctxt, write_pos>>
     ELSE /\ write_pos' = IF write_pos = 0 THEN MAX_THREAD_CONTEXTS - 1 ELSE write_pos - 1
          /\ new_thread_ctxt' = contexts[write_pos']
          /\ store_at' = "resume"
          /\ UNCHANGED regs
  /\ UNCHANGED <<store_pkt, loaded, execute_store, store_fetch, contexts, read_pos, vecBus>>
  /\ NotStore

StoreHalt ==
  /\ Storing("STORAGE_HALT")
  /\ IF is_empty
     THEN /\ regs' = [regs EXCEPT !.hasHalted = TRUE]
          /\ store_at' = "top"
          /\ UNCHANGED <<new_thread_ctxt, read_pos>>
     ELSE /\ new_thread_ctxt' = contexts[read_pos]
          /\ read_pos' = get_next_pos(read_pos)
          /\ store_at' = "resume"
          /\ UNCHANGED regs
  /\ UNCHANGED <<store_pkt, loaded, execute_store, store_fetch, contexts, write_pos,
                 vecBus>>
  /\ NotStore

\* Mutant: the resumed group runs under the mask of the one that halted.
StoreResume_OldMask ==
  /\ store_at = "resume"
  /\ regs' = new_thread_ctxt.regs
  /\ SendToFetch(store_pkt.exec_mask, new_thread_ctxt.PC)
  /\ store_at' = "top"
  /\ UNCHANGED <<store_pkt, loaded, new_thread_ctxt, execute_store, queueVars, vecBus>>
  /\ NotStore

\* Mutant: the resumed group runs on the registers of the one that halted.
StoreResume_OldRegisters ==
  /\ store_at = "resume"
  /\ SendToFetch(new_thread_ctxt.exec_mask, new_thread_ctxt.PC)
  /\ store_at' = "top"
  /\ UNCHANGED <<store_pkt, loaded, new_thread_ctxt, execute_store, regs, queueVars, vecBus>>
  /\ NotStore

StoreResume ==
  /\ store_at = "resume"
  /\ regs' = new_thread_ctxt.regs
  /\ SendToFetch(new_thread_ctxt.exec_mask, new_thread_ctxt.PC)
  /\ store_at' = "top"
  /\ UNCHANGED <<store_pkt, loaded, new_thread_ctxt, execute_store, queueVars, vecBus>>
  /\ NotStore

StoreStage == \/ StoreReceive \/ StoreValueIntoReg \/ StoreRegIntoMem
              \/ StoreSendRead \/ StoreAcceptResponse \/ StoreLoaded
              \/ StoreJmp \/ StoreCjmp \/ StoreHalt \/ StoreResume

-----------------------------------------------------------------------------
\* The memory's steps leave the core alone.
NotMemory == UNCHANGED <<fetchVars, decodeVars, executeVars, storeVars, fetch_decode,
                         decode_execute, execute_store, store_fetch, regs, queueVars>>

Memory == (InsnMemoryRespond \/ VecMemoryAccept \/ VecMemoryFinish) /\ NotMemory

-----------------------------------------------------------------------------
Next == FetchStage \/ DecodeStage \/ ExecuteStage \/ StoreStage \/ Memory

Spec == Init /\ [][Next]_vars

-----------------------------------------------------------------------------
(***************************************************************************)
(* Correctness.                                                            *)
(***************************************************************************)

Slot(S) == S \union {None}

\* Every register, bus slot and program counter of the core holds a value of
\* its declared C++ type, and every coroutine is at one of its switches.
TypeOK ==
  /\ \A pc \in DOMAIN prog : prog[pc] \in Instruction
  /\ mem \in [Addr -> LaneValue]
  /\ fetch_at \in {"top", "await_redirect", "redirect", "retargeted", "await_line",
                   "response", "filled", "selected", "sending"}
  /\ have_outstanding_jmp \in BOOLEAN
  /\ fetch_PC \in Int /\ exec_mask \in ExecMask
  /\ jmp_retarget \in Slot(StoreToFetchPacket)
  /\ address_cached \in Int /\ insn_data_cached \in InsnLine
  /\ response \in Slot(InsnLine) /\ insn \in Instruction
  /\ decode_at \in {"top", "switch"} /\ decode_pkt \in Slot(FetchToDecodeBusPacket)
  /\ execute_at \in {"top", "switch"} /\ execute_pkt \in Slot(DecodeExecPacket)
  /\ store_at \in {"top", "switch", "await_load", "loaded", "resume"}
  /\ store_pkt \in Slot(ExecStagePacket) /\ loaded \in Slot(VectorValue)
  /\ new_thread_ctxt \in Slot(ThreadContext)
  /\ fetch_decode \in Slot(FetchToDecodeBusPacket)
  /\ decode_execute \in Slot(DecodeExecPacket)
  /\ execute_store \in Slot(ExecStagePacket)
  /\ store_fetch \in Slot(StoreToFetchPacket)
  /\ regs \in RegisterSet
  /\ contexts \in [RingPos -> Slot(ThreadContext)]
  /\ read_pos \in RingPos /\ write_pos \in RingPos
  /\ insn_request \in Slot(Int) /\ insn_response \in Slot(InsnLine)
  /\ vec_request \in Slot(VecBusPacket) /\ vec_response \in Slot(VecBusPacket)
  /\ vec_accepted \in Slot(VecBusPacket)

-----------------------------------------------------------------------------
\* The control-flow instruction in flight.
One(p) == IF p THEN 1 ELSE 0

ExecuteControl == {"EXEC_HALT", "EXEC_JMP", "EXEC_COND_JMP", "EXEC_LOAD_RESTORE_PC"}
Redirects(pkt) == \/ pkt.opcode \in {"STORAGE_JMP", "STORAGE_CJMP", "STORAGE_HALT"}
                  \/ pkt.is_store_to_pc

ControlInFetchDecode   == fetch_decode # None /\ changesControlFlow(fetch_decode.insn.op)
ControlInDecode        == decode_at = "switch" /\ changesControlFlow(decode_pkt.insn.op)
ControlInDecodeExecute == decode_execute # None /\ decode_execute.opcode \in ExecuteControl
ControlInExecute       == execute_at = "switch" /\ execute_pkt.opcode \in ExecuteControl
ControlInExecuteStore  == execute_store # None /\ Redirects(execute_store)
ControlInStore         == store_at # "top" /\ Redirects(store_pkt)

ControlInFlight ==
  One(ControlInFetchDecode) + One(ControlInDecode) + One(ControlInDecodeExecute)
  + One(ControlInExecute) + One(ControlInExecuteStore) + One(ControlInStore)
  + One(store_fetch # None)

AwaitsRedirect == fetch_at = "await_redirect" \/ (fetch_at = "top" /\ have_outstanding_jmp)

\* The fetch stage waits for a redirect exactly when one control-flow
\* instruction is somewhere behind it or its redirect is on the bus, or when
\* the last thread group has halted: no jump is lost or answered twice
\* (FetchStage.cpp:64-84 against every fetch_bus.send of StoreStage.cpp).
OneRedirectPerJump == ControlInFlight + One(regs.hasHalted) = One(AwaitsRedirect)

FrontEmpty  == fetch_decode = None
DecodeEmpty == FrontEmpty /\ decode_at = "top" /\ decode_execute = None
ExecuteEmpty == DecodeEmpty /\ execute_at = "top" /\ execute_store = None
Drained == ExecuteEmpty /\ store_at = "top"

\* No instruction enters the pipeline behind a control-flow instruction until
\* its redirect has been taken, so nothing has to be squashed; and while the
\* redirect travels back the whole pipeline is empty.
NothingBehindJump ==
  /\ ControlInDecode => FrontEmpty
  /\ ControlInDecodeExecute => FrontEmpty /\ decode_at = "top"
  /\ ControlInExecute => DecodeEmpty
  /\ ControlInExecuteStore => DecodeEmpty /\ execute_at = "top"
  /\ ControlInStore => ExecuteEmpty
  /\ store_fetch # None \/ fetch_at \in {"redirect", "retargeted"} => Drained

\* The asserts of the one-slot buses hold: what a stage is about to send finds
\* its slot free.
BusesNeverOverrun ==
  /\ decode_at = "switch" => decode_execute = None
  /\ execute_at = "switch" => execute_store = None
  /\ ControlInStore => store_fetch = None
  /\ fetch_at \in {"top", "retargeted"} => insn_request = None
  /\ insn_request # None => insn_response = None
  /\ IsRead(vec_accepted) => vec_response = None

-----------------------------------------------------------------------------
\* The scoreboard.
WritesReg(pkt, r) ==
  /\ pkt.opcode \in {"STORAGE_STORE_VALUE_INTO_REG", "STORAGE_LOAD_MEM_INTO_REG"}
  /\ pkt.dest_reg = r

PendingWrites(r) == One(execute_store # None /\ WritesReg(execute_store, r))
                    + One(store_at # "top" /\ WritesReg(store_pkt, r))

\* A register is marked invalid exactly as often as writes to it are in flight
\* between execute and store (RegisterFile.h:14-19), also after the counters
\* wrapped and after a thread switch replaced them.  REG_PC is left out: a
\* restorepc writes it without having marked it (see README).
ScoreboardExact ==
  \A r \in RegisterID \ {REG_PC} :
    regs.invalidated_regs[r] = (regs.written_regs[r] + PendingWrites(r)) % TINY_COUNTER_RANGE

\* The queued positions of the ring.
Queued == IF read_pos <= write_pos THEN read_pos .. write_pos - 1
          ELSE (read_pos .. MAX_THREAD_CONTEXTS - 1) \union (0 .. write_pos - 1)

Quiescent(set) ==
  /\ \A r \in RegisterID \ {REG_PC} : set.invalidated_regs[r] = set.written_regs[r]
  /\ ~set.hasHalted

\* A suspended thread group's registers were copied while no write to them was
\* in flight: none is resumed waiting for a write that never comes.
SnapshotsQuiescent ==
  /\ \A pos \in Queued : Quiescent(contexts[pos].regs)
  /\ store_at = "resume" => Quiescent(new_thread_ctxt.regs)

-----------------------------------------------------------------------------
\* The thread groups.
RunningMask ==
  CASE store_fetch # None      -> store_fetch.exec_mask
    [] fetch_at = "redirect"   -> jmp_retarget.exec_mask
    [] store_at = "resume"     -> new_thread_ctxt.exec_mask
    [] regs.hasHalted          -> {}
    [] OTHER                   -> exec_mask

\* The running group and the suspended ones are disjoint sets of threads, and
\* none is empty until the end.
GroupsDisjoint ==
  /\ RunningMask = {} => regs.hasHalted
  /\ \A p \in Queued :
       /\ contexts[p].exec_mask # {}
       /\ contexts[p].exec_mask \intersect RunningMask = {}
       /\ \A q \in Queued \ {p} : contexts[p].exec_mask \intersect contexts[q].exec_mask = {}

\* The assert of DivergenceQueue.h:45: a diverging group finds a free slot.
QueueNeverFull ==
  Storing("STORAGE_CJMP") => get_next_pos(write_pos) # read_pos

LiveThreads == RunningMask \union UNION {contexts[p].exec_mask : p \in Queued}

\* A thread stops only with the whole group that executes a halt: splitting a
\* group, suspending and resuming it lose none.
ThreadsEndOnlyByHalt ==
  [][LiveThreads' # LiveThreads =>
       Storing("STORAGE_HALT") /\ LiveThreads' = LiveThreads \ store_pkt.exec_mask]_vars

\* The core keeps the rules of the memory it is built on: one line fetch and one
\* load outstanding at most, no store behind a load that was not answered, and
\* a response is taken once.
KeepsMemoryRules == MemorySpec

\* The assert of VecMemoryBus.h:53: the request slot is free when the store
\* stage sends a read.
ReadFindsFreeSlot == Storing("STORAGE_LOAD_MEM_INTO_REG") => vec_request = None

\* "[rY + offset] = rX" (Defines.h:111): a store that was sent reaches the
\* controller before the next request takes its slot.
StoresNotOverwritten ==
  [][vec_request # None => vec_request' \in {vec_request, None}]_vars

=============================================================================
