------------------------- MODULE SimtPipelineProofs -------------------------
(***************************************************************************)
(* Theorems about SimtPipeline, for every number of lanes, every program,  *)
(* every size of the divergence queue and every order of the components.   *)
(***************************************************************************)
EXTENDS SimtPipeline, TLAPS

-----------------------------------------------------------------------------
(***************************************************************************)
(* The vector operations return vectors.                                   *)
(***************************************************************************)

\* The conversion to the lane type lands in the lane type.
LEMMA WrapType ==
  ASSUME NEW x \in Int
  PROVE  Wrap(x) \in LaneValue
<1> DEFINE m == 2 * LANE_HALF
<1>1. m \in Nat /\ m > 0 /\ LANE_HALF \in Nat
  BY VectorOpsAssumption
<1>2. \A y \in Int : y % m \in 0 .. m - 1
  BY <1>1
<1> QED
  BY <1>1, <1>2 DEF Wrap, LaneValue

\* The lane numbers and the flag bits fit into a lane.
LEMMA VectorTypes ==
  /\ \A k \in Int : create_vec(k) \in VectorValue
  /\ create_vec_incrementing_values \in VectorValue
  /\ \A v, w \in VectorValue :
       /\ add(v, w) \in VectorValue
       /\ shift_left(v, w) \in VectorValue
       /\ compare_vecs(v, w) \in VectorValue
       /\ \A n \in LaneValue : or_shift_left(v, w, n) \in VectorValue
<1>0. LaneValue \subseteq Int
  BY VectorOpsAssumption DEF LaneValue
<1>1. \A k \in Int : create_vec(k) \in VectorValue
  BY WrapType DEF create_vec, VectorValue
<1>2. create_vec_incrementing_values \in VectorValue
  BY VectorOpsAssumption DEF create_vec_incrementing_values, VectorValue
<1>3. ASSUME NEW v \in VectorValue, NEW w \in VectorValue
      PROVE  add(v, w) \in VectorValue
  <2>1. \A t \in Threads : v[t] \in Int /\ w[t] \in Int
    BY <1>0 DEF VectorValue
  <2>2. \A t \in Threads : Wrap(v[t] + w[t]) \in LaneValue
    BY <2>1, WrapType
  <2> QED
    BY <2>2 DEF add, VectorValue
<1>4. ASSUME NEW v \in VectorValue, NEW w \in VectorValue
      PROVE  shift_left(v, w) \in VectorValue
  <2>1. \A t \in Threads : ShiftLeft(v[t], w[t]) \in Int
    BY VectorOpsAssumption DEF VectorValue
  <2> QED
    BY <2>1, WrapType DEF shift_left, VectorValue
<1>5. ASSUME NEW v \in VectorValue, NEW w \in VectorValue
      PROVE  compare_vecs(v, w) \in VectorValue
  BY VectorOpsAssumption
  DEF compare_vecs, get_compare_result, FLAGS_MASK_EQ, FLAGS_MASK_GT, FLAGS_MASK_LT,
      VectorValue
<1>6. ASSUME NEW v \in VectorValue, NEW w \in VectorValue, NEW n \in LaneValue
      PROVE  or_shift_left(v, w, n) \in VectorValue
  <2>1. \A t \in Threads : ShiftLeft(w[t], n) \in Int
    BY VectorOpsAssumption DEF VectorValue
  <2>2. \A t \in Threads : Wrap(ShiftLeft(w[t], n)) \in LaneValue
    BY <2>1, WrapType
  <2>3. \A t \in Threads : BitOr(v[t], Wrap(ShiftLeft(w[t], n))) \in Int
    BY <2>2, VectorOpsAssumption DEF VectorValue
  <2> QED
    BY <2>3, WrapType DEF or_shift_left, VectorValue
<1> QED
  BY <1>1, <1>2, <1>3, <1>4, <1>5, <1>6

-----------------------------------------------------------------------------
(***************************************************************************)
(* Type correctness.  A stage that works on a packet has one; so has every *)
(* queued position of the divergence queue.                                *)
(***************************************************************************)
SlotsFilled ==
  /\ fetch_at = "redirect" => jmp_retarget # None
  /\ fetch_at = "response" => response # None
  /\ decode_at = "switch" => decode_pkt # None
  /\ execute_at = "switch" => execute_pkt # None
  /\ store_at # "top" => store_pkt # None
  /\ store_at = "loaded" => loaded # None
  /\ store_at = "resume" => new_thread_ctxt # None
  /\ \A pos \in Queued : contexts[pos] # None

TypeInv == TypeOK /\ SlotsFilled

\* The packet sets that None is outside of, one by one.
LEMMA NoneIsNoPacket ==
  /\ None \notin FetchToDecodeBusPacket /\ None \notin DecodeExecPacket
  /\ None \notin ExecStagePacket /\ None \notin StoreToFetchPacket
  /\ None \notin VecBusPacket /\ None \notin ThreadContext
  /\ None \notin VectorValue /\ None \notin InsnLine /\ None \notin Int
BY SimtPipelineAssumption

LEMMA ZeroInsnType == ZeroInsn \in Instruction
BY VectorOpsAssumption DEF ZeroInsn, Instruction, Opcode

\* Whatever the program counter, the word there is an instruction.
LEMMA InsnAtType ==
  ASSUME TypeOK, NEW pc \in Int
  PROVE  InsnAt(prog, pc) \in Instruction
BY ZeroInsnType DEF TypeOK, InsnAt

LEMMA InitTypeInv == Init => TypeInv
<1> SUFFICES ASSUME Init PROVE TypeInv
  OBVIOUS
<1>1. (\A pc \in DOMAIN prog : prog[pc] \in Instruction) /\ mem \in [Addr -> LaneValue]
  BY SimtPipelineAssumption DEF Init, MemoryInit
<1>2. regs \in RegisterSet
  <2>1. 0 \in TinyCounter
    BY SimtPipelineAssumption DEF TinyCounter
  <2> QED
    BY <2>1, VectorTypes DEF Init, RegisterSet
<1>3. 0 \in RingPos /\ Queued = {}
  BY SimtPipelineAssumption DEF Init, RingPos, Queued
<1>4. insn_data_cached \in InsnLine /\ insn \in Instruction
  BY ZeroInsnType DEF Init, InsnLine
<1>5. have_outstanding_jmp \in BOOLEAN
  BY Zenon DEF Init
<1> QED
  BY <1>1, <1>2, <1>3, <1>4, <1>5
  DEF Init, MemoryInit, TypeInv, TypeOK, SlotsFilled, Slot, ExecMask, ALL_THREADS_EXEC_MASK

\* Steps of the fetch stage.
LEMMA FetchTypeInv == TypeInv /\ FetchStage => TypeInv'
<1> SUFFICES ASSUME TypeInv, FetchStage PROVE TypeInv'
  OBVIOUS
<1>c. have_outstanding_jmp' \in BOOLEAN
  <2>0. have_outstanding_jmp \in BOOLEAN
    BY DEF TypeInv, TypeOK
  <2>1. CASE FetchAwaitRedirect
    BY <2>1, Zenon DEF FetchAwaitRedirect
  <2>2. CASE FetchReceiveRedirect
    BY <2>2, Zenon DEF FetchReceiveRedirect
  <2>3. CASE FetchSend
    <3>1. CASE fetch_at = "selected"
      <4>1. have_outstanding_jmp' = (insn.op \in ControlFlow)
        BY <2>3, <3>1, Zenon DEF FetchSend, changesControlFlow
      <4> QED
        BY <4>1
    <3>2. CASE fetch_at # "selected"
      BY <2>0, <2>3, <3>2 DEF FetchSend
    <3> QED
      BY <3>1, <3>2
  <2> QED
    BY <2>0, <2>1, <2>2, <2>3
    DEF FetchStage, FetchNext, FetchRetarget, FetchRetargeted, FetchLineArrives,
        FetchFillLine, FetchSelect
<1> USE NoneIsNoPacket DEF TypeInv, TypeOK, SlotsFilled, Slot, Queued, NotFetch, decodeVars,
      executeVars, storeVars, queueVars, insnBus, vecBus
<1>a. SelectInsn => insn' \in Instruction
  BY ZeroInsnType DEF SelectInsn, InsnLine
<1>b. get_address_to_fetch_from_PC(fetch_PC) \in Int
  BY DEF get_address_to_fetch_from_PC
<1>1. CASE FetchNext
  BY <1>1, <1>a, <1>b DEF FetchNext, TestCacheAddress, GetResponse
<1>2. CASE FetchAwaitRedirect
  BY <1>2, <1>c DEF FetchAwaitRedirect
<1>3. CASE FetchReceiveRedirect
  BY <1>3, <1>c DEF FetchReceiveRedirect
<1>4. CASE FetchRetarget
  BY <1>4 DEF FetchRetarget, StoreToFetchPacket
<1>5. CASE FetchRetargeted
  BY <1>5, <1>a, <1>b DEF FetchRetargeted, TestCacheAddress, GetResponse
<1>6. CASE FetchLineArrives
  BY <1>6 DEF FetchLineArrives, GetResponse
<1>7. CASE FetchFillLine
  BY <1>7, <1>b DEF FetchFillLine
<1>8. CASE FetchSelect
  BY <1>8, <1>a DEF FetchSelect
<1>9. CASE FetchSend
  BY <1>9, <1>c DEF FetchSend, FetchToDecodeBusPacket
<1> QED
  BY <1>1, <1>2, <1>3, <1>4, <1>5, <1>6, <1>7, <1>8, <1>9 DEF FetchStage

\* What the decode stage puts together is a packet.
LEMMA DecodedType ==
  ASSUME TypeOK, NEW p \in FetchToDecodeBusPacket, p.insn.op # "NOP"
  PROVE  [exec_mask |-> p.exec_mask, PC |-> p.PC,
          opcode |-> ExecuteOpcode(p.insn.op), regID |-> DestReg(p.insn),
          value0 |-> Value0(p.insn), value1 |-> Value1(p.insn, p.PC),
          value2 |-> Value2(p.insn), offset |-> p.insn.imm,
          wanted |-> IF p.insn.op \in CondJumps THEN CondJumpFlags[p.insn.op] ELSE {}]
         \in DecodeExecPacket
<1> DEFINE i == p.insn
<1>1. p.exec_mask \in ExecMask /\ p.PC \in Int /\ i \in Instruction
  BY DEF FetchToDecodeBusPacket
<1>2. i.op \in Opcode /\ i.imm \in Int /\ {i.r1, i.r2, i.r3} \subseteq RegisterID
  BY <1>1 DEF Instruction
<1>3. \A r \in RegisterID : regs.value[r] \in VectorValue
  BY DEF TypeOK, RegisterSet
<1>4. REG_R0 \in RegisterID
  BY VectorOpsAssumption
<1>5. ExecuteOpcode(i.op) \in ExecuteStageOpcode
  BY <1>2
  DEF ExecuteOpcode, ExecuteStageOpcode, Opcode, MovesToReg, MovesToR0, Arithmetic,
      ControlFlow
<1>6. DestReg(i) \in RegisterID
  BY <1>2, <1>4 DEF DestReg
<1>7. Value0(i) \in VectorValue /\ Value1(i, p.PC) \in VectorValue /\ Value2(i) \in VectorValue
  <2>1. create_vec(i.imm) \in VectorValue /\ create_vec(i.imm + p.PC) \in VectorValue
    BY <1>1, <1>2, VectorTypes
  <2> QED
    BY <2>1, <1>2, <1>3, <1>4, VectorTypes DEF Value0, Value1, Value2
<1>8. (IF i.op \in CondJumps THEN CondJumpFlags[i.op] ELSE {}) \in SUBSET {2, 4, 8}
  BY DEF CondJumps, CondJumpFlags, FLAGS_MASK_EQ, FLAGS_MASK_GT, FLAGS_MASK_LT
<1> HIDE DEF i
<1> QED
  BY <1>1, <1>2, <1>5, <1>6, <1>7, <1>8 DEF DecodeExecPacket, i

\* Steps of the decode stage.
LEMMA DecodeTypeInv == TypeInv /\ DecodeStage => TypeInv'
<1> SUFFICES ASSUME TypeInv, DecodeStage PROVE TypeInv'
  OBVIOUS
<1>a. ASSUME DecodeSend PROVE decode_execute' \in DecodeExecPacket
  <2>1. decode_pkt \in FetchToDecodeBusPacket
    BY <1>a DEF DecodeSend, TypeInv, TypeOK, SlotsFilled, Slot
  <2> QED
    BY <1>a, <2>1, DecodedType DEF DecodeSend, TypeInv
<1> USE NoneIsNoPacket DEF TypeInv, TypeOK, SlotsFilled, Slot, Queued, NotDecode, fetchVars,
      executeVars, storeVars, queueVars, insnBus, vecBus
<1>1. CASE DecodeReceive
  BY <1>1 DEF DecodeReceive
<1>2. CASE DecodeNop
  BY <1>2 DEF DecodeNop
<1>3. CASE DecodeSend
  BY <1>3, <1>a DEF DecodeSend
<1> QED
  BY <1>1, <1>2, <1>3 DEF DecodeStage

\* Counting a write in or out keeps the register file a register file.
LEMMA ScoreboardTypes ==
  ASSUME TypeOK, NEW r \in RegisterID, NEW v \in VectorValue
  PROVE  Invalidated(r) \in RegisterSet /\ Written(r, v) \in RegisterSet
<1>1. \A n \in TinyCounter : (n + 1) % TINY_COUNTER_RANGE \in TinyCounter
  BY SimtPipelineAssumption DEF TinyCounter
<1>2. regs \in RegisterSet
  BY DEF TypeOK
<1>3. Invalidated(r) \in RegisterSet
  BY <1>1, <1>2 DEF Invalidated, RegisterSet
<1>4. Written(r, v) \in RegisterSet
  BY <1>1, <1>2 DEF Written, RegisterSet
<1> QED
  BY <1>3, <1>4

\* What the execute stage starts a packet from is one.
LEMMA StoragePacketType ==
  ASSUME TypeOK, execute_pkt \in DecodeExecPacket, NEW opcode \in StorageStageOpcode
  PROVE  StoragePacket(opcode) \in ExecStagePacket
<1>1. create_vec(0) \in VectorValue
  BY VectorTypes
<1> QED
  BY <1>1 DEF StoragePacket, ExecStagePacket, DecodeExecPacket, ExecMask

\* What the execute stage sends is a packet, and the registers stay typed.
LEMMA ExecutePackets ==
  ASSUME TypeInv, ExecuteStage, ~ExecuteReceive
  PROVE  execute_store' \in ExecStagePacket /\ regs' \in RegisterSet
<1>a. ASSUME execute_at = "switch"
      PROVE  /\ execute_pkt \in DecodeExecPacket
             /\ \A op \in StorageStageOpcode : StoragePacket(op) \in ExecStagePacket
  BY <1>a, StoragePacketType DEF TypeInv, TypeOK, SlotsFilled, Slot
<1>0. execute_at = "switch"
  BY DEF ExecuteStage, ExecuteWriteRegister, ExecuteLoad, ExecuteStore, ExecuteRestorePc,
         ExecuteCondJmp, ExecuteJmp, ExecuteHalt, Executing
<1> DEFINE p == execute_pkt
<1>1. /\ p.value0 \in VectorValue /\ p.value1 \in VectorValue /\ p.value2 \in VectorValue
      /\ p.regID \in RegisterID /\ p.PC \in Int /\ p.offset \in Int
      /\ p.exec_mask \in ExecMask
  BY <1>a, <1>0 DEF DecodeExecPacket
<1>2. regs \in RegisterSet /\ TypeOK
  BY DEF TypeInv, TypeOK
<1>3. \A op \in StorageStageOpcode : StoragePacket(op) \in ExecStagePacket
  BY <1>a, <1>0
<1>4. {REG_FLAGS, REG_PC} \subseteq RegisterID
  BY VectorOpsAssumption
<1> HIDE DEF p
<1>5. CASE ExecuteWriteRegister
  <2>1. ExecuteDest \in RegisterID
    BY <1>1, <1>4 DEF ExecuteDest, p
  <2>2. ExecuteResult \in VectorValue
    <3>1. execute_pkt.opcode \in RegisterWriters
      BY <1>5 DEF ExecuteWriteRegister, Executing
    <3>2. ORB_SHIFT \in LaneValue /\ ORC_SHIFT \in LaneValue
      BY VectorOpsAssumption
    <3> QED
      BY <3>1, <3>2, <1>1, VectorTypes DEF ExecuteResult, RegisterWriters, p
  <2>3. regs' \in RegisterSet
    <3>1. regs' = Invalidated(ExecuteDest)
      BY <1>5 DEF ExecuteWriteRegister
    <3> QED
      BY <1>1, <1>2, <2>1, <3>1, ScoreboardTypes
  <2>4. StoragePacket("STORAGE_STORE_VALUE_INTO_REG") \in ExecStagePacket
    BY <1>3 DEF StorageStageOpcode
  <2> QED
    BY <1>5, <2>1, <2>2, <2>3, <2>4 DEF ExecuteWriteRegister, SendToStore, ExecStagePacket
<1>6. CASE ExecuteLoad
  <2>1. add(p.value1, p.value2) \in VectorValue
    BY <1>1, VectorTypes
  <2>2. regs' \in RegisterSet
    <3>1. regs' = Invalidated(p.regID)
      BY <1>6 DEF ExecuteLoad, p
    <3> QED
      BY <1>1, <1>2, <3>1, ScoreboardTypes
  <2>3. StoragePacket("STORAGE_LOAD_MEM_INTO_REG") \in ExecStagePacket
    BY <1>3 DEF StorageStageOpcode
  <2> QED
    BY <1>6, <2>1, <2>2, <2>3 DEF ExecuteLoad, SendToStore, ExecStagePacket, p
<1>7. CASE ExecuteStore
  <2>1. add(p.value1, p.value2) \in VectorValue
    BY <1>1, VectorTypes
  <2>2. StoragePacket("STORAGE_STORE_REG_INTO_MEM") \in ExecStagePacket
    BY <1>3 DEF StorageStageOpcode
  <2> QED
    BY <1>1, <1>2, <1>7, <2>1, <2>2 DEF ExecuteStore, SendToStore, ExecStagePacket, p
<1>8. CASE ExecuteRestorePc
  <2>1. add(p.value0, p.value1) \in VectorValue
    BY <1>1, VectorTypes
  <2>2. StoragePacket("STORAGE_LOAD_MEM_INTO_REG") \in ExecStagePacket
    BY <1>3 DEF StorageStageOpcode
  <2> QED
    BY <1>2, <1>4, <1>8, <2>1, <2>2 DEF ExecuteRestorePc, SendToStore, ExecStagePacket, p
<1>9. CASE ExecuteCondJmp
  <2> DEFINE taken == get_cmp_mask(p.exec_mask, regs.value[REG_FLAGS], p.wanted)
  <2>1. taken \in ExecMask /\ p.exec_mask \ taken \in ExecMask
    BY <1>1 DEF get_cmp_mask, ExecMask
  <2>2. /\ StoragePacket("STORAGE_JMP") \in ExecStagePacket
        /\ StoragePacket("STORAGE_CJMP") \in ExecStagePacket
    BY <1>3 DEF StorageStageOpcode
  <2>3. p.PC + 1 \in Int /\ p.PC + p.offset \in Int
    BY <1>1
  <2> HIDE DEF taken
  <2> QED
    BY <1>2, <1>9, <2>1, <2>2, <2>3
    DEF ExecuteCondJmp, SendToStore, ExecStagePacket, p, taken
<1>10. CASE ExecuteJmp
  <2>1. StoragePacket("STORAGE_JMP") \in ExecStagePacket
    BY <1>3 DEF StorageStageOpcode
  <2> QED
    BY <1>1, <1>2, <1>10, <2>1 DEF ExecuteJmp, SendToStore, ExecStagePacket, p
<1>11. CASE ExecuteHalt
  <2>1. StoragePacket("STORAGE_HALT") \in ExecStagePacket
    BY <1>3 DEF StorageStageOpcode
  <2> QED
    BY <1>2, <1>11, <2>1 DEF ExecuteHalt, SendToStore
<1> QED
  BY <1>5, <1>6, <1>7, <1>8, <1>9, <1>10, <1>11 DEF ExecuteStage

\* Steps of the execute stage.
LEMMA ExecuteTypeInv == TypeInv /\ ExecuteStage => TypeInv'
<1> SUFFICES ASSUME TypeInv, ExecuteStage PROVE TypeInv'
  OBVIOUS
<1>1. CASE ExecuteReceive
  BY <1>1, NoneIsNoPacket
  DEF ExecuteReceive, TypeInv, TypeOK, SlotsFilled, Slot, Queued, NotExecute, fetchVars,
      decodeVars, storeVars, queueVars, insnBus, vecBus
<1>2. CASE ~ExecuteReceive
  <2>1. /\ execute_at' = "top" /\ UNCHANGED <<execute_pkt, decode_execute>>
        /\ NotExecute
    BY <1>2
    DEF ExecuteStage, ExecuteWriteRegister, ExecuteLoad, ExecuteStore, ExecuteRestorePc,
        ExecuteCondJmp, ExecuteJmp, ExecuteHalt, SendToStore
  <2> QED
    BY <1>2, <2>1, ExecutePackets, NoneIsNoPacket
    DEF TypeInv, TypeOK, SlotsFilled, Slot, Queued, NotExecute, fetchVars, decodeVars,
        storeVars, queueVars, insnBus, vecBus
<1> QED
  BY <1>1, <1>2

-----------------------------------------------------------------------------
(***************************************************************************)
(* The ring of the divergence queue, whether or not it overflows.          *)
(***************************************************************************)

\* A push adds at most the written position, a pop removes the read one.
LEMMA RingSteps ==
  ASSUME read_pos \in RingPos, write_pos \in RingPos
  PROVE  /\ get_next_pos(read_pos) \in RingPos /\ get_next_pos(write_pos) \in RingPos
         /\ Queued \subseteq RingPos
         /\ (write_pos' = get_next_pos(write_pos) /\ read_pos' = read_pos)
              => Queued' \subseteq Queued \union {write_pos}
         /\ (~is_empty /\ read_pos' = get_next_pos(read_pos) /\ write_pos' = write_pos)
              => Queued' = Queued \ {read_pos}
         /\ ~is_empty => read_pos \in Queued
         /\ write_pos \notin Queued
BY SimtPipelineAssumption DEF RingPos, Queued, get_next_pos, is_empty

\* What the store stage sends are packets, and a register write leaves the halt
\* flag alone.
LEMMA StorePackets ==
  ASSUME TypeInv
  PROVE  /\ StoreJmp \/ StoreCjmp \/ StoreResume => store_fetch' \in StoreToFetchPacket
         /\ StoreLoaded /\ store_pkt.is_store_to_pc => store_fetch' \in StoreToFetchPacket
         /\ StoreSendRead => vec_request' \in VecBusPacket /\ vec_request'.packet_type = "read"
         /\ StoreRegIntoMem => vec_request' \in VecBusPacket /\ vec_request'.packet_type = "write"
         /\ StoreValueIntoReg \/ StoreLoaded
              => regs' \in RegisterSet /\ regs'.hasHalted = regs.hasHalted
<1>1. store_at # "top" => store_pkt \in ExecStagePacket
  BY DEF TypeInv, TypeOK, SlotsFilled, Slot
<1>2. StoreLoaded => loaded \in VectorValue
  BY DEF StoreLoaded, TypeInv, TypeOK, SlotsFilled, Slot
<1>3. TypeOK /\ regs \in RegisterSet
  BY DEF TypeInv, TypeOK
<1>4. StoreJmp \/ StoreCjmp => store_fetch' \in StoreToFetchPacket
  BY <1>1
  DEF StoreJmp, StoreCjmp, Storing, SendToFetch, ExecStagePacket, StoreToFetchPacket
<1>5. StoreResume => store_fetch' \in StoreToFetchPacket
  <2>1. StoreResume => new_thread_ctxt \in ThreadContext
    BY DEF StoreResume, TypeInv, TypeOK, SlotsFilled, Slot
  <2> QED
    BY <2>1 DEF StoreResume, SendToFetch, ThreadContext, StoreToFetchPacket
<1>6. StoreLoaded /\ store_pkt.is_store_to_pc => store_fetch' \in StoreToFetchPacket
  <2> SUFFICES ASSUME StoreLoaded, store_pkt.is_store_to_pc
               PROVE  store_fetch' \in StoreToFetchPacket
    OBVIOUS
  <2>1. store_pkt.exec_mask \in ExecMask
    BY <1>1 DEF StoreLoaded, ExecStagePacket
  <2>2. loaded[0] \in Int
    BY <1>2, VectorOpsAssumption DEF VectorValue, Threads, LaneValue
  <2> QED
    BY <2>1, <2>2 DEF StoreLoaded, SendToFetch, StoreToFetchPacket
<1>7. StoreSendRead => vec_request' \in VecBusPacket /\ vec_request'.packet_type = "read"
  <2>1. create_vec(0) \in VectorValue
    BY VectorTypes
  <2> QED
    BY <1>1, <2>1 DEF StoreSendRead, Storing, ExecStagePacket, VecBusPacket
<1>8. StoreRegIntoMem => vec_request' \in VecBusPacket /\ vec_request'.packet_type = "write"
  BY <1>1 DEF StoreRegIntoMem, Storing, ExecStagePacket, VecBusPacket
<1>9. ASSUME StoreValueIntoReg \/ StoreLoaded
      PROVE  regs' \in RegisterSet /\ regs'.hasHalted = regs.hasHalted
  <2>1. store_pkt.dest_reg \in RegisterID /\ store_pkt.src_value \in VectorValue
    BY <1>1, <1>9 DEF StoreValueIntoReg, StoreLoaded, Storing, ExecStagePacket
  <2>2. PICK w \in VectorValue : regs' = Written(store_pkt.dest_reg, w)
    BY <1>2, <1>9, <2>1 DEF StoreValueIntoReg, StoreLoaded
  <2>3. regs' \in RegisterSet
    BY <1>3, <2>1, <2>2, ScoreboardTypes
  <2> QED
    BY <1>3, <2>2, <2>3 DEF Written, RegisterSet
<1> QED
  BY <1>4, <1>5, <1>6, <1>7, <1>8, <1>9

\* Steps of the store stage.
LEMMA StoreTypeInv == TypeInv /\ StoreStage => TypeInv'
<1> SUFFICES ASSUME TypeInv, StoreStage PROVE TypeInv'
  OBVIOUS
<1>a. ASSUME store_at # "top" PROVE store_pkt \in ExecStagePacket
  BY <1>a DEF TypeInv, TypeOK, SlotsFilled, Slot
<1>b. TypeOK /\ read_pos \in RingPos /\ write_pos \in RingPos /\ regs \in RegisterSet
  BY DEF TypeInv, TypeOK
<1> USE NoneIsNoPacket DEF TypeInv, TypeOK, SlotsFilled, Slot, NotStore, fetchVars,
      decodeVars, executeVars, insnBus, vecBus
<1>q. UNCHANGED <<read_pos, write_pos>> => Queued' = Queued
  BY DEF Queued
<1>1. CASE StoreReceive
  BY <1>1, <1>q DEF StoreReceive, queueVars
<1>2. CASE StoreValueIntoReg
  BY <1>2, <1>q, StorePackets DEF StoreValueIntoReg, Storing, queueVars
<1>3. CASE StoreRegIntoMem
  BY <1>3, <1>q, StorePackets DEF StoreRegIntoMem, Storing, queueVars
<1>4. CASE StoreSendRead
  BY <1>4, <1>q, StorePackets
  DEF StoreSendRead, AcceptResponse, Storing, queueVars, VecBusPacket
<1>5. CASE StoreAcceptResponse
  BY <1>5, <1>q DEF StoreAcceptResponse, AcceptResponse, queueVars, VecBusPacket
<1>6. CASE StoreLoaded
  BY <1>6, <1>q, StorePackets DEF StoreLoaded, queueVars
<1>7. CASE StoreJmp
  BY <1>7, <1>q, StorePackets DEF StoreJmp, Storing, queueVars
<1>8. CASE StoreCjmp
  <2>1. store_fetch' \in StoreToFetchPacket
    BY <1>8, StorePackets
  <2> DEFINE ctxt == [regs |-> regs, PC |-> store_pkt.dest_address,
                      exec_mask |-> store_pkt.execution_flags_true]
  <2>2. ctxt \in ThreadContext
    BY <1>8, <1>a, <1>b DEF StoreCjmp, Storing, ExecStagePacket, ThreadContext
  <2>3. /\ contexts' = [contexts EXCEPT ![write_pos] = ctxt]
        /\ write_pos' = get_next_pos(write_pos) /\ read_pos' = read_pos
    BY <1>8 DEF StoreCjmp, push_to_front
  <2> HIDE DEF ctxt
  <2>4. contexts' \in [RingPos -> Slot(ThreadContext)] /\ write_pos' \in RingPos
    BY <1>b, <2>2, <2>3, RingSteps
  <2>5. \A pos \in Queued' : contexts'[pos] # None
    BY <1>b, <2>2, <2>3, RingSteps
  <2> QED
    BY <1>8, <2>1, <2>3, <2>4, <2>5 DEF StoreCjmp, Storing
<1>9. CASE StoreHalt
  <2>1. CASE is_empty
    <3>1. regs' \in RegisterSet
      <4>1. regs' = [regs EXCEPT !.hasHalted = TRUE]
        BY <1>9, <2>1 DEF StoreHalt
      <4> QED
        BY <1>b, <4>1 DEF RegisterSet
    <3> QED
      BY <1>9, <1>q, <2>1, <3>1 DEF StoreHalt, Storing
  <2>2. CASE ~is_empty
    <3>1. read_pos \in Queued /\ read_pos' \in RingPos /\ Queued' = Queued \ {read_pos}
      BY <1>9, <1>b, <2>2, RingSteps DEF StoreHalt
    <3>2. new_thread_ctxt' \in ThreadContext
      BY <1>9, <1>b, <2>2, <3>1 DEF StoreHalt
    <3> QED
      BY <1>9, <2>2, <3>1, <3>2 DEF StoreHalt, Storing
  <2> QED
    BY <2>1, <2>2
<1>10. CASE StoreResume
  <2>1. new_thread_ctxt \in ThreadContext
    BY <1>10 DEF StoreResume
  <2>2. regs' \in RegisterSet /\ store_fetch' \in StoreToFetchPacket
    BY <1>10, <2>1, StorePackets DEF StoreResume, ThreadContext
  <2> QED
    BY <1>10, <1>q, <2>2 DEF StoreResume, queueVars
<1> QED
  BY <1>1, <1>2, <1>3, <1>4, <1>5, <1>6, <1>7, <1>8, <1>9, <1>10 DEF StoreStage

-----------------------------------------------------------------------------
\* Steps of the memory.
LEMMA MemoryTypeInv == TypeInv /\ Memory => TypeInv'
<1> SUFFICES ASSUME TypeInv, Memory PROVE TypeInv'
  OBVIOUS
<1>a. 0 \in LaneValue
  BY VectorOpsAssumption DEF LaneValue
<1>b. InsnMemoryRespond => insn_response' \in InsnLine
  <2> SUFFICES ASSUME InsnMemoryRespond PROVE insn_response' \in InsnLine
    OBVIOUS
  <2>1. insn_request \in Int
    BY DEF InsnMemoryRespond, TypeInv, TypeOK, Slot
  <2>2. \A half \in {0, 1} : InsnAt(prog, insn_request + half) \in Instruction
    BY <2>1, InsnAtType DEF TypeInv
  <2> QED
    BY <2>2 DEF InsnMemoryRespond, InsnLine
<1>c. VecMemoryRead => vec_response' \in VecBusPacket
  <2> SUFFICES ASSUME VecMemoryRead PROVE vec_response' \in VecBusPacket
    OBVIOUS
  <2>1. vec_accepted \in VecBusPacket /\ mem \in [Addr -> LaneValue]
    BY DEF VecMemoryRead, IsRead, TypeInv, TypeOK, Slot
  <2>2. [t \in Threads |-> LET a == vec_accepted.address[t]
                           IN IF a \in Addr THEN mem[a] ELSE 0] \in VectorValue
    BY <1>a, <2>1 DEF VectorValue
  <2> QED
    BY <2>1, <2>2 DEF VecMemoryRead, VecBusPacket
<1>d. VecMemoryWrite => mem' \in [Addr -> LaneValue]
  <2> SUFFICES ASSUME VecMemoryWrite PROVE mem' \in [Addr -> LaneValue]
    OBVIOUS
  <2>1. vec_accepted \in VecBusPacket /\ mem \in [Addr -> LaneValue]
    BY DEF VecMemoryWrite, IsWrite, TypeInv, TypeOK, Slot
  <2>2. \A t \in Threads : vec_accepted.payload[t] \in LaneValue
    BY <2>1 DEF VecBusPacket, VectorValue
  <2> QED
    BY <2>1, <2>2 DEF VecMemoryWrite, AfterWrite
<1>n. NotMemory
  BY DEF Memory
<1> USE <1>n, NoneIsNoPacket DEF TypeInv, TypeOK, SlotsFilled, Slot, Queued, NotMemory,
      fetchVars, decodeVars, executeVars, storeVars, queueVars, insnBus, vecBus
<1>1. CASE InsnMemoryRespond
  BY <1>1, <1>b DEF InsnMemoryRespond
<1>2. CASE VecMemoryAccept
  BY <1>2 DEF VecMemoryAccept
<1>3. CASE VecMemoryRead
  BY <1>3, <1>c DEF VecMemoryRead
<1>4. CASE VecMemoryWrite
  BY <1>4, <1>d DEF VecMemoryWrite
<1> QED
  BY <1>1, <1>2, <1>3, <1>4 DEF Memory, VecMemoryFinish

LEMMA StutterTypeInv == TypeInv /\ UNCHANGED vars => TypeInv'
BY DEF TypeInv, TypeOK, SlotsFilled, Slot, Queued, vars, fetchVars, decodeVars, executeVars,
       storeVars, queueVars, insnBus, vecBus

LEMMA TypeInvHolds == Spec => []TypeInv
<1>1. Init => TypeInv
  BY InitTypeInv
<1>2. TypeInv /\ [Next]_vars => TypeInv'
  BY FetchTypeInv, DecodeTypeInv, ExecuteTypeInv, StoreTypeInv, MemoryTypeInv, StutterTypeInv
  DEF Next
<1> QED
  BY <1>1, <1>2, PTL DEF Spec

\* In whatever order the components are resumed, every register, bus slot and
\* program counter keeps to its type; on the way, no stage works on a packet it
\* does not have, and the divergence queue hands out no slot nobody filled.
THEOREM TypeCorrect == Spec => []TypeOK
<1>1. TypeInv => TypeOK
  BY DEF TypeInv
<1> QED
  BY <1>1, TypeInvHolds, PTL

-----------------------------------------------------------------------------
(***************************************************************************)
(* The control-flow instruction in flight.  ControlInv makes the three     *)
(* properties inductive: it adds that every slot a stage sends to is free, *)
(* what the store stage may be waiting for, that no suspended thread group *)
(* carries a halt flag, and who has asked the memory for what.             *)
(***************************************************************************)
PacketShapes ==
  /\ execute_store # None /\ execute_store.is_store_to_pc
       => execute_store.opcode = "STORAGE_LOAD_MEM_INTO_REG"
  /\ store_at # "top" /\ store_pkt.is_store_to_pc
       => store_pkt.opcode = "STORAGE_LOAD_MEM_INTO_REG"
  /\ store_at \in {"await_load", "loaded"}
       => store_pkt.opcode = "STORAGE_LOAD_MEM_INTO_REG"
  /\ store_at = "resume" => store_pkt.opcode = "STORAGE_HALT"

StopsBehindJump ==
  fetch_at = "sending" => (have_outstanding_jmp <=> changesControlFlow(insn.op))

SlotsFree ==
  /\ decode_at = "switch" => decode_execute = None
  /\ execute_at = "switch" => execute_store = None

NoHaltSuspended ==
  /\ \A pos \in Queued : ~contexts[pos].regs.hasHalted
  /\ store_at = "resume" => ~new_thread_ctxt.regs.hasHalted

OneMemoryRead ==
  /\ One(insn_request # None) + One(insn_response # None) = One(fetch_at = "await_line")
  /\ One(IsRead(vec_request)) + One(IsRead(vec_accepted)) + One(vec_response # None)
       = One(store_at = "await_load")

ControlInv == /\ OneRedirectPerJump /\ NothingBehindJump /\ PacketShapes
              /\ StopsBehindJump /\ SlotsFree /\ NoHaltSuspended /\ OneMemoryRead

\* The empty pipeline.
LEMMA InitControlInv == Init => ControlInv
<1> SUFFICES ASSUME Init PROVE ControlInv
  OBVIOUS
<1>1. Queued = {}
  BY SimtPipelineAssumption DEF Init, Queued
<1>2. ~have_outstanding_jmp /\ ~regs.hasHalted
  BY DEF Init
<1> QED
  BY <1>1, <1>2
  DEF Init, MemoryInit, ControlInv, OneRedirectPerJump, NothingBehindJump, PacketShapes,
      StopsBehindJump, SlotsFree, NoHaltSuspended, OneMemoryRead, One, ControlInFlight, AwaitsRedirect,
      ControlInFetchDecode, ControlInDecode, ControlInDecodeExecute, ControlInExecute,
      ControlInExecuteStore, ControlInStore, Drained, ExecuteEmpty, DecodeEmpty, FrontEmpty,
      IsRead

\* Steps of the fetch stage.
LEMMA FetchControlInv == TypeInv /\ ControlInv /\ FetchStage => ControlInv'
<1> SUFFICES ASSUME TypeInv, ControlInv, FetchStage PROVE ControlInv'
  OBVIOUS
<1>0. /\ UNCHANGED <<decodeVars, executeVars, storeVars, decode_execute, execute_store, regs,
                     queueVars, vecBus, vec_accepted>>
      /\ Queued' = Queued
  BY DEF FetchStage, FetchNext, FetchAwaitRedirect, FetchReceiveRedirect, FetchRetarget,
         FetchRetargeted, FetchLineArrives, FetchFillLine, FetchSelect, FetchSend, NotFetch,
         queueVars, Queued
<1> USE <1>0, NoneIsNoPacket
    DEF ControlInv, OneRedirectPerJump, NothingBehindJump, PacketShapes, StopsBehindJump,
        SlotsFree, NoHaltSuspended, OneMemoryRead, One, ControlInFlight, AwaitsRedirect,
        ControlInFetchDecode, ControlInDecode, ControlInDecodeExecute, ControlInExecute,
        ControlInExecuteStore, ControlInStore, Drained, ExecuteEmpty, DecodeEmpty,
        FrontEmpty, IsRead, Redirects, decodeVars, executeVars, storeVars, queueVars,
        insnBus, vecBus, changesControlFlow
<1>1. CASE FetchNext
  BY <1>1 DEF FetchNext, TestCacheAddress, GetResponse, TypeInv, TypeOK, Slot,
     get_address_to_fetch_from_PC
<1>2. CASE FetchAwaitRedirect
  BY <1>2 DEF FetchAwaitRedirect
<1>3. CASE FetchReceiveRedirect
  BY <1>3 DEF FetchReceiveRedirect
<1>4. CASE FetchRetarget
  BY <1>4 DEF FetchRetarget
<1>5. CASE FetchRetargeted
  BY <1>5 DEF FetchRetargeted, TestCacheAddress, GetResponse, TypeInv, TypeOK, Slot,
     get_address_to_fetch_from_PC
<1>6. CASE FetchLineArrives
  BY <1>6 DEF FetchLineArrives, GetResponse
<1>7. CASE FetchFillLine
  BY <1>7 DEF FetchFillLine
<1>8. CASE FetchSelect
  BY <1>8 DEF FetchSelect
<1>9. CASE FetchSend
  <2>1. /\ fetch_at \in {"selected", "sending"}
        /\ UNCHANGED <<insn, store_fetch, insn_request, insn_response>>
    BY <1>9 DEF FetchSend
  <2>2. have_outstanding_jmp' <=> insn.op \in ControlFlow
    <3>1. CASE fetch_at = "selected"
      BY <1>9, <3>1, Zenon DEF FetchSend
    <3>2. CASE fetch_at # "selected"
      BY <1>9, <3>2 DEF FetchSend
    <3> QED
      BY <3>1, <3>2
  <2>3. CASE fetch_decode = None
    <3>1. fetch_decode' = [exec_mask |-> exec_mask, PC |-> fetch_PC, insn |-> insn]
          /\ fetch_at' = "top"
      BY <1>9, <2>3 DEF FetchSend
    <3>2. fetch_decode' # None /\ fetch_decode'.insn = insn
      <4>1. fetch_decode' \in FetchToDecodeBusPacket
        BY <3>1 DEF FetchToDecodeBusPacket, TypeInv, TypeOK
      <4> QED
        BY <3>1, <4>1
    <3> QED
      BY <2>1, <2>2, <2>3, <3>1, <3>2
  <2>4. CASE fetch_decode # None
    <3>1. fetch_decode' = fetch_decode /\ fetch_at' = "sending"
      BY <1>9, <2>4 DEF FetchSend
    <3> QED
      BY <2>1, <2>2, <2>4, <3>1
  <2> QED
    BY <2>3, <2>4
<1> QED
  BY <1>1, <1>2, <1>3, <1>4, <1>5, <1>6, <1>7, <1>8, <1>9 DEF FetchStage

\* The decode stage turns control-flow instructions into control-flow packets
\* and no other instruction into one.
LEMMA DecodedControl ==
  ASSUME NEW op \in Opcode \ {"NOP"}
  PROVE  ExecuteOpcode(op) \in ExecuteControl <=> changesControlFlow(op)
BY DEF ExecuteOpcode, ExecuteControl, changesControlFlow, Opcode, MovesToReg, MovesToR0,
       Arithmetic, ControlFlow, CondJumps, CondJumpFlags

\* Steps of the decode stage.
LEMMA DecodeControlInv == TypeInv /\ ControlInv /\ DecodeStage => ControlInv'
<1> SUFFICES ASSUME TypeInv, ControlInv, DecodeStage PROVE ControlInv'
  OBVIOUS
<1>0. /\ UNCHANGED <<fetchVars, executeVars, storeVars, execute_store, store_fetch, regs,
                     queueVars, insnBus, vecBus, vec_accepted>>
      /\ Queued' = Queued
  BY DEF DecodeStage, DecodeReceive, DecodeNop, DecodeSend, NotDecode, queueVars, Queued
<1> USE <1>0, NoneIsNoPacket
    DEF ControlInv, OneRedirectPerJump, NothingBehindJump, PacketShapes, StopsBehindJump,
        SlotsFree, NoHaltSuspended, OneMemoryRead, One, ControlInFlight, AwaitsRedirect,
        ControlInFetchDecode, ControlInDecode, ControlInDecodeExecute, ControlInExecute,
        ControlInExecuteStore, ControlInStore, Drained, ExecuteEmpty, DecodeEmpty,
        FrontEmpty, IsRead, Redirects, fetchVars,
        executeVars, storeVars, queueVars, insnBus, vecBus
<1>1. CASE DecodeReceive
  BY <1>1 DEF DecodeReceive
<1>2. CASE DecodeNop
  <2>1. ~changesControlFlow(decode_pkt.insn.op)
    BY <1>2 DEF DecodeNop, changesControlFlow, ControlFlow, CondJumps, CondJumpFlags
  <2> QED
    BY <1>2, <2>1 DEF DecodeNop
<1>3. CASE DecodeSend
  <2>1. decode_pkt.insn.op \in Opcode \ {"NOP"}
    BY <1>3 DEF DecodeSend, TypeInv, TypeOK, SlotsFilled, Slot, FetchToDecodeBusPacket,
       Instruction
  <2>2. decode_execute' \in DecodeExecPacket
    BY <1>3, DecodedType DEF DecodeSend, TypeInv, TypeOK, SlotsFilled, Slot
  <2>3. decode_execute'.opcode = ExecuteOpcode(decode_pkt.insn.op)
    BY <1>3 DEF DecodeSend
  <2>4. decode_execute'.opcode \in ExecuteControl <=> changesControlFlow(decode_pkt.insn.op)
    BY <2>1, <2>3, DecodedControl
  <2>5. /\ decode_at = "switch" /\ decode_at' = "top" /\ decode_execute' # None
        /\ UNCHANGED <<decode_pkt, fetch_decode>>
    BY <1>3, <2>2 DEF DecodeSend
  <2> QED
    BY <2>4, <2>5
<1> QED
  BY <1>1, <1>2, <1>3 DEF DecodeStage

\* Steps of the execute stage.
LEMMA ExecuteControlInv == TypeInv /\ ControlInv /\ ExecuteStage => ControlInv'
<1> SUFFICES ASSUME TypeInv, ControlInv, ExecuteStage PROVE ControlInv'
  OBVIOUS
<1>0. /\ UNCHANGED <<fetchVars, decodeVars, storeVars, fetch_decode, store_fetch,
                     queueVars, insnBus, vecBus, vec_accepted>>
      /\ Queued' = Queued
  BY DEF ExecuteStage, ExecuteReceive, ExecuteWriteRegister, ExecuteLoad, ExecuteStore,
         ExecuteRestorePc, ExecuteCondJmp, ExecuteJmp, ExecuteHalt, NotExecute, queueVars,
         Queued
<1>a. regs'.hasHalted = regs.hasHalted
  BY DEF ExecuteStage, ExecuteReceive, ExecuteWriteRegister, ExecuteLoad, ExecuteStore,
         ExecuteRestorePc, ExecuteCondJmp, ExecuteJmp, ExecuteHalt, Invalidated, TypeInv,
         TypeOK, RegisterSet
<1>b. ASSUME ~ExecuteReceive
      PROVE  /\ execute_store' # None
             /\ Redirects(execute_store') <=> execute_pkt.opcode \in ExecuteControl
             /\ execute_store'.is_store_to_pc
                  => execute_store'.opcode = "STORAGE_LOAD_MEM_INTO_REG"
             /\ execute_at = "switch" /\ execute_at' = "top"
             /\ UNCHANGED <<execute_pkt, decode_execute>>
  <2>1. execute_store' # None
    BY <1>b, ExecutePackets, NoneIsNoPacket
  <2>2. execute_at = "switch" /\ execute_at' = "top" /\ UNCHANGED <<execute_pkt, decode_execute>>
    BY <1>b
    DEF ExecuteStage, ExecuteWriteRegister, ExecuteLoad, ExecuteStore, ExecuteRestorePc,
        ExecuteCondJmp, ExecuteJmp, ExecuteHalt, SendToStore, Executing
  <2> USE DEF SendToStore, Executing, StoragePacket, Redirects, ExecuteControl
  <2>3. CASE ExecuteWriteRegister
    BY <2>1, <2>2, <2>3 DEF ExecuteWriteRegister, RegisterWriters
  <2>4. CASE ExecuteLoad
    BY <2>1, <2>2, <2>4 DEF ExecuteLoad
  <2>5. CASE ExecuteStore
    BY <2>1, <2>2, <2>5 DEF ExecuteStore
  <2>6. CASE ExecuteRestorePc
    BY <2>1, <2>2, <2>6 DEF ExecuteRestorePc
  <2>7. CASE ExecuteCondJmp
    BY <2>1, <2>2, <2>7 DEF ExecuteCondJmp
  <2>8. CASE ExecuteJmp
    BY <2>1, <2>2, <2>8 DEF ExecuteJmp
  <2>9. CASE ExecuteHalt
    BY <2>1, <2>2, <2>9 DEF ExecuteHalt
  <2> QED
    BY <1>b, <2>3, <2>4, <2>5, <2>6, <2>7, <2>8, <2>9 DEF ExecuteStage
<1> USE <1>0, NoneIsNoPacket
    DEF ControlInv, OneRedirectPerJump, NothingBehindJump, PacketShapes, StopsBehindJump,
        SlotsFree, NoHaltSuspended, OneMemoryRead, One, ControlInFlight, AwaitsRedirect,
        ControlInFetchDecode, ControlInDecode, ControlInDecodeExecute, ControlInExecute,
        ControlInExecuteStore, ControlInStore, Drained, ExecuteEmpty, DecodeEmpty,
        FrontEmpty, IsRead, Redirects, fetchVars,
        decodeVars, storeVars, queueVars, insnBus, vecBus
<1>1. CASE ExecuteReceive
  BY <1>1, <1>a DEF ExecuteReceive
<1>2. CASE ~ExecuteReceive
  BY <1>2, <1>a, <1>b
<1> QED
  BY <1>1, <1>2

\* Steps of the store stage.
LEMMA StoreControlInv == TypeInv /\ ControlInv /\ StoreStage => ControlInv'
<1> SUFFICES ASSUME TypeInv, ControlInv, StoreStage PROVE ControlInv'
  OBVIOUS
<1>0. UNCHANGED <<fetchVars, decodeVars, executeVars, fetch_decode, decode_execute,
                  insnBus, vec_accepted>>
  BY DEF StoreStage, StoreReceive, StoreValueIntoReg, StoreRegIntoMem, StoreSendRead,
         StoreAcceptResponse, StoreLoaded, StoreJmp, StoreCjmp, StoreHalt, StoreResume,
         NotStore
<1>q. UNCHANGED queueVars => Queued' = Queued
  BY DEF Queued, queueVars
<1>r. read_pos \in RingPos /\ write_pos \in RingPos /\ regs \in RegisterSet
  BY DEF TypeInv, TypeOK
\* A suspended group is the executing one, which has not halted.
<1>h. Storing("STORAGE_CJMP") => ~regs.hasHalted
  BY <1>r DEF Storing, ControlInv, OneRedirectPerJump, One, ControlInFlight, AwaitsRedirect,
     ControlInStore, Redirects, RegisterSet
<1> USE <1>0, NoneIsNoPacket
    DEF ControlInv, OneRedirectPerJump, NothingBehindJump, PacketShapes, StopsBehindJump,
        SlotsFree, NoHaltSuspended, OneMemoryRead, One, ControlInFlight, AwaitsRedirect,
        ControlInFetchDecode, ControlInDecode, ControlInDecodeExecute, ControlInExecute,
        ControlInExecuteStore, ControlInStore, Drained, ExecuteEmpty, DecodeEmpty,
        FrontEmpty, IsRead, Redirects, fetchVars, decodeVars, executeVars, insnBus
<1>1. CASE StoreReceive
  BY <1>1, <1>q DEF StoreReceive, queueVars, vecBus
<1>2. CASE StoreValueIntoReg
  BY <1>2, <1>q, StorePackets DEF StoreValueIntoReg, Storing, queueVars, vecBus
<1>3. CASE StoreRegIntoMem
  BY <1>3, <1>q, StorePackets DEF StoreRegIntoMem, Storing, queueVars
<1>4. CASE StoreSendRead
  BY <1>4, <1>q, StorePackets DEF StoreSendRead, AcceptResponse, Storing, queueVars
<1>5. CASE StoreAcceptResponse
  BY <1>5, <1>q DEF StoreAcceptResponse, AcceptResponse, queueVars
<1>6. CASE StoreLoaded
  BY <1>6, <1>q, StorePackets DEF StoreLoaded, queueVars, vecBus
<1>7. CASE StoreJmp
  BY <1>7, <1>q, StorePackets DEF StoreJmp, Storing, queueVars, vecBus
<1>8. CASE StoreCjmp
  <2>1. store_fetch' # None
    BY <1>8, StorePackets
  <2>2. Queued' \subseteq Queued \union {write_pos} /\ write_pos \notin Queued
    BY <1>8, <1>r, RingSteps DEF StoreCjmp, push_to_front
  <2>3. \A pos \in Queued' : ~contexts'[pos].regs.hasHalted
    <3> SUFFICES ASSUME NEW pos \in Queued' PROVE ~contexts'[pos].regs.hasHalted
      OBVIOUS
    <3>1. CASE pos = write_pos
      BY <1>8, <1>h, <1>r, <3>1 DEF StoreCjmp, push_to_front, TypeInv, TypeOK
    <3>2. CASE pos # write_pos
      BY <1>8, <2>2, <3>2 DEF StoreCjmp, push_to_front, TypeInv, TypeOK
    <3> QED
      BY <3>1, <3>2
  <2> QED
    BY <1>8, <2>1, <2>3 DEF StoreCjmp, Storing, vecBus
<1>9. CASE StoreHalt
  <2>1. CASE is_empty
    <3>1. regs'.hasHalted
      BY <1>9, <1>r, <2>1 DEF StoreHalt, RegisterSet
    <3> QED
      BY <1>9, <1>q, <2>1, <3>1 DEF StoreHalt, Storing, queueVars, vecBus
  <2>2. CASE ~is_empty
    <3>1. read_pos \in Queued /\ Queued' = Queued \ {read_pos}
      BY <1>9, <1>r, <2>2, RingSteps DEF StoreHalt
    <3> QED
      BY <1>9, <2>2, <3>1 DEF StoreHalt, Storing, vecBus
  <2> QED
    BY <2>1, <2>2
<1>10. CASE StoreResume
  BY <1>10, <1>q, StorePackets DEF StoreResume, queueVars, vecBus
<1> QED
  BY <1>1, <1>2, <1>3, <1>4, <1>5, <1>6, <1>7, <1>8, <1>9, <1>10 DEF StoreStage

\* Steps of the memory.
LEMMA MemoryControlInv == TypeInv /\ ControlInv /\ Memory => ControlInv'
<1> SUFFICES ASSUME TypeInv, ControlInv, Memory PROVE ControlInv'
  OBVIOUS
<1>0. /\ UNCHANGED <<fetchVars, decodeVars, executeVars, storeVars, fetch_decode,
                     decode_execute, execute_store, store_fetch, regs, queueVars>>
      /\ Queued' = Queued
  BY DEF Memory, InsnMemoryRespond, VecMemoryAccept, VecMemoryFinish, VecMemoryRead,
         VecMemoryWrite, NotMemory, queueVars, Queued
<1>1. TypeInv'
  BY MemoryTypeInv
<1> USE <1>0, NoneIsNoPacket
    DEF ControlInv, OneRedirectPerJump, NothingBehindJump, PacketShapes, StopsBehindJump,
        SlotsFree, NoHaltSuspended, OneMemoryRead, One, ControlInFlight, AwaitsRedirect,
        ControlInFetchDecode, ControlInDecode, ControlInDecodeExecute, ControlInExecute,
        ControlInExecuteStore, ControlInStore, Drained, ExecuteEmpty, DecodeEmpty,
        FrontEmpty, IsRead, Redirects, fetchVars, decodeVars, executeVars, storeVars,
        queueVars, insnBus, vecBus
<1>2. CASE InsnMemoryRespond
  <2>1. insn_response' # None
    <3>1. insn_request \in Int
      BY <1>2 DEF InsnMemoryRespond, TypeInv, TypeOK, Slot
    <3>2. \A half \in {0, 1} : InsnAt(prog, insn_request + half) \in Instruction
      BY <3>1, InsnAtType DEF TypeInv
    <3>3. insn_response' \in InsnLine
      BY <1>2, <3>2 DEF InsnMemoryRespond, InsnLine
    <3> QED
      BY <3>3
  <2> QED
    BY <1>2, <2>1 DEF InsnMemoryRespond
<1>3. CASE VecMemoryAccept
  BY <1>3 DEF VecMemoryAccept
<1>4. CASE VecMemoryRead
  <2>1. vec_response' # None
    <3>1. vec_accepted \in VecBusPacket
      BY <1>4 DEF VecMemoryRead, IsRead, TypeInv, TypeOK, Slot
    <3>2. vec_response'.packet_type = "read_response"
      BY <1>4, <3>1 DEF VecMemoryRead, VecBusPacket
    <3>3. \A t \in Threads : IF vec_accepted.address[t] \in Addr
                             THEN mem[vec_accepted.address[t]] \in LaneValue
                             ELSE 0 \in LaneValue
      BY VectorOpsAssumption DEF TypeInv, TypeOK, LaneValue
    <3>4. vec_response' \in VecBusPacket
      BY <1>4, <3>1, <3>3 DEF VecMemoryRead, VecBusPacket, VectorValue
    <3> QED
      BY <3>4
  <2> QED
    BY <1>4, <2>1 DEF VecMemoryRead
<1>5. CASE VecMemoryWrite
  BY <1>5 DEF VecMemoryWrite, IsWrite
<1> QED
  BY <1>2, <1>3, <1>4, <1>5 DEF Memory, VecMemoryFinish

LEMMA StutterControlInv == ControlInv /\ UNCHANGED vars => ControlInv'
BY DEF ControlInv, OneRedirectPerJump, NothingBehindJump, PacketShapes, StopsBehindJump,
       SlotsFree, NoHaltSuspended, OneMemoryRead, One, ControlInFlight, AwaitsRedirect,
       ControlInFetchDecode, ControlInDecode, ControlInDecodeExecute, ControlInExecute,
       ControlInExecuteStore, ControlInStore, Drained, ExecuteEmpty, DecodeEmpty,
       FrontEmpty, IsRead, Redirects, Queued, vars, fetchVars, decodeVars, executeVars,
       storeVars, queueVars, insnBus, vecBus

LEMMA ControlInvHolds == Spec => []ControlInv
<1>1. Init => ControlInv
  BY InitControlInv
<1>2. TypeInv /\ ControlInv /\ [Next]_vars => ControlInv'
  BY FetchControlInv, DecodeControlInv, ExecuteControlInv, StoreControlInv,
     MemoryControlInv, StutterControlInv
  DEF Next
<1> QED
  BY <1>1, <1>2, TypeInvHolds, PTL DEF Spec

\* Whatever the program, and whatever the order in which the components are
\* resumed and the time the memory takes, no jump is lost and none is answered
\* twice.
THEOREM EveryJumpAnsweredOnce == Spec => []OneRedirectPerJump
<1>1. ControlInv => OneRedirectPerJump
  BY DEF ControlInv
<1> QED
  BY <1>1, ControlInvHolds, PTL

\* The pipeline never holds an instruction behind a jump, so it needs nothing
\* to squash wrong-path work.
THEOREM NoWrongPathWork == Spec => []NothingBehindJump
<1>1. ControlInv => NothingBehindJump
  BY DEF ControlInv
<1> QED
  BY <1>1, ControlInvHolds, PTL

\* Between the pipeline stages the one-slot buses need no flow control beyond
\* the tests the stages make before they receive.
THEOREM OneSlotBusesSuffice == Spec => []BusesNeverOverrun
<1>1. TypeInv /\ ControlInv => BusesNeverOverrun
  <2> SUFFICES ASSUME TypeInv, ControlInv PROVE BusesNeverOverrun
    OBVIOUS
  <2>1. regs.hasHalted \in BOOLEAN
    BY DEF TypeInv, TypeOK, RegisterSet
  <2>2. ControlInStore => store_fetch = None
    BY <2>1 DEF ControlInv, OneRedirectPerJump, ControlInFlight, One
  <2> QED
    BY <2>2 DEF ControlInv, SlotsFree, OneMemoryRead, IsRead, One, BusesNeverOverrun
<1> QED
  BY <1>1, TypeInvHolds, ControlInvHolds, PTL

-----------------------------------------------------------------------------
\* The core against the rules of its memory.
LEMMA AtMostOneRead ==
  ASSUME TypeInv, ControlInv
  PROVE  /\ fetch_at # "await_line" => insn_request = None /\ insn_response = None
         /\ insn_response # None => fetch_at = "await_line"
         /\ store_at # "await_load" => /\ ~IsRead(vec_request) /\ ~IsRead(vec_accepted)
                                       /\ vec_response = None
BY DEF ControlInv, OneMemoryRead, One

\* A fetch segment leaves the memory alone, asks for a line, or takes one.
LEMMA FetchKeepsRules ==
  ASSUME TypeInv, ControlInv, FetchStage
  PROVE  UNCHANGED memoryVars \/ FetchAsks \/ FetchTakes
<1> DEFINE Line == get_address_to_fetch_from_PC(fetch_PC)
<1>1. Line \in Int
  BY DEF TypeInv, TypeOK, get_address_to_fetch_from_PC
<1>2. UNCHANGED <<prog, mem, vecBus, vec_accepted>>
  BY DEF FetchStage, FetchNext, FetchAwaitRedirect, FetchReceiveRedirect, FetchRetarget,
         FetchRetargeted, FetchLineArrives, FetchFillLine, FetchSelect, FetchSend, NotFetch
<1>3. CASE FetchNext \/ FetchRetargeted
  <2>1. insn_request = None /\ insn_response = None
    BY <1>3, AtMostOneRead DEF FetchNext, FetchRetargeted
  <2>2. \/ UNCHANGED insnBus
        \/ insn_request' = Line /\ UNCHANGED insn_response
    BY <1>3, <2>1 DEF FetchNext, FetchRetargeted, TestCacheAddress, GetResponse, insnBus
  <2> QED
    BY <1>1, <1>2, <2>1, <2>2 DEF FetchAsks, memoryVars, insnBus
<1>4. CASE FetchLineArrives
  BY <1>2, <1>4 DEF FetchLineArrives, GetResponse, FetchTakes
<1>5. CASE \/ FetchAwaitRedirect \/ FetchReceiveRedirect \/ FetchRetarget
           \/ FetchFillLine \/ FetchSelect \/ FetchSend
  BY <1>2, <1>5 DEF FetchAwaitRedirect, FetchReceiveRedirect, FetchRetarget, FetchFillLine,
                    FetchSelect, FetchSend, memoryVars
<1> QED
  BY <1>3, <1>4, <1>5 DEF FetchStage

\* A store segment leaves the memory alone, sends a request, or takes an answer.
LEMMA StoreKeepsRules ==
  ASSUME TypeInv, ControlInv, StoreStage
  PROVE  UNCHANGED memoryVars \/ StoreSends \/ StoreTakes
<1>1. UNCHANGED <<prog, mem, insnBus, vec_accepted>>
  BY DEF StoreStage, StoreReceive, StoreValueIntoReg, StoreRegIntoMem, StoreSendRead,
         StoreAcceptResponse, StoreLoaded, StoreJmp, StoreCjmp, StoreHalt, StoreResume,
         NotStore
<1>2. CASE StoreRegIntoMem \/ StoreSendRead
  <2>1. ~IsRead(vec_request) /\ ~IsRead(vec_accepted) /\ vec_response = None
    BY <1>2, AtMostOneRead DEF StoreRegIntoMem, StoreSendRead, Storing
  <2>2. UNCHANGED vec_response
    BY <1>2, <2>1 DEF StoreRegIntoMem, StoreSendRead, AcceptResponse
  <2>3. store_pkt \in ExecStagePacket
    BY <1>2 DEF StoreRegIntoMem, StoreSendRead, Storing, TypeInv, SlotsFilled, TypeOK, Slot
  <2>4. create_vec(0) \in VectorValue
    BY VectorTypes
  <2>5. /\ vec_request' \in VecBusPacket
        /\ \/ vec_request'.packet_type = "write"
           \/ vec_request'.packet_type = "read" /\ vec_request'.payload = create_vec(0)
    BY <1>2, <2>3, <2>4
    DEF StoreRegIntoMem, StoreSendRead, VecBusPacket, ExecStagePacket
  <2> QED
    BY <1>1, <2>1, <2>2, <2>5 DEF StoreSends
<1>3. CASE StoreAcceptResponse
  BY <1>1, <1>3 DEF StoreAcceptResponse, AcceptResponse, StoreTakes
<1>4. CASE \/ StoreReceive \/ StoreValueIntoReg \/ StoreLoaded \/ StoreJmp \/ StoreCjmp
           \/ StoreHalt \/ StoreResume
  BY <1>1, <1>4 DEF StoreReceive, StoreValueIntoReg, StoreLoaded, StoreJmp, StoreCjmp,
                    StoreHalt, StoreResume, memoryVars, vecBus
<1> QED
  BY <1>2, <1>3, <1>4 DEF StoreStage

\* The core implements the clients of CoreMemory, whose steps its memory takes:
\* the contract that module MemoryHierarchy is checked against is the one the
\* pipeline keeps.
THEOREM MemoryRulesKept == Spec => KeepsMemoryRules
<1>1. Init => MemoryInit
  BY DEF Init
<1>2. ASSUME TypeInv, ControlInv, [Next]_vars
      PROVE  [MemoryNext]_memoryVars
  <2>1. CASE FetchStage
    BY <1>2, <2>1, FetchKeepsRules DEF MemoryNext
  <2>2. CASE DecodeStage
    BY <2>2 DEF DecodeStage, DecodeReceive, DecodeNop, DecodeSend, NotDecode, memoryVars
  <2>3. CASE ExecuteStage
    BY <2>3 DEF ExecuteStage, ExecuteReceive, ExecuteWriteRegister, ExecuteLoad, ExecuteStore,
                ExecuteRestorePc, ExecuteCondJmp, ExecuteJmp, ExecuteHalt, NotExecute,
                memoryVars
  <2>4. CASE StoreStage
    BY <1>2, <2>4, StoreKeepsRules DEF MemoryNext
  <2>5. CASE Memory
    BY <2>5 DEF Memory, MemoryNext
  <2>6. CASE UNCHANGED vars
    BY <2>6 DEF vars, memoryVars
  <2> QED
    BY <1>2, <2>1, <2>2, <2>3, <2>4, <2>5, <2>6 DEF Next
<1> QED
  BY <1>1, <1>2, TypeInvHolds, ControlInvHolds, PTL DEF Spec, KeepsMemoryRules, MemorySpec
=============================================================================
