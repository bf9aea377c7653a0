------------------------ MODULE SimtScoreboardProofs ------------------------
(***************************************************************************)
(* The scoreboard counts the writes in flight, whatever the width of its   *)
(* counters, and a suspended thread group waits for no write.  The two     *)
(* need each other: a resumed group's counters are those of its snapshot,  *)
(* and a snapshot is taken of counters that count exactly.                 *)
(***************************************************************************)
EXTENDS SimtPipelineProofs

\* A wrapping counter, up to two steps on.
LEMMA CounterWraps ==
  ASSUME NEW w \in TinyCounter
  PROVE  /\ w % TINY_COUNTER_RANGE = w
         /\ (w + 1) % TINY_COUNTER_RANGE = IF w + 1 < TINY_COUNTER_RANGE THEN w + 1
                                           ELSE w + 1 - TINY_COUNTER_RANGE
         /\ (w + 2) % TINY_COUNTER_RANGE = IF w + 2 < TINY_COUNTER_RANGE THEN w + 2
                                           ELSE w + 2 - TINY_COUNTER_RANGE
BY SimtPipelineAssumption DEF TinyCounter

\* Two steps of a wrapping counter are two single steps.
LEMMA CounterSteps ==
  ASSUME NEW w \in TinyCounter
  PROVE  /\ (w + 1) % TINY_COUNTER_RANGE \in TinyCounter
         /\ (((w + 1) % TINY_COUNTER_RANGE) + 1) % TINY_COUNTER_RANGE
              = (w + 2) % TINY_COUNTER_RANGE
<1> DEFINE k == (w + 1) % TINY_COUNTER_RANGE
<1>1. k = IF w + 1 < TINY_COUNTER_RANGE THEN w + 1 ELSE w + 1 - TINY_COUNTER_RANGE
  BY CounterWraps
<1>2. k \in TinyCounter
  BY <1>1, SimtPipelineAssumption DEF TinyCounter
<1>3. (k + 1) % TINY_COUNTER_RANGE = IF k + 1 < TINY_COUNTER_RANGE THEN k + 1
                                     ELSE k + 1 - TINY_COUNTER_RANGE
  BY <1>2, CounterWraps
<1>4. (w + 2) % TINY_COUNTER_RANGE = IF w + 2 < TINY_COUNTER_RANGE THEN w + 2
                                     ELSE w + 2 - TINY_COUNTER_RANGE
  BY CounterWraps
<1> HIDE DEF k
<1>5. (k + 1) % TINY_COUNTER_RANGE = (w + 2) % TINY_COUNTER_RANGE
  BY <1>1, <1>3, <1>4, SimtPipelineAssumption DEF TinyCounter
<1> QED
  BY <1>2, <1>5 DEF k

\* Counting one more, or one fewer, of two writes in flight.
LEMMA CountUp ==
  ASSUME NEW i \in TinyCounter, NEW w \in TinyCounter, NEW p \in {0, 1},
         i = (w + p) % TINY_COUNTER_RANGE
  PROVE  (i + 1) % TINY_COUNTER_RANGE = (w + (p + 1)) % TINY_COUNTER_RANGE
<1>1. CASE p = 0
  <2>1. w + p = w /\ w + (p + 1) = w + 1
    BY <1>1 DEF TinyCounter
  <2>2. i = w
    BY <2>1, CounterWraps
  <2> QED
    BY <2>1, <2>2
<1>2. CASE p = 1
  <2>1. w + p = w + 1 /\ w + (p + 1) = w + 2
    BY <1>2 DEF TinyCounter
  <2> QED
    BY <2>1, CounterSteps
<1> QED
  BY <1>1, <1>2

LEMMA CountDown ==
  ASSUME NEW i \in TinyCounter, NEW w \in TinyCounter, NEW p \in {0, 1},
         i = (w + (p + 1)) % TINY_COUNTER_RANGE
  PROVE  i = (((w + 1) % TINY_COUNTER_RANGE) + p) % TINY_COUNTER_RANGE
<1>1. CASE p = 0
  <2>1. (w + 1) % TINY_COUNTER_RANGE \in TinyCounter
    BY CounterSteps
  <2>2. ((w + 1) % TINY_COUNTER_RANGE) + p = (w + 1) % TINY_COUNTER_RANGE
    BY <1>1, <2>1 DEF TinyCounter
  <2>3. w + (p + 1) = w + 1
    BY <1>1 DEF TinyCounter
  <2> QED
    BY <2>1, <2>2, <2>3, CounterWraps
<1>2. CASE p = 1
  <2>1. w + (p + 1) = w + 2
    BY <1>2 DEF TinyCounter
  <2> QED
    BY <1>2, <2>1, CounterSteps
<1> QED
  BY <1>1, <1>2

-----------------------------------------------------------------------------
(***************************************************************************)
(* The inductive invariant and the steps that count.                       *)
(***************************************************************************)
ScoreInv == ScoreboardExact /\ SnapshotsQuiescent

\* The registers the scoreboard speaks of have counters.
LEMMA CounterTypes ==
  ASSUME TypeOK, NEW r \in RegisterID
  PROVE  regs.invalidated_regs[r] \in TinyCounter /\ regs.written_regs[r] \in TinyCounter
BY DEF TypeOK, RegisterSet

\* Without a write in flight, the counters are equal.
LEMMA NothingPending ==
  ASSUME TypeOK, NEW r \in RegisterID,
         regs.invalidated_regs[r]
           = (regs.written_regs[r] + PendingWrites(r)) % TINY_COUNTER_RANGE,
         PendingWrites(r) = 0
  PROVE  regs.invalidated_regs[r] = regs.written_regs[r]
<1>1. regs.written_regs[r] \in TinyCounter
  BY CounterTypes
<1>2. regs.written_regs[r] + PendingWrites(r) = regs.written_regs[r]
  BY <1>1 DEF TinyCounter
<1> QED
  BY <1>1, <1>2, CounterWraps

\* The execute stage marks a register and sends the write in one segment.
LEMMA MarkAndSend ==
  ASSUME TypeInv, ScoreboardExact, execute_store = None, NEW d \in RegisterID,
         regs' = Invalidated(d), UNCHANGED storeVars,
         execute_store' # None, \A r \in RegisterID : WritesReg(execute_store', r) <=> r = d
  PROVE  ScoreboardExact'
<1> SUFFICES ASSUME NEW r \in RegisterID \ {REG_PC}
             PROVE  regs'.invalidated_regs[r]
                      = (regs'.written_regs[r] + PendingWrites(r)') % TINY_COUNTER_RANGE
  BY DEF ScoreboardExact
<1> DEFINE p == One(store_at # "top" /\ WritesReg(store_pkt, r))
<1>1. p \in {0, 1} /\ PendingWrites(r) = p
  BY DEF PendingWrites, One
<1>2. PendingWrites(r)' = IF r = d THEN p + 1 ELSE p
  BY <1>1 DEF PendingWrites, One, WritesReg, storeVars
<1>3. /\ regs.invalidated_regs[r] = (regs.written_regs[r] + p) % TINY_COUNTER_RANGE
      /\ regs.invalidated_regs[r] \in TinyCounter /\ regs.written_regs[r] \in TinyCounter
  BY <1>1, CounterTypes DEF ScoreboardExact, TypeInv
<1>4. /\ regs'.written_regs[r] = regs.written_regs[r]
      /\ regs'.invalidated_regs[r]
           = IF r = d THEN (regs.invalidated_regs[r] + 1) % TINY_COUNTER_RANGE
             ELSE regs.invalidated_regs[r]
  BY DEF Invalidated, TypeInv, TypeOK, RegisterSet
<1> HIDE DEF p
<1>5. CASE r = d
  <2>1. (regs.invalidated_regs[r] + 1) % TINY_COUNTER_RANGE
          = (regs.written_regs[r] + (p + 1)) % TINY_COUNTER_RANGE
    BY <1>1, <1>3, CountUp
  <2> QED
    BY <1>2, <1>4, <1>5, <2>1
<1>6. CASE r # d
  BY <1>2, <1>3, <1>4, <1>6
<1> QED
  BY <1>5, <1>6

\* The store stage writes the value and counts the write in one segment.
LEMMA WriteAndCount ==
  ASSUME TypeInv, ScoreboardExact, store_at # "top", store_at' = "top",
         store_pkt.opcode \in {"STORAGE_STORE_VALUE_INTO_REG", "STORAGE_LOAD_MEM_INTO_REG"},
         NEW v, regs' = Written(store_pkt.dest_reg, v), UNCHANGED execute_store
  PROVE  ScoreboardExact'
<1> SUFFICES ASSUME NEW r \in RegisterID \ {REG_PC}
             PROVE  regs'.invalidated_regs[r]
                      = (regs'.written_regs[r] + PendingWrites(r)') % TINY_COUNTER_RANGE
  BY DEF ScoreboardExact
<1> DEFINE d == store_pkt.dest_reg
           p == One(execute_store # None /\ WritesReg(execute_store, r))
<1>1. p \in {0, 1} /\ PendingWrites(r) = IF r = d THEN p + 1 ELSE p
  BY DEF PendingWrites, One, WritesReg
<1>2. PendingWrites(r)' = p
  BY <1>1 DEF PendingWrites, One, WritesReg
<1>3. /\ regs.invalidated_regs[r]
           = (regs.written_regs[r] + PendingWrites(r)) % TINY_COUNTER_RANGE
      /\ regs.invalidated_regs[r] \in TinyCounter /\ regs.written_regs[r] \in TinyCounter
  BY CounterTypes DEF ScoreboardExact, TypeInv
<1>4. d \in RegisterID
  BY DEF TypeInv, TypeOK, SlotsFilled, Slot, ExecStagePacket
<1>5. /\ regs'.invalidated_regs[r] = regs.invalidated_regs[r]
      /\ regs'.written_regs[r]
           = IF r = d THEN (regs.written_regs[r] + 1) % TINY_COUNTER_RANGE
             ELSE regs.written_regs[r]
  BY <1>4 DEF Written, TypeInv, TypeOK, RegisterSet
<1> HIDE DEF d, p
<1>6. CASE r = d
  <2>1. regs.invalidated_regs[r]
          = (((regs.written_regs[r] + 1) % TINY_COUNTER_RANGE) + p) % TINY_COUNTER_RANGE
    BY <1>1, <1>3, <1>6, CountDown
  <2> QED
    BY <1>2, <1>5, <1>6, <2>1
<1>7. CASE r # d
  BY <1>1, <1>2, <1>3, <1>5, <1>7
<1> QED
  BY <1>6, <1>7

\* A packet that writes no register does not count.
LEMMA NothingCounted ==
  ASSUME ScoreboardExact, regs' = regs,
         \A r \in RegisterID \ {REG_PC} : PendingWrites(r)' = PendingWrites(r)
  PROVE  ScoreboardExact'
BY DEF ScoreboardExact

LEMMA SnapshotsKept ==
  ASSUME SnapshotsQuiescent, UNCHANGED <<contexts, read_pos, write_pos>>,
         store_at' # "resume" \/ UNCHANGED <<store_at, new_thread_ctxt>>
  PROVE  SnapshotsQuiescent'
BY DEF SnapshotsQuiescent, Queued, Quiescent

-----------------------------------------------------------------------------
LEMMA InitScoreInv == Init => ScoreInv
<1> SUFFICES ASSUME Init PROVE ScoreInv
  OBVIOUS
<1>1. Queued = {}
  BY SimtPipelineAssumption DEF Init, Queued
<1>2. 0 \in TinyCounter /\ 0 % TINY_COUNTER_RANGE = 0
  BY SimtPipelineAssumption DEF TinyCounter
<1>3. \A r \in RegisterID : PendingWrites(r) = 0
  BY DEF Init, PendingWrites, One
<1>4. \A r \in RegisterID : regs.invalidated_regs[r] = 0 /\ regs.written_regs[r] = 0
  BY DEF Init
<1>5. ScoreboardExact
  BY <1>2, <1>3, <1>4 DEF ScoreboardExact
<1> QED
  BY <1>1, <1>5 DEF ScoreInv, SnapshotsQuiescent, Init

\* The other components leave the counters and the snapshots alone.
LEMMA OthersScoreInv ==
  ASSUME ScoreInv, UNCHANGED <<regs, execute_store, storeVars, queueVars>>
  PROVE  ScoreInv'
<1>1. \A r \in RegisterID : PendingWrites(r)' = PendingWrites(r)
  BY DEF PendingWrites, One, WritesReg, storeVars
<1>2. ScoreboardExact'
  BY <1>1, NothingCounted DEF ScoreInv
<1>3. SnapshotsQuiescent'
  BY SnapshotsKept DEF ScoreInv, storeVars, queueVars
<1> QED
  BY <1>2, <1>3 DEF ScoreInv

\* Steps of the execute stage.
LEMMA ExecuteScoreInv == TypeInv /\ ControlInv /\ ScoreInv /\ ExecuteStage => ScoreInv'
<1> SUFFICES ASSUME TypeInv, ControlInv, ScoreInv, ExecuteStage PROVE ScoreInv'
  OBVIOUS
<1>0. UNCHANGED <<storeVars, queueVars>>
  BY DEF ExecuteStage, ExecuteReceive, ExecuteWriteRegister, ExecuteLoad, ExecuteStore,
         ExecuteRestorePc, ExecuteCondJmp, ExecuteJmp, ExecuteHalt, NotExecute
<1>1. SnapshotsQuiescent'
  BY <1>0, SnapshotsKept DEF ScoreInv, storeVars, queueVars
<1>2. CASE ExecuteReceive
  BY <1>0, <1>2, OthersScoreInv DEF ExecuteReceive
<1>3. CASE ~ExecuteReceive
  <2>1. execute_at = "switch" /\ execute_store' # None
    BY <1>3, ExecutePackets, NoneIsNoPacket
    DEF ExecuteStage, ExecuteWriteRegister, ExecuteLoad, ExecuteStore, ExecuteRestorePc,
        ExecuteCondJmp, ExecuteJmp, ExecuteHalt, Executing
  <2>2. execute_store = None
    BY <2>1 DEF ControlInv, SlotsFree
  <2>3. execute_pkt.regID \in RegisterID /\ ExecuteDest \in RegisterID
    BY <2>1, VectorOpsAssumption
    DEF TypeInv, TypeOK, SlotsFilled, Slot, DecodeExecPacket, ExecuteDest
  <2>4. CASE ExecuteWriteRegister
    <3>1. regs' = Invalidated(ExecuteDest)
      BY <2>4 DEF ExecuteWriteRegister
    <3>2. \A r \in RegisterID : WritesReg(execute_store', r) <=> r = ExecuteDest
      BY <2>4 DEF ExecuteWriteRegister, SendToStore, StoragePacket, WritesReg
    <3>3. ScoreboardExact'
      BY <1>0, <2>1, <2>2, <2>3, <3>1, <3>2, MarkAndSend DEF ScoreInv
    <3> QED
      BY <1>1, <3>3 DEF ScoreInv
  <2>5. CASE ExecuteLoad
    <3>1. regs' = Invalidated(execute_pkt.regID)
      BY <2>5 DEF ExecuteLoad
    <3>2. \A r \in RegisterID : WritesReg(execute_store', r) <=> r = execute_pkt.regID
      BY <2>5 DEF ExecuteLoad, SendToStore, StoragePacket, WritesReg
    <3>3. ScoreboardExact'
      BY <1>0, <2>1, <2>2, <2>3, <3>1, <3>2, MarkAndSend DEF ScoreInv
    <3> QED
      BY <1>1, <3>3 DEF ScoreInv
  <2>6. CASE ~ExecuteWriteRegister /\ ~ExecuteLoad
    <3>1. regs' = regs
      BY <1>3, <2>6
      DEF ExecuteStage, ExecuteStore, ExecuteRestorePc, ExecuteCondJmp, ExecuteJmp,
          ExecuteHalt
    <3>2. \A r \in RegisterID \ {REG_PC} : ~WritesReg(execute_store', r)
      <4> USE DEF SendToStore, StoragePacket, WritesReg
      <4>1. CASE ExecuteStore
        BY <4>1 DEF ExecuteStore
      <4>2. CASE ExecuteRestorePc
        BY <4>2 DEF ExecuteRestorePc
      <4>3. CASE ExecuteCondJmp
        BY <4>3 DEF ExecuteCondJmp
      <4>4. CASE ExecuteJmp
        BY <4>4 DEF ExecuteJmp
      <4>5. CASE ExecuteHalt
        BY <4>5 DEF ExecuteHalt
      <4> QED
        BY <1>3, <2>6, <4>1, <4>2, <4>3, <4>4, <4>5 DEF ExecuteStage
    <3>3. \A r \in RegisterID \ {REG_PC} : PendingWrites(r)' = PendingWrites(r)
      BY <1>0, <2>2, <3>2 DEF PendingWrites, One, WritesReg, storeVars
    <3>4. ScoreboardExact'
      BY <3>1, <3>3, NothingCounted DEF ScoreInv
    <3> QED
      BY <1>1, <3>4 DEF ScoreInv
  <2> QED
    BY <2>4, <2>5, <2>6
<1> QED
  BY <1>2, <1>3

\* When a group is suspended, and when it is resumed, no write is in flight.
LEMMA QuietAtSwitch ==
  ASSUME TypeInv, ControlInv, ScoreInv, Storing("STORAGE_CJMP")
  PROVE  Quiescent(regs)
<1>1. ControlInStore
  BY DEF Storing, ControlInStore, Redirects
<1>2. execute_store = None
  BY <1>1 DEF ControlInv, NothingBehindJump, ExecuteEmpty
<1>3. \A r \in RegisterID : PendingWrites(r) = 0
  BY <1>2 DEF PendingWrites, One, WritesReg, Storing
<1>4. \A r \in RegisterID \ {REG_PC} : regs.invalidated_regs[r] = regs.written_regs[r]
  BY <1>3, NothingPending DEF ScoreInv, ScoreboardExact, TypeInv
<1>5. ~regs.hasHalted
  <2>1. regs.hasHalted \in BOOLEAN
    BY DEF TypeInv, TypeOK, RegisterSet
  <2> QED
    BY <1>1, <2>1
    DEF ControlInv, OneRedirectPerJump, One, ControlInFlight, AwaitsRedirect
<1> QED
  BY <1>4, <1>5 DEF Quiescent

\* Steps of the store stage.
LEMMA StoreScoreInv == TypeInv /\ ControlInv /\ ScoreInv /\ StoreStage => ScoreInv'
<1> SUFFICES ASSUME TypeInv, ControlInv, ScoreInv, StoreStage PROVE ScoreInv'
  OBVIOUS
<1>r. read_pos \in RingPos /\ write_pos \in RingPos /\ regs \in RegisterSet
  BY DEF TypeInv, TypeOK
<1>1. CASE StoreReceive
  <2>1. \A r \in RegisterID : PendingWrites(r)' = PendingWrites(r)
    BY <1>1 DEF StoreReceive, PendingWrites, One, WritesReg
  <2> QED
    BY <1>1, <2>1, NothingCounted, SnapshotsKept DEF StoreReceive, ScoreInv, queueVars
<1>2. CASE StoreValueIntoReg
  <2>1. ScoreboardExact'
    BY <1>2, WriteAndCount DEF StoreValueIntoReg, Storing, ScoreInv
  <2> QED
    BY <1>2, <2>1, SnapshotsKept DEF StoreValueIntoReg, ScoreInv, queueVars
<1>3. CASE StoreRegIntoMem
  <2>1. \A r \in RegisterID : PendingWrites(r)' = PendingWrites(r)
    BY <1>3 DEF StoreRegIntoMem, Storing, PendingWrites, One, WritesReg
  <2> QED
    BY <1>3, <2>1, NothingCounted, SnapshotsKept DEF StoreRegIntoMem, ScoreInv, queueVars
<1>4. CASE StoreSendRead \/ StoreAcceptResponse
  <2>1. /\ store_at # "top" /\ store_at' \in {"await_load", "loaded"}
        /\ UNCHANGED <<store_pkt, execute_store, regs, queueVars>>
    BY <1>4 DEF StoreSendRead, StoreAcceptResponse, Storing, AcceptResponse
  <2>2. \A r \in RegisterID : PendingWrites(r)' = PendingWrites(r)
    BY <2>1 DEF PendingWrites, One, WritesReg
  <2> QED
    BY <2>1, <2>2, NothingCounted, SnapshotsKept DEF ScoreInv, queueVars
<1>5. CASE StoreLoaded
  <2>1. store_pkt.opcode = "STORAGE_LOAD_MEM_INTO_REG"
    BY <1>5 DEF StoreLoaded, ControlInv, PacketShapes
  <2>2. ScoreboardExact'
    BY <1>5, <2>1, WriteAndCount DEF StoreLoaded, ScoreInv
  <2> QED
    BY <1>5, <2>2, SnapshotsKept DEF StoreLoaded, ScoreInv, queueVars
<1>6. CASE StoreJmp
  <2>1. \A r \in RegisterID : PendingWrites(r)' = PendingWrites(r)
    BY <1>6 DEF StoreJmp, Storing, PendingWrites, One, WritesReg
  <2> QED
    BY <1>6, <2>1, NothingCounted, SnapshotsKept DEF StoreJmp, ScoreInv, queueVars
<1>7. CASE StoreCjmp
  <2>1. \A r \in RegisterID : PendingWrites(r)' = PendingWrites(r)
    BY <1>7 DEF StoreCjmp, Storing, PendingWrites, One, WritesReg
  <2>2. ScoreboardExact'
    BY <1>7, <2>1, NothingCounted DEF StoreCjmp, ScoreInv
  <2>3. Quiescent(regs)
    BY <1>7, QuietAtSwitch DEF StoreCjmp
  <2>4. Queued' \subseteq Queued \union {write_pos} /\ write_pos \notin Queued
    BY <1>7, <1>r, RingSteps DEF StoreCjmp, push_to_front
  <2>5. ASSUME NEW pos \in Queued' PROVE Quiescent(contexts'[pos].regs)
    <3>1. CASE pos = write_pos
      <4>1. contexts'[pos].regs = regs
        BY <1>7, <1>r, <3>1 DEF StoreCjmp, push_to_front, TypeInv, TypeOK
      <4> QED
        BY <2>3, <4>1
    <3>2. CASE pos # write_pos
      <4>1. pos \in Queued /\ contexts'[pos] = contexts[pos]
        BY <1>7, <2>4, <3>2 DEF StoreCjmp, push_to_front, TypeInv, TypeOK
      <4> QED
        BY <4>1 DEF ScoreInv, SnapshotsQuiescent
    <3> QED
      BY <3>1, <3>2
  <2>6. store_at' # "resume"
    BY <1>7 DEF StoreCjmp
  <2>7. \A pos \in Queued' : Quiescent(contexts'[pos].regs)
    BY <2>5
  <2> QED
    BY <2>2, <2>6, <2>7 DEF ScoreInv, SnapshotsQuiescent, Quiescent
<1>8. CASE StoreHalt
  <2>1. /\ UNCHANGED execute_store
        /\ \A r \in RegisterID : PendingWrites(r)' = PendingWrites(r)
    BY <1>8 DEF StoreHalt, Storing, PendingWrites, One, WritesReg
  <2>2. CASE is_empty
    <3>1. UNCHANGED <<regs.invalidated_regs, regs.written_regs>>
      BY <1>8, <1>r, <2>2 DEF StoreHalt, RegisterSet
    <3>2. ScoreboardExact'
      BY <2>1, <3>1 DEF ScoreInv, ScoreboardExact
    <3> QED
      BY <1>8, <2>2, <3>2, SnapshotsKept DEF StoreHalt, ScoreInv
  <2>3. CASE ~is_empty
    <3>1. read_pos \in Queued /\ Queued' = Queued \ {read_pos}
      BY <1>8, <1>r, <2>3, RingSteps DEF StoreHalt
    <3>2. /\ regs' = regs /\ contexts' = contexts
          /\ new_thread_ctxt' = contexts[read_pos]
      BY <1>8, <2>3 DEF StoreHalt
    <3>3. ScoreboardExact'
      BY <2>1, <3>2, NothingCounted DEF ScoreInv
    <3>4. SnapshotsQuiescent'
      BY <3>1, <3>2 DEF ScoreInv, SnapshotsQuiescent, Quiescent
    <3> QED
      BY <3>3, <3>4 DEF ScoreInv
  <2> QED
    BY <2>2, <2>3
<1>9. CASE StoreResume
  <2>1. store_pkt.opcode = "STORAGE_HALT" /\ store_at = "resume" /\ store_at' = "top"
    BY <1>9 DEF StoreResume, ControlInv, PacketShapes
  <2>2. execute_store = None /\ execute_store' = None
    BY <1>9, <2>1
    DEF StoreResume, ControlInv, NothingBehindJump, ExecuteEmpty, ControlInStore, Redirects
  <2>3. \A r \in RegisterID : PendingWrites(r)' = 0
    BY <2>1, <2>2 DEF PendingWrites, One
  <2>4. regs' = new_thread_ctxt.regs /\ regs' \in RegisterSet
    BY <1>9, <2>1
    DEF StoreResume, TypeInv, TypeOK, SlotsFilled, Slot, ThreadContext
  <2>5. ASSUME NEW r \in RegisterID \ {REG_PC}
        PROVE  regs'.invalidated_regs[r]
                 = (regs'.written_regs[r] + PendingWrites(r)') % TINY_COUNTER_RANGE
    <3>1. regs'.invalidated_regs[r] = regs'.written_regs[r]
      BY <2>1, <2>4 DEF ScoreInv, SnapshotsQuiescent, Quiescent
    <3>2. regs'.written_regs[r] \in TinyCounter
      BY <2>4 DEF RegisterSet
    <3>3. regs'.written_regs[r] + PendingWrites(r)' = regs'.written_regs[r]
      BY <2>3, <3>2 DEF TinyCounter
    <3> QED
      BY <3>1, <3>2, <3>3, CounterWraps
  <2>6. ScoreboardExact'
    BY <2>5 DEF ScoreboardExact
  <2> QED
    BY <1>9, <2>6, SnapshotsKept DEF StoreResume, ScoreInv, queueVars
<1> QED
  BY <1>1, <1>2, <1>3, <1>4, <1>5, <1>6, <1>7, <1>8, <1>9 DEF StoreStage

LEMMA ScoreInvHolds == Spec => []ScoreInv
<1>1. Init => ScoreInv
  BY InitScoreInv
<1>2. TypeInv /\ ControlInv /\ ScoreInv /\ [Next]_vars => ScoreInv'
  <2> SUFFICES ASSUME TypeInv, ControlInv, ScoreInv, [Next]_vars PROVE ScoreInv'
    OBVIOUS
  <2>1. CASE FetchStage
    <3>1. UNCHANGED <<regs, execute_store, storeVars, queueVars>>
      BY <2>1
      DEF FetchStage, FetchNext, FetchAwaitRedirect, FetchReceiveRedirect, FetchRetarget,
          FetchRetargeted, FetchLineArrives, FetchFillLine, FetchSelect, FetchSend, NotFetch
    <3> QED
      BY <3>1, OthersScoreInv
  <2>2. CASE DecodeStage
    <3>1. UNCHANGED <<regs, execute_store, storeVars, queueVars>>
      BY <2>2 DEF DecodeStage, DecodeReceive, DecodeNop, DecodeSend, NotDecode
    <3> QED
      BY <3>1, OthersScoreInv
  <2>3. CASE Memory
    <3>1. UNCHANGED <<regs, execute_store, storeVars, queueVars>>
      BY <2>3
      DEF Memory, InsnMemoryRespond, VecMemoryAccept, VecMemoryFinish, VecMemoryRead,
          VecMemoryWrite, NotMemory
    <3> QED
      BY <3>1, OthersScoreInv
  <2>4. CASE UNCHANGED vars
    BY <2>4, OthersScoreInv DEF vars
  <2> QED
    BY <2>1, <2>2, <2>3, <2>4, ExecuteScoreInv, StoreScoreInv DEF Next
<1> QED
  BY <1>1, <1>2, TypeInvHolds, ControlInvHolds, PTL DEF Spec

\* However many writes a program makes, and however often its counters wrap or
\* are replaced by those of another thread group, a register is marked invalid
\* as often as writes to it are in flight (RegisterFile.h:14-19).
THEOREM ScoreboardCountsWrites == Spec => []ScoreboardExact
<1>1. ScoreInv => ScoreboardExact
  BY DEF ScoreInv
<1> QED
  BY <1>1, ScoreInvHolds, PTL

\* A thread group is suspended, and resumed, with registers no write to which
\* is in flight, and not with a halt flag (StoreStage.cpp's STORAGE_CJMP).
THEOREM SnapshotsAwaitNoWrite == Spec => []SnapshotsQuiescent
<1>1. ScoreInv => SnapshotsQuiescent
  BY DEF ScoreInv
<1> QED
  BY <1>1, ScoreInvHolds, PTL

=============================================================================
