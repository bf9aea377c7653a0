-------------------------- MODULE SimtGroupsProofs --------------------------
(***************************************************************************)
(* The thread groups: they never share a thread, the queue of suspended    *)
(* groups never overflows, and threads end only by halting.  Whatever is   *)
(* in flight carries the mask of the running group, and a group is only    *)
(* split in two nonempty halves; the pigeonhole principle does the rest.   *)
(*                                                                         *)
(* From there, that the core implements module ThreadGroups: a push of the *)
(* ring appends to the sequence of waiting groups, a pop takes its head,   *)
(* and no other step of any component interferes, least of all between the *)
(* halt of a group and the start of the next, or after the last halt.      *)
(***************************************************************************)
EXTENDS SimtGroups, SimtPipelineProofs, FiniteSetTheorems, SequenceTheorems

\* Everything in flight belongs to the running group.
MaskCarried ==
  /\ fetch_decode # None => fetch_decode.exec_mask = exec_mask
  /\ decode_at = "switch" => decode_pkt.exec_mask = exec_mask
  /\ decode_execute # None => decode_execute.exec_mask = exec_mask
  /\ execute_at = "switch" => execute_pkt.exec_mask = exec_mask
  /\ execute_store # None => execute_store.exec_mask = exec_mask
  /\ store_at # "top" => store_pkt.exec_mask = exec_mask

\* A split of the running group.
Split(pkt) ==
  /\ pkt.execution_flags_true # {} /\ pkt.execution_flags_false # {}
  /\ pkt.execution_flags_true \intersect pkt.execution_flags_false = {}
  /\ pkt.execution_flags_true \union pkt.execution_flags_false = pkt.exec_mask

SplitsProper ==
  /\ execute_store # None /\ execute_store.opcode = "STORAGE_CJMP" => Split(execute_store)
  /\ Storing("STORAGE_CJMP") => Split(store_pkt)

GroupInv == MaskCarried /\ SplitsProper /\ GroupsDisjoint

-----------------------------------------------------------------------------
(***************************************************************************)
(* Which mask is the running one.  The cases of RunningMask exclude each   *)
(* other because one jump is answered by one redirect.                     *)
(***************************************************************************)
LEMMA RunningMaskCases ==
  ASSUME TypeInv, ControlInv
  PROVE  /\ store_fetch # None => RunningMask = store_fetch.exec_mask
         /\ fetch_at = "redirect" => RunningMask = jmp_retarget.exec_mask
         /\ store_at = "resume" => RunningMask = new_thread_ctxt.exec_mask
         /\ regs.hasHalted => RunningMask = {}
         /\ (store_fetch = None /\ fetch_at # "redirect" /\ store_at # "resume"
               /\ ~regs.hasHalted) => RunningMask = exec_mask
<1>1. regs.hasHalted \in BOOLEAN
  BY DEF TypeInv, TypeOK, RegisterSet
<1>2. store_at = "resume" => ControlInStore
  BY DEF ControlInv, PacketShapes, ControlInStore, Redirects
<1>3. One(ControlInStore) + One(store_fetch # None) + One(regs.hasHalted)
        <= One(AwaitsRedirect)
  BY <1>1 DEF ControlInv, OneRedirectPerJump, ControlInFlight, One
<1> QED
  BY <1>1, <1>2, <1>3 DEF One, AwaitsRedirect, RunningMask

LEMMA RunningMaskCasesNext ==
  ASSUME TypeInv', ControlInv'
  PROVE  /\ store_fetch' # None => RunningMask' = store_fetch'.exec_mask
         /\ fetch_at' = "redirect" => RunningMask' = jmp_retarget'.exec_mask
         /\ store_at' = "resume" => RunningMask' = new_thread_ctxt'.exec_mask
         /\ regs'.hasHalted => RunningMask' = {}
         /\ (store_fetch' = None /\ fetch_at' # "redirect" /\ store_at' # "resume"
               /\ ~regs'.hasHalted) => RunningMask' = exec_mask'
<1>1. regs'.hasHalted \in BOOLEAN
  BY DEF TypeInv, TypeOK, RegisterSet
<1>2. store_at' = "resume" => ControlInStore'
  BY DEF ControlInv, PacketShapes, ControlInStore, Redirects
<1>3. One(ControlInStore') + One(store_fetch' # None) + One(regs'.hasHalted)
        <= One(AwaitsRedirect')
  BY <1>1 DEF ControlInv, OneRedirectPerJump, ControlInFlight, One
<1> QED
  BY <1>1, <1>2, <1>3 DEF One, AwaitsRedirect, RunningMask

\* While the store stage holds a control-flow packet, fetching waits.
LEMMA StoreHoldsControl ==
  ASSUME TypeInv, ControlInv, ControlInStore
  PROVE  /\ store_fetch = None /\ fetch_at \in {"top", "await_redirect"}
         /\ ~regs.hasHalted /\ ExecuteEmpty
<1>1. regs.hasHalted \in BOOLEAN
  BY DEF TypeInv, TypeOK, RegisterSet
<1> QED
  BY <1>1
  DEF ControlInv, OneRedirectPerJump, NothingBehindJump, ControlInFlight, One,
      AwaitsRedirect


-----------------------------------------------------------------------------
(***************************************************************************)
(* The invariant is inductive.                                             *)
(***************************************************************************)
LEMMA InitGroupInv == Init => GroupInv
<1> SUFFICES ASSUME Init PROVE GroupInv
  OBVIOUS
<1>1. Queued = {}
  BY SimtPipelineAssumption DEF Init, Queued
<1>2. RunningMask = Threads
  BY DEF Init, RunningMask, ALL_THREADS_EXEC_MASK
<1>3. Threads # {}
  BY VectorOpsAssumption DEF Threads
<1> QED
  BY <1>1, <1>2, <1>3
  DEF Init, GroupInv, MaskCarried, SplitsProper, Storing, GroupsDisjoint

\* The groups stay disjoint while the queue and the running mask stay.
LEMMA GroupsKept ==
  ASSUME GroupsDisjoint, UNCHANGED queueVars, RunningMask' = RunningMask,
         regs.hasHalted => regs'.hasHalted
  PROVE  GroupsDisjoint'
BY DEF GroupsDisjoint, Queued, queueVars

\* Steps of the fetch stage.
LEMMA FetchRunningMask ==
  ASSUME TypeInv, ControlInv, TypeInv', ControlInv', FetchStage
  PROVE  RunningMask' = RunningMask
<1>0. UNCHANGED <<store_at, new_thread_ctxt, regs>>
  BY DEF FetchStage, FetchNext, FetchAwaitRedirect, FetchReceiveRedirect, FetchRetarget,
         FetchRetargeted, FetchLineArrives, FetchFillLine, FetchSelect, FetchSend, NotFetch,
         storeVars
<1>1. CASE FetchReceiveRedirect
  BY <1>1, RunningMaskCases, RunningMaskCasesNext DEF FetchReceiveRedirect
<1>2. CASE FetchRetarget
  <2>1. Drained /\ AwaitsRedirect = FALSE
    BY <1>2 DEF FetchRetarget, ControlInv, NothingBehindJump, AwaitsRedirect
  <2>2. ~regs.hasHalted /\ store_fetch = None /\ store_at = "top"
    BY <2>1
    DEF Drained, ControlInv, OneRedirectPerJump, ControlInFlight, One, TypeInv, TypeOK,
        RegisterSet
  <2> QED
    BY <1>0, <1>2, <2>2, RunningMaskCases, RunningMaskCasesNext DEF FetchRetarget
<1>3. CASE ~FetchReceiveRedirect /\ ~FetchRetarget
  <2>1. /\ UNCHANGED <<store_fetch, exec_mask, jmp_retarget>>
        /\ fetch_at # "redirect" /\ fetch_at' # "redirect"
    BY <1>3
    DEF FetchStage, FetchNext, FetchAwaitRedirect, FetchRetargeted, FetchLineArrives,
        FetchFillLine, FetchSelect, FetchSend, TestCacheAddress, GetResponse
  <2> QED
    BY <1>0, <2>1 DEF RunningMask
<1> QED
  BY <1>1, <1>2, <1>3

LEMMA FetchGroupInv ==
  ASSUME TypeInv, ControlInv, TypeInv', ControlInv', GroupInv, FetchStage
  PROVE  GroupInv'
<1>0. UNCHANGED <<decodeVars, executeVars, storeVars, decode_execute, execute_store, regs,
                  queueVars>>
  BY DEF FetchStage, FetchNext, FetchAwaitRedirect, FetchReceiveRedirect, FetchRetarget,
         FetchRetargeted, FetchLineArrives, FetchFillLine, FetchSelect, FetchSend, NotFetch
<1>1. GroupsDisjoint'
  BY <1>0, FetchRunningMask, GroupsKept DEF GroupInv
<1>2. SplitsProper'
  BY <1>0 DEF GroupInv, SplitsProper, Storing, Split, storeVars
<1>3. MaskCarried'
  <2>1. CASE FetchRetarget
    BY <2>1, <1>0
    DEF FetchRetarget, ControlInv, NothingBehindJump, Drained, ExecuteEmpty, DecodeEmpty,
        FrontEmpty, MaskCarried, decodeVars, executeVars, storeVars
  <2>2. CASE FetchSend
    BY <2>2, <1>0
    DEF FetchSend, GroupInv, MaskCarried, decodeVars, executeVars, storeVars
  <2>3. CASE ~FetchRetarget /\ ~FetchSend
    <3>1. UNCHANGED <<exec_mask, fetch_decode>>
      BY <2>3
      DEF FetchStage, FetchNext, FetchAwaitRedirect, FetchReceiveRedirect, FetchRetargeted,
          FetchLineArrives, FetchFillLine, FetchSelect, TestCacheAddress
    <3> QED
      BY <1>0, <3>1 DEF GroupInv, MaskCarried, decodeVars, executeVars, storeVars
  <2> QED
    BY <2>1, <2>2, <2>3
<1> QED
  BY <1>1, <1>2, <1>3 DEF GroupInv

\* Steps of the decode stage.
LEMMA DecodeGroupInv == GroupInv /\ DecodeStage => GroupInv'
<1> SUFFICES ASSUME GroupInv, DecodeStage PROVE GroupInv'
  OBVIOUS
<1>0. UNCHANGED <<fetchVars, executeVars, storeVars, execute_store, store_fetch, regs,
                  queueVars>>
  BY DEF DecodeStage, DecodeReceive, DecodeNop, DecodeSend, NotDecode
<1>1. RunningMask' = RunningMask
  BY <1>0 DEF RunningMask, fetchVars, storeVars
<1>2. GroupsDisjoint'
  BY <1>0, <1>1, GroupsKept DEF GroupInv
<1>3. SplitsProper'
  BY <1>0 DEF GroupInv, SplitsProper, Storing, Split, storeVars
<1>4. MaskCarried'
  BY <1>0
  DEF DecodeStage, DecodeReceive, DecodeNop, DecodeSend, GroupInv, MaskCarried, fetchVars,
      executeVars, storeVars
<1> QED
  BY <1>2, <1>3, <1>4 DEF GroupInv

\* A conditional jump on which the lanes disagree splits the group.
LEMMA CondJmpSplits ==
  ASSUME ExecuteCondJmp, execute_store'.opcode = "STORAGE_CJMP"
  PROVE  Split(execute_store')
<1> DEFINE mask  == execute_pkt.exec_mask
           taken == get_cmp_mask(mask, regs.value[REG_FLAGS], execute_pkt.wanted)
<1>1. taken \subseteq mask
  BY DEF get_cmp_mask
<1>2. taken # {} /\ taken # mask
  BY DEF ExecuteCondJmp, SendToStore, StoragePacket
<1>3. /\ execute_store'.execution_flags_true = taken
      /\ execute_store'.execution_flags_false = mask \ taken
      /\ execute_store'.exec_mask = mask
  BY <1>2 DEF ExecuteCondJmp, SendToStore, StoragePacket
<1> HIDE DEF mask, taken
<1> QED
  BY <1>1, <1>2, <1>3 DEF Split

\* Steps of the execute stage.
LEMMA ExecuteGroupInv == TypeInv /\ GroupInv /\ ExecuteStage => GroupInv'
<1> SUFFICES ASSUME TypeInv, GroupInv, ExecuteStage PROVE GroupInv'
  OBVIOUS
<1>0. UNCHANGED <<fetchVars, decodeVars, storeVars, fetch_decode, store_fetch, queueVars>>
  BY DEF ExecuteStage, ExecuteReceive, ExecuteWriteRegister, ExecuteLoad, ExecuteStore,
         ExecuteRestorePc, ExecuteCondJmp, ExecuteJmp, ExecuteHalt, NotExecute
<1>1. regs'.hasHalted = regs.hasHalted
  BY DEF ExecuteStage, ExecuteReceive, ExecuteWriteRegister, ExecuteLoad, ExecuteStore,
         ExecuteRestorePc, ExecuteCondJmp, ExecuteJmp, ExecuteHalt, Invalidated, TypeInv,
         TypeOK, RegisterSet
<1>2. RunningMask' = RunningMask
  BY <1>0, <1>1 DEF RunningMask, fetchVars, storeVars
<1>3. GroupsDisjoint'
  BY <1>0, <1>1, <1>2, GroupsKept DEF GroupInv
<1>4. CASE ExecuteReceive
  BY <1>0, <1>3, <1>4
  DEF ExecuteReceive, GroupInv, MaskCarried, SplitsProper, Storing, Split, fetchVars,
      decodeVars, storeVars
<1>5. CASE ~ExecuteReceive
  <2>1. /\ execute_at = "switch" /\ execute_at' = "top"
        /\ UNCHANGED <<execute_pkt, decode_execute>>
    BY <1>5
    DEF ExecuteStage, ExecuteWriteRegister, ExecuteLoad, ExecuteStore, ExecuteRestorePc,
        ExecuteCondJmp, ExecuteJmp, ExecuteHalt, SendToStore, Executing
  <2>2. /\ execute_store'.exec_mask = execute_pkt.exec_mask
        /\ execute_store'.opcode = "STORAGE_CJMP" => Split(execute_store')
    <3> USE DEF SendToStore, StoragePacket
    <3>1. CASE ExecuteWriteRegister
      BY <3>1 DEF ExecuteWriteRegister
    <3>2. CASE ExecuteLoad
      BY <3>2 DEF ExecuteLoad
    <3>3. CASE ExecuteStore
      BY <3>3 DEF ExecuteStore
    <3>4. CASE ExecuteRestorePc
      BY <3>4 DEF ExecuteRestorePc
    <3>5. CASE ExecuteCondJmp
      BY <3>5, CondJmpSplits DEF ExecuteCondJmp
    <3>6. CASE ExecuteJmp
      BY <3>6 DEF ExecuteJmp
    <3>7. CASE ExecuteHalt
      BY <3>7 DEF ExecuteHalt
    <3> QED
      BY <1>5, <3>1, <3>2, <3>3, <3>4, <3>5, <3>6, <3>7 DEF ExecuteStage
  <2>3. MaskCarried'
    BY <1>0, <2>1, <2>2 DEF GroupInv, MaskCarried, fetchVars, decodeVars, storeVars
  <2>4. SplitsProper'
    BY <1>0, <2>2 DEF GroupInv, SplitsProper, Storing, Split, storeVars
  <2> QED
    BY <1>3, <2>3, <2>4 DEF GroupInv
<1> QED
  BY <1>4, <1>5

\* The running group before the store stage works on a control-flow packet.
LEMMA StoreRunsGroup ==
  ASSUME TypeInv, ControlInv, GroupInv, ControlInStore, store_at # "resume"
  PROVE  RunningMask = exec_mask /\ store_pkt.exec_mask = exec_mask
<1>1. store_fetch = None /\ fetch_at # "redirect" /\ ~regs.hasHalted
  BY StoreHoldsControl
<1>2. store_at # "top"
  BY DEF ControlInStore
<1> QED
  BY <1>1, <1>2, RunningMaskCases DEF GroupInv, MaskCarried

\* A group that splits: its halves are disjoint from each other and from every
\* suspended group, whether or not the push finds a free slot.
LEMMA CjmpGroups ==
  ASSUME TypeInv, ControlInv, TypeInv', ControlInv', GroupInv, StoreCjmp
  PROVE  GroupsDisjoint'
<1> DEFINE taken == store_pkt.execution_flags_true
           rest  == store_pkt.execution_flags_false
<1>1. read_pos \in RingPos /\ write_pos \in RingPos
  BY DEF TypeInv, TypeOK
<1>2. ControlInStore /\ store_at # "resume"
  BY DEF StoreCjmp, Storing, ControlInStore, Redirects
<1>3. RunningMask = exec_mask /\ store_pkt.exec_mask = exec_mask /\ ~regs.hasHalted
  BY <1>2, StoreRunsGroup, StoreHoldsControl
<1>4. /\ taken # {} /\ rest # {} /\ taken \intersect rest = {}
      /\ taken \union rest = RunningMask
  BY <1>3 DEF StoreCjmp, GroupInv, SplitsProper, Split
<1>5. store_fetch' # None /\ store_fetch'.exec_mask = rest
  BY StorePackets, NoneIsNoPacket DEF StoreCjmp, SendToFetch
<1>6. RunningMask' = rest
  BY <1>5, RunningMaskCasesNext
<1>7. Queued' \subseteq Queued \union {write_pos} /\ write_pos \notin Queued
  BY <1>1, RingSteps DEF StoreCjmp, push_to_front
<1>8. /\ contexts'[write_pos].exec_mask = taken
      /\ \A p \in Queued : contexts'[p] = contexts[p]
  BY <1>1, <1>7, RingSteps DEF StoreCjmp, push_to_front, TypeInv, TypeOK
<1> HIDE DEF taken, rest
<1>9. ASSUME NEW p \in Queued'
      PROVE  /\ contexts'[p].exec_mask # {}
             /\ contexts'[p].exec_mask \intersect rest = {}
             /\ p # write_pos => /\ p \in Queued /\ contexts'[p] = contexts[p]
                                 /\ contexts'[p].exec_mask \intersect taken = {}
  <2>1. CASE p = write_pos
    BY <1>4, <1>8, <2>1
  <2>2. CASE p # write_pos
    BY <1>4, <1>7, <1>8, <2>2 DEF GroupInv, GroupsDisjoint
  <2> QED
    BY <2>1, <2>2
<1>10. ASSUME NEW p \in Queued', NEW q \in Queued' \ {p}
       PROVE  contexts'[p].exec_mask \intersect contexts'[q].exec_mask = {}
  <2>1. CASE p = write_pos
    BY <1>8, <1>9, <2>1
  <2>2. CASE q = write_pos
    BY <1>8, <1>9, <2>2
  <2>3. CASE p # write_pos /\ q # write_pos
    BY <1>9, <2>3 DEF GroupInv, GroupsDisjoint
  <2> QED
    BY <2>1, <2>2, <2>3
<1> QED
  BY <1>4, <1>6, <1>9, <1>10 DEF GroupsDisjoint

\* A group that halts hands over to the oldest suspended one, or ends the run.
LEMMA HaltGroups ==
  ASSUME TypeInv, ControlInv, TypeInv', ControlInv', GroupInv, StoreHalt
  PROVE  GroupsDisjoint'
<1>1. read_pos \in RingPos /\ write_pos \in RingPos /\ regs \in RegisterSet
  BY DEF TypeInv, TypeOK
<1>2. CASE is_empty
  <2>1. Queued' = {}
    BY <1>1, <1>2 DEF StoreHalt, is_empty, Queued, RingPos
  <2>2. regs'.hasHalted
    BY <1>1, <1>2 DEF StoreHalt, RegisterSet
  <2> QED
    BY <2>1, <2>2 DEF GroupsDisjoint
<1>3. CASE ~is_empty
  <2>1. read_pos \in Queued /\ Queued' = Queued \ {read_pos}
    BY <1>1, <1>3, RingSteps DEF StoreHalt
  <2>2. contexts' = contexts /\ store_at' = "resume" /\ new_thread_ctxt' = contexts[read_pos]
    BY <1>3 DEF StoreHalt
  <2>3. RunningMask' = contexts[read_pos].exec_mask
    BY <2>2, RunningMaskCasesNext
  <2> QED
    BY <2>1, <2>2, <2>3 DEF GroupInv, GroupsDisjoint
<1> QED
  BY <1>2, <1>3

\* The other steps of the store stage leave the running group running.
LEMMA StoreRunningMask ==
  ASSUME TypeInv, ControlInv, TypeInv', ControlInv', GroupInv, StoreStage,
         ~StoreCjmp, ~StoreHalt
  PROVE  /\ RunningMask' = RunningMask /\ UNCHANGED queueVars
         /\ regs.hasHalted => regs'.hasHalted
<1>0. UNCHANGED <<fetchVars, queueVars>>
  BY DEF StoreStage, StoreReceive, StoreValueIntoReg, StoreRegIntoMem, StoreSendRead,
         StoreAcceptResponse, StoreLoaded, StoreJmp, StoreResume, NotStore
<1>1. CASE StoreReceive \/ StoreRegIntoMem \/ StoreSendRead \/ StoreAcceptResponse
  <2>1. /\ UNCHANGED <<store_fetch, regs>>
        /\ store_at # "resume" /\ store_at' # "resume"
    BY <1>1
    DEF StoreReceive, StoreRegIntoMem, StoreSendRead, StoreAcceptResponse, Storing,
        AcceptResponse
  <2> QED
    BY <1>0, <2>1 DEF RunningMask, fetchVars
<1>2. CASE StoreValueIntoReg \/ (StoreLoaded /\ ~store_pkt.is_store_to_pc)
  <2>1. UNCHANGED store_fetch /\ store_at # "resume" /\ store_at' # "resume"
    BY <1>2 DEF StoreValueIntoReg, StoreLoaded, Storing
  <2>2. regs'.hasHalted = regs.hasHalted
    BY <1>2, StorePackets
  <2> QED
    BY <1>0, <2>1, <2>2 DEF RunningMask, fetchVars
<1>3. CASE StoreJmp \/ (StoreLoaded /\ store_pkt.is_store_to_pc)
  <2>1. ControlInStore /\ store_at # "resume"
    BY <1>3 DEF StoreJmp, StoreLoaded, Storing, ControlInStore, Redirects
  <2>2. RunningMask = exec_mask /\ store_pkt.exec_mask = exec_mask /\ ~regs.hasHalted
    BY <2>1, StoreRunsGroup, StoreHoldsControl
  <2>3. store_fetch' # None /\ store_fetch'.exec_mask = store_pkt.exec_mask
    BY <1>3, StorePackets, NoneIsNoPacket DEF StoreJmp, StoreLoaded, SendToFetch
  <2> QED
    BY <1>0, <2>2, <2>3, RunningMaskCasesNext
<1>4. CASE StoreResume
  <2>1. ControlInStore
    BY <1>4 DEF StoreResume, ControlInv, PacketShapes, ControlInStore, Redirects
  <2>2. ~regs.hasHalted
    BY <2>1, StoreHoldsControl
  <2>3. store_fetch' # None /\ store_fetch'.exec_mask = new_thread_ctxt.exec_mask
    BY <1>4, StorePackets, NoneIsNoPacket DEF StoreResume, SendToFetch
  <2>4. RunningMask = new_thread_ctxt.exec_mask
    BY <1>4, RunningMaskCases DEF StoreResume
  <2> QED
    BY <1>0, <2>2, <2>3, <2>4, RunningMaskCasesNext
<1> QED
  BY <1>1, <1>2, <1>3, <1>4 DEF StoreStage

\* Steps of the store stage.
LEMMA StoreGroupInv ==
  ASSUME TypeInv, ControlInv, TypeInv', ControlInv', GroupInv, StoreStage
  PROVE  GroupInv'
<1>0. UNCHANGED <<fetchVars, decodeVars, executeVars, fetch_decode, decode_execute>>
  BY DEF StoreStage, StoreReceive, StoreValueIntoReg, StoreRegIntoMem, StoreSendRead,
         StoreAcceptResponse, StoreLoaded, StoreJmp, StoreCjmp, StoreHalt, StoreResume,
         NotStore
<1>1. GroupsDisjoint'
  BY CjmpGroups, HaltGroups, StoreRunningMask, GroupsKept DEF GroupInv
<1>2. CASE StoreReceive
  <2>1. MaskCarried' /\ SplitsProper'
    BY <1>0, <1>2
    DEF StoreReceive, GroupInv, MaskCarried, SplitsProper, Storing, Split, fetchVars,
        decodeVars, executeVars
  <2> QED
    BY <1>1, <2>1 DEF GroupInv
<1>3. CASE ~StoreReceive
  <2>1. /\ UNCHANGED <<store_pkt, execute_store>>
        /\ store_at # "top" /\ store_at' # "switch"
    BY <1>3
    DEF StoreStage, StoreValueIntoReg, StoreRegIntoMem, StoreSendRead, StoreAcceptResponse,
        StoreLoaded, StoreJmp, StoreCjmp, StoreHalt, StoreResume, Storing, AcceptResponse
  <2>2. MaskCarried' /\ SplitsProper'
    BY <1>0, <2>1
    DEF GroupInv, MaskCarried, SplitsProper, Storing, Split, fetchVars, decodeVars,
        executeVars
  <2> QED
    BY <1>1, <2>2 DEF GroupInv
<1> QED
  BY <1>2, <1>3

\* Steps of the memory, and stuttering.
LEMMA MemoryGroupInv ==
  ASSUME GroupInv, Memory \/ UNCHANGED vars
  PROVE  GroupInv' /\ LiveThreads' = LiveThreads
<1>0. UNCHANGED <<fetchVars, decodeVars, executeVars, storeVars, fetch_decode, decode_execute,
                  execute_store, store_fetch, regs, queueVars>>
  BY DEF Memory, InsnMemoryRespond, VecMemoryAccept, VecMemoryFinish, VecMemoryRead,
         VecMemoryWrite, NotMemory, vars
<1>1. RunningMask' = RunningMask
  BY <1>0 DEF RunningMask, fetchVars, storeVars
<1>2. GroupsDisjoint'
  BY <1>0, <1>1, GroupsKept DEF GroupInv
<1>3. MaskCarried' /\ SplitsProper'
  BY <1>0
  DEF GroupInv, MaskCarried, SplitsProper, Storing, Split, fetchVars, decodeVars,
      executeVars, storeVars
<1>4. LiveThreads' = LiveThreads
  BY <1>0, <1>1 DEF LiveThreads, Queued, queueVars
<1> QED
  BY <1>2, <1>3, <1>4 DEF GroupInv

LEMMA GroupInvHolds == Spec => []GroupInv
<1>1. Init => GroupInv
  BY InitGroupInv
<1>2. /\ TypeInv /\ ControlInv /\ TypeInv' /\ ControlInv'
      /\ GroupInv /\ [Next]_vars
      => GroupInv'
  BY FetchGroupInv, DecodeGroupInv, ExecuteGroupInv, StoreGroupInv, MemoryGroupInv DEF Next
<1> QED
  BY <1>1, <1>2, TypeInvHolds, ControlInvHolds, PTL DEF Spec

-----------------------------------------------------------------------------
(***************************************************************************)
(* The queue holds all groups there can be.                                *)
(***************************************************************************)

LEMMA CountFrom0 ==
  ASSUME NEW n \in Nat \ {0}
  PROVE  IsFiniteSet(0 .. n - 1) /\ Cardinality(0 .. n - 1) = n
<1>1. n - 1 \in Int /\ ~(0 > n - 1) /\ n - 1 - 0 + 1 = n
  OBVIOUS
<1> QED
  BY <1>1, FS_Interval

\* If a push found the ring full, the ring's groups, the one that is pushed and
\* the one that goes on would be more disjoint groups than there are threads.
LEMMA PushFindsSlot ==
  ASSUME TypeInv, ControlInv, GroupInv
  PROVE  QueueNeverFull
<1> SUFFICES ASSUME Storing("STORAGE_CJMP"), get_next_pos(write_pos) = read_pos
             PROVE  FALSE
  BY DEF QueueNeverFull
<1> DEFINE taken    == store_pkt.execution_flags_true
           rest     == store_pkt.execution_flags_false
           group(p) == IF p = write_pos THEN taken ELSE contexts[p].exec_mask
           f        == [p \in RingPos |-> CHOOSE t \in group(p) : TRUE]
<1>1. read_pos \in RingPos /\ write_pos \in RingPos
  BY DEF TypeInv, TypeOK
<1>2. Queued = RingPos \ {write_pos}
  BY <1>1, SimtPipelineAssumption DEF RingPos, Queued, get_next_pos
<1>3. ControlInStore /\ store_at # "resume"
  BY DEF Storing, ControlInStore, Redirects
<1>4. RunningMask = exec_mask /\ store_pkt.exec_mask = exec_mask
  BY <1>3, StoreRunsGroup
<1>5. /\ taken # {} /\ rest # {} /\ taken \intersect rest = {}
      /\ taken \union rest = exec_mask
  BY <1>4 DEF GroupInv, SplitsProper, Split
<1>6. exec_mask \subseteq Threads
  BY DEF TypeInv, TypeOK, ExecMask
<1>7. ASSUME NEW p \in RingPos \ {write_pos}
      PROVE  /\ contexts[p].exec_mask \subseteq Threads /\ contexts[p].exec_mask # {}
             /\ contexts[p].exec_mask \intersect exec_mask = {}
             /\ \A q \in RingPos \ {write_pos, p} :
                  contexts[p].exec_mask \intersect contexts[q].exec_mask = {}
  <2>1. contexts[p] \in ThreadContext
    BY <1>2, <1>7 DEF TypeInv, TypeOK, SlotsFilled, Slot
  <2>2. contexts[p].exec_mask \subseteq Threads
    BY <2>1 DEF ThreadContext, ExecMask
  <2> QED
    BY <1>2, <1>4, <2>2 DEF GroupInv, GroupsDisjoint
<1>8. PICK t0 \in Threads : t0 \in rest
  BY <1>5, <1>6
<1> HIDE DEF taken, rest
<1>9. ASSUME NEW p \in RingPos
      PROVE  group(p) # {} /\ group(p) \subseteq Threads \ {t0}
  BY <1>5, <1>6, <1>7, <1>8
<1>10. ASSUME NEW p \in RingPos, NEW q \in RingPos, p # q
       PROVE  group(p) \intersect group(q) = {}
  <2>1. CASE p = write_pos
    BY <1>5, <1>7, <1>10, <2>1
  <2>2. CASE q = write_pos
    BY <1>5, <1>7, <1>10, <2>2
  <2>3. CASE p # write_pos /\ q # write_pos
    BY <1>7, <1>10, <2>3
  <2> QED
    BY <2>1, <2>2, <2>3
<1> HIDE DEF group
<1>11. \A p \in RingPos : f[p] \in group(p)
  BY <1>9
<1>12. f \in [RingPos -> Threads \ {t0}]
  BY <1>9, <1>11
<1> HIDE DEF f
<1>13. IsFiniteSet(RingPos) /\ Cardinality(RingPos) = MAX_THREAD_CONTEXTS
  BY CountFrom0, SimtPipelineAssumption DEF RingPos
<1>14. /\ IsFiniteSet(Threads \ {t0})
       /\ Cardinality(Threads \ {t0}) = NUMBER_OF_VECTOR_THREADS - 1
  <2>1. IsFiniteSet(Threads) /\ Cardinality(Threads) = NUMBER_OF_VECTOR_THREADS
    <3>1. NUMBER_OF_VECTOR_THREADS \in Nat \ {0}
      BY VectorOpsAssumption
    <3> QED
      BY <3>1, CountFrom0 DEF Threads
  <2> QED
    BY <1>8, <2>1, FS_RemoveElement
<1>15. Cardinality(Threads \ {t0}) < Cardinality(RingPos)
  BY <1>13, <1>14, QueueHoldsAllGroups, VectorOpsAssumption, SimtPipelineAssumption
<1>16. \E x, y \in RingPos : x # y /\ f[x] = f[y]
  BY <1>12, <1>13, <1>14, <1>15, FS_PigeonHole
<1> QED
  BY <1>10, <1>11, <1>16

-----------------------------------------------------------------------------
(***************************************************************************)
(* Threads end only by halting.                                            *)
(***************************************************************************)

\* With a free slot, a push adds exactly the written position.
LEMMA RingPush ==
  ASSUME read_pos \in RingPos, write_pos \in RingPos,
         get_next_pos(write_pos) # read_pos,
         write_pos' = get_next_pos(write_pos), read_pos' = read_pos
  PROVE  Queued' = Queued \union {write_pos}
BY SimtPipelineAssumption DEF RingPos, Queued, get_next_pos

LEMMA CjmpLosesNoThread ==
  ASSUME TypeInv, ControlInv, TypeInv', ControlInv', GroupInv, StoreCjmp
  PROVE  LiveThreads' = LiveThreads
<1> DEFINE taken == store_pkt.execution_flags_true
           rest  == store_pkt.execution_flags_false
<1>1. read_pos \in RingPos /\ write_pos \in RingPos
  BY DEF TypeInv, TypeOK
<1>2. ControlInStore /\ store_at # "resume" /\ Storing("STORAGE_CJMP")
  BY DEF StoreCjmp, Storing, ControlInStore, Redirects
<1>3. taken \union rest = RunningMask
  BY <1>2, StoreRunsGroup DEF GroupInv, SplitsProper, Split
<1>4. RunningMask' = rest
  <2>1. store_fetch' # None /\ store_fetch'.exec_mask = rest
    BY StorePackets, NoneIsNoPacket DEF StoreCjmp, SendToFetch
  <2> QED
    BY <2>1, RunningMaskCasesNext
<1>5. Queued' = Queued \union {write_pos} /\ write_pos \notin Queued
  BY <1>1, <1>2, PushFindsSlot, RingPush, RingSteps
  DEF QueueNeverFull, StoreCjmp, push_to_front
<1>6. /\ contexts'[write_pos].exec_mask = taken
      /\ \A p \in Queued : contexts'[p] = contexts[p]
  BY <1>1, <1>5, RingSteps DEF StoreCjmp, push_to_front, TypeInv, TypeOK
<1>7. UNION {contexts'[p].exec_mask : p \in Queued'}
        = taken \union UNION {contexts[p].exec_mask : p \in Queued}
  BY <1>5, <1>6
<1> QED
  BY <1>3, <1>4, <1>7 DEF LiveThreads

LEMMA HaltEndsGroup ==
  ASSUME TypeInv, ControlInv, TypeInv', ControlInv', GroupInv, StoreHalt
  PROVE  LiveThreads' = LiveThreads \ store_pkt.exec_mask
<1>1. read_pos \in RingPos /\ write_pos \in RingPos /\ regs \in RegisterSet
  BY DEF TypeInv, TypeOK
<1>2. ControlInStore /\ store_at # "resume"
  BY DEF StoreHalt, Storing, ControlInStore, Redirects
<1>3. RunningMask = store_pkt.exec_mask
  BY <1>2, StoreRunsGroup
<1>4. \A p \in Queued : contexts[p].exec_mask \intersect store_pkt.exec_mask = {}
  BY <1>3 DEF GroupInv, GroupsDisjoint
<1>5. LiveThreads \ store_pkt.exec_mask = UNION {contexts[p].exec_mask : p \in Queued}
  BY <1>3, <1>4 DEF LiveThreads
<1>6. CASE is_empty
  <2>1. Queued = {} /\ Queued' = {}
    BY <1>1, <1>6 DEF StoreHalt, is_empty, Queued, RingPos
  <2>2. regs'.hasHalted
    BY <1>1, <1>6 DEF StoreHalt, RegisterSet
  <2>3. RunningMask' = {}
    BY <2>2, RunningMaskCasesNext
  <2> QED
    BY <1>5, <2>1, <2>3 DEF LiveThreads
<1>7. CASE ~is_empty
  <2>1. read_pos \in Queued /\ Queued' = Queued \ {read_pos}
    BY <1>1, <1>7, RingSteps DEF StoreHalt
  <2>2. contexts' = contexts /\ store_at' = "resume" /\ new_thread_ctxt' = contexts[read_pos]
    BY <1>7 DEF StoreHalt
  <2>3. RunningMask' = contexts[read_pos].exec_mask
    BY <2>2, RunningMaskCasesNext
  <2>4. UNION {contexts[p].exec_mask : p \in Queued}
          = contexts[read_pos].exec_mask
            \union UNION {contexts[p].exec_mask : p \in Queued \ {read_pos}}
    BY <2>1
  <2> QED
    BY <1>5, <2>1, <2>2, <2>3, <2>4 DEF LiveThreads
<1> QED
  BY <1>6, <1>7

\* Every other step keeps the running group and the suspended ones.
LEMMA OthersKeepGroups ==
  ASSUME TypeInv, ControlInv, TypeInv', ControlInv', GroupInv,
         FetchStage \/ DecodeStage \/ ExecuteStage \/ (StoreStage /\ ~StoreCjmp /\ ~StoreHalt)
  PROVE  UNCHANGED queueVars /\ RunningMask' = RunningMask
<1>1. CASE FetchStage
  BY <1>1, FetchRunningMask
  DEF FetchStage, FetchNext, FetchAwaitRedirect, FetchReceiveRedirect, FetchRetarget,
      FetchRetargeted, FetchLineArrives, FetchFillLine, FetchSelect, FetchSend, NotFetch
<1>2. CASE DecodeStage
  BY <1>2
  DEF DecodeStage, DecodeReceive, DecodeNop, DecodeSend, NotDecode, RunningMask,
      fetchVars, storeVars
<1>3. CASE ExecuteStage
  <2>1. UNCHANGED <<fetchVars, storeVars, store_fetch, queueVars>>
    BY <1>3
    DEF ExecuteStage, ExecuteReceive, ExecuteWriteRegister, ExecuteLoad, ExecuteStore,
        ExecuteRestorePc, ExecuteCondJmp, ExecuteJmp, ExecuteHalt, NotExecute
  <2>2. regs'.hasHalted = regs.hasHalted
    BY <1>3
    DEF ExecuteStage, ExecuteReceive, ExecuteWriteRegister, ExecuteLoad, ExecuteStore,
        ExecuteRestorePc, ExecuteCondJmp, ExecuteJmp, ExecuteHalt, Invalidated, TypeInv,
        TypeOK, RegisterSet
  <2> QED
    BY <2>1, <2>2 DEF RunningMask, fetchVars, storeVars
<1>4. CASE StoreStage /\ ~StoreCjmp /\ ~StoreHalt
  BY <1>4, StoreRunningMask
<1> QED
  BY <1>1, <1>2, <1>3, <1>4

LEMMA OthersKeepThreads ==
  ASSUME TypeInv, ControlInv, TypeInv', ControlInv', GroupInv,
         FetchStage \/ DecodeStage \/ ExecuteStage \/ (StoreStage /\ ~StoreCjmp /\ ~StoreHalt)
  PROVE  LiveThreads' = LiveThreads
BY OthersKeepGroups DEF LiveThreads, Queued, queueVars

\* However a program diverges, no thread runs in two groups, and no group is
\* empty until the last one has halted.
THEOREM GroupsPartition == Spec => []GroupsDisjoint
<1>1. GroupInv => GroupsDisjoint
  BY DEF GroupInv
<1> QED
  BY <1>1, GroupInvHolds, PTL

\* With as many slots as threads, the assert of DivergenceQueue.h:45 holds of
\* every program.
THEOREM DivergenceQueueSuffices == Spec => []QueueNeverFull
<1>1. TypeInv /\ ControlInv /\ GroupInv => QueueNeverFull
  BY PushFindsSlot
<1> QED
  BY <1>1, TypeInvHolds, ControlInvHolds, GroupInvHolds, PTL

\* No step of any program makes a thread vanish or appear, except the halt of
\* the group that executes it.
THEOREM NoThreadIsLost == Spec => ThreadsEndOnlyByHalt
<1>1. /\ TypeInv /\ ControlInv /\ TypeInv' /\ ControlInv' /\ GroupInv /\ [Next]_vars
      => [LiveThreads' # LiveThreads =>
            Storing("STORAGE_HALT") /\ LiveThreads' = LiveThreads \ store_pkt.exec_mask]_vars
  <2> SUFFICES ASSUME TypeInv, ControlInv, TypeInv', ControlInv', GroupInv, Next
               PROVE  LiveThreads' # LiveThreads =>
                        /\ Storing("STORAGE_HALT")
                        /\ LiveThreads' = LiveThreads \ store_pkt.exec_mask
    OBVIOUS
  <2>1. CASE StoreCjmp
    BY <2>1, CjmpLosesNoThread
  <2>2. CASE StoreHalt
    BY <2>2, HaltEndsGroup DEF StoreHalt
  <2>3. CASE ~StoreCjmp /\ ~StoreHalt
    BY <2>3, OthersKeepThreads, MemoryGroupInv DEF Next
  <2> QED
    BY <2>1, <2>2, <2>3
<1> QED
  BY <1>1, TypeInvHolds, ControlInvHolds, GroupInvHolds, PTL DEF Spec, ThreadsEndOnlyByHalt

-----------------------------------------------------------------------------
\* When the last group has halted, nothing is left in the pipeline.
HaltedDrained == regs.hasHalted => Drained

-----------------------------------------------------------------------------
(* The ring as a sequence. *)

LEMMA QueueGeometry ==
  ASSUME read_pos \in RingPos, write_pos \in RingPos
  PROVE  /\ QueueLength \in 0 .. MAX_THREAD_CONTEXTS - 1
         /\ is_empty <=> QueueLength = 0
         /\ \A k \in 1 .. QueueLength : QueuePos(k) \in Queued /\ QueuePos(k) # write_pos
         /\ ~is_empty => QueuePos(1) = read_pos
         /\ get_next_pos(write_pos) # read_pos => QueueLength + 1 < MAX_THREAD_CONTEXTS
         /\ QueuePos(QueueLength + 1) = write_pos
  BY SimtPipelineAssumption DEF RingPos, QueueLength, QueuePos, Queued, is_empty, get_next_pos

LEMMA PushGeometry ==
  ASSUME read_pos \in RingPos, write_pos \in RingPos, get_next_pos(write_pos) # read_pos,
         write_pos' = get_next_pos(write_pos), read_pos' = read_pos
  PROVE  /\ QueueLength' = QueueLength + 1
         /\ \A k \in 1 .. QueueLength + 1 : QueuePos(k)' = QueuePos(k)
  BY SimtPipelineAssumption DEF RingPos, QueueLength, QueuePos, get_next_pos

LEMMA PopGeometry ==
  ASSUME read_pos \in RingPos, write_pos \in RingPos, ~is_empty,
         read_pos' = get_next_pos(read_pos), write_pos' = write_pos
  PROVE  /\ QueueLength' = QueueLength - 1
         /\ \A k \in 1 .. QueueLength - 1 : QueuePos(k)' = QueuePos(k + 1)
  BY SimtPipelineAssumption DEF RingPos, QueueLength, QueuePos, get_next_pos, is_empty

SuspendedInOrder ==
  /\ SuspendedGroups \in Seq(ThreadContext)
  /\ Len(SuspendedGroups) = QueueLength
  /\ \A k \in 1 .. QueueLength : SuspendedGroups[k] = contexts[QueuePos(k)]

LEMMA SuspendedType == TypeInv => SuspendedInOrder
  <1> SUFFICES ASSUME TypeInv PROVE SuspendedInOrder
    OBVIOUS
  <1>1. read_pos \in RingPos /\ write_pos \in RingPos
    BY DEF TypeInv, TypeOK
  <1>2. QueueLength \in Nat /\ \A k \in 1 .. QueueLength : QueuePos(k) \in Queued
    BY <1>1, QueueGeometry, SimtPipelineAssumption
  <1>3. \A pos \in Queued : contexts[pos] \in ThreadContext
    BY <1>1, RingSteps DEF TypeInv, TypeOK, SlotsFilled, Slot
  <1> DEFINE f == SuspendedGroups
  <1>4. /\ DOMAIN f = 1 .. QueueLength
        /\ \A k \in 1 .. QueueLength : f[k] = contexts[QueuePos(k)]
    BY DEF SuspendedGroups
  <1>5. \A k \in 1 .. QueueLength : f[k] \in ThreadContext
    BY <1>2, <1>3, <1>4
  <1>6. f = [k \in 1 .. QueueLength |-> f[k]]
    BY DEF SuspendedGroups
  <1> HIDE DEF f
  <1>7. f \in [1 .. QueueLength -> ThreadContext]
    BY <1>5, <1>6
  <1>8. f \in Seq(ThreadContext)
    BY <1>2, <1>7, SeqDef
  <1>9. Len(f) = QueueLength
    BY <1>2, <1>4, <1>8, LenProperties
  <1> QED  BY <1>4, <1>8, <1>9 DEF f, SuspendedInOrder

LEMMA SuspendedTypeNext == TypeInv' => SuspendedInOrder'
  BY SuspendedType, PTL

LEMMA PushAppends ==
  ASSUME TypeInv, TypeInv', get_next_pos(write_pos) # read_pos,
         NEW ctxt \in ThreadContext, push_to_front(ctxt)
  PROVE  SuspendedGroups' = Append(SuspendedGroups, ctxt)
  <1>1. read_pos \in RingPos /\ write_pos \in RingPos /\ DOMAIN contexts = RingPos
    BY DEF TypeInv, TypeOK
  <1>2. /\ QueueLength' = QueueLength + 1
        /\ \A k \in 1 .. QueueLength + 1 : QueuePos(k)' = QueuePos(k)
    BY <1>1, PushGeometry DEF push_to_front
  <1>3. /\ QueueLength \in Nat /\ QueuePos(QueueLength + 1) = write_pos
        /\ \A k \in 1 .. QueueLength : QueuePos(k) # write_pos
    BY <1>1, QueueGeometry, SimtPipelineAssumption
  <1>4. \A pos \in Queued : contexts'[pos] = IF pos = write_pos THEN ctxt ELSE contexts[pos]
    BY <1>1, RingSteps DEF push_to_front
  <1>5. contexts'[write_pos] = ctxt
    BY <1>1 DEF push_to_front
  <1> DEFINE s == SuspendedGroups
             t == SuspendedGroups'
             n == QueueLength
  <1>6. /\ s \in Seq(ThreadContext) /\ Len(s) = n
        /\ \A k \in 1 .. n : s[k] = contexts[QueuePos(k)]
    BY SuspendedType DEF SuspendedInOrder
  <1>7. /\ t \in Seq(ThreadContext) /\ Len(t) = n + 1
        /\ \A k \in 1 .. n + 1 : t[k] = contexts'[QueuePos(k)]
    <2>1. /\ t \in Seq(ThreadContext) /\ Len(t) = QueueLength'
          /\ \A k \in 1 .. QueueLength' : t[k] = contexts'[QueuePos(k)']
      BY SuspendedTypeNext DEF SuspendedInOrder
    <2> QED  BY <1>2, <2>1
  <1>8. \A k \in 1 .. n : t[k] = s[k]
    <2> SUFFICES ASSUME NEW k \in 1 .. n PROVE t[k] = s[k]
      OBVIOUS
    <2>1. QueuePos(k) \in Queued /\ QueuePos(k) # write_pos
      BY <1>1, QueueGeometry
    <2>2. t[k] = contexts'[QueuePos(k)]
      BY <1>3, <1>7
    <2> QED  BY <1>4, <1>6, <2>1, <2>2
  <1>9. t[n + 1] = ctxt
    BY <1>3, <1>5, <1>7
  <1> HIDE DEF s, t, n
  <1>10. /\ Append(s, ctxt) \in Seq(ThreadContext) /\ Len(Append(s, ctxt)) = n + 1
         /\ \A k \in 1 .. n : Append(s, ctxt)[k] = s[k]
         /\ Append(s, ctxt)[n + 1] = ctxt
    BY <1>6, AppendProperties
  <1>11. \A k \in 1 .. n + 1 : t[k] = Append(s, ctxt)[k]
    BY <1>3, <1>8, <1>9, <1>10 DEF n
  <1>12. t = Append(s, ctxt)
    BY <1>7, <1>10, <1>11, SeqEqual
  <1> QED  BY <1>12 DEF s, t

LEMMA PopTakesHead ==
  ASSUME TypeInv, TypeInv', ~is_empty, read_pos' = get_next_pos(read_pos),
         UNCHANGED <<contexts, write_pos>>
  PROVE  /\ SuspendedGroups # <<>>
         /\ Head(SuspendedGroups) = contexts[read_pos]
         /\ SuspendedGroups' = Tail(SuspendedGroups)
  <1>1. read_pos \in RingPos /\ write_pos \in RingPos
    BY DEF TypeInv, TypeOK
  <1>2. /\ QueueLength' = QueueLength - 1
        /\ \A k \in 1 .. QueueLength - 1 : QueuePos(k)' = QueuePos(k + 1)
    BY <1>1, PopGeometry
  <1>3. QueueLength \in Nat \ {0} /\ QueuePos(1) = read_pos
    BY <1>1, QueueGeometry, SimtPipelineAssumption
  <1> DEFINE s == SuspendedGroups
             t == SuspendedGroups'
             n == QueueLength
  <1>4. /\ s \in Seq(ThreadContext) /\ Len(s) = n
        /\ \A k \in 1 .. n : s[k] = contexts[QueuePos(k)]
    BY SuspendedType DEF SuspendedInOrder
  <1>5. /\ t \in Seq(ThreadContext) /\ Len(t) = n - 1
        /\ \A k \in 1 .. n - 1 : t[k] = contexts[QueuePos(k + 1)]
    <2>1. /\ t \in Seq(ThreadContext) /\ Len(t) = QueueLength'
          /\ \A k \in 1 .. QueueLength' : t[k] = contexts'[QueuePos(k)']
      BY SuspendedTypeNext DEF SuspendedInOrder
    <2> QED  BY <1>2, <2>1
  <1>6. s[1] = contexts[read_pos]
    BY <1>3, <1>4
  <1>7. \A k \in 1 .. n - 1 : t[k] = s[k + 1]
    BY <1>3, <1>4, <1>5
  <1> HIDE DEF s, t, n
  <1>8. n \in Nat \ {0} /\ s # <<>>
    BY <1>3, <1>4, EmptySeq DEF n
  <1>9. /\ Tail(s) \in Seq(ThreadContext) /\ Len(Tail(s)) = n - 1
        /\ \A k \in 1 .. n - 1 : Tail(s)[k] = s[k + 1]
    BY <1>4, <1>8, HeadTailProperties
  <1>10. \A k \in 1 .. n - 1 : t[k] = Tail(s)[k]
    BY <1>7, <1>9
  <1>11. t = Tail(s)
    BY <1>5, <1>9, <1>10, SeqEqual
  <1>12. Head(s) = s[1]
    BY <1>4, <1>8
  <1> QED  BY <1>6, <1>8, <1>11, <1>12 DEF s, t

-----------------------------------------------------------------------------
(* After the last halt. *)

\* Fetching waits for a redirect that nobody is left to send.
LEMMA HaltedAtRest ==
  ASSUME TypeInv, ControlInv, HaltedDrained, regs.hasHalted
  PROVE  /\ Drained /\ store_fetch = None
         /\ AwaitsRedirect
  <1>1. One(regs.hasHalted) = 1
    BY DEF One
  <1>2. ControlInFlight + 1 = One(AwaitsRedirect)
    BY <1>1 DEF ControlInv, OneRedirectPerJump
  <1> QED  BY <1>2 DEF HaltedDrained, ControlInFlight, One

LEMMA HaltedSteps ==
  ASSUME TypeInv, ControlInv, HaltedDrained, regs.hasHalted, [Next]_vars
  PROVE  /\ UNCHANGED <<regs, store_fetch, queueVars, store_at, new_thread_ctxt>>
         /\ Drained'
  <1>1. /\ Drained /\ store_fetch = None /\ AwaitsRedirect
    BY HaltedAtRest
  <1>2. CASE FetchStage
    <2>1. FetchAwaitRedirect
      BY <1>1, <1>2
      DEF AwaitsRedirect, FetchStage, FetchNext, FetchReceiveRedirect, FetchRetarget,
          FetchRetargeted, FetchLineArrives, FetchFillLine, FetchSelect, FetchSend
    <2> QED  BY <1>1, <2>1 DEF FetchAwaitRedirect, NotFetch, Drained, ExecuteEmpty,
                              DecodeEmpty, FrontEmpty, storeVars, decodeVars, executeVars
  <1>3. ~DecodeStage /\ ~ExecuteStage /\ ~StoreStage
    BY <1>1
    DEF Drained, ExecuteEmpty, DecodeEmpty, FrontEmpty, DecodeStage, DecodeReceive, DecodeNop,
        DecodeSend, ExecuteStage, ExecuteReceive, ExecuteWriteRegister, ExecuteLoad,
        ExecuteStore, ExecuteRestorePc, ExecuteCondJmp, ExecuteJmp, ExecuteHalt, Executing,
        StoreStage, StoreReceive, StoreValueIntoReg, StoreRegIntoMem, StoreSendRead,
        StoreAcceptResponse, StoreLoaded, StoreJmp, StoreCjmp, StoreHalt, StoreResume, Storing
  <1>4. CASE Memory \/ UNCHANGED vars
    BY <1>1, <1>4
    DEF Memory, NotMemory, vars, Drained, ExecuteEmpty, DecodeEmpty, FrontEmpty, storeVars,
        decodeVars, executeVars
  <1> QED  BY <1>2, <1>3, <1>4 DEF Next

LEMMA HaltedInv == Spec => []HaltedDrained
  <1>1. Init => HaltedDrained
    BY DEF Init, HaltedDrained
  <1>2. TypeInv /\ ControlInv /\ HaltedDrained /\ [Next]_vars => HaltedDrained'
    <2> SUFFICES ASSUME TypeInv, ControlInv, HaltedDrained, [Next]_vars, regs'.hasHalted,
                        ~regs.hasHalted
                 PROVE  Drained'
      BY HaltedSteps DEF HaltedDrained
    <2>1. CASE StoreHalt \/ StoreResume
      <3>1. ControlInStore
        BY <2>1 DEF StoreHalt, StoreResume, Storing, ControlInStore, Redirects, ControlInv,
                    PacketShapes
      <3>2. ExecuteEmpty
        BY <3>1 DEF ControlInv, NothingBehindJump
      <3>3. store_at' = "top"
        BY <2>1 DEF StoreHalt, StoreResume
      <3> QED  BY <2>1, <3>2, <3>3
               DEF StoreHalt, StoreResume, NotStore, Drained, ExecuteEmpty, DecodeEmpty,
                   FrontEmpty, decodeVars, executeVars
    <2>2. CASE StoreValueIntoReg \/ StoreLoaded
      BY <2>2, StorePackets
    <2>3. CASE ExecuteStage
      BY <2>3
      DEF ExecuteStage, ExecuteReceive, ExecuteWriteRegister, ExecuteLoad, ExecuteStore,
          ExecuteRestorePc, ExecuteCondJmp, ExecuteJmp, ExecuteHalt, Invalidated, TypeInv,
          TypeOK, RegisterSet
    <2>4. CASE FetchStage \/ DecodeStage \/ Memory \/ UNCHANGED vars
      BY <2>4
      DEF FetchStage, FetchNext, FetchAwaitRedirect, FetchReceiveRedirect, FetchRetarget,
          FetchRetargeted, FetchLineArrives, FetchFillLine, FetchSelect, FetchSend, NotFetch,
          DecodeStage, DecodeReceive, DecodeNop, DecodeSend, NotDecode, Memory, NotMemory, vars
    <2>5. CASE StoreStage /\ ~(StoreHalt \/ StoreResume \/ StoreValueIntoReg \/ StoreLoaded)
      BY <2>5
      DEF StoreStage, StoreReceive, StoreRegIntoMem, StoreSendRead, StoreAcceptResponse,
          StoreJmp, StoreCjmp
    <2> QED  BY <2>1, <2>2, <2>3, <2>4, <2>5 DEF Next
  <1> QED  BY <1>1, <1>2, TypeInvHolds, ControlInvHolds, PTL DEF Spec

-----------------------------------------------------------------------------
(* The refinement, step by step. *)

LEMMA InitRefined == Init => Groups!Init
  <1> SUFFICES ASSUME Init PROVE Groups!Init
    OBVIOUS
  <1>1. QueueLength = 0
    BY DEF Init, QueueLength
  <1>2. SuspendedGroups = <<>>
    BY <1>1 DEF SuspendedGroups
  <1>3. RunningMask = ALL_THREADS_EXEC_MASK
    BY DEF Init, RunningMask
  <1> QED  BY <1>2, <1>3 DEF Init, Resuming, Groups!Init

\* Cutting the running group in two is Diverge.
LEMMA CjmpRefined ==
  ASSUME TypeInv, ControlInv, TypeInv', ControlInv', GroupInv, StoreCjmp
  PROVE  Groups!Diverge
  <1> DEFINE taken == store_pkt.execution_flags_true
             rest  == store_pkt.execution_flags_false
             ctxt  == [regs |-> regs, PC |-> store_pkt.dest_address, exec_mask |-> taken]
  <1>1. read_pos \in RingPos /\ write_pos \in RingPos
    BY DEF TypeInv, TypeOK
  <1>2. ControlInStore /\ store_at # "resume" /\ Storing("STORAGE_CJMP")
    BY DEF StoreCjmp, Storing, ControlInStore, Redirects
  <1>3. /\ taken # {} /\ rest # {} /\ taken \intersect rest = {}
        /\ taken \union rest = RunningMask
    BY <1>2, StoreRunsGroup DEF GroupInv, SplitsProper, Split
  <1>4. store_fetch'.exec_mask = rest /\ RunningMask' = rest
    <2>1. store_fetch' # None /\ store_fetch'.exec_mask = rest
      BY StorePackets, NoneIsNoPacket DEF StoreCjmp, SendToFetch
    <2> QED  BY <2>1, RunningMaskCasesNext
  <1>5. get_next_pos(write_pos) # read_pos
    BY <1>2, PushFindsSlot DEF QueueNeverFull
  <1>6. push_to_front(ctxt) /\ regs' = regs /\ store_at' = "top"
    BY DEF StoreCjmp
  <1>7. ctxt \in ThreadContext
    <2>1. store_pkt \in ExecStagePacket
      BY <1>2 DEF Storing, TypeInv, TypeOK, SlotsFilled, Slot
    <2>2. regs \in RegisterSet
      BY DEF TypeInv, TypeOK
    <2> QED  BY <2>1, <2>2 DEF ExecStagePacket, ThreadContext
  <1>8. ctxt.regs = regs /\ ctxt.exec_mask = taken
    OBVIOUS
  <1> HIDE DEF ctxt, taken, rest
  <1>9. SuspendedGroups' = Append(SuspendedGroups, ctxt)
    BY <1>5, <1>6, <1>7, PushAppends
  <1>10. /\ SuspendedGroups \in Seq(ThreadContext)
         /\ Len(SuspendedGroups) \in Nat /\ Len(SuspendedGroups) < MAX_THREAD_CONTEXTS - 1
    BY <1>1, <1>5, QueueGeometry, SuspendedType, SimtPipelineAssumption DEF SuspendedInOrder
  <1>11. /\ Len(SuspendedGroups') = Len(SuspendedGroups) + 1
         /\ SuspendedGroups'[Len(SuspendedGroups) + 1] = ctxt
    BY <1>7, <1>9, <1>10, AppendProperties
  <1>12. Resuming = None /\ Resuming' = None
    BY <1>2, <1>6 DEF Resuming
  <1>13. taken \in (SUBSET RunningMask) \ {{}, RunningMask} /\ rest = RunningMask \ taken
    BY <1>3
  <1> QED  BY <1>4, <1>6, <1>8, <1>9, <1>10, <1>11, <1>12, <1>13 DEF Groups!Diverge

\* Halting is HaltLast or HaltGroup.
LEMMA HaltRefined ==
  ASSUME TypeInv, ControlInv, TypeInv', ControlInv', GroupInv, StoreHalt
  PROVE  Groups!HaltLast \/ Groups!HaltGroup
  <1>1. read_pos \in RingPos /\ write_pos \in RingPos /\ regs \in RegisterSet
    BY DEF TypeInv, TypeOK
  <1>2. Resuming = None /\ UNCHANGED <<store_fetch, contexts, write_pos>>
    BY DEF StoreHalt, Storing, Resuming
  <1>3. CASE is_empty
    <2>1. UNCHANGED <<contexts, read_pos, write_pos>> /\ store_at' = "top" /\ regs'.hasHalted
      BY <1>1, <1>3 DEF StoreHalt, RegisterSet
    <2>2. RunningMask' = {}
      BY <2>1, RunningMaskCasesNext
    <2>3. QueueLength = 0
      BY <1>1, <1>3, QueueGeometry
    <2>4. SuspendedGroups = <<>>
      BY <2>3 DEF SuspendedGroups
    <2>5. SuspendedGroups' = SuspendedGroups /\ Resuming' = None
      BY <2>1 DEF SuspendedGroups, QueueLength, QueuePos, Resuming
    <2> QED  BY <1>2, <2>2, <2>4, <2>5 DEF Groups!HaltLast
  <1>4. CASE ~is_empty
    <2>1. /\ read_pos' = get_next_pos(read_pos) /\ regs' = regs
          /\ store_at' = "resume" /\ new_thread_ctxt' = contexts[read_pos]
      BY <1>4 DEF StoreHalt
    <2>2. /\ SuspendedGroups # <<>> /\ Head(SuspendedGroups) = contexts[read_pos]
          /\ SuspendedGroups' = Tail(SuspendedGroups)
      BY <1>2, <1>4, <2>1, PopTakesHead
    <2>3. RunningMask' = contexts[read_pos].exec_mask
      BY <2>1, RunningMaskCasesNext
    <2>4. Resuming' = contexts[read_pos]
      BY <2>1 DEF Resuming
    <2> QED  BY <1>2, <2>1, <2>2, <2>3, <2>4 DEF Groups!HaltGroup
  <1> QED  BY <1>3, <1>4

\* The groups wait as they are while the queue is left alone.
LEMMA QueueKept == UNCHANGED queueVars => SuspendedGroups' = SuspendedGroups
  BY DEF queueVars, SuspendedGroups, QueueLength, QueuePos

LEMMA ResumeRefined ==
  ASSUME TypeInv, ControlInv, TypeInv', ControlInv', GroupInv, StoreResume
  PROVE  Groups!Resume
  <1>1. RunningMask' = RunningMask /\ UNCHANGED queueVars
    BY OthersKeepGroups DEF StoreStage, StoreResume, StoreCjmp, StoreHalt, Storing
  <1>2. new_thread_ctxt \in ThreadContext
    BY DEF StoreResume, TypeInv, TypeOK, SlotsFilled, Slot
  <1>3. Resuming = new_thread_ctxt /\ Resuming # None /\ Resuming' = None
    BY <1>2, NoneIsNoPacket DEF StoreResume, Resuming
  <1> QED  BY <1>1, <1>3, QueueKept DEF StoreResume, SendToFetch, Groups!Resume

\* What every other step does to the groups' variables.
LEMMA OthersRefined ==
  ASSUME TypeInv, ControlInv, TypeInv', ControlInv', GroupInv, HaltedDrained,
         [Next]_vars, ~StoreCjmp, ~StoreHalt, ~StoreResume
  PROVE  Groups!Run \/ UNCHANGED Groups!vars
  <1>1. RunningMask' = RunningMask /\ UNCHANGED queueVars
    <2>1. CASE FetchStage \/ DecodeStage \/ ExecuteStage \/ StoreStage
      BY <2>1, OthersKeepGroups
    <2>2. CASE Memory \/ UNCHANGED vars
      BY <2>2 DEF Memory, NotMemory, vars, queueVars, RunningMask, fetchVars, storeVars
    <2> QED  BY <2>1, <2>2 DEF Next
  <1>2. SuspendedGroups' = SuspendedGroups
    BY <1>1, QueueKept
  <1>3. Resuming' = Resuming /\ (Resuming = None \/ UNCHANGED <<regs, store_fetch>>)
    <2>1. CASE StoreStage
      <3>1. store_at # "resume" /\ store_at' # "resume"
        BY <2>1
        DEF StoreStage, StoreReceive, StoreValueIntoReg, StoreRegIntoMem, StoreSendRead,
            StoreAcceptResponse, StoreLoaded, StoreJmp, Storing, AcceptResponse
      <3> QED  BY <3>1 DEF Resuming
    <2>2. CASE ExecuteStage
      <3>1. UNCHANGED storeVars
        BY <2>2
        DEF ExecuteStage, ExecuteReceive, ExecuteWriteRegister, ExecuteLoad, ExecuteStore,
            ExecuteRestorePc, ExecuteCondJmp, ExecuteJmp, ExecuteHalt, NotExecute
      <3>2. CASE store_at = "resume"
        <4>1. ExecuteEmpty
          BY <3>2 DEF ControlInv, PacketShapes, NothingBehindJump, ControlInStore, Redirects
        <4> QED  BY <2>2, <4>1
                 DEF ExecuteEmpty, DecodeEmpty, ExecuteStage, ExecuteReceive,
                     ExecuteWriteRegister, ExecuteLoad, ExecuteStore, ExecuteRestorePc,
                     ExecuteCondJmp, ExecuteJmp, ExecuteHalt, Executing
      <3> QED  BY <3>1, <3>2 DEF Resuming, storeVars
    <2>3. CASE FetchStage
      <3>1. UNCHANGED <<store_at, new_thread_ctxt, regs>>
        BY <2>3
        DEF FetchStage, FetchNext, FetchAwaitRedirect, FetchReceiveRedirect, FetchRetarget,
            FetchRetargeted, FetchLineArrives, FetchFillLine, FetchSelect, FetchSend, NotFetch,
            storeVars
      <3>2. store_fetch' = store_fetch \/ store_fetch # None
        BY <2>3
        DEF FetchStage, FetchNext, FetchAwaitRedirect, FetchReceiveRedirect, FetchRetarget,
            FetchRetargeted, FetchLineArrives, FetchFillLine, FetchSelect, FetchSend,
            TestCacheAddress
      <3>3. store_at = "resume" => store_fetch = None
        BY StoreHoldsControl DEF ControlInv, PacketShapes, ControlInStore, Redirects
      <3> QED  BY <3>1, <3>2, <3>3 DEF Resuming
    <2>4. CASE DecodeStage \/ Memory \/ UNCHANGED vars
      BY <2>4
      DEF DecodeStage, DecodeReceive, DecodeNop, DecodeSend, NotDecode, Memory, NotMemory, vars,
          storeVars, Resuming
    <2> QED  BY <2>1, <2>2, <2>3, <2>4 DEF Next
  <1>4. store_fetch' \notin {store_fetch, None} => store_fetch'.exec_mask = RunningMask
    BY <1>1, RunningMaskCasesNext
  <1>5. CASE RunningMask # {}
    BY <1>1, <1>2, <1>3, <1>4, <1>5 DEF Groups!Run, Groups!vars
  <1>6. CASE RunningMask = {}
    <2>1. regs.hasHalted
      BY <1>6 DEF GroupInv, GroupsDisjoint
    <2>2. UNCHANGED <<regs, store_fetch>>
      BY <2>1, HaltedSteps
    <2> QED  BY <1>1, <1>2, <1>3, <2>2 DEF Groups!vars
  <1> QED  BY <1>5, <1>6

\* However programs diverge, the groups take turns as module ThreadGroups says:
\* the oldest waiting one goes on when the running one halts, with the registers
\* and from the address it was suspended with.
THEOREM GroupsTakeTurns == Spec => ImplementsThreadGroups
  <1>1. /\ TypeInv /\ ControlInv /\ TypeInv' /\ ControlInv' /\ GroupInv /\ HaltedDrained
        /\ [Next]_vars
        => [Groups!Next]_(Groups!vars)
    BY CjmpRefined, HaltRefined, ResumeRefined, OthersRefined DEF Groups!Next
  <1> QED  BY <1>1, InitRefined, TypeInvHolds, ControlInvHolds, GroupInvHolds, HaltedInv, PTL
           DEF Spec, ImplementsThreadGroups, Groups!Spec
=============================================================================
