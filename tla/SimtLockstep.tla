---------------------------- MODULE SimtLockstep ----------------------------
(***************************************************************************)
(* The core as SimComponentRegistry::run drives it: in every round each    *)
(* component is resumed once, in the order of its registration, and runs   *)
(* one segment; a component with nothing to do polls.  The run ends at the *)
(* start of a round that finds the halt flag set.  Spec of SimtPipeline    *)
(* allows every order; what depends on this one is stated here: that the   *)
(* pipeline implements the instruction set, and that programs end.         *)
(***************************************************************************)
EXTENDS SimtGroups

CONSTANT Order  \* the components, in the order of their registration

VARIABLE turn   \* the component to be resumed next

Component == {"fetch", "decode", "execute", "store", "insn_memory", "vec_controller"}

\* Every component is registered once.
ASSUME EveryComponentHasItsTurn ==
  /\ Order \in Seq(Component)
  /\ \A c \in Component : \E k \in DOMAIN Order : Order[k] = c
  /\ \A j, k \in DOMAIN Order : Order[j] = Order[k] => j = k

\* None, which stands for no running group, is not one.
ASSUME NoneIsNoGroup == None \notin [PC : Int, exec_mask : ExecMask]

lockstepVars == <<vars, turn>>

Stage(c) == \/ c = "fetch"       /\ FetchStage
            \/ c = "decode"      /\ DecodeStage
            \/ c = "execute"     /\ ExecuteStage
            \/ c = "store"       /\ StoreStage

\* A stage whose next segment would only test its loop condition again.
FetchPolls ==
  \/ fetch_at = "await_line" /\ insn_response = None
  \/ fetch_at = "await_redirect" /\ store_fetch = None
  \/ fetch_at = "sending" /\ fetch_decode # None
DecodePolls ==
  \/ decode_at = "top" /\ (decode_execute # None \/ fetch_decode = None)
  \/ /\ decode_at = "switch"
     /\ \E r \in Operands(decode_pkt.insn) : ~is_valid(r)
ExecutePolls ==
  \/ execute_at = "top" /\ (execute_store # None \/ decode_execute = None)
  \/ Executing({"EXEC_COND_JMP"}) /\ ~is_valid(REG_FLAGS)
StorePolls ==
  \/ store_at = "top" /\ execute_store = None
  \/ store_at = "await_load" /\ vec_response = None

Polls(c) == /\ \/ c = "fetch"   /\ FetchPolls
               \/ c = "decode"  /\ DecodePolls
               \/ c = "execute" /\ ExecutePolls
               \/ c = "store"   /\ StorePolls
            /\ UNCHANGED vars

\* Mutant: an idle controller may leave a request where it is.
MemoryTurn_Idles(c) ==
  \/ c = "insn_memory" /\ ((InsnMemoryRespond /\ NotMemory) \/ UNCHANGED vars)
  \/ /\ c = "vec_controller"
     /\ ((VecMemoryAccept \/ VecMemoryFinish) /\ NotMemory) \/ UNCHANGED vars

\* The memory takes any number of rounds, but an idle controller takes a
\* request the first time it sees it.
MemoryTurn(c) ==
  \/ c = "insn_memory" /\ ((InsnMemoryRespond /\ NotMemory) \/ UNCHANGED vars)
  \/ c = "vec_controller" /\ (VecMemoryAccept \/ VecMemoryFinish) /\ NotMemory
  \/ /\ c = "vec_controller"
     /\ vec_accepted # None \/ vec_request = None
     /\ UNCHANGED vars

LockstepInit == Init /\ turn = 1

Stopped == turn = 1 /\ regs.hasHalted

LockstepNext ==
  /\ ~Stopped
  /\ turn' = IF turn = Len(Order) THEN 1 ELSE turn + 1
  /\ LET c == Order[turn] IN Stage(c) \/ Polls(c) \/ MemoryTurn(c)

LockstepSpec == LockstepInit /\ [][LockstepNext]_lockstepVars

\* The rounds go on, and the memory, which counts a fixed number of rounds per
\* access (DRAM.cpp), answers in the end.
Fairness ==
  /\ WF_lockstepVars(LockstepNext)
  /\ SF_lockstepVars(LockstepNext /\ InsnMemoryRespond)
  /\ SF_lockstepVars(LockstepNext /\ VecMemoryFinish)

FairSpec == LockstepSpec /\ Fairness

-----------------------------------------------------------------------------
(***************************************************************************)
(* The pipeline implements the instruction set.  An instruction counts as  *)
(* executed when the store stage is done with it; the next one is the      *)
(* oldest still in the pipeline.                                           *)
(***************************************************************************)
Place(pc, mask) == [PC |-> AfterNops(prog, pc), exec_mask |-> mask]

Oldest ==
  IF store_at # "top" THEN Place(store_pkt.PC, store_pkt.exec_mask)
  ELSE IF execute_store # None THEN Place(execute_store.PC, execute_store.exec_mask)
  ELSE IF execute_at = "switch" THEN Place(execute_pkt.PC, execute_pkt.exec_mask)
  ELSE IF decode_execute # None THEN Place(decode_execute.PC, decode_execute.exec_mask)
  ELSE IF decode_at = "switch" THEN Place(decode_pkt.PC, decode_pkt.exec_mask)
  ELSE IF fetch_decode # None THEN Place(fetch_decode.PC, fetch_decode.exec_mask)
  ELSE IF store_fetch # None THEN Place(store_fetch.newpc, store_fetch.exec_mask)
  ELSE IF fetch_at = "redirect" THEN Place(jmp_retarget.newpc, jmp_retarget.exec_mask)
  ELSE Place(fetch_PC, exec_mask)

\* Memory as it is once the writes on their way have been carried out.
MemoryInEffect ==
  LET Carried(m, pkt) == IF IsWrite(pkt) THEN AfterWrite(m, pkt) ELSE m
  IN Carried(Carried(mem, vec_accepted), vec_request)

Group(ctxt) == [regs |-> ctxt.regs.value, PC |-> ctxt.PC, exec_mask |-> ctxt.exec_mask]

\* The suspended groups, oldest first; one being resumed still counts.
Suspended ==
  LET InRing == [k \in DOMAIN SuspendedGroups |-> Group(SuspendedGroups[k])]
  IN IF store_at = "resume" THEN <<Group(new_thread_ctxt)>> \o InRing ELSE InRing

ISA == INSTANCE SimtIsa WITH
         running <- IF regs.hasHalted THEN None ELSE Oldest,
         reg     <- regs.value,
         mem     <- MemoryInEffect,
         waiting <- Suspended

\* A program that reads REG_PC, which a return writes without having marked it.
ReadsPc(code) == \E pc \in DOMAIN code : REG_PC \in Operands(code[pc])

\* Every step of the pipeline executes the next instruction of the program on
\* the registers and the memory its predecessors left, or does not show: no
\* operand is read before its writer is done, no load overtakes a store, no
\* instruction of a wrong path takes effect, no thread group is mixed up.
ImplementsIsa == ISA!Spec

\* A program without backward jumps comes to its end: the stages never wait
\* for each other for good.
ProgramEnds == <>Stopped

\* "rX = rY" (Defines.h:98): an instruction the decode stage took is passed on.
DecodeNeverStuck == (decode_at = "switch") ~> (decode_at = "top")
=============================================================================
