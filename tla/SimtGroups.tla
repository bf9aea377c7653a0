----------------------------- MODULE SimtGroups -----------------------------
(***************************************************************************)
(* The core as an implementation of module ThreadGroups: the ring of the   *)
(* divergence queue holds the waiting groups, and the running group is the *)
(* one whose mask fetches or is on its way to the fetch stage.             *)
(***************************************************************************)
EXTENDS SimtPipeline

QueueLength == IF read_pos <= write_pos THEN write_pos - read_pos
               ELSE MAX_THREAD_CONTEXTS - read_pos + write_pos

\* The position in the ring of the k-th waiting group.
QueuePos(k) == IF read_pos + k - 1 < MAX_THREAD_CONTEXTS THEN read_pos + k - 1
               ELSE read_pos + k - 1 - MAX_THREAD_CONTEXTS

SuspendedGroups == [k \in 1 .. QueueLength |-> contexts[QueuePos(k)]]

Resuming == IF store_at = "resume" THEN new_thread_ctxt ELSE None

Groups == INSTANCE ThreadGroups WITH
  Threads <- ALL_THREADS_EXEC_MASK, CAPACITY <- MAX_THREAD_CONTEXTS - 1,
  running <- RunningMask, suspended <- SuspendedGroups, resuming <- Resuming,
  registers <- regs, redirect <- store_fetch

\* Diverged groups are resumed in the order of their suspension, each with its
\* registers and its target; none runs before the one ahead of it has halted
\* (StoreStage.cpp:97-141, DivergenceQueue.h).
ImplementsThreadGroups == Groups!Spec
=============================================================================
