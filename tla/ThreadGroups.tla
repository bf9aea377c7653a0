---------------------------- MODULE ThreadGroups ----------------------------
(***************************************************************************)
(* What the store stage and its divergence queue promise: one group of     *)
(* threads runs, the others wait in the order in which they were           *)
(* suspended, each with a copy of the registers of that moment.  Only when *)
(* the running group has halted does the next one go on, from where it was *)
(* suspended and on its own registers.                                     *)
(***************************************************************************)
EXTENDS Integers, Sequences

CONSTANTS
  Threads,    \* the threads of a core
  CAPACITY,   \* how many groups can wait
  None

VARIABLES
  running,    \* the threads of the running group
  suspended,  \* the waiting groups, [regs, PC, exec_mask], the oldest first
  resuming,   \* the group that was taken from the queue and has not started yet
  registers,  \* the registers of the running group
  redirect    \* where the fetch stage is told to go on, and for which threads

vars == <<running, suspended, resuming, registers, redirect>>

Init ==
  /\ running = Threads /\ suspended = <<>>
  /\ resuming = None /\ redirect = None

\* The threads that take a jump are suspended, the rest of the group goes on.
Diverge ==
  /\ resuming = None
  /\ Len(suspended) < CAPACITY /\ Len(suspended') = Len(suspended) + 1
  /\ LET group == suspended'[Len(suspended')]
     IN /\ suspended' = Append(suspended, group)
        /\ group.regs = registers
        /\ group.exec_mask \in (SUBSET running) \ {{}, running}
        /\ running' = running \ group.exec_mask
        /\ redirect'.exec_mask = running'
  /\ UNCHANGED <<resuming, registers>>

HaltLast ==
  /\ resuming = None /\ suspended = <<>>
  /\ running' = {}
  /\ UNCHANGED <<suspended, resuming, redirect>>

HaltGroup ==
  /\ resuming = None /\ suspended # <<>>
  /\ resuming' = Head(suspended) /\ suspended' = Tail(suspended)
  /\ running' = Head(suspended).exec_mask
  /\ UNCHANGED <<registers, redirect>>

Resume ==
  /\ resuming # None
  /\ registers' = resuming.regs
  /\ redirect' = [exec_mask |-> resuming.exec_mask, newpc |-> resuming.PC]
  /\ resuming' = None
  /\ UNCHANGED <<running, suspended>>

\* The running group computes and jumps as a whole.
Run ==
  /\ resuming = None /\ running # {}
  /\ redirect' \notin {redirect, None} => redirect'.exec_mask = running
  /\ UNCHANGED <<running, suspended, resuming>>

Next == Diverge \/ HaltLast \/ HaltGroup \/ Resume \/ Run

Spec == Init /\ [][Next]_vars
=============================================================================
