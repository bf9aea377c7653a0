------------------------------ MODULE SimtIsa ------------------------------
(***************************************************************************)
(* What the pipelined core promises to a program: the instructions of the  *)
(* running thread group execute one at a time, each from the registers and *)
(* the memory its predecessors left, and a conditional jump on which the   *)
(* lanes disagree splits the group in two that run one after the other.    *)
(*                                                                         *)
(* Registers are written in all lanes and memory is stored to from all     *)
(* lanes, whatever the execution mask: neither StoreStage.cpp nor the      *)
(* vector memory controller looks at it.                                   *)
(***************************************************************************)
EXTENDS VectorOps, Sequences

CONSTANTS
  Addr,    \* the data memory words that programs use
  Images,  \* the assembled programs: [code |-> ..., data |-> ...]
  None     \* no thread group is running

VARIABLES
  prog,     \* the code image
  running,  \* the running thread group [PC, exec_mask], None after the end
  reg,      \* its registers
  mem,      \* the data memory
  waiting   \* suspended thread groups [regs, PC, exec_mask], oldest first

isaVars == <<prog, running, reg, mem, waiting>>

-----------------------------------------------------------------------------
Insn == InsnAt(prog, running.PC)
Running(ops) == running # None /\ Insn.op \in ops
Continue(pc, mask) == running' = [PC |-> AfterNops(prog, pc), exec_mask |-> mask]
Advance == Continue(running.PC + 1, running.exec_mask)

Memory(address) ==
  [t \in Threads |-> IF address[t] \in Addr THEN mem[address[t]] ELSE 0]

Result ==
  LET K == create_vec(Insn.imm)
  IN CASE Insn.op = "MOVE_REG_BLOCK_INDEX"   -> create_vec_incrementing_values
       [] Insn.op = "MOVE_REG_REG"           -> reg[Insn.r2]
       [] Insn.op = "MOVE_REG_CONST16"       -> K
       [] Insn.op = "MOVE_PCREL_REG_CONST16" -> create_vec(Insn.imm + running.PC)
       [] Insn.op = "MOVE_R0_CONST24A"       -> K
       [] Insn.op = "MOVE_R0_CONST24B"       -> or_shift_left(reg[REG_R0], K, ORB_SHIFT)
       [] Insn.op = "MOVE_R0_CONST24C"       -> or_shift_left(reg[REG_R0], K, ORC_SHIFT)
       [] Insn.op = "ADD_REG_REG_REG"        -> add(reg[Insn.r2], reg[Insn.r3])
       [] Insn.op = "ADD_REG_REG_CONST"      -> add(reg[Insn.r2], K)
       [] Insn.op = "L_SSHIFT_REG_REG_CONST" -> shift_left(reg[Insn.r2], K)
       [] Insn.op = "LOAD_REG_CONST_REG"     -> Memory(add(K, reg[Insn.r2]))

-----------------------------------------------------------------------------
Init ==
  \E image \in Images :
    /\ prog = image.code
    /\ mem = image.data
    /\ running = [PC |-> AfterNops(prog, 0), exec_mask |-> ALL_THREADS_EXEC_MASK]
    /\ reg = [r \in RegisterID |-> create_vec(0)]
    /\ waiting = <<>>

WriteRegister ==
  /\ Running(MovesToReg \union MovesToR0 \union Arithmetic \union {"LOAD_REG_CONST_REG"})
  /\ reg' = [reg EXCEPT ![DestReg(Insn)] = Result]
  /\ Advance
  /\ UNCHANGED <<prog, mem, waiting>>

Compare ==
  /\ Running({"CMP_REG_REG"})
  /\ reg' = [reg EXCEPT ![REG_FLAGS] = compare_vecs(reg[Insn.r1], reg[Insn.r2])]
  /\ Advance
  /\ UNCHANGED <<prog, mem, waiting>>

\* Of the lanes that store to one word, the last one wins.
StoreToMemory ==
  /\ Running({"STORE_REG_CONST_REG"})
  /\ LET address  == add(create_vec(Insn.imm), reg[Insn.r2])
         Lanes(a) == {t \in Threads : address[t] = a}
     IN mem' = [a \in Addr |->
                  IF Lanes(a) = {} THEN mem[a]
                  ELSE reg[Insn.r1][CHOOSE t \in Lanes(a) : \A u \in Lanes(a) : u <= t]]
  /\ Advance
  /\ UNCHANGED <<prog, reg, waiting>>

Jump ==
  /\ Running({"JMP_ALWAYS"})
  /\ Continue(running.PC + Insn.imm, running.exec_mask)
  /\ UNCHANGED <<prog, reg, mem, waiting>>

\* Lanes that agree move together.  Those that disagree part: the lanes that
\* jump wait, with a copy of the registers, while the others go on.
CondJump ==
  /\ Running(CondJumps)
  /\ LET mask   == running.exec_mask
         taken  == get_cmp_mask(mask, reg[REG_FLAGS], CondJumpFlags[Insn.op])
         target == running.PC + Insn.imm
     IN \/ /\ taken = {}
           /\ Advance
           /\ UNCHANGED waiting
        \/ /\ taken # {} /\ taken = mask
           /\ Continue(target, mask)
           /\ UNCHANGED waiting
        \/ /\ taken # {} /\ taken # mask
           /\ waiting' = Append(waiting, [regs |-> reg, PC |-> target, exec_mask |-> taken])
           /\ Continue(running.PC + 1, mask \ taken)
  /\ UNCHANGED <<prog, reg, mem>>

\* PC = [rX + offset], from the memory word of lane 0.
RestorePc ==
  /\ Running({"LOAD_RESTORE_PC"})
  /\ LET loaded == Memory(add(create_vec(Insn.imm), reg[Insn.r1]))
     IN /\ reg' = [reg EXCEPT ![REG_PC] = loaded]
        /\ Continue(loaded[0], running.exec_mask)
  /\ UNCHANGED <<prog, mem, waiting>>

\* The end of a thread group: the oldest waiting one takes over.
HaltGroup ==
  /\ Running({"HALT"})
  /\ IF waiting = <<>>
     THEN /\ running' = None
          /\ UNCHANGED <<reg, waiting>>
     ELSE /\ reg' = Head(waiting).regs
          /\ Continue(Head(waiting).PC, Head(waiting).exec_mask)
          /\ waiting' = Tail(waiting)
  /\ UNCHANGED <<prog, mem>>

Next == \/ WriteRegister \/ Compare \/ StoreToMemory
        \/ Jump \/ CondJump \/ RestorePc \/ HaltGroup

Spec == Init /\ [][Next]_isaVars
=============================================================================
