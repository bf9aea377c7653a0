-------------------------- MODULE CoroutineLowering --------------------------
(***************************************************************************)
(* The Verilog generator (VerilogGenerator/): how a coroutine becomes the  *)
(* cases of a state machine, and whether that machine does what the        *)
(* coroutine does.                                                         *)
(*                                                                         *)
(* A coroutine is a tree of statements with one variable, x: it receives x *)
(* from outside, sends it, tests it, or tests an input (a busy flag).  The *)
(* conditions of C++ become sets: of what is tested, and of the values for *)
(* which the condition is true.                                            *)
(*                                                                         *)
(* The lowered method is a list of statements with labels.  A run starts   *)
(* behind the label that is the state, and ends the clock at a goto or at  *)
(* the next label.  Assignments are nonblocking: x changes with the clock. *)
(* The coroutine itself runs beside it, from one received, sent or tested  *)
(* value to the next.                                                      *)
(***************************************************************************)
EXTENDS Naturals, Sequences, SequencesExt

CONSTANTS
  Programs,   \* the coroutines
  Values      \* what can be received or tested

VARIABLES
  method,     \* the coroutine
  code,       \* the lowered method
  state,      \* the register state
  pc,         \* the next statement of this clock
  x, x_next,  \* the variable, and what it will be after the clock
  source,     \* the coroutine, run beside the machine
  stale       \* x was read in the clock in which it was assigned

generated == <<state, pc, x, x_next, stale>>
vars == <<method, code, generated, source>>

-----------------------------------------------------------------------------
(* Statements *)

One        == [of |-> "one", is |-> Values]   \* the literal 1
Input(S)   == [of |-> "input", is |-> S]
X(S)       == [of |-> "x", is |-> S]
Not(c)     == [c EXCEPT !.is = Values \ @]

Recv       == [k |-> "recv"]
Send       == [k |-> "send"]
Yield      == [k |-> "yield"]                 \* CONTEXT_SWITCH()
BreakStmt  == [k |-> "break"]
Continue   == [k |-> "continue"]
If(c, b)          == [k |-> "if", c |-> c, then |-> b, else |-> <<>>]
IfElse(c, b1, b2) == [k |-> "ifelse", c |-> c, then |-> b1, else |-> b2]
While(c, b)       == [k |-> "while", c |-> c, body |-> b]
Case(S, b)        == [is |-> S, blk |-> b]    \* several values: empty cases before it
Switch(cases, b)  == [k |-> "switch", cases |-> cases, default |-> b]

Label(n)   == [k |-> "label", n |-> n]
Goto(n)    == [k |-> "goto", n |-> n]

Polls(loop) == loop.c.of = "input" /\ \A i \in DOMAIN loop.body : loop.body[i] = Yield

RECURSIVE Blocks(_)
\* A block and the blocks in it.
Blocks(b) ==
  {b} \union
  UNION {CASE b[i].k \in {"if", "ifelse"} -> Blocks(b[i].then) \union Blocks(b[i].else)
           [] b[i].k = "while"  -> Blocks(b[i].body)
           [] b[i].k = "switch" -> Blocks(b[i].default) \union
                UNION {Blocks(b[i].cases[j].blk) : j \in DOMAIN b[i].cases}
           [] OTHER -> {}
         : i \in DOMAIN b}

Parts(b) == UNION {ToSet(c) : c \in Blocks(b)}

\* Loops that test an input are those that wait for it, and nothing in the
\* repository's coroutines ends them: they are an endless loop behind a prelude.
ASSUME ProgramsAssumption ==
  \A m \in Programs :
    /\ m # <<>> /\ Last(m).k = "while" /\ Last(m).c = One
    /\ \A s \in Parts(m) : s.k = "while" /\ s.c.of = "input" => Polls(s)

-----------------------------------------------------------------------------
(* lower_ast of the statements.  LowerState is the counter of labels and the *)
(* stack of loops; a result is the lowered list and the state behind it.     *)

LoopInfo(start, end) == [start |-> start, end |-> end]
push_labels(st, loop) == [next |-> st.next + 2, stack |-> Append(st.stack, loop)]
pop_labels(st) == [st EXCEPT !.stack = Front(@)]
get_labels(st) == Last(st.stack)

Lowered(c, st) == [code |-> c, st |-> st]

RECURSIVE LowerBlock(_, _)

\* Mutant: no goto behind the code of the condition.
LowerIf_FallsThrough(s, st) ==
  LET then == LowerBlock(s.then, [st EXCEPT !.next = @ + 1])
      else == LowerBlock(s.else, [then.st EXCEPT !.next = @ + 1])
      end_label  == st.next
      else_label == then.st.next
  IN IF s.k = "ifelse"
     THEN Lowered(<<IfElse(s.c, <<>>, <<Goto(else_label)>>)>> \o then.code \o
                  <<Label(else_label)>> \o else.code \o <<Label(end_label)>>, else.st)
     ELSE Lowered(<<If(Not(s.c), <<Goto(end_label)>>)>> \o then.code \o <<Label(end_label)>>,
                  then.st)

LowerIf(s, st) ==
  LET then == LowerBlock(s.then, [st EXCEPT !.next = @ + 1])
      else == LowerBlock(s.else, [then.st EXCEPT !.next = @ + 1])
      end_label  == st.next
      else_label == then.st.next
  IN IF s.k = "ifelse"
     THEN Lowered(<<IfElse(s.c, <<>>, <<Goto(else_label)>>)>> \o then.code \o
                  <<Goto(end_label), Label(else_label)>> \o else.code \o <<Label(end_label)>>,
                  else.st)
     ELSE Lowered(<<If(Not(s.c), <<Goto(end_label)>>)>> \o then.code \o <<Label(end_label)>>,
                  then.st)

\* The test stands behind the body.
LowerWhile(s, st) ==
  LET start == st.next
      end   == st.next + 1
      body  == LowerBlock(s.body, push_labels(st, LoopInfo(start, end)))
      again == IF s.c = One THEN Goto(start) ELSE If(s.c, <<Goto(start)>>)
  IN Lowered(<<Label(start)>> \o body.code \o <<again, Label(end)>>, pop_labels(body.st))

RECURSIVE Cascade(_, _, _)
\* The last case is tested first, and the default is the innermost else.
Cascade(cases, default, st) ==
  IF cases = <<>> THEN LowerBlock(default, st)
  ELSE LET root == Cascade(Front(cases), default, st)
           blk  == LowerBlock(Last(cases).blk, root.st)
       IN Lowered(<<IfElse(X(Last(cases).is), blk.code, root.code)>>, blk.st)

\* The cascade of lowered blocks is lowered again; the labels stay pushed.
LowerSwitch(s, st) ==
  LET start == st.next
      end   == st.next + 1
      root  == Cascade(s.cases, s.default, push_labels(st, LoopInfo(start, end)))
      again == LowerBlock(root.code, root.st)
  IN Lowered(<<Label(start)>> \o again.code \o <<Label(end)>>, again.st)

\* Mutant: break looks at the outermost loop.
LowerBreak_Outermost(st) == Goto(Head(st.stack).end)
LowerBreak(st) == Goto(get_labels(st).end)

\* Mutant: the clock goes on behind a CONTEXT_SWITCH().
LowerYield_SameClock(s, st) == Lowered(<<s>>, st)
LowerYield(s, st) ==
  Lowered(<<s, Goto(st.next), Label(st.next)>>, [st EXCEPT !.next = @ + 1])

Lower(s, st) ==
  CASE s.k \in {"if", "ifelse"} -> LowerIf(s, st)
    [] s.k = "while"    -> LowerWhile(s, st)
    [] s.k = "switch"   -> LowerSwitch(s, st)
    [] s.k = "yield"    -> LowerYield(s, st)
    [] s.k = "break"    -> Lowered(<<LowerBreak(st)>>, st)
    [] s.k = "continue" -> Lowered(<<Goto(get_labels(st).start)>>, st)
    [] OTHER            -> Lowered(<<s>>, st)

LowerBlock(b, st) ==
  IF b = <<>> THEN Lowered(<<>>, st)
  ELSE LET first == Lower(Head(b), st)
           rest  == LowerBlock(Tail(b), first.st)
       IN Lowered(first.code \o rest.code, rest.st)

LowerMethod(m) == LowerBlock(m, [next |-> 1, stack |-> <<>>]).code

-----------------------------------------------------------------------------
(* The coroutine.  todo is what is left of it, innermost first; behind the *)
(* body of a loop stands the loop, as "again", and behind a switch its end. *)
(* follows is FALSE once the machine has done something else, and astray is *)
(* TRUE once a jump was taken that the generator sends astray.              *)

HasSwitch(b) == \E s \in Parts(b) : s.k = "switch"

RECURSIVE Marked(_, _)
\* The block with the jumps marked that do not find their loop: those of a loop
\* behind or in a switch, whose labels stay pushed, and a continue of a loop
\* with a test, which is behind the body.  astray are the kinds of jumps that
\* are lost at the start of the block.
Marked(b, astray) ==
  IF b = <<>> THEN <<>>
  ELSE LET s == Head(b)
           behind(block, lost) == IF HasSwitch(block) THEN {"break", "continue"} ELSE lost
           before(i) == s.default \o FlattenSeq([j \in 1 .. i - 1 |-> s.cases[j].blk])
           marked ==
             CASE s.k \in astray -> [k |-> "astray", jump |-> s]
               [] s.k \in {"if", "ifelse"} ->
                    [s EXCEPT !.then = Marked(@, astray), !.else = Marked(@, behind(s.then, astray))]
               [] s.k = "while" ->
                    [s EXCEPT !.body = Marked(@, IF s.c = One THEN {} ELSE {"continue"})]
               [] s.k = "switch" ->
                    [s EXCEPT !.default = Marked(@, {"continue"}),
                              !.cases = [i \in DOMAIN s.cases |->
                                Case(s.cases[i].is,
                                     Marked(s.cases[i].blk, behind(before(i), {"continue"})))]]
               [] OTHER -> s
       IN <<marked>> \o Marked(Tail(b), behind(<<s>>, astray))

Again(loop) == [loop EXCEPT !.k = "again"]
EndSwitch == [k |-> "endswitch"]

\* The rest of todo from the first statement of one of these kinds on.
From(todo, kinds) ==
  SubSeq(todo, CHOOSE i \in DOMAIN todo :
                 /\ todo[i].k \in kinds
                 /\ \A j \in 1 .. i - 1 : todo[j].k \notin kinds,
         Len(todo))

\* What an if or a loop goes on with if the tested value is v.
Taken(todo, v) ==
  LET s == Head(todo)
  IN IF s.k \in {"if", "ifelse"}
     THEN (IF v \in s.c.is THEN s.then ELSE s.else) \o Tail(todo)
     ELSE IF v \in s.c.is THEN s.body \o <<Again(s)>> \o Tail(todo) ELSE Tail(todo)

Selected(s, v) ==
  IF \E i \in DOMAIN s.cases : v \in s.cases[i].is
  THEN s.cases[CHOOSE i \in DOMAIN s.cases : v \in s.cases[i].is].blk
  ELSE s.default

Tests(s) == s.k \in {"if", "ifelse", "while", "again"}

RECURSIVE Advanced(_)
\* Up to the next statement that others can see.  A loop on x runs its body
\* before its first test, as the generator has it; one that waits for an input
\* is tested first, as in the coroutine.
Advanced(src) ==
  IF src.todo = <<>> THEN src
  ELSE LET s == Head(src.todo)
           to(todo) == Advanced([src EXCEPT !.todo = todo])
       IN IF s.k \in {"yield", "endswitch"} THEN to(Tail(src.todo))
          ELSE IF s.k = "break" THEN to(Tail(From(src.todo, {"again", "endswitch"})))
          ELSE IF s.k = "continue" THEN to(From(src.todo, {"again"}))
          ELSE IF s.k = "astray"
            THEN Advanced([src EXCEPT !.todo = <<s.jump>> \o Tail(@), !.astray = TRUE])
          ELSE IF s.k = "switch"
            THEN to(Selected(s, src.x) \o <<EndSwitch>> \o Tail(src.todo))
          ELSE IF s.k = "while" /\ s.c.of # "input"
            THEN to(s.body \o <<Again(s)>> \o Tail(src.todo))
          ELSE IF Tests(s) /\ s.c.of # "input" THEN to(Taken(src.todo, src.x))
          ELSE src

\* One visible step of kind "recv", "send" or "input" with value v.
Follow(kind, v) ==
  LET src == Advanced(source)
      can == /\ src.todo # <<>>
             /\ LET s == Head(src.todo)
                IN IF kind = "input" THEN Tests(s) ELSE s.k = kind /\ (kind = "send" => v = src.x)
  IN source' =
       IF ~can THEN [src EXCEPT !.follows = FALSE, !.todo = <<>>]
       ELSE [src EXCEPT !.todo = IF kind = "input" THEN Taken(@, v) ELSE Tail(@),
                        !.x = IF kind = "recv" THEN v ELSE @]

-----------------------------------------------------------------------------
(* The generated task, statement by statement. *)

Init ==
  /\ method \in Programs /\ code = LowerMethod(method)
  /\ state = 0 /\ pc = 1
  /\ x \in Values /\ x_next = x
  /\ source = [todo |-> Marked(method, {}), x |-> x, follows |-> TRUE, astray |-> FALSE]
  /\ stale = FALSE

LabelAt(n) == CHOOSE i \in DOMAIN code : code[i] = Label(n)

\* The case of state n, and the clock edge.
ClockEdge(n) ==
  /\ state' = n
  /\ pc' = IF n = 0 THEN 1 ELSE LabelAt(n) + 1
  /\ x' = x_next
  /\ UNCHANGED x_next

At(kinds) == pc \in DOMAIN code /\ code[pc].k \in kinds /\ UNCHANGED <<method, code>>
Next_statement == pc' = pc + 1 /\ UNCHANGED <<state, x>>
Read == stale' = (stale \/ x # x_next)

Receive ==
  /\ At({"recv"}) /\ Next_statement
  /\ x_next' \in Values
  /\ Follow("recv", x_next')
  /\ UNCHANGED stale

SendX ==
  /\ At({"send"}) /\ Next_statement
  /\ Follow("send", x)
  /\ Read /\ UNCHANGED x_next

ContextSwitch ==
  /\ At({"yield"}) /\ Next_statement
  /\ UNCHANGED <<x_next, source, stale>>

\* Both arms of a lowered if are empty or a goto.
Branch(v) ==
  LET arm == IF v \in code[pc].c.is THEN code[pc].then ELSE code[pc].else
  IN IF arm = <<>> THEN Next_statement /\ UNCHANGED x_next ELSE ClockEdge(arm[1].n)

TestInput ==
  /\ At({"if", "ifelse"}) /\ code[pc].c.of = "input"
  /\ \E v \in Values : Branch(v) /\ Follow("input", v)
  /\ UNCHANGED stale

TestX ==
  /\ At({"if", "ifelse"}) /\ code[pc].c.of # "input"
  /\ Branch(x)
  /\ Read /\ UNCHANGED source

\* A goto, and the goto that create_case_stmt puts before a label.
EndOfCase ==
  /\ At({"goto", "label"})
  /\ ClockEdge(code[pc].n)
  /\ UNCHANGED <<source, stale>>

\* Behind the last case nothing sets the state: the next clock runs it again.
EndOfMethod ==
  /\ pc = Len(code) + 1
  /\ ClockEdge(state)
  /\ UNCHANGED <<method, code, source, stale>>

Next ==
  \/ Receive \/ SendX \/ ContextSwitch
  \/ TestInput \/ TestX
  \/ EndOfCase \/ EndOfMethod

Spec == Init /\ [][Next]_vars

-----------------------------------------------------------------------------
(* Properties *)

\* The coroutine ends the clock behind everything it receives.
Settles(m) ==
  \A b \in Blocks(m) : \A i \in DOMAIN b : b[i] = Recv => i < Len(b) /\ b[i + 1] = Yield

\* The state machine does what the coroutine does, value by value, under every
\* nesting of if, loop and switch: but that a loop on a variable is not tested
\* before its first round (see Advanced), until a jump is taken that goes astray
\* (see Marked), and until a value is read in the clock that receives it, which
\* cannot happen if there is a CONTEXT_SWITCH() behind each (lower_ast of the
\* statements, Method.create_case_stmt and the nonblocking assignments together).
FollowsSource ==
  source.follows \/ source.astray \/ (stale /\ ~Settles(method))

\* The state machine stops only where the coroutine has returned: no break or
\* continue takes it there, not even one that goes astray.
EndsWithSource == pc = Len(code) + 1 /\ source.follows => Advanced(source).todo = <<>>
=============================================================================
