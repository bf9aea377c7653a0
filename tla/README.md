# Verification of the ECC CPU

TLA+ models of the ECC CPU (`CoreLib`, a cycle-level simulator of a pipelined
vector processor), its assembler and its Verilog generator, model-checked with
TLC and proved with TLAPS.  Source paths below are relative to `src/`.

## 1. The system

The repository holds a simulator (`CoreLib`, `Simulator`), an assembler
(`Assembler`) and a translator from the simulator's C++ to Verilog
(`VerilogGenerator`).  The simulated machine is one core of four pipeline
stages, a vector register file, a queue of suspended thread groups and a
hierarchy of caches in front of a DRAM.  Every part is a C++20 coroutine.  A
coroutine runs from one `CONTEXT_SWITCH()` to the next; the scheduler resumes
each of them once per round, always in the order of their registration, so
everything between two switches is atomic and a round is a clock cycle.  Parts
share no locks and no queues: they talk through one-slot buses with a busy flag.

An instruction works on all 8 lanes of a vector.  The lanes of the running
thread group share a PC and are named by an execution mask.  When they disagree
at a conditional jump the group splits: the lanes that jump are put in the
divergence queue with a copy of the register file, and are resumed when the
rest executes HALT.

| Component | State | Operations | Talks to |
|---|---|---|---|
| Fetch (`FetchStage.cpp`) | PC, mask, line buffer of two instructions, "jump outstanding" | fetch a line, select, send, wait for a redirect | decode (bus), store (redirect), instruction cache |
| Decode (`DecodeStage.cpp`) | the received instruction | wait for operands, send | register file, execute |
| Execute (`ExecuteStage.cpp`) | the received packet | compute, mark the destination invalid, resolve jumps | register file, store |
| Store (`StoreStage.cpp`) | the received packet, loaded value, context to resume | write back, load, store, redirect, split, resume, halt | everything |
| Register file (`RegisterFile.h`) | values, two 8-bit counters per register, halt flag | mark invalid / valid, read, write | stages |
| Divergence queue (`DivergenceQueue.h`) | ring of 64 contexts | push, pop | store |
| Vector memory controller | accepted request | carry out a vector access lane by lane | store, data caches |
| Caches, multiplexers, DRAM | one-slot buses, the lines of the L1 instruction cache | forward, answer | each other |
| Scheduler (`SimComponentRegistry.cpp`) | round | resume every component in order, stop at halt | all |
| Assembler (`parser.cpp`) | last label, mode, register names, objects, instructions | take a line, report a line | linker |
| Linker, object writer | addresses, two dictionaries | lay out, resolve symbols, encode | files |
| Simulator program (`Simulator.cpp`) | memory | load code and data, start the scheduler | files, DRAM |
| Verilog generator | syntax trees, stack of loop labels | flatten coroutines into state machines | files |

What is hard about this code is that nothing enforces its rules.  There is no
flow control on the redirect path and no squashing of wrong-path instructions;
the scoreboard is a pair of wrapping counters that four pieces of code must
keep in balance; registers are marked invalid one segment after the instruction
was taken; snapshots of the register file are taken in the middle of a running
pipeline; several sends rely on a slot having become free in time.

What makes each part correct:

* pipeline as a whole: it computes what executing one instruction after the
  other would, and a program that can end does;
* fetch and store: one redirect per control-flow instruction, and nothing
  behind such an instruction;
* buses: no packet replaces one that was not taken;
* scoreboard: invalid exactly as often as writes are in flight;
* divergence queue: room for every split; groups partition the live threads;
  suspended contexts wait for no write;
* vector memory: no request is dropped; a load sees every earlier store;
* caches and multiplexers: every request answered once, to the one who asked;
* codec: decoding the assembler's output gives back the fields;
* assembler, linker and loader: what the text says is in memory at the address
  that the text gives it, whatever was reported about other lines;
* generator: the state machine does what the coroutine does.

`PROJECT.json` lists each of these hazards at its line, with the property that
watches it or the reason why none does.

## 2. Modules

| Module | Content |
|---|---|
| `VectorOps` | vectors, flags, masks, opcodes, operand tables |
| `SimtIsa` | abstract specification: a sequential machine that executes one instruction per step |
| `SimtPipeline` | the core in detail: four stages, buses, register file, divergence queue; components in any order; its memory is that of `CoreMemory` |
| `CoreMemory` | abstract specification: the memory at the core's two buses, and what memory and core may rely on |
| `MemoryHierarchy` | caches, multiplexers, DRAM and vector memory controller in lockstep; refinement mapping to `CoreMemory`; fairness and liveness |
| `SimtLockstep` | `SimtPipeline` under the simulator's scheduler; refinement mapping to `SimtIsa`; fairness and liveness |
| `SimtPipelineProofs` | types, control flow and memory use of `SimtPipeline`: inductive invariants and theorems |
| `SimtScoreboardProofs` | the scoreboard and the snapshots of suspended groups: the same |
| `SimtGroupsProofs` | thread groups and the divergence queue: the same; the proof that the queue refines `ThreadGroups` |
| `SimtIsaProofs` | the proof that the pipeline, in lockstep, implements `SimtIsa` |
| `ThreadGroups` | abstract specification: one group runs, the others wait in order with their registers |
| `SimtGroups` | refinement mapping from `SimtPipeline` to `ThreadGroups` |
| `MemoryTrafficProofs` | types of `MemoryHierarchy`, no packet overwritten, one packet for every read: the inductive invariant |
| `MemoryRefinementProofs` | the proof that `MemoryHierarchy` implements `CoreMemory` |
| `InsnCodec` | the instruction word: encoders of the assembler, decoders of the decode stage |
| `Toolchain` | parser, linker, object writer and loader, from lines of text to bytes of memory |
| `ToolchainProofs` | which instructions survive their word; types of `Toolchain`, and that theorem carried over to all files |
| `ToolchainTextProofs` | what `Toolchain` leaves in memory and what it reports is what the text says: the inductive invariant |
| `CoroutineLowering` | the lowering of the Verilog generator, and its result run beside its source |
| `MCSimt` | instruction-set scaling, program notation, programs with branches |
| `MCFree`, `MCDivergence`, `MCStraight`, `MCStores` | the programs of the runs |
| `MCMemory` | lines, stores and loads for the runs of `MemoryHierarchy` |
| `MCToolchain` | the lines that files are made of |
| `MCLowering` | the coroutines |

**Composition.** `CoreMemory` is the contract between the two halves of the
machine.  Its actions are of two kinds, the memory's and the core's.
`SimtPipeline` takes the memory's actions as its environment, and is shown to
keep to the core's (`KeepsMemoryRules`); `MemoryHierarchy` takes the core's as
its clients, and is shown to keep to the memory's (`ImplementsCoreMemory`).
Neither has to be checked together with the inside of the other.  The clients
of `MemoryHierarchy` may act or wait in every one of their turns, which
includes whatever the stages do.

`Toolchain` uses `InsnCodec` at both ends: it writes words with the encoders,
and its main property reads memory with the decode stage's decoders.  The core's
modules take instructions as decoded fields, so `InsnCodec` is also what
connects them to bytes.

**Correspondence.** A variable is a member or a coroutine local of the same
name.  Every stage has a variable `*_at` naming the switch at which it is
suspended, and every segment of the coroutine from a switch to the next is one
action: e.g. `FetchRetarget` is `FetchStage.cpp:76-80`, `StoreHalt` and
`StoreResume` are the two halves of the HALT case around the switch at
`StoreStage.cpp:141`.  A segment that only tests its loop condition again
changes nothing and has no action in `SimtPipeline`; `SimtLockstep` names these
(`FetchPolls`, ...) because there a component takes its turn even if it only
polls.  A bus is one variable, `None` when its busy flag is false.  In
`MemoryHierarchy`, where segments with a `while` around a test run on through
several tests, an action is a whole turn of a component, and the operators
`MuxTestFetch`, `MuxTestVec`, `MuxTestResponse` are the rest of the multiplexer's
segment from one test on.  In `Toolchain` a step is one line of the file, one
pass of the linker or one file written or read; the handlers of `parseCodeLine`
are `CodeLabel`, `UncheckedInsn` (it looks at no operand), `CheckedInsn` (it does) and
`MemoryInsn`.  In `CoroutineLowering` the `lower_ast` methods are operators, and a
step is one statement of the generated task, with the coroutine itself taking
the same step beside it (`Follow`).

**Abstractions.**

* In the core's modules instructions are decoded fields (opcode, three registers,
  an immediate).  The byte layout and its width conversions are `InsnCodec`'s.
* Addresses count 8-byte words and PCs count instructions; a line of the
  instruction memory is two instructions.  The store stage asserts that the
  words of a store are adjacent (`StoreStage.cpp:53`); the programs and accesses
  of the runs obey.
* Lanes are two's complement numbers of any width; results wrap.  Shifting and
  or-ing are constants.
* Asserts are not guards: an optimised build drops them, so a full slot is
  overwritten, as in the code.  The invariants say that it does not happen.
* For `SimtPipeline` the caches, multiplexers and DRAM are an environment which
  answers an instruction fetch, and finishes the controller's current access, at
  any later time and in one step.  That this is what they amount to is checked
  and proved for `MemoryHierarchy`.
* The DRAM takes any number of rounds for an access (100 in the code).
* Code and data lie at different addresses.  The core selection multiplexers
  have one input (`NUM_CORES` is 1).
* Left out: the limit of 1000000 rounds, statistics, displays, undecodable
  opcodes (the decode stage asserts), and programs that store into their code.
* Tokens are strings; constants say which of them start with a number, symbols and
  memory operands.  Left out of the parser: how characters become tokens, lines
  with too few operands (the code reads past its vector: undefined behaviour),
  numbers beyond the range of `int` (an exception nobody catches, like the one
  for text that is no number, which is modelled), a label with blanks behind its
  colon (taken for an instruction, and reported), files that cannot be opened.
* A coroutine has one variable besides its position, and expressions are tests
  of it or of an input.  Left out of the generator: the parser of C++, types and
  modules, printing, and the lowering of functions, which have no states.

## 3. Runs

| Run | Module | Question | Result |
|---|---|---|---|
| `free` | `MCFree` | what holds in every order of the components? | eleven properties hold, 1.1 million states |
| `divergence` | `MCDivergence` | does the pipeline implement the instruction set when lanes diverge? do programs end? | yes, three properties, 261 000 states |
| `straight` | `MCStraight` | the same for every sequence of three instructions with dependences and memory accesses | yes, three properties, 476 000 states |
| `memory_shared` | `MCMemory` | do fetch and data traffic get past each other in the hierarchy? | four properties hold, 2.6 million states |
| `memory_data` | `MCMemory` | does a load see the stores before it, whatever is on its way? | yes, 2.2 million states |
| `memory_live` | `MCMemory` | is every fetch and every load answered? | yes, 450 000 states |
| `stores_read` | `MCStores` | is the request slot free when a load is sent? | no |
| `stores_write` | `MCStores` | is every store taken before the next is sent? | no |
| `return_pc` | `MCStores` | can the PC register be read after a return? | no |
| `assemble` | `MCToolchain` | is in memory what the text says, and reported what cannot be? | seven properties hold, 1.03 million states |
| `asm_jump_back` | `MCToolchain` | does a jump reach a label before it? | no |
| `codegen` | `MCLowering` | does the state machine do what the coroutine does? | yes, 161 000 states |

`OneRedirectPerJump`: control-flow instructions in the pipeline, plus redirects
on the bus, plus one after the final halt, is one exactly while fetch waits,
and zero otherwise.  `NothingBehindJump`: the part of the pipeline behind such
an instruction is empty, wherever it is, and all of it is empty while the
redirect travels.  `BusesNeverOverrun`: the slot is free whenever a stage sends
(for the vector request slot this is false, see below).  `ScoreboardExact`: the counters
differ by the writes in flight, modulo their range.  `SnapshotsQuiescent`: no
suspended context has a write in flight.  `GroupsDisjoint`, `QueueNeverFull`,
`ThreadsEndOnlyByHalt`: the running and suspended masks partition the live
threads, and threads leave only by their own group's HALT.  `ImplementsIsa`:
the refinement of `SimtIsa`.  `ProgramEnds`: the run reaches a halt.
`StoresNotOverwritten`: a request stays in the slot of the vector memory bus
until the controller takes it.  It fails for three stores in a row
(`stores_write`), and holds for the programs of `straight` and `divergence`,
which have what the proof of `ImplementsIsa` asks of a program (section 5):
`NoImageReadsPc` is its other half.
`KeepsMemoryRules`: the core's steps are those of `CoreMemory`.
`ImplementsThreadGroups`: the refinement of `ThreadGroups`.

`CodeMeansText` compares two readings of a file that share nothing but the
lines: what the toolchain leaves in memory, read by the decode stage, and
`Meaning`, which counts lines to find addresses.  It speaks of every
instruction line that was not reported, but for what the code gets wrong
(section 4): an immediate that its word cannot hold (`Representable`), a name
that the parser has made a register (`Misnamed`), a symbol with no definition
or several, and instructions that data is loaded over.  Each exception is of a
line, so the property also says that no other line suffers.  `DataMeansText`
does the same for data. `EveryLineAnswered`, `UndefinedReported`: no line and
no undefined symbol is lost silently.  `LabelsResolve`: a symbol that was
reported had no instruction behind its label.  `WordsAreExact`: an instruction
survives its word exactly if its immediate is representable; both directions,
so that `Representable` cannot be drawn too narrow.

`FollowsSource`: up to here the machine has received, sent and tested the
values that the coroutine would have.  `EndsWithSource`: it stops only where the
coroutine returns.  Three things are part of `FollowsSource`, and with any of
them left out the run fails:

* A loop on a variable runs its body once before its first test, in the coroutine
  beside the machine as well (`Advanced`): that, and nothing else, is what the
  generator makes of it.  Loops that wait for an input are tested first there, so
  the early body of the machine must not show.
* A `break` or `continue` that goes astray (`Marked`) frees the machine, but
  only once it is taken.  Up to then, and on all paths without one, the
  coroutines with such jumps are checked too.
* A variable read in the clock of its assignment (`stale`) frees the machine, but
  only if the coroutine has an assignment without a `CONTEXT_SWITCH()` behind it
  (`Settles`).  In the others no read may be stale, however they are nested.

`NoPacketOverwritten`: no slot of the hierarchy gets a packet while it holds
another one.  That a packet is replaced by its equal cannot be seen in the slots; for
the reads and their answers `OnePacketPerRead` excludes it, because there would
have been two of them before, and a write replaced by an equal one leaves the same
memory.  `OnePacketPerRead`: all packets of a client in all slots and coroutines
together are one while the client waits and none otherwise.
`ImplementsCoreMemory`: the refinement of `CoreMemory`.  `FetchAnswered`,
`LoadAnswered`: no starvation and no circle of waits.

**The refinement.** An instruction counts as executed when the store stage is
done with it; the abstract PC is that of the oldest instruction in the pipeline
(`Oldest`), moved over NOPs, which no stage behind decode ever sees.  Abstract
registers are the register file; abstract memory is the data memory with the
writes still on their way applied (`MemoryInEffect`); the abstract queue is the
ring from `read_pos`, with a context that is just being resumed in front.
Registers are written and memory is stored to in all lanes whatever the mask:
that is what the code does (no stage but the conditional jump looks at
`exec_mask`), so it is what the abstract machine does too.

**The refinement of `ThreadGroups`.** The running group is the mask of fetch, or
that of the redirect on its way, or that of the context being resumed
(`RunningMask`); the waiting groups are the ring from `read_pos` to
`write_pos`.  A HALT takes the oldest group from the queue in one segment and
makes its registers the core's in the next; in between nothing runs.  The
abstract registers are the register file with its scoreboard, so the mapping
also says that a group finds its registers as they were.

**The refinement of `CoreMemory`.** A vector write takes effect when the
controller sends its first lane: from then on the abstract memory is the DRAM's
with all writes on their way applied, oldest first, and the lanes still to be
sent behind them (`MemoryInEffect`, `LanesWritten`).  A read takes effect when it is finished.
The abstract instruction bus holds a request as long as fetch waits and no
answer stands in its slot.  That the order of writes survives the way down, that
a lane read by a load has all of them in front of it, and that the cache's lines
are the program's, is what the run shows and `HierarchyImplementsCoreMemory` proves.

**What keeps the packets apart.** `L2InsnCache`, `L2DataCache`, `L3Cache` and the
multiplexers send without testing the slot.  `NoPacketOverwritten` holds under
the scheduler's rounds at any latency of the DRAM, and not because of the order
of registration: instances with the reverse order and with shuffled orders, run
while the model was made, pass as well.  It is the rounds (nobody runs twice
before everybody ran once) together with `OnePacketPerRead`, by which two
responses can only meet if they belong to different clients.

**The refinement needs the lockstep.** A register is marked invalid one segment
after the execute stage took the instruction (`ExecuteStage.cpp:31` and `:61`).
If decode could run twice in between, it would read the old value; with one
segment per round for each component it cannot, whichever of the two is resumed
first.  So `ImplementsIsa` is checked and proved for `SimtLockstep` (proved for any
order of registration), and the properties that need no scheduling are checked,
and proved, for any order of steps.

**Bounds.** Three lanes split twice, which is the least for which two groups
wait at once; two lanes do for straight programs.  A ring of three slots is
full with two groups, so `QueueNeverFull` is tight: with N lanes there are at
most N - 1 splits in a run (groups never merge), and the code has 8 lanes and
64 slots, so its ring never wraps.  `TINY_COUNTER_RANGE` is 3, so that the
counters wrap within a few writes (256 in the code).  Lanes have 7 bits, data
memory has 5 words.  The branching programs take every pair of conditions,
jumps of four distances, and constants that make all, some or no lanes jump.
The straight programs are all sequences of three out of twelve instructions
that use three registers, except those with two stores (section 4).  In the
core's runs all jumps go forward, as those do that the decode stage reads
(section 4). In the runs of `MemoryHierarchy` two lanes show the order of lanes
(one is enough for liveness); fetch asks for two lines that contend for one of
the cache's two entries (for liveness one line, which it may first ask for in
any state of the data traffic: a miss is what can starve); the stores of `memory_data` meet in a word and the
load takes its words in the other order than they were stored.  The clients go
on for ever.  On the data side, in both multiplexers there, in L3 and in the
vector memory controller, a sender does find the slot below taken in these
runs.  The L1 instruction cache and the multiplexer below it never do, because
fetch has one read at a time: those waits of the code are dead as long as fetch
stays so.  Deadlock checking is off in the runs of the core, because the
machine stops after its last halt.

Files of five lines suffice for a label, a line that is reported behind it, an
instruction, a use before and one behind, in any order.  `WithinBounds` keeps
the questions of `assemble` apart: files of labels and jumps, and files with
two objects and the instructions that load their address, have up to five
lines; files of all other forms, with immediates at and beyond the limits of
their width, up to three.  Its segments start at 3 * 2^24 and just 8 bytes
apart, so that a data address needs two parts and the word that the loader
writes behind the code falls on data; `asm_jump_back` has the segments of the
code.  In files this short no data is loaded over an instruction: the premise
`StaysInMemory` of `CodeMeansText` states where it stops, and these bounds do not
reach that place.  Deadlock checking is off: the assembler ends.  The 1085 coroutines of
`codegen` put ifs, loops and switches into an endless loop, two after the other
and each in the other, with busy flags, breaks and continues; three values are
two cases and a default.  An endless loop is what every coroutine of the
repository is. All waits for an input have bodies that only yield, as in the
repository (`ProgramsAssumption`): their early body costs a clock and nothing
else.  What happens between two switches is spread over several clocks in the
generated machine; the model lets an input have any value in each of them.

**Fairness.** The scheduler resumes components for ever, so `LockstepNext` is
weakly fair.  The DRAM counts a fixed number of rounds (`Task.h:39-49`), so a
memory that is asked answers in the end; its step is only possible in its own
turn, hence the strong fairness.  `MemoryHierarchy` is treated in the same way:
its `Next` is weakly fair, and the DRAM's answer strongly.  No stage is assumed
to be fair by itself.

## 4. Disagreements found

1. *Stores are lost.*  The store stage sends to the vector memory controller
   without testing `request_busy` (`StoreStage.cpp:60`, `:75`).  The controller
   takes a request, works on it for hundreds of rounds, and one more fits in the
   slot.  A third store replaces the second (`VecMemoryBus.h:60-69`); a load in
   that place trips the assertion of `VecMemoryBus.h:53`.  Runs `stores_write`
   and `stores_read`.  The simulator, compiled from the repository, aborts at
   that assertion on three stores followed by a load.
2. *The PC register is unusable after a return.*  `restorepc` writes `REG_PC`
   without marking it invalid (`ExecuteStage.cpp:148-157`), but the store stage
   marks it valid (`StoreStage.cpp:84`).  The counters stay apart, and a later
   `mov rX, pc` waits in decode for ever.  Run `return_pc`.  On this program the
   simulator runs into its limit of rounds.  `ScoreboardExact` leaves
   `REG_PC` out for this reason.

3. *Jumps back go forward.*  `DecodeStage.cpp:190` and `:218` shift the unsigned
   word before the cast to `int32_t`, so that no sign is left of a distance of 24
   bits.  `Assembler/tests/t1.asm:82` jumps back.  Run `asm_jump_back`.

The properties of the passing runs make exceptions for what follows, or do not
speak of it.

* *Offsets lose bytes.*  The parser takes 16 bits (`parser.cpp:208`), the word has
  room for 8, and decode reads those as unsigned (`DecodeStage.cpp:106`, `:247`).
  `WordsAreExact` draws the line.
* *%r9 is %r0* wherever a load, store or restorepc names it: `MachineInfo.cpp:82-96`
  has no such name, and looking it up creates it (`parser.cpp:140`).  In other places
  it is reported, unless one of these has named it before (`Misnamed`).
* *Data labels leak into code.*  `parser.cpp:220` leaves the name of an object to the
  next instruction, and a jump to the object goes there without a report.
* *Switches keep their labels.*  `SwitchStmt.py:40` pushes and nothing pops, so that a
  loop's `break` or `continue` behind a switch, or a `continue` in it, stays with the
  switch, and so does a `break` of a switch with another one in an earlier case
  (`Marked`).  No coroutine of the repository has one there.
* *while is do-while.*  `WhileStmt.py:31` puts the test behind the body (`Advanced`), and
  a `continue` goes to the body and not to the test (`:28`).  The repository's coroutines
  wait in such bodies, which costs a clock, or count lanes, of which there is one.
* *Text behind a number is dropped* from data fields and from the offsets of memory
  operands (`parser.cpp:228`, `:188`), without a report; immediates with such
  text are reported (`:148`).

Also noted while modelling, without a run: HALT of the last group ends the
simulation with stores possibly still pending; the comments at
`ExecuteStage.cpp:174` and `:184` describe each other's branch; no error ends the
assembler, which returns 0 and writes its files; of two labels before one
instruction the first is lost, and its uses are reported; the register operand
of `loadaddress_*` is not read; a `default` that is not the last case of a switch
is generated in the wrong place; a `for` loop with a switch in it is not
flattened, and `READ_MEMORY_DELAY` is printed as it stands.

## 5. Proofs

Three proof modules prove of the core, for any program, any number of lanes, registers
and contexts, any lane width, and any order of the components' steps:

* `TypeCorrect`: `Spec => []TypeOK`.
* `EveryJumpAnsweredOnce`: `Spec => []OneRedirectPerJump`.
* `NoWrongPathWork`: `Spec => []NothingBehindJump`.
* `OneSlotBusesSuffice`: `Spec => []BusesNeverOverrun`.
* `ScoreboardCountsWrites`: `Spec => []ScoreboardExact`.
* `SnapshotsAwaitNoWrite`: `Spec => []SnapshotsQuiescent`.
* `MemoryRulesKept`: `Spec => KeepsMemoryRules`.
* `GroupsPartition`: `Spec => []GroupsDisjoint`.
* `DivergenceQueueSuffices`: `Spec => []QueueNeverFull`.
* `NoThreadIsLost`: `Spec => ThreadsEndOnlyByHalt`.
* `GroupsTakeTurns`: `Spec => ImplementsThreadGroups`.

So every property of run `free` holds of every instance.

They rest on `VectorOpsAssumption` (positive lane count and width, the named
registers are registers, the two bit operations return integers on lanes) and
`SimtPipelineAssumption` (images consist of instructions and words, the ring is
not empty, a counter has more than two values, `None` is no packet).  The last
three theorems also need `QueueHoldsAllGroups`: no more lanes than slots in the
ring (8 and 64 in the code).  TLC evaluates the three in every run.

`TypeOK` alone is not inductive: a stage that is at work must have a packet, a
load that arrived must carry a value, and the ring must hold a context wherever
the store stage may pop one.  `SlotsFilled` adds that, and `TypeInv` is
preserved by every action of every stage.  An overflowing ring is allowed for:
a push adds at most the written position to the queued ones (`RingSteps`).

`ControlInv` joins the two control properties, which need each other: jumps are
answered once because the pipeline behind a jump is empty, and it stays empty
because fetch waits for that one answer.  It adds what the steps need to know:
a redirecting load is a load and a resuming HALT a HALT (`PacketShapes`), fetch
that waits to send has already decided whether to stop (`StopsBehindJump`), the
output slot of a working stage is free (`SlotsFree`), no suspended context has
its halt flag set (`NoHaltSuspended`, else a resume would count as a final
halt), and at most one read is on its way on either memory bus
(`OneMemoryRead`).

`MemoryRulesKept` says that `SimtPipeline` implements the core's half of
`CoreMemory`: from `ControlInv` it takes that the store stage sends nothing
behind a read that was not answered, because it waits for the answer
(`AtMostOneRead`), and that fetch asks with both slots of its bus empty.

`ScoreInv` joins `ScoreboardExact` and `SnapshotsQuiescent`, which need each
other too: a resumed group brings the counters of its snapshot, and a snapshot
is taken when the counters are exact.  From `ControlInv` it uses that nothing is
left between execute and store when a group is split or resumed
(`NothingBehindJump`), so that "exact" means "equal", and that the output slot
is free when the execute stage marks a register (`SlotsFree`), so that at most
two writes are in flight.  Counters of two values would confuse two writes with
none, hence the assumption on their range.

`GroupInv` adds to `GroupsDisjoint` that all packets in flight carry the mask of
the fetch stage (`MaskCarried`), which is where a redirect's mask comes from,
and that a split is into two nonempty halves of that mask (`SplitsProper`).  If
a push found the ring full, the groups in the ring, the pushed one and the one
that goes on would be more than `MAX_THREAD_CONTEXTS` disjoint nonempty sets of
threads: the pigeonhole principle of `FiniteSetTheorems` excludes that.  Since
the push then adds one position to the queued ones, the union of all masks stays
(`NoThreadIsLost`).

`GroupsTakeTurns` is the refinement of `ThreadGroups`.  The abstract initial
state follows from `Init`; for the steps, `PushAppends` and `PopTakesHead` say
how a push and a pop change the mapped sequence, wherever the ring's positions
stand.  From the invariants above it takes that a push finds a free slot, that
nothing is in flight when a group is split or resumed, and that masks are
carried unchanged.  One more invariant is needed, `HaltedDrained`: once the
halt flag is set nothing is left in the pipeline, so that the running group has
ended for good.

### The pipeline and the instruction set

`SimtIsaProofs` proves of `SimtLockstep`, again for any lanes, registers, contexts and
width, and for any order in which the components are registered:

* `OperandsFreshInOrder`:
  `LockstepSpec /\ ~ReadsPc(prog) => [](Fresh /\ InOrder)`.
* `PipelineImplementsIsa`:
  `LockstepSpec /\ ~ReadsPc(prog) /\ StoresNotOverwritten => ImplementsIsa`.

So the refinement that the runs `straight` and `divergence` check holds of every program
that meets the two hypotheses.  Both stand for a finding of section 4, that is,
for something the code does not see to, and without them the theorem is false.
A program that reads `REG_PC` can do so before a return has written it, because
the return does not mark it, or waits for ever.  A store that is overwritten in
the request slot is lost, and whether one is depends on how long the
controller's accesses take.  The second hypothesis is of the behaviour, not of
the program, so it also covers a program with many stores whenever the memory
is fast enough.  The programs of both runs meet the hypotheses (TLC checks
`StoresNotOverwritten` and evaluates `NoImageReadsPc`).  Fairness is not needed.

The assumptions are those above and: `FlagsAreNotThePc` (two registers),
`CodeIsAddressable` (PCs are natural numbers), `EveryComponentHasItsTurn` (a round
resumes each component once) and `NoneIsNoGroup` (`None` is no thread group).

The invariant is `IsaInv`, on top of the invariants of the other three modules:

* `FetchedRight`: what is in the line buffer, on the instruction bus and in the
  fetch and decode stages is the instruction of the address it is for.
* `Fresh`: each decoded packet in flight carries what its instruction gives on the
  registers *as they are now* (`DecodedRight`, `ExecutedRight`), and no
  older instruction in flight writes what it still reads.  The second half is what keeps
  the first: when the store stage writes a register, no younger packet has
  read it.  It comes from `ScoreboardExact`: decode sends only when all operands
  are valid, so that no marked write is in flight, and `SlotsFree` bounds what
  can be between.
* `RoundOrder`: the scoreboard does not know of a write until the execute stage is
  done with it, so decode must not read registers while execute holds a packet.
  While both hold one, execute has its turn before decode has.  This
  is the one place where the rounds matter (`DecodeWaitsForExecute`).
* `InOrder`: behind every instruction in flight that is no jump comes the next one
  of the program, down to where fetch is.  Behind a jump there is
  nothing (`NothingBehindJump`), and the group goes on where the redirect says.
* `LoadRight`: from when the controller accepts a load no write is on its way, and
  what the load brings is what memory has at its addresses.

Given that, the step in which the store stage is done with an instruction is the
one step of `SimtIsa` that its opcode names (`ValueIsa`, `StoreIsa`, `LoadIsa`, `JumpIsa`,
`PartIsa`, `LastHaltIsa`, `ResumeIsa`), and every other step of every component leaves the four mapped
variables as they are: the oldest instruction stays the oldest when it moves on,
a NOP that decode drops was already passed over by `AfterNops`, and a
write that the controller takes and carries out was already in effect.

### The memory hierarchy

Two modules prove of the memory hierarchy, for any program, any lines and
accesses that the clients may ask for, any number of lanes, any size of the
instruction cache, any latency of the DRAM, and every order of registration:

* `MemoryTypeCorrect`: `Spec => []TypeOK`.
* `ReadsAreAnsweredOnce`: `Spec => []OnePacketPerRead`.
* `NoPacketIsOverwritten`: `Spec => NoPacketOverwritten`.
* `HierarchyImplementsCoreMemory`: `Spec => ImplementsCoreMemory`.

So every safety property of the runs `memory_shared` and `memory_data` holds of every
instance.  Together with `MemoryRulesKept` this closes the contract between core
and memory: each side is proved to keep its half of `CoreMemory`.

They rest on `VectorOpsAssumption`, `MemoryHierarchyAssumption` (images consist
of instructions and words, a line begins at an even PC, the store stage sends
writes and reads whose vector is still to be filled, the cache has a line, `None` is
no packet) and `EveryComponentHasItsTurn` (a round resumes each component once,
as `SimComponentRegistry.cpp:25-31` does with those that registered).

The first three are one induction, over `MemoryInv`.  Most senders do not test
the slot they send to, so that no packet is overwritten has to come from what
else can be on the way; and what is on the way is known because nothing has
been overwritten.  `TrafficInv` sees the buses and the locals of the components
as places: a waiting client has one place with a packet of its read, and a write
on the data side is in front of the read, nearer to the DRAM (`NoWriteBehindRead`).
A component's turn then moves a packet, adds or removes one, and `MovedPacket`,
`FetchAdded`, ..., `PacketRemoved` say once for all what that does to the order;
each component's lemma (`SelectionOrder`, `MuxOrder`, ...) only has to name the
move.  Where both clients' answers can meet, at L3, counting is not enough:
`RoundInv` adds that while an answer is in one slot of L3 the other is empty, and
that the multiplexer, or L3, has its turn before the DRAM has (`ComesBefore`).
That the order of two components in a round stays while neither has its turn
(`ComesBeforeKept`) is all that is needed of the scheduler, for any order.

The refinement adds two invariants.  `AnswersInv`: a packet on its way has
the address its client waits for, an answer has what the DRAM holds there, and a
line in the cache is the line of its address (an answer stays right because no
write is in front of it, `StillAsAsked`).  `LoadInv`: the lanes a load
has got so far hold what the abstract memory holds.  The abstract memory is the DRAM's with
the writes on their way applied in order, so passing a write on changes nothing
(the lemmas `...Memory`); only the first lane of a vector write does, because the
lanes still to come are counted as written (`OneLaneWritten`), the last lane
winning where several have an address.  `EveryStepMaps` joins the turns.

### The toolchain

Two more modules prove of the toolchain, for any lines, any length of the file, any
addresses of the segments and any word in the loader's buffer:

* `WordsKeepInstructions` (`ToolchainProofs`): for every instruction, with any integer as
  its immediate, decoding its word gives it back exactly if the immediate is
  `Representable`.  The proof shows each byte to be a digit in base 256, and each
  conversion to be the inverse of taking digits on its own range only.
* `ToolchainTypeCorrect`, `AssembledWordsAreExact` (`ToolchainProofs`):
  `Spec => []TypeOK` and `Spec => []WordsAreExact`.  The second follows from the
  first, which says that all instructions are in `Instruction`, and
  `WordsKeepInstructions`.  Types alone are not inductive: what the object writer
  needs of the files, and what the linker looks up, is added in `IInv`.
* `EveryLineIsAnswered`, `UndefinedIsReported`, `CodeLabelsResolve`, `DataIsLoaded`,
  `CodeIsLoaded` (`ToolchainTextProofs`): `Spec => []P` for the other five
  properties of the run `assemble`, each of which thus holds of every file.

They rest on `ToolchainAssumption` (numbers are integers, the offset of a memory
operand is a number, the code segment is in front of the data segment) and, for the
last five, on `TokenAssumption`: no token is empty, a line has the tokens that
its handler reads (`TokensRead`, what a shorter line does is undefined), no token
is a number and a symbol, and no register's name is either.  The parser tells
them apart by their first character.

The last five follow from one invariant, `TextInv`, which says at each phase
what has become of the lines read so far.  `LineInv`: the instructions are those
of the instruction lines, in order, and the parser's mode is the one that the
directives give.  `EntryInv`: each instruction is its line's reading, but for
the immediate that the linker fills in (`IsReadingOf`), if no unknown name in
the line has become a register; the names of `MachineInfo.cpp` keep their
registers meanwhile (`NamesKept`).  `LabelInv`: a label is held by the first
instruction behind it, or is still the last one seen, or has another label
before every instruction behind it.  `DataInv`: the fields are the values of the data lines, and
each object counts the fields before its line.  A handler's effect is one of four
(`LineStep`: nothing, a label, a field or an instruction), so that the induction
goes over these and not over eight handlers; whether an earlier line counts as data does
not change when lines follow (`DataKept`).  `LinkedInv` and `LoadedInv` then
carry symbols, files and memory through the later phases.  What the text calls
an address is a count of lines, and what the linker computes is an index: that
the n-th instruction's line has n - 1 instruction lines before it (`RankOfLine`)
joins the two, and `AddressWord` joins the three parts of an address.

### Only model-checked

All of `CoroutineLowering`: the lowering is a recursion over syntax trees, and neither
recursive operators nor an induction over data are within the proof system's
reach.  Liveness (`ProgramEnds`, `FetchAnswered`, `LoadAnswered`), which is beyond it
too.  `StoresNotOverwritten` of the programs of `straight` and `divergence`, which is
false of others.

## 6. Plan

In this order; each step has its runs, mutants and, where marked, proofs.

1. Done: `VectorOps`, `SimtIsa`, `SimtPipeline`, `SimtLockstep`, and
   the control-flow theorems.
2. Done: proofs for the core.  All properties of `free`, and the refinement of
   `SimtIsa` under lockstep.
3. Done: `ThreadGroups` and `SimtGroups`, the ring as a queue of groups, with its
   refinement proved.
4. `CoreMemory` and `MemoryHierarchy`.  Done: the models, their runs, and
   the proofs of all safety properties and of the refinement.
5. Done: `InsnCodec`, with its theorem.
6. Done: `Toolchain`, with proofs of all properties of `assemble`.
7. Done: `CoroutineLowering`.

## 7. Not modelled

* Text: the tokenizer, the generator's parser of C++ and its printing, `config.txt`.
  Nothing in them has state that outlives a line.
* The generated Verilog and its test bench: their tasks are what
  `CoroutineLowering` runs; the rest is clocking and declarations.
* Statistics, logging and displays: counters and text on which nothing depends.
* The limit of 1000000 rounds, which only ends a simulation.
* What would have to be undefined behaviour first: missing operands, opcodes
  without a case, stores whose words are not adjacent.
* Stores into code.  No program of the repository makes one, and neither the
  instruction cache nor fetch's line buffer would notice.
* Stores that are pending at the last HALT.  Nothing in the code reads memory
  afterwards, so there is nothing they could be compared with.
