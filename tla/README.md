# Verification of the CS-470 processor simulator and compiler

This directory holds TLA+ models of the two programs of this repository, the
configurations that check them with TLC and the theorems that TLAPS proves about
them.

* **HW1** simulates an out-of-order processor, OoO470, cycle by cycle: register
  renaming, an Active List, an Integer Queue, four two-cycle ALUs with forwarding,
  and precise exceptions.
* **HW2** compiles a sequential program with one loop for a VLIW processor, VLIW470,
  twice: with a plain `loop` and, software-pipelined by modulo scheduling, with
  `loop.pip` and rotating registers.

HW3 holds documents only and HW4 a demonstration of a side channel whose behaviour
is the timing of a real CPU; neither is modelled.

## 1. Inventory

### HW1: the OoO470 simulator

Everything runs in one thread. What makes it hard is that one cycle is computed by
five stages, one after the other, over **three generations of state**: `curr` (as
latched at the start of the cycle), `next` and `view` (working copies, in which a
stage sees what an earlier stage did) and `CycleContext` (signals that live for one
cycle). Every read has to choose the right one.

| component | state | operations | interacts with | what is hard | correct when |
|---|---|---|---|---|---|
| cycle driver `main.cpp` | `curr`, `next`, `view`, signals | run the stages in order, reset the ALUs on request, latch, test for the end | all stages | end test with a stale DIR; no bound on cycles | `Termination`, `DoneMeansComplete` |
| execution | two pipeline registers | forward results, move up, reset | commit, issue, rename through forwarding | results on their way when an exception flushes | `BusyMeansInFlight`, `CleanRecovery` |
| commit | (Active List, Free List, map, busy bits) | retire up to 4, detect an exception, mark results, roll back 4 per cycle, leave | everything, through four requests | decides from `curr`, acts on `view`; rollback over several cycles | `RegisterPartition`, `EachInstructionOnce`, `InOrderSpec` |
| issue | Integer Queue | wake up by forwarding, issue the oldest ready | ALUs | wake-up missed or stale | `NoLostWakeup`, `OperandsMatchRegisters` |
| rename and dispatch | map, register file, busy bits | write back, check resources, rename, dispatch a bundle | all queues; backpressure to fetch | all-or-nothing bundle, unchecked pushes | `QueuesFit`, `RegisterPartition` |
| fetch and decode | PC, DIR | fetch 4, stall, jump to the vector | backpressure, halt | DIR kept over an exception | `ProgramOrder`, `EachInstructionOnce` |
| Free List, Active List | array, head, tail, count | push, pop at both ends, read, index | commit, dispatch | wrap-around, uninitialised array | `ImplementsDeque` |
| loader, log, comparison | files | read, write | | pure I/O | not modelled |

### HW2: the VLIW470 compiler

Sequential passes over one program; what is hard is the timing that the output
promises, when iterations of a loop overlap on a machine without interlocks.

| component | state | operations | what is hard | correct when |
|---|---|---|---|---|
| parser, basic blocks | program, loop target | drop nops, move targets, split into BB0, BB1 (the loop), BB2 | targets that are nops | `NopsMeanNothing` |
| dependency analysis | table of producers | classify each read: local, carried, invariant, post-loop | two producers for a carried value | `DependenciesReach` |
| loop.pip scheduler | occupancy, cycles, interval | place BB0, body modulo the interval, BB2; retry with a longer interval | carried values are checked after placing; slots shared between iterations; limits of the search | `SlotsNeverShared`, `ResultsInTime`, `Compactable`, `ScheduleFound`, `Ends` |
| simple loop backend | a schedule per block, their joint schedule | place each instruction as soon as possible, stretch the body, join the blocks with empty cycles | late results crossing a block's end; which kinds of dependencies each block waits for | `ValuesArrive`, `EveryInstanceRuns`, `Halts` |
| register renaming | names of results and operands, moves | rename results, operands, starting registers; insert moves at the loop's end | names compared after some of them changed; moves that push the loop instruction | `ValuesArrive`, `OperandsFollowDependencies`, `NothingLost` |
| rotating allocator | counters of static and rotating registers, a name per result | windows for the results of the loop, initial values into them, static names for the rest | names shift with every lap; offsets across stages, of carried values and after the loop | `ValuesArrive`, `FirstIterationReadsInitial`, `ProductsInWindow` |
| preparer | the bundles | set EC and the first predicate, lay the stages over each other, predicate them, move the rest up | an added bundle moves the loop; number of laps in the drain | `EveryInstanceRuns`, `FollowsDataflow`, `Halts` |
| simulator `vliw470.py` | registers, predicates, multiplier, LC, EC, RBB | one bundle per tick | delayed product, order of the writes, rotation | `ValuesArrive`, `Halts`, `BaseInRange` |
| writer, comparison | files | | pure I/O | not modelled |

`PROJECT.json` lists the hazards at their lines.

## 2. Modules and the code they model

| module | models | used by |
|---|---|---|
| `ISA470` | decoded instructions and what the ALUs compute | both below |
| `InOrder470` | the abstract processor: one instruction at a time, precise exceptions | refined by `OoO470` |
| `OoO470` | `main.cpp`, the five stages, all state | `MCOoO470`, the proofs |
| `OoO470Proofs` | theorems: types, capacity, conservation of registers; lemmas: what undoing a list of entries does to a mapping | `OoO470Safety` |
| `OoO470Safety` | theorems: the inductive invariant of the pipeline; wake-up, operands, recovery, retirement; `OoO470` implements `InOrder470`; what has run to its end is complete | |
| `BoundedDeque` | abstract bounded double-ended queue | refined by `CircularBuffer` |
| `CircularBuffer` | `free_list.cpp`, `active_list.cpp` | `CircularBufferProofs` |
| `CircularBufferProofs` | theorems: the buffer implements `BoundedDeque` | |
| `VLIWProgram` | parser, basic blocks, dependency analysis as functions, and the sequential run they are judged by | both schedulers |
| `VLIWProgramProofs` | lemmas: what those functions compute; the dependency analysis is right | both schedulers' proofs |
| `Dataflow470` | what a compiled program may do, whatever the backend | refined by both backends |
| `LooppipScheduler` | `looppip_scheduler.cpp`, `ii_calculator.cpp` | `RotatingRegisters`, `MCLooppip` |
| `LooppipSchedulerProofs` | theorems: that a loop.pip schedule is found, what it promises, what the machine then executes, and in which order | `LooppipValuesProofs` |
| `LooppipValuesProofs` | theorems: every operand of the pipelined program holds its sequential value; types of the whole path | |
| `RotatingRegisters` | `rotating_register_allocator.cpp` | `LooppipPreparer` |
| `LooppipPreparer` | `looppip_preparer.cpp` | `LooppipBackend` |
| `LooppipBackend` | the loop.pip path composed with the machine: schedule, allocate, prepare, run | `MCPipelined` |
| `LoopScheduler` | `loop/loop_scheduling.cpp`, with the bundles it combines | `RegisterRenaming` |
| `RegisterRenaming` | `loop/register_allocation.cpp` | `LoopBackend` |
| `VLIW470` | a tick of the machine of `simulator/`, with `loop` and `loop.pip` | both backends |
| `LoopBackend` | compiler and machine composed: schedule, rename, load, run | `MCLoop`, the proofs |
| `LoopSchedulerProofs` | theorems: the invariant of the plain schedule and of its renaming; nothing is lost | `LoopBackendProofs` |
| `LoopBackendProofs` | theorems: types, what the machine executes, in which order, and what the operands hold | |
| `MCOoO470`, `MCLooppip`, `MCLoop`, `MCPipelined` | the sets of programs that TLC explores | |

**OoO470.** A variable per piece of state: `pc dir exc excPC map prf busy` are the
code's `next`, `fl al iq` its `view`, `s1 s2` the pipeline registers, `ctx` the
`CycleContext`, and `curr` the part of the latched state that stages read. `step`
names the stage whose turn it is, in the order of `main.cpp:149-160`; a loop of a stage
is unrolled into one step per iteration, counted by `n` (one instruction retired,
rolled back, issued or dispatched). Once the program is chosen the machine is
deterministic, as the code is, and no step is optional. The sizes (4 wide, 64
registers, 32 entries, vector 0x10000, 2^64) are constants. The model is exact to the
cycle: it latches 27, 28, 14, 12, 17 and 13 times for the programs of
`given_tests` 01, 02, 03, 04, 05 and 07, as often as their expected logs say.
What is left out: the text of an instruction, the json log, and the fields of `curr`
that no stage reads.
Rollback reads the youngest entry through a reference into an optional that is gone after the
statement (`commit_stage.cpp:62`), which is undefined. `RollBackYoungest` takes the entry
as it was: in the build of `build.sh` (g++ -O2, looked at in g++ 12) the stack slot of the
optional is not used again before line 74, the last that reads it.

**Refinement to InOrder470.** `InOrderSpec` maps the architectural registers to what
the *committed* mapping names in the register file (the mapping with all in-flight
instructions undone), the program counter to the oldest instruction that has not
retired, and a trap to the exception mode. A retirement is a step of `InOrder470`, an
exception is its `Trap`, the end of the rollback its `EnterHandler`, and all else
stutters. So renaming, speculation, forwarding and recovery never show. `Recovered` tells
the two ways apart in which the PC can be at the vector: a handler is about to run only if
the instruction at `excPC` really faults and is neither in the Active List nor in the DIR.
Without the last two conditions a program that ends at the vector and whose first
instruction will fault (`excPC` is 0 from the start) would look recovered too early.

**CircularBuffer.** The two classes share the algorithm, so they share the module; an
action per operation, with what it returns in `answer`. The array's initial content is
arbitrary because no constructor sets it. `OoO470` uses sequences for the two lists:
`ImplementsDeque` is why it may.

**VLIWProgram, LooppipScheduler.** Addresses count from 1 and 0 stands for the code's
-1. An instruction is its unit and the general registers it reads and writes. One step
places one instruction, in program order (`PlaceInCycle` for BB0 and BB2, `PlaceModulo`
for the body), or gives up an interval (`NoPlaceInBody`, `BodyTooSlow`) or the whole
search (`NoCycleLeft`, `NextInterval`); `AcceptBody` adds the loop instruction and
shifts the body behind BB0. In `EarliestInBody` the term for carried values is the
code's (lines 379-445), although it never applies to a placed producer: a producer
before its reader in the loop is a local one. A program without a loop
never reaches this scheduler (`main.cpp:51`); the model counts it as rejected.
The judge is independent of the code: `Reaching` runs the program sequentially, instance
by instance, and `Time` says when an instance executes when iterations start every `ii`
cycles.

**LoopScheduler, RegisterRenaming.** `phase` is the pass that is running. A step places one
instruction of BB0, the body or BB2 in the first cycle that its operands and a free slot
allow, or joins a finished block to the schedule (`FinishBB0`, `FinishBB1`, `FinishBB2`);
`row` counts from the beginning of the block until then. `FinishBB1` fails when BB0 is empty
(`NothingBeforeLoop`): the joining of the blocks asks for cycle -1, so a program that starts
with its loop is refused by this backend although the frontend accepts it. Renaming goes
through its four passes an operand or a move at a time, in the order of the bundles
(`Place`), and compares registers by number as the code does; `TooManyResults` and
`TooManyRegisters` are its two ways to run out. Moves can open a row behind the last one
of the loop, and then the loop instruction and BB2 go down with them.

**VLIW470.** The machine is modelled by what values do, not by what they are: a register
holds the pair of the instruction that computed its content and the number of laps, the
times the loop had gone back, when it did so. Nothing interlocks; an operand is what its
register holds when the bundle is read. `Repeat`, `Drain` and `Proceed` are the three
outcomes of the branch slot, and `Physical` is `renameRegister`, with a base that is never
reduced, as in the code. The data memory is left out: the compiler orders no memory
operations. So are `mov RBB` and `mov p, false`, which no backend emits.

**LoopBackend, LooppipBackend.** Each composes the passes of one output path of `main.cpp`
with the machine that runs the result. `ValuesArrive` compares each operand of each bundle
with the value that the sequential run of the *source* program (`Reaching` again) says it
should be. So one property covers latencies, padding, slots, renaming, moves, rotation,
fill and drain end to end. `EveryInstanceRuns` says that at the halt exactly the
sequential instances have been executed. `FollowsDataflow` shows that both implement
`Dataflow470`: nothing executes before the instances whose values it reads.
An instruction of stage `s` executes in lap `l` for iteration `l - s` (`InstanceAt`).
`ValuesArrive` has premises where the code is known to go wrong, each with a run of its own
that shows it: `NamesApart` for renaming (*names_clash*, *dropped_move*), and for the rotating registers
`InitialsInReach` (*late_recurrence*) and `ResultsInWindow` (*late_product*). They are
judged on the program or the schedule, before anything runs; in `pipelined` they exclude
a few programs (fewer than two states in a hundred), the known cases.

**RotatingRegisters, LooppipPreparer.** The allocator is one pass over a finished schedule
that keeps nothing but two counters, so it is one action, `Allocate`, over pure operators:
a rotating name is a base given by the order of the schedule plus a stage offset modulo
the window, and a static name is the rank of what claims it (`Claims`) in the order in
which the passes meet it. It has one way to fail, `OutOfRegisters`. The
preparer is pure too: `LatestPlace` is the search for an ALU slot for the two
initializations, `BundleOf` the compaction, `StagePredicate` the predicate of a stage.
The printing and re-reading of instruction text between the passes is left out.

## 3. Runs

| run | instance | shows |
|---|---|---|
| `core` | all 8^4 programs of four instructions and all 3^7 of seven; 2 wide, 7 registers, Active List 4, Free List 5, Integer Queue 2, words of 2 bits, vector 7 | all structural invariants, the refinement to `InOrder470`, no end with work in flight, termination |
| `given_tests` | tests 01 and 05 at the sizes of the code, words mod 2^15 | complete, and in order |
| `circular` | capacity 3, three values, any initial array | the buffers are deques |
| `frontend` | all programs of 6 with nops, any target, any number of loops; crowded blocks; 2 attempts, search range 2 | nops mean nothing; dependencies are the real ones; the search ends however it gives up |
| `pipelined` | all loops of 3 instructions (sums, products, a load, a store over two registers), of 2 in three surroundings, sums of late values, refused programs; 3 iterations; registers x1-x7 static, x8-x31 rotating | schedule: no slot conflict, no early read, compactable, found; machine: every operand holds its sequential value, exactly the sequential instances run, in data-flow order, and it stops |
| `loop_backend` | all loops of 2 (sums, products, a load, a store), loops of 3 with several products, programs without a loop and refused ones; 3 iterations | every operand holds its sequential value on the machine, exactly the sequential instances run, in data-flow order, nothing is lost, the machine stops |
| `names_clash` | sums of two registers named as renaming names them | **violated**: operands follow the wrong dependency |
| `dropped_move` | two counters, set in either order before the loop | **violated**: a carried value has no move |
| `loop_once` | a loop that runs once after a product | **violated**: the product is read too early |
| `late_recurrence` | a sum of products in the third stage | **violated**: the first iteration does not read the initial value |
| `late_product` | a product that nothing reads in a loop of one bundle | **violated**: it overwrites a value of another window |
| `rrb_wrap` | four rotating registers, six iterations | **violated**: the rotating register base leaves its range |

**Why the bounds are enough.** In `core`, two bundles of two are in flight at once, so that
younger instructions execute, finish and fault before older ones; there are several writers
of one register in flight, and rollbacks of one and two cycles. The programs of seven fill
the queues: a bundle is held back now by the Active List alone and now by the Integer Queue
alone. The Free List is longer than the Active List, which makes visible the second limit
that equal lengths (32 and 32) hide in the code. The exception vector is the address just
behind the programs of seven, so that the PC is there with and without an exception, and
`InOrder470` is compared at the end in both cases (`Recovered`). Two logical registers
suffice for every pattern of
read-after-write, write-after-read and write-after-write; two-bit words overflow.
`given_tests` repeats the refinement at full size. In `pipelined`, three instructions with
latencies 1 and 3 make recurrences through one, two and three instructions, conflicts in
each unit, and several stages, so that iterations overlap in the fill, the kernel and the
drain. `MaxAttempts` and `SearchLimit` are 64 and 4096 in the code and 7 and 6 there, the
least with which all schedules are found: a chain of three products finds its own in the last
interval tried, thirteen instructions for two slots in the last cycle searched.
In `frontend` the limits are too small. Seven static registers
and 24 rotating ones are few enough for both to run out (eight results before the loop;
thirteen in it), and more than any lap count of that run, so that the base stays in range.
`MaxLaps` is 12, more than iterations and stages together.
In `loop_backend` the registers of the programs are x9 and x10, above all the numbers that
their results get, and `MaxReg` is 12 instead of 95, so that small
programs end on both sides of the two limits of renaming (11, 12 and 13 results; 5, 6
and 7 stores of two starting registers each). Three iterations tell a value from BB0, one from the iteration
before and one from two iterations before apart. `MaxLaps` caps the name of a lap and equals
the number of iterations, so that it is not reached by a right schedule. `Clashing` holds
one program with ten results, whose names do clash; it exercises `SkipMove`.

**Fairness.** `FairSpec` asks for weak fairness of `Next` as a whole, in every system:
each is a sequential loop that goes on until it ends, and the only thing fairness excludes
is that the process is stopped. No single action is assumed fair. In the three systems of
HW2 the formula is written out, `[]<>Stopped \/ []<><<Next>>_vars`: a step that changes
something is possible exactly when the system has not stopped, and TLC need not search for
successors a second time to find that out. `Terminated` and
`Stopped` are explicit stuttering steps of a finished system, so deadlock checking stays
on in every run; a conflict that the preparer refuses would be such a deadlock.

**Disagreements found.**

* *names_clash.* `register_allocation.cpp:279` renames every operand that bears the number of
  the dependency, also one that another dependency renamed just before. `mov x2, 10;
  mov x1, 5; add x3, x1, x2` becomes `mov x1, 10; mov x2, 5; add x3, x1, x1`; the compiler
  built from the source does the same.
* *dropped_move.* `register_allocation.cpp:313` skips a carried value whose operand is in
  `resolved`, but compares the number an operand has in the source with numbers renaming has
  given (line 336). Two counters of which x2 is set first are enough: x2 becomes x1, gets its
  move, and x1 is taken for done. `mov LC, 3; mov x2, 5; mov x1, 7; addi x2, x2, 1;
  addi x1, x1, 1; loop 3; st x1, 0(x2)`, compiled by the compiler built from the source, stores
  8 in the repository's simulator; with the first two moves exchanged it stores 11.
  `NamesApart`, the premise of `ValuesArrive`, leaves out programs that renaming may treat so,
  and with them many that come to no harm.
* *loop_once.* `loop_scheduling.cpp:244` schedules BB2 without its loop-invariant
  dependencies. A product of BB0 that only BB2 reads, around a loop of one cycle that runs
  once, is read a cycle before it is written. `loop_backend` shows that from two
  iterations on (it runs three, of every loop in its set, this one included) it is in time.
* *late_recurrence.* `rotating_register_allocator.cpp:421-426` puts the initial value of a
  carried register `1 - stage` names above the base of the result that replaces it, modulo
  the window. From the third stage on the modulus moves it to a name that rotation does not
  bring to the first iteration. With `mov LC, 3; mov x1, 7; mov x2, 0; ld x4, 0(x2);
  mulu x5, x4, x4; add x1, x1, x5; loop 3; st x1, 100(x2)` the compiler built from the
  source and the repository's simulator store 7 by the plain schedule and 0 by `loop.pip`.
* *late_product.* A window has `num_stages + 1` names, and stages count cycles of placement,
  not of arrival. A product that nothing in the loop reads may arrive when its register has
  left the window: `mov LC, 2; mov x2, 5; mov x6, 7; st x6, 0(x2); mulu x3, x2, x2;
  ld x4, 0(x2); loop 4; st x4, 100(x2)` stores 25 instead of 7.
* *rrb_wrap.* `vliw470.py:480` increments the base without reducing it, and line 150
  corrects a number below 32 only once; line 257 asserts that the base is below 64 when a
  program sets it. A loop of more than 64 laps renames rotating registers to static ones.

One comment the code does not follow has no run, as it does no harm: `main.cpp:138-139` says
that fetch and decode clears the DIR in the cycle of the exception;
`fetch_and_decode_stage.cpp:255-260` sets the PC and leaves the DIR. `main.cpp:34-43`
compensates for it in the end test, and `core` shows that this works: the stale bundle is
never dispatched, and no run ends early or never.

## 4. Proofs

`OoO470Proofs` proves, for every word width, number of registers, size of queues, width
and set of programs that satisfy the assumptions `WordAssumption`, `LogicalAssumption`,
`SizeAssumption` and `ProgramAssumption` (positive word size, register count and width;
`NPhys = NLog + FLCap`; programs are sequences of instructions):

* `TypeCorrect`: `Spec => []TypeOK`. It includes that no stage takes the head of an
  empty list: dispatch never pops an empty Free List.
* `Capacity`: `Spec => []QueuesFit`. Free and in-flight registers add up to the Free List's
  capacity, and no queue overflows, although no push is checked.
* `Conservation`: `Spec => []RegisterPartition`. Each physical register is in one place.

None of the three is inductive. The invariant is
`IInv == TypeOK /\ ControlInv /\ QueuesFit /\ RegisterPartition`. `ControlInv` says what
the position in the cycle implies: the DIR holds addresses of the program; `curr` agrees
with the working copies at the start of a cycle; while commit retires, as many entries
have left `al` as it has looked at in `curr.al`; and while a bundle is dispatched, the room
that `HasEnoughResources` saw is still there for the rest of it. Without it a retirement
could take the head of an empty list, and dispatch pop an empty Free List or lose an
entry to an unchecked push.
The partition is needed to be invariant under rollback: the register freed is
`map[e.ld]`, and it is not on the Free List only because mapped registers never are.
`Inductive` has one step per action, with lemmas for each family of actions.

`OoO470Safety` strengthens this invariant until the *values* in the pipeline are right.
It proves `PipelineInvariant`, `Spec => [](IInv /\ PInv)`, and derives from it

* `BusyBits` and `Wakeups`: a register is busy exactly while its value is on its way, and
  an instruction never waits for a value that nobody will deliver;
* `Operands`: operands in the Integer Queue are those of the register file;
* `Sequential`, `Recovery`, `EachOnce`: Active List, DIR and PC follow the program; nothing
  stale survives an exception; queue and ALUs hold exactly the instructions not yet done;
* the main result, `InOrderRefinement`: **every behaviour of the five-stage out-of-order
  machine is, seen through its committed registers, a behaviour of the machine that
  executes one instruction at a time** (`Spec => InOrderSpec`);
* `Complete` (`DoneMeansComplete`): when the work is done, the registers, the exception PC
  and the flag are those of a sequential run of the whole program.

The argument. At most places in a cycle the registers and busy bits do not show what an
instruction would read, because results are on the forwarding wires and not written back
yet. `Missing` and `Values` are busy bits and register file *as if* they were. The mapping
that instruction `i` of the Active List was renamed with is the current one with the later
entries undone, `MapIn(al, map, i, r)`; `OoO470Proofs` has what append, retirement and
rollback do to it. With these, `PInv` is a disjunction. In `Normal`, an entry that is done
holds in its register the outcome computed from the registers its sources were mapped to
(`EntryOK`), and an exception flag is set exactly if it faults there; what waits in the
queue or moves through the ALUs agrees with its entry (`InFlightOK`), occurs once (`Once`),
and covers all entries that are not done. In `Trapped`, the exception's own operands are
still right below the entries being undone, and the requests of the cycle are those that
empty the queue and the ALUs before anything can be written. Retirement executes the
in-order step because the head's sources are the committed registers.

`Complete` is about a recursive function, the sequential run, of which it first shows that
it exists (`RunExists`, by the smallest index at which it would not). `AtRun` then says that
the committed registers are the run's after as many instructions as have retired, and
`FollowsRun` adds what an exception changes: nothing, except that the run stops there too.
A retirement is a step of the run, and a detected exception is one the run meets.

These theorems have one named hypothesis, `BelowVector`: no program is longer than the
exception vector's address. It is needed: an instruction *at* the vector would be fetched
as a handler, and no stage could tell it from the program. The code fixes the vector at
0x10000, refuses no longer program, and takes a PC at the vector for the end of the work
(`main.cpp:34-43`); all given tests are far shorter. `core` has programs that end
exactly at the vector, where the hypothesis still holds. `Complete` needs one instruction
less (`EndsBeforeVector`): of a program that ends exactly at the vector the simulator takes
the PC behind its last instruction for the end of the work without a look at the DIR. TLC checked `PInv`
on the states of `core` and on a three-wide machine before it was proved; the
second condition of `Recovered` above came out of that.

`CircularBufferProofs` proves for every capacity, every set of values and every initial
content of the array `IndicesOK` (`Spec => []TypeOK`: the counter is the distance of the
indices) and `Refinement` (`Spec => ImplementsDeque`: it is a bounded deque, at every
wrap-around). The lemmas are about `(head + i) % Cap`: distinct items lie in distinct slots.

`VLIWProgramProofs` and `LooppipSchedulerProofs` prove about HW2, for every set of programs,
any number of registers, iterations and attempts and any search range:

* `AnalysisRight` (`DependenciesReach`): of every operand of every instance of every
  iteration the dependency analysis names the instance whose value a sequential run gives it;
* `SlotsExclusive` (`SlotsNeverShared`): in a finished modulo schedule no two instances, of
  one or of overlapping iterations, want one slot of one cycle;
* `OperandsInTime` (`ResultsInTime`): every instance executes after all its operands are there;
* `BlocksInOrder` (`Compactable`): BB0, then the loop in `stages * ii` cycles that `loop.pip`
  closes, then BB2;
* `SearchSucceeds` (`ScheduleFound`): with room to search, the scheduler never gives up;

of the scheduler by itself (`SchedulerSpec`, which `frontend` runs) and of the whole path up
to the machine (`Spec` of `LooppipBackend`, which `pipelined` runs). They assume
`LooppipAssumption` (at least one attempt and one iteration) and `SourceAssumption`: sources
are sequences of what the parser makes, so that a branch is a loop instruction without
registers. That a program has exactly one loop and a target before it is no assumption: it
is what the frontend's checks leave (`ParsedIs`).

The analysis is an argument about the sequential run. Instances are ordered by block,
iteration and address, which is the order of their positions (`PositionPrecedes`); the
analysis distinguishes a local, a carried, an invariant and a post-loop read, and in each
case the writer it names is the last in that order (`AnalysisReaches`).

None of the other three is inductive, as they only speak of finished schedules. `ScheduleInv`
says what holds on the way: which block is placed so far and that the rest is not
(`Progress`); slots are distinct by cycle outside the loop and by *offset* in it
(`SlotsApart`); the body stays within the stages counted so far (`Layout`); what is placed
is behind its operands (`OperandsTimed`); and once the body is shifted into place, it is
behind BB0 and its carried values are in time (`LoopTimed`). Addresses are placed in
order, so that a producer is always placed before its reader, except in carried values: those
are checked when the body is complete, and a failed check starts over, where the invariant
holds again because nothing is placed. Two instances of the loop that meet in a cycle have
the same offset modulo `ii` (`SameOffset`), so that distinct instructions have distinct
slots and one instruction does not meet itself. TLC checked `ScheduleInv` on all states
of `pipelined` before it was proved.

`SearchSucceeds` is about the limits `MaxAttempts` (64 in the code) and `SearchLimit` (4096).
Its hypothesis `RoomToSearch` says that the last interval tried is at least three cycles (the
longest latency) for each instruction of the loop body, and that a search goes three cycles
for each instruction of the program. The code's limits leave this room to every body of up
to 21 instructions in a program of up to 1365. Without it the search may really fail: TLC
finds a schedule missing in `pipelined`'s programs with six attempts in place of seven. The
invariant is `Soon`: instructions are placed in the order of their addresses, each at most
three cycles behind the latest cycle the one before it can have, in the body as soon as the
interval covers all of it. Then the cycle `LatestCycle` names is behind every operand and
after everything placed (`FreeCycle`), its offset is nobody's (`FreeOffset`), and the first
free place is not behind it (`PlacesFirst`). With an interval this long no carried value is
late either (`CarriedByThen`), and the last interval is this long (`LastInterval`): so no
attempt fails that would have been the last.

The same module follows a finished schedule through allocation and preparation to the halt
of the machine:

* `PipelineCompletes` (`EveryInstanceRuns`): a machine that halts has executed every instance
  of the sequential run, in the right iteration, and no other: `loop.pip`, both counters, the
  rotating predicates and the stages agree;
* `PipelineRefinement` (`FollowsDataflow`): nothing is executed before what it reads, however
  many iterations overlap;
* `BaseStays` (`BaseInRange`): the loop goes back iterations + stages - 2 times and no more,
  so that the base of the rotating registers stays below their number.

They add `LooppipBackendAssumption` (the register file has static registers and, behind them,
rotating ones) and two hypotheses. `~Endless` is explained below. `LapsFit` says that iterations
and stages together need no more laps than there are rotating predicates (64 in the code), and
no more than the model's `MaxLaps` can name. It is the other side of *rrb_wrap*: with more
laps a predicate's number wraps, and a result of the code's own making is lost. Every run
of `pipelined` to a halt meets both.

The argument has four steps. `Compacted` keeps what the passes need of `ScheduleInv`, which
ends with the scheduler. `BundlesAre` and `FinalIs` say where compaction puts an instruction:
in the bundle of its offset, with the predicate of its stage; `CycleIs` and `TickIs`, what a
cycle of the machine makes of the bundle it reads. `Lapping` says where the machine stands:
the loop count goes down while iterations start, then the epilogue count while they drain,
and **the true predicates are exactly those of the iterations that have started**
(`StartedBy`). Rotation renames them at every lap, and `FirstsApart` shows that they
are distinct as long as the laps fit. So the predicate of a stage is on in a lap exactly if
the iteration in that stage exists (`StageOfIteration`), also in the fill and in the
drain. `Ran` then says what has been executed: instruction `a` in lap `n` if the machine has
passed its bundle in that lap and iteration `n - Stage(a)` exists. A local producer is in an
earlier stage, or in the same stage and an earlier bundle, and a carried one at most one
iteration behind (`EarlierStage`), because its cycle is; so its instance has been executed in
an earlier lap or bundle. The control instruction is in the last stage, so that the last
lap closes the last iteration.

`LooppipValuesProofs` proves that the names are right. `PipelineValues` (`ValuesArrive`),
`Spec => [](~Endless /\ LapsFit => ValuesArrive)`, is the end-to-end result on this path:
**in fill, kernel, drain and behind the loop, every operand of every instruction that
executes holds what a sequential run would read there**, whatever the program, the interval,
the number of stages and iterations and the size of the register file. Its hypotheses are
the findings and no more: the loop does not set its own count (`~Endless`), it does not run
the base out of its range (`LapsFit`, *rrb_wrap*), and the two premises of `ValuesArrive`
itself, that initial values are for results of the first two stages (`InitialsInReach`,
*late_recurrence*) and that products arrive while their window lasts (`ResultsInWindow`,
*late_product*).

The argument keeps apart what a register holds and what its name stands for.

* *What it holds.* `FileInv` never mentions what is meant: a register holds the result that
  arrived in it last, the multiplier holds exactly the products that have begun and not
  arrived (`Begun`), in the order of their age, and a register nothing arrived in holds its
  first content. It is inductive because of a clock that counts bundles over all laps
  (`Clock`): the instruction in bundle `k` executes for lap `n` at `k + ii * n` (`Issue`)
  and its result arrives one latency later (`Arrival`), so a tick of the machine is a tick
  of this clock, also when the loop goes back. `Exact` and `Named` say that the schedule and
  the tables of the allocator are still there.
* *What a name stands for.* The windows of two results do not overlap (`WindowsApart`). A name
  at offset `k` in a window is, `v` laps later, the register that the result of one
  particular lap went to (`NameBehind`), and two names that share a register while both
  are in their windows are the same name (`SameRegister`). So a result that goes to the
  register of an operand either is the one meant or was issued more than a window's width
  of laps ago (`NoOther`), and then it arrived before (`OlderArrived`): here
  `ResultsInWindow` is used. Static names are ranks of their claims, hence different for
  different claims (`StaticNamesAre`), and a static register has one writer (`StaticRead`).
* *When it is read.* `IssuesAre` translates the cycles of the schedule into the clock, so
  that "in time" of the scheduler's theorem becomes "arrived".
* *Together.* `OperandNameIs` lists the cases in which the allocator names an operand, and a
  lemma for each finds the instance meant: `LocalHolds`, `CarriedHolds` (with the first
  iteration, which reads what BB0 left in the window, under `InitialsInReach`),
  `InvariantHolds`, `FinalHolds` for what is read behind the loop, and `ExternalRead` for a
  register nobody writes.

`LoopSchedulerProofs` and `LoopBackendProofs` prove about the plain loop path, from the
source to the halt of the machine, for every set of sources, any number of registers and of
iterations (`SourceAssumption`, `LoopBackendAssumption`: registers are numbered from 0 to
`MaxReg` and include those of the sources; a loop runs at least once, and `MaxLaps` laps can
be told apart):

* `NothingIsLost` (`NothingLost`): each instruction and each inserted move has a slot of a
  bundle to itself;
* `TypesHold` (`TypeOK`): types of the compiler's tables and of the machine;
* `AllAreExecuted` (`EveryInstanceRuns`): a machine that halts has executed every instance
  of the sequential run and no other;
* `DataflowRefinement` (`FollowsDataflow`): nothing is executed before what it reads. Its
  hypothesis, `[]~Endless`, is that the loop does not set its own count to go on
  (`mov LC` inside the loop, with more than one iteration). Such a program loops for ever on
  this machine, and the sequential run that `Dataflow470` compares with does not exist;
* `ValuesAreRight` (`ValuesArrive`), the end-to-end result: **every operand of every bundle
  holds, when the machine reads it, the value that the sequential run of the source gives
  that instance**, through latencies, empty cycles, new registers and moves;
* `OperandsAreRight` (`OperandsFollowDependencies`): in a program whose names do not clash
  (`Apart`) renaming gives every operand the register of its producer;
* `MovesAreRight` (`CarriedValuesMoved`): in such a program every carried value has a move to the
  register of each of its readers.

The hypotheses of the last three are the findings above and no more. `NamesApart` is part of
`ValuesArrive`; *names_clash* and *dropped_move* show that it is needed, and `OperandsAreRight`
and `MovesAreRight` that a clash is the only way in which an operand goes astray or a move is lost. `InvariantsInTime` is *loop_once*: what BB2 reads
of BB0 is ready when BB2 reads it, or the loop runs at least twice. `~Endless` is as above.

They rest on `Compiles`, `Spec => []CompilerInv`, again an invariant of states on the way.
`ScheduleInv` is its part for the schedule: what is placed in which phase, slots, the blocks
one behind the other, operands behind their producers, and the loop behind the results of BB0
that it reads (`EnteringLoop`). The cycles of a block are counted from its own start until
it is finished, so the bounds of a late BB2 are stated relative to `size` before
`FinishBB2` shifts them. `RenamingInv` is the part for the tables: each result has a register
to itself (`Results`), what is still to be followed has a producer (`Operands`), a carried
dependency is known by its instruction and first operand although renaming replaces its
register (`Carries`), and moves stand in free slots between the body and the end of the loop
(`Moves`), also after later moves have pushed the loop instruction down: `ShiftInv` shows
that pushing keeps all of `ScheduleInv`, because only BB2 and the loop instruction move.
On the machine, `Lapping` relates the program counter, the loop count and the laps: before
the loop the count is what has been set so far, in the loop it is what is left of the
iterations, behind it all laps are done. `Ran` says that exactly the instructions the
machine has passed are recorded, in the laps it has passed them. Then a local producer has
been executed because its cycle is earlier, one of the iteration before because the machine
has gone back since, and those of another block because the blocks do not overlap.

For the values, renaming has to be right first. `RenamedInv` follows it operand by operand.
Its part `Tables` says, of a program whose names are apart: an operand that is renamed has the
register of its `Provider` (the local producer, else the one of BB0 that starts a carried
value, the result of the loop for BB2, and so on), or, without one, a register that it
shares with no other name (`OperandsFollow`, `OwnRegisters`); operands of an instruction
that had one name still have one (`NamesTogether`), which makes the code's comparison by
number harmless; and every carried dependency is still to be looked at or has its move,
and no move is without one (`AllBrought`). `TablesAre` and `MovesAre` say what is left of
this when renaming is done.

On the machine, `ValueInv` says what every register holds in every cycle. A result is known
by how long ago its instruction was executed last: `Elapsed` counts cycles, not rows, so that
it goes on growing when the machine goes back to the start of the loop (`ElapsedStep`). From
its latency on, the register holds the instance's value (`Settled`); before that a product
is in the stage of the multiplier that `Elapsed` names, alone for its register (`Products`).
A register that a move writes holds the value of this lap behind the move and of the
lap before in front of it (`Brought`), and a register nobody writes its first content
(`Untouched`). An operand is then right because the schedule puts it behind its
producer (`OperandsTimed`) and a move behind the result it copies. The read by BB2 of
a value of BB0 is the one case the schedule does not cover, and two laps make up for it.

`PathTypes` (`TypeOK` of `LooppipBackend`), `Spec => [](BaseInRange => TypeOK)`, closes the path:
every result and every operand has a register of the machine other than x0 (`ResultInFile`,
`OperandInFile`), the tables of the allocator stay within it, and the file, the multiplier and
the predicates hold what they can hold (`FileTypes`). `BaseInRange` is needed because a base
that ran out of its range makes predicates true that do not exist, which is *rrb_wrap*;
`BaseStays` says when it holds.

What is **only model-checked**: `NopsMeanNothing`, which needs induction over a program. Out of
the prover's reach, and left to TLC: liveness (`Termination`, `Ends`, `Halts`).

## 5. Plan

1. *(done)* `ISA470`, `InOrder470`, `OoO470` with proofs; `CircularBuffer`, `BoundedDeque`;
   `VLIWProgram`, `LooppipScheduler`; `LoopScheduler`, `RegisterRenaming`, `VLIW470`,
   `LoopBackend`.
2. *(done)* Rotation, predicates, EC and `loop.pip` in `VLIW470`; `RotatingRegisters`,
   `LooppipPreparer` and their composition `LooppipBackend`; `Dataflow470`, implemented by
   both backends.
3. *(done)* Proofs for HW1: the pipeline's invariant, all safety properties, the refinement of `InOrder470`; `CircularBuffer` implements
   `BoundedDeque`.
4. *(done)* Proofs for the middle end and the loop.pip scheduler of HW2, for every program:
   the dependency analysis is right; no two instructions share a slot modulo the interval;
   every operand is in time; the schedule can be compacted.
5. *(done)* Proofs for the plain loop path of HW2: nothing is lost, all instances are
   executed, in data-flow order, and every operand holds its sequential value.
6. *(done)* Proofs for the loop.pip path: a schedule is found when there is room to search,
   all instances are executed, in data-flow order, the base stays in range, every operand
   holds its sequential value, and the types of the whole path.
7. Next: the arithmetic and the data memory of the machine.

## 6. Not modelled

* The reading of assembly text, in both programs (`decode_instruction` of HW1,
  `instruction_parser.cpp` and the decoding half of the simulator in HW2): programs are given
  decoded. It keeps no state, and what it accepts is a matter of wording.
* Printing of instructions, json input and output, logs, comparison scripts and viewers.
* The data memory of VLIW470: the compiler orders no memory operations, so what two of them
  on one address do is not promised by any pass.
* Predicates in source programs: the passes carry them along as text and no given test has one.
* HW3 (a document) and HW4 (the timing of a real CPU, which the source does not determine).
