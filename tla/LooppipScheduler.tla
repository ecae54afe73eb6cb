-------------------------- MODULE LooppipScheduler --------------------------
(***************************************************************************)
(* schedule_looppip of HW2: software pipelining by modulo scheduling.      *)
(*                                                                         *)
(* For one initiation interval ii after the other, BB0 is scheduled in     *)
(* absolute cycles, each instruction as soon as its operands and a slot of *)
(* its unit allow; the loop body is scheduled the same way in relative     *)
(* cycles, where all cycles of one offset modulo ii share their slots      *)
(* because iterations start every ii cycles; if the values carried from    *)
(* one iteration to the next are in time the body is shifted behind BB0    *)
(* and BB2 is scheduled behind it, otherwise ii grows by one.              *)
(***************************************************************************)
EXTENDS VLIWProgram

CONSTANTS
    Sources,        \* the programs to compile: [code, target] with nops
    MaxAttempts,    \* intervals tried at most (64)
    SearchLimit,    \* cycles searched for a free slot beyond the first (4096)
    Iterations      \* of the loop in the runs that the schedule is judged by

ASSUME LooppipAssumption ==
    /\ MaxAttempts \in Nat \ {0}
    /\ SearchLimit \in Nat
    /\ Iterations \in Nat \ {0}

\* The parser takes no other instructions, and any number as a target.
ASSUME SourceAssumption ==
    \A s \in Sources : s.code \in Seq(Instruction \cup {Nop}) /\ s.target \in Int

VARIABLES
    source,     \* the program as read
    program,    \* the program without nops
    phase,      \* what is being done
    ii,         \* the initiation interval being tried
    todo,       \* addresses still to be placed in this phase
    cycle,      \* absolute cycle of each placed instruction, or none
    relative,   \* cycle of a loop instruction within its iteration, or none
    slot,       \* slot of each placed instruction
    stages,     \* of the loop body
    start       \* cycle where the loop body starts, when known

schedulerVars == <<source, program, phase, ii, todo, cycle, relative, slot, stages, start>>

Code(a) == program.code[a]
Ready(a, issued) == issued + Latency(Code(a))
Control == LoopAddress(program)
Body == InBlock(program, "BB1") \ {Control}

Placed == {a \in DOMAIN cycle : cycle[a] # None}
PlacedInBody == {a \in DOMAIN relative : relative[a] # None}

-----------------------------------------------------------------------------
(* Parsing and splitting *)

SchedulerInit ==
    /\ source \in Sources
    /\ program = [code |-> <<>>, start |-> 0]
    /\ phase = "source"
    /\ ii = 0 /\ todo = {}
    /\ cycle = <<>> /\ relative = <<>> /\ slot = <<>>
    /\ stages = 0 /\ start = 0

\* What an attempt at an interval starts from; p is the program.
Restart(p) ==
    /\ todo' = InBlock(p, "BB0")
    /\ cycle' = [a \in DOMAIN p.code |-> None]
    /\ relative' = [a \in DOMAIN p.code |-> None]
    /\ slot' = [a \in DOMAIN p.code |-> "ALU0"]
    /\ stages' = 0 /\ start' = 0

Parse ==
    /\ phase = "source"
    /\ LoopAccepted(source)
    /\ program' = Parsed(source.code, source.target)
    /\ phase' = "BB0"
    /\ ii' = ResourceInterval(program')
    /\ Restart(program')
    /\ UNCHANGED source

\* Errors end the compiler: here, a loop it cannot take.
ParseError ==
    /\ phase = "source"
    /\ ~LoopAccepted(source)
    /\ phase' = "rejected"
    /\ UNCHANGED <<source, program, ii, todo, cycle, relative, slot, stages, start>>

-----------------------------------------------------------------------------
(* BB0 and BB2: absolute cycles *)

\* The cycles searched for a free slot, from the earliest on.
Window(e) == e .. e + SearchLimit

\* The slots in use in these cycles.
Occupied(cycles) ==
    {at \in cycles \X Slot : \E a \in Placed : at = <<cycle[a], slot[a]>>}

\* The dependencies that delay an instruction outside the loop.
TimedDependencies(a) ==
    LocalDependencies(program, a) \cup InvariantDependencies(program, a)
        \cup PostLoopDependencies(program, a)

\* No instruction of this block may be earlier.
MinimumCycle == IF phase = "BB0" THEN 0 ELSE start + stages * ii

EarliestCycle(a) ==
    Greatest({Ready(d.producer, cycle[d.producer]) : d \in TimedDependencies(a)},
             MinimumCycle)

AbsolutePlaces(a) ==
    LET cycles == Window(EarliestCycle(a)) IN Places(Code(a).unit, cycles, Occupied(cycles))

PlaceInCycle ==
    /\ phase \in {"BB0", "BB2"}
    /\ todo # {}
    /\ LET a == Smallest(todo)
       IN  /\ \E at \in AbsolutePlaces(a) :
                 /\ cycle' = [cycle EXCEPT ![a] = at.cycle]
                 /\ slot' = [slot EXCEPT ![a] = at.slot]
           /\ todo' = todo \ {a}
    /\ UNCHANGED <<source, program, phase, ii, relative, stages, start>>

\* No slot within the search limit is an error.
NoCycleLeft ==
    /\ phase \in {"BB0", "BB2"}
    /\ todo # {}
    /\ LET a == Smallest(todo) IN AbsolutePlaces(a) = {}
    /\ phase' = "failed"
    /\ UNCHANGED <<source, program, ii, todo, cycle, relative, slot, stages, start>>

FinishBB0 ==
    /\ phase = "BB0" /\ todo = {}
    /\ phase' = "BB1"
    /\ todo' = Body
    /\ UNCHANGED <<source, program, ii, cycle, relative, slot, stages, start>>

FinishBB2 ==
    /\ phase = "BB2" /\ todo = {}
    /\ phase' = "done"
    /\ UNCHANGED <<source, program, ii, todo, cycle, relative, slot, stages, start>>

-----------------------------------------------------------------------------
(* BB1: cycles modulo the interval *)

\* Slip: reservations are made for cycles, not for offsets.
ReservedInCycle(cycles) ==
    {at \in cycles \X Slot : \E a \in PlacedInBody : at = <<relative[a], slot[a]>>}

\* A slot is taken at every cycle of an offset once one instruction has it.
Reserved(cycles) ==
    {at \in cycles \X Slot :
        \E a \in PlacedInBody : relative[a] % ii = at[1] % ii /\ slot[a] = at[2]}

\* A value carried to the next iteration by the instruction that reads it must be
\* there in time.
SelfTooLong(a) ==
    \E d \in InterloopDependencies(program, a) :
        d.previous = a /\ Latency(Code(a)) > ii

\* Where the values that instruction a reads let it stand: carried values constrain a
\* reader when their producer is placed already.
BodyBounds(a) ==
    {Ready(d.producer, relative[d.producer]) : d \in LocalDependencies(program, a)}
    \cup {Ready(d.previous, relative[d.previous]) - ii :
             d \in {e \in InterloopDependencies(program, a) :
                      e.previous # a /\ e.previous \in PlacedInBody}}

EarliestInBody(a) == Greatest(BodyBounds(a), 0)

RelativePlaces(a) ==
    LET cycles == Window(EarliestInBody(a)) IN Places(Code(a).unit, cycles, Reserved(cycles))

PlaceModulo ==
    /\ phase = "BB1"
    /\ todo # {}
    /\ LET a == Smallest(todo)
       IN  /\ ~SelfTooLong(a)
           /\ \E at \in RelativePlaces(a) :
                 /\ relative' = [relative EXCEPT ![a] = at.cycle]
                 /\ slot' = [slot EXCEPT ![a] = at.slot]
                 /\ stages' = Greatest({at.cycle \div ii + 1}, stages)
           /\ todo' = todo \ {a}
    /\ UNCHANGED <<source, program, phase, ii, cycle, start>>

\* Slip: a failed attempt is repeated with the same interval.
SameInterval ==
    /\ phase' = "BB0"
    /\ Restart(program)
    /\ UNCHANGED <<source, program, ii>>

\* Slip: the last interval is not tried.
OneAttemptLess ==
    \/ /\ ii + 2 < ResourceInterval(program) + MaxAttempts
       /\ ii' = ii + 1
       /\ phase' = "BB0"
       /\ Restart(program)
       /\ UNCHANGED <<source, program>>
    \/ /\ ii + 2 >= ResourceInterval(program) + MaxAttempts
       /\ phase' = "failed"
       /\ UNCHANGED <<source, program, ii, todo, cycle, relative, slot, stages, start>>

\* The next interval is tried from scratch, unless it was the last one.
NextInterval ==
    \/ /\ ii + 1 < ResourceInterval(program) + MaxAttempts
       /\ ii' = ii + 1
       /\ phase' = "BB0"
       /\ Restart(program)
       /\ UNCHANGED <<source, program>>
    \/ /\ ii + 1 >= ResourceInterval(program) + MaxAttempts
       /\ phase' = "failed"
       /\ UNCHANGED <<source, program, ii, todo, cycle, relative, slot, stages, start>>

NoPlaceInBody ==
    /\ phase = "BB1"
    /\ todo # {}
    /\ LET a == Smallest(todo)
       IN  SelfTooLong(a) \/ RelativePlaces(a) = {}
    /\ NextInterval

\* Slip: a carried value is expected within its own iteration.
CarriedWithinIteration ==
    \A a \in Body : \A d \in InterloopDependencies(program, a) :
        Ready(d.previous, relative[d.previous]) <= relative[a]

\* Slip: only what was placed before its reader is checked, as when placing.
CarriedCheckedOnPlacing == TRUE

\* Every carried value is there when the next iteration reads it.
CarriedInTime ==
    \A a \in Body : \A d \in InterloopDependencies(program, a) :
        Ready(d.previous, relative[d.previous]) <= relative[a] + ii

BodyTooSlow ==
    /\ phase = "BB1" /\ todo = {}
    /\ ~CarriedInTime
    /\ NextInterval

\* Slip: the loop starts in the last cycle of BB0.
StartAtLast == Greatest({cycle[a] : a \in Placed}, None)

\* The loop follows BB0, and its first iteration waits for what BB0 computes.
StartCycle ==
    LET fromBB0 == [a \in Body |->
                       {d.producer : d \in InvariantDependencies(program, a)
                                              \cup InterloopDependencies(program, a)} \ {0}]
        waits == UNION {{Ready(b, cycle[b]) - relative[a] : b \in fromBB0[a]} : a \in Body}
    IN  Greatest(waits, Greatest({cycle[a] : a \in Placed}, None) + 1)

\* Slip: a body without an instruction has no stage.
StagesAsCounted == stages

\* There is always a stage, for the loop instruction.
StageCount == Greatest({stages}, 1)

\* The loop instruction takes the last offset of the last stage; the body gets its
\* absolute cycles.
AcceptBody ==
    /\ phase = "BB1" /\ todo = {}
    /\ CarriedInTime
    /\ stages' = StageCount
    /\ relative' = [relative EXCEPT ![Control] = stages' * ii - 1]
    /\ slot' = [slot EXCEPT ![Control] = "Branch"]
    /\ start' = StartCycle
    /\ cycle' = [a \in DOMAIN cycle |->
                    IF a \in InBlock(program, "BB1") THEN start' + relative'[a] ELSE cycle[a]]
    /\ todo' = InBlock(program, "BB2")
    /\ phase' = "BB2"
    /\ UNCHANGED <<source, program, ii>>

-----------------------------------------------------------------------------
ScheduleNext == \/ Parse \/ ParseError
                \/ PlaceInCycle \/ NoCycleLeft \/ FinishBB0 \/ FinishBB2
                \/ PlaceModulo \/ NoPlaceInBody \/ BodyTooSlow \/ AcceptBody

ScheduleEnded == phase \in {"done", "failed", "rejected"}

SchedulerSpec ==
    SchedulerInit
        /\ [][ScheduleNext \/ (ScheduleEnded /\ UNCHANGED schedulerVars)]_schedulerVars

\* The compiler is a loop that runs until it returns or throws: weak fairness of
\* ScheduleNext, with the states in which it has ended written out.
FairSchedulerSpec ==
    SchedulerSpec /\ ([]<>ScheduleEnded \/ []<><<ScheduleNext>>_schedulerVars)

-----------------------------------------------------------------------------
(* Properties *)

Parsing == phase = "BB0" /\ todo = InBlock(program, "BB0") /\ ii = ResourceInterval(program)

\* The cycle in which an instance executes when the pipelined loop runs: iterations
\* start every ii cycles, and what follows the loop waits for the last.
Time(x) == cycle[x[1]] + ii * (IF Block(program, x[1]) = "BB2"
                                  THEN Iterations - 1 ELSE x[2])

PlacementsOK ==
    /\ source.code \in Seq(Instruction \cup {Nop}) /\ source.target \in Int
    /\ program \in Program
    /\ ii \in Nat /\ stages \in Nat /\ start \in Nat
    /\ todo \subseteq DOMAIN program.code
    /\ cycle \in [DOMAIN program.code -> Nat \cup {None}]
    /\ relative \in [DOMAIN program.code -> Nat \cup {None}]
    /\ slot \in [DOMAIN program.code -> Slot]
    /\ phase = "BB1" => PlacedInBody = Body \ todo
    /\ phase \in {"BB2", "done"} => PlacedInBody = InBlock(program, "BB1")

\* Dropping nops does not change what a program executes, also when the loop's target
\* is a nop or nops stand on either side of it.
NopsMeanNothing ==
    Parsing =>
        LET loop == CHOOSE a \in DOMAIN source.code : source.code[a].unit = "Branch"
        IN  Executed(source.code, source.target, loop, Iterations) =
            Executed(program.code, program.start, Control, Iterations)

\* For every register that an instruction reads, in every iteration, the dependency
\* analysis names the instruction whose value it really gets.
DependenciesReach ==
    Parsing =>
        \A x \in Instances(program, Iterations) : \A r \in Reads(Code(x[1])) :
            Predicted(program, Iterations, x, r) = Reaching(program, Iterations, x, r)

\* In the pipelined run, no two instructions, of the same or of overlapping
\* iterations, ever want the same slot of the same cycle.
SlotsNeverShared ==
    phase = "done" =>
        LET all == Instances(program, Iterations)
        IN  Cardinality({<<Time(x), slot[x[1]]>> : x \in all}) = Cardinality(all)

\* In the pipelined run, every instruction executes after the results it would read
\* in a sequential run, of whatever block or iteration, are there.
ResultsInTime ==
    phase = "done" =>
        \A x \in Instances(program, Iterations) : \A r \in Reads(Code(x[1])) :
            \A y \in Reaching(program, Iterations, x, r) :
                Time(y) + Latency(Code(y[1])) <= Time(x)

\* A finished schedule can be compacted: BB0 before the loop, the loop in exactly
\* stages * ii cycles with loop.pip last and alone in its slot, BB2 behind it, and no
\* instruction left out.
Compactable ==
    phase = "done" =>
        /\ Placed = DOMAIN program.code
        /\ \A a \in InBlock(program, "BB0") : cycle[a] < start
        /\ \A a \in InBlock(program, "BB1") : cycle[a] \in start .. start + stages * ii - 1
        /\ \A a \in InBlock(program, "BB2") : cycle[a] >= start + stages * ii
        /\ cycle[Control] = start + stages * ii - 1
        /\ \E a \in InBlock(program, "BB1") : cycle[a] >= start + (stages - 1) * ii

\* Every program with a proper loop gets a schedule: some interval works, and it is
\* reached before the attempts run out.
ScheduleFound == phase # "failed"

\* The compiler comes to an end, with or without a schedule.
Ends == <>ScheduleEnded

=============================================================================
