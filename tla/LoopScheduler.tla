--------------------------- MODULE LoopScheduler ---------------------------
(***************************************************************************)
(* schedule_loop of HW2, the backend for the plain loop instruction: each  *)
(* block gets a schedule of its own, an instruction taking the first cycle *)
(* in which its operands are there and a slot of its unit is free; BB1 is  *)
(* stretched until its loop instruction may go back, and the schedules are *)
(* put one behind the other, with empty cycles between BB0 and BB1 when    *)
(* the loop needs a result of BB0 that is late.                            *)
(***************************************************************************)
EXTENDS VLIWProgram

CONSTANT Sources    \* the programs to compile: [code, target] with nops

\* The parser takes no other instructions, and any number as a target.
ASSUME SourceAssumption ==
    \A s \in Sources : s.code \in Seq(Instruction \cup {Nop}) /\ s.target \in Int

VARIABLES
    source,     \* the program as read
    program,    \* the program without nops
    phase,      \* what is being done
    todo,       \* addresses still to be placed in this phase
    row,        \* cycle of each placed instruction, or None; counted within its
                \* block until the block is finished, within the schedule from then on
    slot,       \* slot of each placed instruction
    size,       \* cycles of the schedule of the finished blocks
    begin       \* cycle the loop instruction goes back to

schedulerVars == <<source, program, phase, todo, row, slot, size, begin>>

Code(a) == program.code[a]
Ready(a) == row[a] + Latency(Code(a))
Control == LoopAddress(program)
Body == InBlock(program, "BB1") \ {Control}
Placed(addresses) == {a \in addresses : row[a] # None}

-----------------------------------------------------------------------------
(* Parsing and splitting *)

SchedulerInit ==
    /\ source \in Sources
    /\ program = [code |-> <<>>, start |-> 0]
    /\ phase = "source"
    /\ todo = {} /\ row = <<>> /\ slot = <<>>
    /\ size = 0 /\ begin = 0

\* A program without a loop is one block.
Accepted(s) == ~HasLoop(s) \/ LoopAccepted(s)

Parse ==
    /\ phase = "source"
    /\ Accepted(source)
    /\ program' = Parsed(source.code, source.target)
    /\ phase' = "BB0"
    /\ todo' = InBlock(program', "BB0")
    /\ row' = [a \in DOMAIN program'.code |-> None]
    /\ slot' = [a \in DOMAIN program'.code |-> "ALU0"]
    /\ UNCHANGED <<source, size, begin>>

ParseError ==
    /\ phase = "source"
    /\ ~Accepted(source)
    /\ phase' = "failed"
    /\ UNCHANGED <<source, program, todo, row, slot, size, begin>>

-----------------------------------------------------------------------------
(* Placing the instructions of a block *)

\* Where the operands of instruction a let it stand in the schedule of its block.
Bounds(a) ==
    {Ready(d.producer) : d \in LocalDependencies(program, a)}
    \cup (IF phase = "BB2"
          THEN {Ready(d.producer) - size : d \in PostLoopDependencies(program, a)} ELSE {})

\* Slip: the last bound is taken instead of the largest of it and 0.
EarliestUnclamped(a) == IF Bounds(a) = {} THEN 0 ELSE Largest(Bounds(a))

EarliestCycle(a) == Greatest(Bounds(a), 0)

\* The slots in use in these cycles of the block's schedule.
Occupied(cycles) ==
    {at \in cycles \X Slot :
        \E a \in Placed(InBlock(program, phase)) : at = <<row[a], slot[a]>>}

\* The search ends at the end of the schedule at the latest.
SearchedCycles(a) ==
    EarliestCycle(a) .. EarliestCycle(a) + Cardinality(Placed(InBlock(program, phase)))

PlaceInstruction ==
    /\ phase \in {"BB0", "BB1", "BB2"}
    /\ todo # {}
    /\ LET a == Smallest(todo)
           cycles == SearchedCycles(a)
       IN  /\ \E at \in Places(Code(a).unit, cycles, Occupied(cycles)) :
                 /\ row' = [row EXCEPT ![a] = at.cycle]
                 /\ slot' = [slot EXCEPT ![a] = at.slot]
           /\ todo' = todo \ {a}
    /\ UNCHANGED <<source, program, phase, size, begin>>

-----------------------------------------------------------------------------
(* Finishing a block *)

\* The cycles that the instructions at these addresses take up.
SizeOf(addresses) == Greatest({row[a] + 1 : a \in addresses}, 0)

FinishBB0 ==
    /\ phase = "BB0" /\ todo = {}
    /\ HasLoop(program)
    /\ size' = SizeOf(InBlock(program, "BB0"))
    /\ todo' = Body
    /\ phase' = "BB1"
    /\ UNCHANGED <<source, program, row, slot, begin>>

FinishStraightLine ==
    /\ phase = "BB0" /\ todo = {}
    /\ ~HasLoop(program)
    /\ size' = SizeOf(InBlock(program, "BB0"))
    /\ phase' = "scheduled"
    /\ UNCHANGED <<source, program, todo, row, slot, begin>>

\* The cycles from one iteration to the next: what the units and the body take, and
\* what the values carried over need.
Interval ==
    Greatest({SizeOf(Body), ResourceInterval(program)},
             Greatest(UNION {{Ready(d.previous) - row[a] :
                                d \in InterloopDependencies(program, a)} : a \in Body}, 0))

\* The first iteration reads these results of BB0.
EnteringLoop ==
    (UNION {{d.producer : d \in InvariantDependencies(program, a)
                                     \cup InterloopDependencies(program, a)} : a \in Body}) \ {0}

\* Slip: the loop is not held back.
NoPadding == 0

\* Empty cycles before the loop, until every result of BB0 it reads is there.
Padding == Greatest({Ready(b) - size : b \in EnteringLoop}, 0)

\* Slip: the loop instruction keeps its target in the schedule of its block.
TargetInBlock == 0

\* Slip: bundles count from 1.
TargetFromOne == size + Padding + 1

LoopTarget == size + Padding

FinishBB1 ==
    /\ phase = "BB1" /\ todo = {}
    /\ size > 0
    /\ begin' = LoopTarget
    /\ row' = [a \in DOMAIN row |-> IF a \in Body THEN size + Padding + row[a]
                                    ELSE IF a = Control THEN size + Padding + Interval - 1
                                    ELSE row[a]]
    /\ slot' = [slot EXCEPT ![Control] = "Branch"]
    /\ size' = size + Padding + Interval
    /\ todo' = InBlock(program, "BB2")
    /\ phase' = "BB2"
    /\ UNCHANGED <<source, program>>

\* With nothing before the loop, joining the schedules asks for cycle -1, an error.
NothingBeforeLoop ==
    /\ phase = "BB1" /\ todo = {}
    /\ size = 0
    /\ phase' = "failed"
    /\ UNCHANGED <<source, program, todo, row, slot, size, begin>>

FinishBB2 ==
    /\ phase = "BB2" /\ todo = {}
    /\ row' = [a \in DOMAIN row |-> IF Block(program, a) = "BB2" THEN row[a] + size
                                    ELSE row[a]]
    /\ size' = size + SizeOf(InBlock(program, "BB2"))
    /\ phase' = "scheduled"
    /\ UNCHANGED <<source, program, todo, slot, begin>>

ScheduleNext ==
    \/ Parse \/ ParseError
    \/ PlaceInstruction
    \/ FinishBB0 \/ FinishStraightLine \/ FinishBB1 \/ NothingBeforeLoop \/ FinishBB2

=============================================================================
