--------------------------- MODULE LooppipBackend ---------------------------
(***************************************************************************)
(* The loop.pip path of HW2 from end to end: a program is scheduled for    *)
(* software pipelining, its registers are allocated, the schedule is       *)
(* prepared, and the machine runs the bundles.                             *)
(***************************************************************************)
EXTENDS LooppipPreparer

ASSUME LooppipBackendAssumption ==
    /\ LastStatic \in Nat \ {0}
    /\ LastRotating \in Nat /\ LastRotating > LastStatic
    /\ FirstRotating = LastStatic + 1
    /\ Register = 0 .. LastRotating
    /\ Reg \subseteq Register
    /\ MaxLaps \in Nat

vars == <<schedulerVars, registerVars, machineVars>>

Init == SchedulerInit /\ RegistersInit /\ MachineInit(<<>>)

Schedule == ScheduleNext /\ UNCHANGED <<registerVars, machineVars>>

AllocateRegisters == AllocateNext /\ UNCHANGED machineVars

\* The schedule is prepared and written, and the machine loads it.
Prepare ==
    /\ phase = "allocated"
    /\ NoConflict
    /\ code' = FinalSchedule
    /\ phase' = "running"
    /\ UNCHANGED <<source, program, ii, todo, cycle, relative, slot, stages, start>>
    /\ UNCHANGED <<pc, lc, ec, rrb, registers, predicates, multiplier, rest, lap, ran>>
    /\ UNCHANGED registerVars

Run ==
    /\ phase = "running"
    /\ Tick
    /\ UNCHANGED <<schedulerVars, registerVars>>

Halted == phase = "running" /\ ~Running

Stopped == phase \in {"rejected", "failed", "unallocated"} \/ Halted

Next == Schedule \/ AllocateRegisters \/ Prepare \/ Run \/ (Stopped /\ UNCHANGED vars)

Spec == Init /\ [][Next]_vars

\* Compiler and simulator are loops without other threads and go on until they stop:
\* weak fairness of Next, with the states in which nothing else can happen written out.
FairSpec == Spec /\ ([]<>Stopped \/ []<><<Next>>_vars)

-----------------------------------------------------------------------------
(* What the machine's state means *)

Times == Laps(program, Iterations)

\* The instance that an instruction executes when the loop has gone back so often, and
\* the name of the value that an instance computes.
InstanceAt(a, n) == <<a, IF Block(program, a) = "BB1" THEN n - Stage(a) ELSE 0>>

ValueOf(x) ==
    CASE Block(program, x[1]) = "BB0" -> <<x[1], 0>>
      [] Block(program, x[1]) = "BB1" -> <<x[1], x[2] + Stage(x[1])>>
      [] Block(program, x[1]) = "BB2" -> <<x[1], Times + stages - 2>>

\* What a register holds in a sequential run when instance x reads it.
MeantValue(x, r) ==
    LET from == Reaching(program, Times, x, r)
    IN  IF from = {} THEN Zero ELSE ValueOf(TheElement(from))

\* The instances executed so far.  loop.pip counts for the iteration whose last stage
\* it closes; before, it only fills the pipeline.
Executed470 ==
    {x \in {InstanceAt(e[1], e[2]) : e \in ran} : x[1] = Control => x[2] >= 0}

-----------------------------------------------------------------------------
(* Properties *)

TypeOK ==
    /\ PlacementsOK
    /\ phase \in {"source", "BB0", "BB1", "BB2", "done", "failed", "rejected",
                  "unallocated", "allocated", "running"}
    /\ \A a \in DOMAIN dst : dst[a] \subseteq Register \ {0}
    /\ \A a \in DOMAIN src : \A k \in DOMAIN src[a] : src[a][k] \in Register \ {0}
    /\ pc \in 0 .. Len(code) /\ lc \in Nat /\ ec \in Nat /\ rrb \in Nat
    /\ registers \in [Register -> (0 .. Len(program.code)) \X (0 .. MaxLaps)]
    /\ predicates \subseteq FirstRotating .. LastRotating
    /\ rest \in 0 .. 2 /\ lap \in 0 .. MaxLaps
    /\ ran \subseteq (DOMAIN program.code) \X (0 .. MaxLaps)

\* Initial values only enter windows of results of the first two stages.
InitialsInReach == \A b \in Initials : Stage(Replacement(b)) <= 1

\* When a result arrives, its register still bears a name of its window.
ResultsInWindow ==
    \A a \in RotatingWriters : ((relative[a] % ii) + Latency(Code(a)) - 1) \div ii <= stages

\* In the cycle in which an instruction executes, with its iteration's predicate on,
\* every operand holds the value that a sequential run would give it: across stages,
\* iterations, the fill and the drain of the pipeline, and the end of the loop.
ValuesArrive ==
    phase = "running" /\ InitialsInReach /\ ResultsInWindow =>
        \A op \in {o \in Active : o.name # NoName} : \A k \in DOMAIN op.src :
            registers[Physical(op.src[k])] =
                MeantValue(InstanceAt(op.name, lap), Code(op.name).src[k])

\* When the machine halts, it has executed every instruction in every iteration of the
\* sequential run and nothing else: predicates, loop count and epilogue count agree.
EveryInstanceRuns == Halted => Executed470 = Instances(program, Times)

\* The initial value that BB0 computes for a register carried around the loop is what
\* the first iteration reads, whatever the stage of the result that replaces it.
FirstIterationReadsInitial ==
    phase = "running" =>
        \A op \in {o \in Active : o.name \in Body} : \A k \in DOMAIN op.src :
            \A d \in InterloopDependencies(program, op.name) :
                (d.reg = Code(op.name).src[k] /\ d.producer # 0 /\ lap = Stage(op.name))
                    => registers[Physical(op.src[k])] = <<d.producer, 0>>

\* A destination owns its window: a product of the loop arrives in a register that
\* still bears a name of the window of its destination.
ProductsInWindow ==
    phase = "running" =>
        \A w \in multiplier[2] : w[2][1] \in Body =>
            \E n \in Base(w[2][1]) .. Base(w[2][1]) + stages : Physical(n) = w[1]

\* The base of the rotating registers stays below their number, the range that the
\* machine asserts when a program loads it, however often the loop goes back.
BaseInRange == rrb < Rotating

\* What is executed follows the data flow of the sequential run.
DataflowSpec == INSTANCE Dataflow470 WITH executed <- Executed470, Times <- Iterations
FollowsDataflow == DataflowSpec!Spec

\* Every program is compiled or refused, and the machine comes to the end of it.
Halts == <>Stopped

=============================================================================
