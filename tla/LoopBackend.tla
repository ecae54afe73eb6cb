----------------------------- MODULE LoopBackend -----------------------------
(***************************************************************************)
(* The plain loop path of HW2 from end to end: a program is scheduled, its *)
(* registers are renamed, and the machine runs the bundles.                *)
(***************************************************************************)
EXTENDS RegisterRenaming, VLIW470, FiniteSets

CONSTANT Iterations     \* of the loop, as the program's mov LC says

ASSUME LoopBackendAssumption ==
    /\ Iterations \in Nat \ {0}
    /\ MaxReg \in Nat
    /\ Register = 0 .. MaxReg
    /\ Reg \subseteq Register
    /\ MaxLaps \in Nat /\ MaxLaps >= Iterations

vars == <<schedulerVars, renamingVars, machineVars>>

Init == SchedulerInit /\ RenamingInit /\ MachineInit(<<>>)

Schedule == ScheduleNext /\ UNCHANGED <<renamingVars, machineVars>>

Rename == RenameNext /\ UNCHANGED machineVars

-----------------------------------------------------------------------------
(* The bundles of the finished schedule *)

ProgramOperation(a) ==
    Operation(a, slot[a], {}, dst[a], [k \in DOMAIN src[a] |-> src[a][k].reg],
              IF Code(a) = MovSpecial THEN {<<"LC", Iterations - 1>>} ELSE {},
              IF Code(a).unit = "Branch" THEN {begin} ELSE {}, FALSE)

MoveOperation(m) == Operation(0, m.slot, {}, {m.to}, <<m.from>>, {}, {}, FALSE)

Encoded ==
    [r \in 1 .. size |-> {ProgramOperation(a) : a \in {b \in DOMAIN row : row[b] = r - 1}}
                            \cup {MoveOperation(m) : m \in {n \in moves : n.row = r - 1}}]

\* The schedule is written, and the machine loads it.
Load ==
    /\ phase = "renamed"
    /\ code' = Encoded
    /\ phase' = "running"
    /\ UNCHANGED <<source, program, todo, row, slot, size, begin>>
    /\ UNCHANGED <<pc, lc, ec, rrb, registers, predicates, multiplier, rest, lap, ran>>
    /\ UNCHANGED renamingVars

Run ==
    /\ phase = "running"
    /\ Tick
    /\ UNCHANGED <<schedulerVars, renamingVars>>

Halted == phase = "running" /\ ~Running

Stopped == phase = "failed" \/ Halted

Next == Schedule \/ Rename \/ Load \/ Run \/ (Stopped /\ UNCHANGED vars)

Spec == Init /\ [][Next]_vars

\* Compiler and simulator are loops without other threads and go on until they stop:
\* weak fairness of Next, with the states in which nothing else can happen written out.
FairSpec == Spec /\ ([]<>Stopped \/ []<><<Next>>_vars)

-----------------------------------------------------------------------------
(* Properties *)

TypeOK ==
    /\ source.code \in Seq(Instruction \cup {Nop}) /\ source.target \in Int
    /\ program \in Program
    /\ phase \in {"source", "BB0", "BB1", "BB2", "scheduled", "operands", "starting",
                  "moves", "renamed", "running", "failed"}
    /\ todo \subseteq DOMAIN program.code
    /\ row \in [DOMAIN program.code -> Nat \cup {None}]
    /\ slot \in [DOMAIN program.code -> Slot]
    /\ size \in Nat /\ begin \in Nat
    /\ \A a \in DOMAIN dst : dst[a] \subseteq Register
    /\ \A a \in DOMAIN src : \A k \in DOMAIN src[a] :
            src[a][k].reg \in Register /\ src[a][k].renamed \in BOOLEAN
    /\ next \in 1 .. MaxReg + 1
    /\ \A m \in moves : m.row \in Nat /\ m.slot \in Slot /\ {m.from, m.to} \subseteq Register
    /\ resolved \subseteq Register
    /\ pc \in 0 .. Len(code) /\ lc \in Nat /\ ec = 0 /\ rrb = 0 /\ predicates = {} /\ rest \in 0 .. 2 /\ lap \in Nat
    /\ registers \in [Register -> (0 .. Len(program.code)) \X Nat]

\* Every bundle has at most one operation a slot, and the bundles hold every instruction
\* of the program once, and every move, also after moves have pushed the loop
\* instruction and what follows it to later bundles.
NothingLost ==
    phase = "renamed" =>
        /\ Placed(DOMAIN row) = DOMAIN program.code
        /\ \A a \in DOMAIN row : row[a] < size
        /\ Cardinality({<<row[a], slot[a]>> : a \in DOMAIN row}
                          \cup {<<m.row, m.slot>> : m \in moves})
              = Len(program.code) + Cardinality(moves)

Times == Laps(program, Iterations)

\* The instance that an instruction executes when the loop has gone back so often, and
\* the value that an instance computes, as the machine names it.
InstanceAt(a, n) == <<a, IF Block(program, a) = "BB1" THEN n ELSE 0>>
Value(x) == IF Block(program, x[1]) = "BB2" THEN <<x[1], lap>> ELSE x

\* The value that operand k of instruction a should hold in this iteration.
Meant(a, k) ==
    LET from == Reaching(program, Times, InstanceAt(a, lap), Code(a).src[k])
    IN  IF from = {} THEN Zero ELSE Value(TheElement(from))

OperandsHoldTheirValues ==
    phase = "running" =>
        \A op \in Bundle : op.name # 0 =>
            \A k \in DOMAIN op.src : registers[op.src[k]] = Meant(op.name, k)

\* No register that renaming has used bears the name of one of the input program.
NamesApart ==
    \A a \in DOMAIN src : dst[a] \cap Reg = {}
                            /\ \A k \in DOMAIN src[a] : src[a][k].reg \notin Reg

\* On the machine, every operand of every instruction in every iteration holds, in the
\* cycle in which its bundle is read, the value that a sequential run would give it:
\* through latencies, empty cycles, new registers and moves.
ValuesArrive == NamesApart => OperandsHoldTheirValues

\* After renaming, every operand names the register that the producer of its dependency
\* writes, also where registers of the input program bear numbers that are given again.
OperandsFollowDependencies ==
    phase = "starting" =>
        \A a \in DOMAIN src : \A k \in DOMAIN src[a] :
            \A d \in LocalDependencies(program, a) \cup PostLoopDependencies(program, a)
                        \cup InvariantDependencies(program, a) :
                d.reg = Code(a).src[k] => src[a][k].reg \in dst[d.producer]

\* When renaming ends, every value carried into the next iteration has a move that brings
\* it to the register in which its reader expects it, whatever the numbers of the registers
\* of the input program.
CarriedValuesMoved ==
    phase = "renamed" =>
        \A a \in DOMAIN src : \A k \in DOMAIN src[a] :
            \A d \in InterloopDependencies(program, a) :
                d.reg = Code(a).src[k] =>
                    \E m \in moves : m.from \in dst[d.previous] /\ m.to = src[a][k].reg

Executed470 == {InstanceAt(e[1], e[2]) : e \in ran}

\* When the machine halts, it has executed every instruction in every iteration of the
\* sequential run and nothing else, also when moves stand behind the loop instruction.
EveryInstanceRuns == Halted => Executed470 = Instances(program, Times)

\* What is executed follows the data flow of the sequential run.
DataflowSpec == INSTANCE Dataflow470 WITH executed <- Executed470, Times <- Iterations
FollowsDataflow == DataflowSpec!Spec

\* Every program is compiled or refused, and the machine comes to the end of it.
Halts == <>Stopped

=============================================================================
