------------------------------ MODULE VLIW470 ------------------------------
(***************************************************************************)
(* The VLIW470 machine, from the simulator in HW2/simulator: one bundle a  *)
(* cycle, no interlocks, so that an operand is whatever its register holds *)
(* when the bundle is read.  ALU and memory results are written at the end *)
(* of the cycle, products at the end of the second cycle after.  loop goes *)
(* back while the loop counter is positive; loop.pip does too, then drains *)
(* by the epilogue counter, and each time rotates the names of the upper   *)
(* registers and predicates by one.                                        *)
(*                                                                         *)
(* A register holds the name of the value in it: the instruction that      *)
(* computed it, and how often the loop had gone back when it did so.  The  *)
(* data memory is left out, whose order the compiler does not keep.        *)
(***************************************************************************)
EXTENDS Integers, Sequences, FiniteSets

CONSTANTS
    Register,       \* the general registers, and the predicates (0 .. 95)
    FirstRotating,  \* the first of those whose names rotate (32)
    MaxLaps         \* times of going back that are told apart

VARIABLES
    code,           \* the bundles: sets of operations
    pc,
    lc, ec,         \* the loop counter and the epilogue counter
    rrb,            \* the rotating register base
    registers,      \* the value in each general register
    predicates,     \* the predicate registers that are true
    multiplier,     \* what the two stages behind the first will write
    rest,           \* cycles left when the last bundle has been read
    lap,            \* times the loop has gone back so far
    ran             \* history: the operations executed, with the lap

machineVars ==
    <<code, pc, lc, ec, rrb, registers, predicates, multiplier, rest, lap, ran>>

\* What every register holds at first.
Zero == <<0, 0>>

MachineInit(bundles) ==
    /\ code = bundles
    /\ pc = 0 /\ lc = 0 /\ ec = 0 /\ rrb = 0
    /\ registers = [r \in Register |-> Zero]
    /\ predicates = {}
    /\ multiplier = <<{}, {}>>
    /\ rest = 2
    /\ lap = 0
    /\ ran = {}

\* An operation: what it is called (0 if it is not of the program), its slot, the
\* predicates it is subject to, the registers it reads and the one it writes, the
\* special registers it loads, and, of a loop, the bundle it goes back to.
Operation(name, slot, guard, dst, src, loads, target, pipelined) ==
    [name |-> name, slot |-> slot, guard |-> guard, dst |-> dst, src |-> src,
     loads |-> loads, target |-> target, pipelined |-> pipelined]

-----------------------------------------------------------------------------
(* Rotation *)

Rotating == Cardinality(Register) - FirstRotating

\* The register behind a name.  The base is not reduced modulo Rotating, and a number
\* below 0 counts from the end of the register file.
RegisterBehind(name, base) ==
    LET potential == name - base
    IN  IF name < FirstRotating THEN name
        ELSE (IF potential < FirstRotating THEN potential + Rotating ELSE potential)
                % Cardinality(Register)

Physical(name) == RegisterBehind(name, rrb)

-----------------------------------------------------------------------------
(* A cycle *)

\* The operations read in this cycle, none beyond the last bundle, and those of them
\* whose predicates are true.
Bundle == IF pc < Len(code) THEN code[pc + 1] ELSE {}

Active == {op \in Bundle : \A p \in op.guard : Physical(p) \in predicates}

\* What an operation computes: a new value, or a copy.
Result(op) == IF op.name = 0 THEN registers[Physical(op.src[1])] ELSE <<op.name, lap>>

\* What the operation in a slot writes.
Writes(slot) ==
    UNION {{<<Physical(d), Result(op)>> : d \in op.dst} : op \in {o \in Active : o.slot = slot}}

\* The register file after these writes.
After(file, writes) ==
    [r \in Register |-> IF \E w \in writes : w[1] = r
                        THEN (CHOOSE w \in writes : w[1] = r)[2] ELSE file[r]]

\* A special register, with what this cycle loads into it.
Loaded(special, old) ==
    LET loads == {l \in UNION {op.loads : op \in Active} : l[1] = special}
    IN  IF loads = {} THEN old ELSE (CHOOSE l \in loads : TRUE)[2]

LoopCount == Loaded("LC", lc)
EpilogueCount == Loaded("EC", ec)

\* The branch slot's operation, if it is a loop.
Branches == {op \in Active : op.target # {}}
Pipelined == \E op \in Branches : op.pipelined

\* The predicates with those that this cycle makes true.
Predicated ==
    predicates \cup {Physical(l[2]) : l \in {k \in UNION {op.loads : op \in Active} : k[1] = "p"}}

\* Slip: the first stage stays on while the pipeline drains.
AlwaysStarting(next, base) == Predicated \cup {RegisterBehind(FirstRotating, base)}

\* loop.pip says whether another iteration enters the first stage.
Starting(next, base) ==
    LET first == {RegisterBehind(FirstRotating, base)}
    IN  IF next THEN Predicated \cup first ELSE Predicated \ first

Back ==
    /\ pc' = CHOOSE t \in UNION {op.target : op \in Branches} : TRUE
    /\ lap' = IF lap < MaxLaps THEN lap + 1 ELSE lap
    /\ rrb' = IF Pipelined /\ rrb < MaxLaps THEN rrb + 1 ELSE rrb

Repeat ==
    /\ Branches # {} /\ LoopCount > 0
    /\ Back
    /\ lc' = LoopCount - 1 /\ ec' = EpilogueCount
    /\ predicates' = IF Pipelined THEN Starting(TRUE, rrb') ELSE Predicated

Drain ==
    /\ Pipelined /\ LoopCount = 0 /\ EpilogueCount > 0
    /\ Back
    /\ lc' = LoopCount /\ ec' = EpilogueCount - 1
    /\ predicates' = Starting(FALSE, rrb')

Proceed ==
    /\ Branches = {} \/ (LoopCount = 0 /\ (Pipelined => EpilogueCount = 0))
    /\ pc' = IF pc < Len(code) THEN pc + 1 ELSE pc
    /\ lc' = LoopCount /\ ec' = EpilogueCount
    /\ predicates' = IF Pipelined THEN Starting(FALSE, rrb) ELSE Predicated
    /\ UNCHANGED <<lap, rrb>>

Running == pc < Len(code) \/ rest > 0

\* The writes of a cycle in the order in which the simulator makes them.
Tick ==
    /\ Running
    /\ registers' = After(After(After(After(registers, Writes("ALU0")), Writes("ALU1")),
                                Writes("Mem")), multiplier[2])
    /\ multiplier' = <<Writes("Mult"), multiplier[1]>>
    /\ Repeat \/ Drain \/ Proceed
    /\ rest' = IF pc < Len(code) THEN rest ELSE rest - 1
    /\ ran' = ran \cup {<<op.name, lap>> : op \in {o \in Active : o.name # 0}}
    /\ UNCHANGED code

=============================================================================
