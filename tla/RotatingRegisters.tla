------------------------- MODULE RotatingRegisters -------------------------
(***************************************************************************)
(* allocate_rotating_registers of HW2: new names for the registers of a    *)
(* schedule for loop.pip.                                                  *)
(*                                                                         *)
(* Every result of the loop body owns a window of stages + 1 rotating      *)
(* names.  Its value is written under the first of them, and one name      *)
(* higher for every stage or iteration that has passed since, because the  *)
(* names rotate whenever the loop goes back.  Values from before the loop  *)
(* that the loop carries on enter the window of the result that replaces   *)
(* them; everything else gets a static register of its own.                *)
(***************************************************************************)
EXTENDS LooppipScheduler

CONSTANTS
    LastStatic,     \* the last register that does not rotate (31)
    LastRotating    \* the last register (95)

VARIABLES
    dst,    \* the new name that each instruction writes: none, or one
    src     \* the new names of the operands of each instruction, in order

registerVars == <<dst, src>>

RegistersInit == dst = <<>> /\ src = <<>>

TheElement(S) == CHOOSE x \in S : TRUE

-----------------------------------------------------------------------------
(* The order of the schedule, and stages *)

SlotIndex == [ALU0 |-> 0, ALU1 |-> 1, Mult |-> 2, Mem |-> 3, Branch |-> 4]

Place(a) == 5 * cycle[a] + SlotIndex[slot[a]]

Stage(a) == relative[a] \div ii

-----------------------------------------------------------------------------
(* Rotating names *)

WindowSize == stages + 1

RotatingWriters == {a \in Body : Code(a).dst # {}}

Base(a) ==
    LastStatic + 1
        + WindowSize * Cardinality({b \in RotatingWriters : Place(b) < Place(a)})

\* The name of a result when this many stages have passed.
InWindow(a, offset) == Base(a) + (offset % WindowSize)

\* The instructions of BB0 whose value the first iteration takes for a carried one, and
\* the results that replace it.
CarriedFromBB0 == {d \in UNION {InterloopDependencies(program, a) : a \in Body} : d.producer # 0}
Initials == {d.producer : d \in CarriedFromBB0}
Replacement(b) == TheElement({d.previous : d \in {e \in CarriedFromBB0 : e.producer = b}})

RotatingFit == LastStatic + WindowSize * Cardinality(RotatingWriters) <= LastRotating

-----------------------------------------------------------------------------
(* Static names, in the order in which the passes give them *)

Invariants == UNION {InvariantDependencies(program, a) : a \in DOMAIN program.code}

FirstReader(b) ==
    Smallest({a \in DOMAIN program.code :
                 \E d \in InvariantDependencies(program, a) : d.producer = b})

FirstOperand(a, r) == Smallest({k \in DOMAIN Code(a).src : Code(a).src[k] = r})

\* The registers that instruction a reads and no instruction has written.
External(a) ==
    Reads(Code(a)) \ {d.reg : d \in LocalDependencies(program, a)
                                      \cup InterloopDependencies(program, a)
                                      \cup InvariantDependencies(program, a)
                                      \cup PostLoopDependencies(program, a)}

\* What gets a static name: <<pass, where the pass meets it, the operand, instruction>>.
InvariantClaims ==
    {<<1, FirstReader(d.producer), FirstOperand(FirstReader(d.producer), d.reg), d.producer>> :
        d \in Invariants}
RemainingClaims ==
    {<<2, a, 0, a>> : a \in {b \in DOMAIN program.code \ InBlock(program, "BB1") :
        Code(b).dst # {} /\ b \notin Initials /\ \A d \in Invariants : d.producer # b}}
ExternalClaims ==
    UNION {{<<3, Place(a), FirstOperand(a, r), a>> : r \in External(a)} :
              a \in DOMAIN program.code}
Claims == InvariantClaims \cup RemainingClaims \cup ExternalClaims

Before(c, d) ==
    \E k \in 1 .. 3 : c[k] < d[k] /\ \A j \in 1 .. k - 1 : c[j] = d[j]

StaticName(claim) == 1 + Cardinality({c \in Claims : Before(c, claim)})

StaticFit == Cardinality(Claims) <= LastStatic

-----------------------------------------------------------------------------
(* New names for results and operands *)

ResultName(a) ==
    IF a \in RotatingWriters THEN Base(a)
    ELSE IF a \in Initials THEN InWindow(Replacement(a), 1 - Stage(Replacement(a)))
    ELSE StaticName(TheElement({c \in InvariantClaims \cup RemainingClaims : c[4] = a}))

\* Slip: a carried value is looked for where this iteration's would be.
CarriedAsLocal(a, d) == InWindow(d.previous, Stage(a) - Stage(d.previous))

CarriedName(a, d) == InWindow(d.previous, Stage(a) - Stage(d.previous) + 1)

\* A value of the same block, or of the loop when it has ended.
LocalName(a, d) ==
    IF d.producer \in Body THEN InWindow(d.producer, Stage(a) - Stage(d.producer))
    ELSE ResultName(d.producer)

PostLoopName(d) == InWindow(d.producer, stages - 1 - Stage(d.producer))

\* The name under which instruction a reads register r.
OperandName(a, r) ==
    LET for(dependencies) == {d \in dependencies : d.reg = r}
    IN  TheElement(
            {LocalName(a, d) : d \in for(LocalDependencies(program, a))}
            \cup {CarriedName(a, d) : d \in for(InterloopDependencies(program, a))}
            \cup {ResultName(d.producer) : d \in for(InvariantDependencies(program, a))}
            \cup {PostLoopName(d) : d \in for(PostLoopDependencies(program, a))}
            \cup {StaticName(<<3, Place(a), FirstOperand(a, q), a>>) : q \in External(a) \cap {r}})

Allocate ==
    /\ phase = "done"
    /\ RotatingFit /\ StaticFit
    /\ dst' = [a \in DOMAIN program.code |->
                  IF Code(a).dst = {} THEN {} ELSE {ResultName(a)}]
    /\ src' = [a \in DOMAIN program.code |->
                  [k \in DOMAIN Code(a).src |-> OperandName(a, Code(a).src[k])]]
    /\ phase' = "allocated"

\* Too many results in the loop, or too many registers outside.
OutOfRegisters ==
    /\ phase = "done"
    /\ ~(RotatingFit /\ StaticFit)
    /\ phase' = "unallocated"
    /\ UNCHANGED registerVars

AllocateNext ==
    /\ Allocate \/ OutOfRegisters
    /\ UNCHANGED <<source, program, ii, todo, cycle, relative, slot, stages, start>>

=============================================================================
