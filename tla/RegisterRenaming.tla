-------------------------- MODULE RegisterRenaming --------------------------
(***************************************************************************)
(* rename_registers of HW2, on the schedule of the plain loop backend:     *)
(* every result gets a register of its own, operands follow the            *)
(* dependencies to the registers of their producers, registers that are    *)
(* read but never written get the next numbers, and moves at the end of    *)
(* the loop copy the values carried over to the register in which the next *)
(* iteration expects them.                                                 *)
(*                                                                         *)
(* The code compares registers by their numbers alone, so that an operand  *)
(* already renamed may be taken for a register of the input program.       *)
(***************************************************************************)
EXTENDS LoopScheduler

CONSTANT MaxReg     \* the last general register (95)

VARIABLES
    dst,        \* the register each instruction writes: none, or one
    src,        \* the operands of each instruction, in order, renamed or not yet
    work,       \* the dependencies that operands have still to follow
    carried,    \* the interloop dependencies, their operands updated by the passes
    next,       \* the next unused register
    moves,      \* the moves inserted
    resolved    \* the registers that have been given a move

renamingVars == <<dst, src, work, carried, next, moves, resolved>>

RenamingInit ==
    /\ dst = <<>> /\ src = <<>>
    /\ work = {} /\ carried = {}
    /\ next = 1
    /\ moves = {} /\ resolved = {}

TheElement(S) == CHOOSE x \in S : TRUE

Operand(r, renamed) == [reg |-> r, renamed |-> renamed]

\* Bundle by bundle and slot by slot: the order in which the passes go through the
\* schedule.
SlotIndex == [ALU0 |-> 0, ALU1 |-> 1, Mult |-> 2, Mem |-> 3, Branch |-> 4]

Place(a) == 5 * row[a] + SlotIndex[slot[a]]

\* A dependency of instruction a, with its kind and the first operand that reads it.
Entries(a, kind, dependencies) ==
    {[at |-> a, kind |-> kind, dependency |-> d,
      operand |-> Smallest({k \in DOMAIN Code(a).src : Code(a).src[k] = d.reg})] :
        d \in dependencies}

AllDependencies(a) ==
    Entries(a, 1, LocalDependencies(program, a))
    \cup Entries(a, 2, InterloopDependencies(program, a))
    \cup Entries(a, 3, PostLoopDependencies(program, a))
    \cup Entries(a, 4, InvariantDependencies(program, a))

\* The entry that comes first in the order of the schedule, or of the table.
FirstInSchedule(entries) ==
    CHOOSE e \in entries : \A f \in entries \ {e} :
        \/ Place(e.at) < Place(f.at)
        \/ e.at = f.at /\ (e.kind < f.kind \/ (e.kind = f.kind /\ e.operand < f.operand))

FirstInTable(entries) ==
    CHOOSE e \in entries : \A f \in entries \ {e} :
        e.at < f.at \/ (e.at = f.at /\ e.operand < f.operand)

-----------------------------------------------------------------------------
(* Results *)

Writing == {a \in DOMAIN row : Code(a).dst # {}}

NumberOf(a) == Cardinality({b \in Writing : Place(b) <= Place(a)})

RenameProduced ==
    /\ phase = "scheduled"
    /\ Cardinality(Writing) <= MaxReg
    /\ dst' = [a \in DOMAIN row |-> IF a \in Writing THEN {NumberOf(a)} ELSE {}]
    /\ next' = Cardinality(Writing) + 1
    /\ src' = [a \in DOMAIN row |-> [k \in DOMAIN Code(a).src |->
                                        Operand(Code(a).src[k], FALSE)]]
    /\ work' = {e \in UNION {AllDependencies(a) : a \in DOMAIN row} :
                    e.dependency.producer # 0}
    /\ carried' = UNION {Entries(a, 2, InterloopDependencies(program, a)) : a \in DOMAIN row}
    /\ phase' = "operands"
    /\ UNCHANGED <<moves, resolved>>

TooManyResults ==
    /\ phase = "scheduled"
    /\ Cardinality(Writing) > MaxReg
    /\ phase' = "failed"
    /\ UNCHANGED renamingVars

-----------------------------------------------------------------------------
(* Operands with a producer *)

\* The operands of this name follow the dependency, renamed before or not.
Followed(operands, d) ==
    [k \in DOMAIN operands |-> IF operands[k].reg = d.reg
                               THEN Operand(TheElement(dst[d.producer]), TRUE)
                               ELSE operands[k]]

RenameOperand ==
    /\ phase = "operands"
    /\ work # {}
    /\ LET e == FirstInSchedule(work)
       IN  /\ src' = [src EXCEPT ![e.at] = Followed(@, e.dependency)]
           /\ work' = work \ {e}
    /\ UNCHANGED <<dst, carried, next, moves, resolved, phase>>

OperandsDone ==
    /\ phase = "operands"
    /\ work = {}
    /\ phase' = "starting"
    /\ UNCHANGED renamingVars

-----------------------------------------------------------------------------
(* Operands without a producer *)

Unrenamed ==
    UNION {{[at |-> a, kind |-> 0, operand |-> k] :
              k \in {j \in DOMAIN src[a] : ~src[a][j].renamed}} : a \in DOMAIN src}

\* The operand and the later ones of its name in the instruction get the next register;
\* the values carried into this instruction are expected there.
RenameStarting ==
    /\ phase = "starting"
    /\ Unrenamed # {}
    /\ next <= MaxReg
    /\ LET e == FirstInSchedule(Unrenamed)
           old == src[e.at][e.operand].reg
       IN  /\ src' = [src EXCEPT ![e.at] =
                         [k \in DOMAIN @ |->
                             IF k >= e.operand /\ @[k].reg = old /\ ~@[k].renamed
                             THEN Operand(next, TRUE) ELSE @[k]]]
           /\ carried' = {IF c.at = e.at /\ c.dependency.reg = old
                          THEN [c EXCEPT !.dependency.reg = next] ELSE c : c \in carried}
    /\ next' = next + 1
    /\ UNCHANGED <<dst, work, moves, resolved, phase>>

TooManyRegisters ==
    /\ phase = "starting"
    /\ Unrenamed # {}
    /\ next > MaxReg
    /\ phase' = "failed"
    /\ UNCHANGED renamingVars

StartingDone ==
    /\ phase = "starting"
    /\ Unrenamed = {}
    /\ phase' = "moves"
    /\ UNCHANGED renamingVars

-----------------------------------------------------------------------------
(* Moves at the end of the loop *)

Carry == FirstInTable(carried).dependency

\* Where the next iteration expects the value: in the register that BB0 writes, or the
\* one that the operand was given.
Expected == IF Carry.producer # 0 THEN TheElement(dst[Carry.producer]) ELSE Carry.reg

\* Slip: the moves inserted before are forgotten.
FreeOfInstructions(r) ==
    {s \in {"ALU0", "ALU1"} : \A a \in DOMAIN row : row[a] = r => slot[a] # s}

FreeALUs(r) ==
    {s \in {"ALU0", "ALU1"} : /\ \A a \in DOMAIN row : row[a] = r => slot[a] # s
                              /\ \A m \in moves : m.row = r => m.slot # s}

\* The move follows the result it copies; beside the loop instruction if it can, and
\* otherwise in a new bundle, to which the loop instruction comes with it.
MoveRow ==
    LET earliest == Greatest({Ready(Carry.previous)}, row[Control])
    IN  IF earliest = row[Control] /\ FreeALUs(earliest) = {} THEN earliest + 1
        ELSE earliest

InsertMove ==
    /\ phase = "moves"
    /\ carried # {}
    /\ Carry.reg \notin resolved
    /\ LET at == MoveRow
           added == at - row[Control]
           free == IF added > 0 THEN {"ALU0", "ALU1"} ELSE FreeALUs(at)
       IN  /\ moves' = moves \cup
                   {[row |-> at, slot |-> IF "ALU0" \in free THEN "ALU0" ELSE "ALU1",
                     from |-> TheElement(dst[Carry.previous]), to |-> Expected]}
           /\ row' = [a \in DOMAIN row |-> IF Block(program, a) = "BB2" \/ a = Control
                                           THEN row[a] + added ELSE row[a]]
           /\ size' = size + added
    /\ resolved' = resolved \cup {Expected}
    /\ carried' = carried \ {FirstInTable(carried)}
    /\ UNCHANGED <<dst, src, work, next, phase>>

\* A dependency whose operand bears the name of a register that has a move.
SkipMove ==
    /\ phase = "moves"
    /\ carried # {}
    /\ Carry.reg \in resolved
    /\ carried' = carried \ {FirstInTable(carried)}
    /\ UNCHANGED <<dst, src, work, next, moves, resolved, phase, row, size>>

MovesDone ==
    /\ phase = "moves"
    /\ carried = {}
    /\ phase' = "renamed"
    /\ UNCHANGED renamingVars

\* All passes but the moves leave the schedule alone.
RenameNext ==
    /\ \/ /\ \/ RenameProduced \/ TooManyResults
             \/ RenameOperand \/ OperandsDone
             \/ RenameStarting \/ TooManyRegisters \/ StartingDone
             \/ MovesDone
          /\ UNCHANGED <<row, size>>
       \/ InsertMove
       \/ SkipMove
    /\ UNCHANGED <<source, program, todo, slot, begin>>

=============================================================================
