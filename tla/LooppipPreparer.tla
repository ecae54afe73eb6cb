--------------------------- MODULE LooppipPreparer ---------------------------
(***************************************************************************)
(* prepare_looppip_schedule of HW2: from a schedule whose registers are    *)
(* allocated to the bundles that the machine loads.                        *)
(*                                                                         *)
(* Two instructions are added before the loop: EC gets the number of       *)
(* stages less one, and the first rotating predicate becomes true.  The    *)
(* stages of the loop body are laid over each other in ii bundles, each    *)
(* instruction subject to the predicate of its stage, with loop.pip, which *)
(* is subject to none, in the last.  What follows the loop moves up.       *)
(***************************************************************************)
EXTENDS RotatingRegisters, VLIW470

\* Instructions that the preparer adds have this name.
NoName == 0

-----------------------------------------------------------------------------
(* The bundles before the loop *)

\* Where an instruction is put into so many bundles: in the latest that has an ALU slot
\* free, or else in one more.
LatestPlace(size, taken) ==
    LET free == ((0 .. size - 1) \X {"ALU0", "ALU1"}) \ taken
        row == Greatest({at[1] : at \in free}, None)
    IN  IF free = {} THEN <<size, "ALU0">>
        ELSE <<row, IF <<row, "ALU0">> \in free THEN "ALU0" ELSE "ALU1">>

\* The number of bundles once one of them is used.
Including(size, place) == Greatest({place[1] + 1}, size)

BeforeLoop == Occupied(0 .. start - 1)

EpiloguePlace == LatestPlace(start, BeforeLoop)
PredicatePlace == LatestPlace(Including(start, EpiloguePlace), BeforeLoop \cup {EpiloguePlace})

\* The bundle that the loop begins with.
LoopBundle == Including(Including(start, EpiloguePlace), PredicatePlace)

\* Slip: the loop goes back to the first bundle of all.
ToFirstBundle == 0

\* Where loop.pip goes back to.
LoopTarget == LoopBundle

Initializations ==
    {<<EpiloguePlace[1], Operation(NoName, EpiloguePlace[2], {}, {}, <<>>,
                                   {<<"EC", stages - 1>>}, {}, FALSE)>>,
     <<PredicatePlace[1], Operation(NoName, PredicatePlace[2], {}, {}, <<>>,
                                    {<<"p", FirstRotating>>}, {}, FALSE)>>}

-----------------------------------------------------------------------------
(* The whole program *)

\* The bundle that an instruction comes to stand in.
BundleOf(a) ==
    CASE Block(program, a) = "BB0" -> cycle[a]
      [] Block(program, a) = "BB1" -> LoopBundle + ((cycle[a] - start) % ii)
      [] Block(program, a) = "BB2" -> LoopBundle + ii + (cycle[a] - start - stages * ii)

\* Slip: every instruction of the loop is subject to the first predicate.
FirstStagePredicate(a) == IF a \in Body THEN {FirstRotating} ELSE {}

StagePredicate(a) == IF a \in Body THEN {FirstRotating + Stage(a)} ELSE {}

PreparedOperation(a) ==
    Operation(a, slot[a], StagePredicate(a), dst[a], src[a],
              IF Code(a) = MovSpecial THEN {<<"LC", Iterations - 1>>} ELSE {},
              IF a = Control THEN {LoopTarget} ELSE {}, a = Control)

Positioned ==
    {<<BundleOf(a), PreparedOperation(a)>> : a \in DOMAIN program.code} \cup Initializations

\* Two instructions of one slot are an error.
NoConflict ==
    Cardinality({<<x[1], x[2].slot>> : x \in Positioned}) = Cardinality(Positioned)

\* Empty bundles behind the last instruction are dropped.
FinalSchedule ==
    [n \in 1 .. Greatest({x[1] : x \in Positioned}, None) + 1 |->
        {x[2] : x \in {y \in Positioned : y[1] = n - 1}}]

=============================================================================
