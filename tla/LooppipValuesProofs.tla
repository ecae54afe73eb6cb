------------------------ MODULE LooppipValuesProofs ------------------------
(***************************************************************************)
(* What the registers of the machine hold while it runs a program of the   *)
(* loop.pip path, for every set of programs, every schedule and every size *)
(* of the register file: each operand is what a sequential run would read. *)
(*                                                                         *)
(* The invariant FileInv speaks of registers and time only: a register     *)
(* holds the result that has arrived in it last, whatever was meant to be  *)
(* there.  It is inductive because the machine's clock, counted over all   *)
(* laps, says which results are in the multiplier and which are not.  What *)
(* a name stands for is a matter of the allocation: rotation takes a name  *)
(* of a window to the register of the result of one lap, no other result   *)
(* comes to this register until the loop has gone round the whole window,  *)
(* and a static register has one writer.  So the result that an operand    *)
(* names is the one in its register if it has arrived, and the schedule    *)
(* makes it arrive in time.                                                *)
(***************************************************************************)
EXTENDS LooppipSchedulerProofs

-----------------------------------------------------------------------------
(* Slots and units *)

\* Every instruction has a slot that it can take.
UnitSlots ==
    Working => \A a \in (Placed \cup PlacedInBody) \ {Control} : SuitsUnit(Code(a).unit, slot[a])

\* The scheduler gives each instruction a slot of its unit.
LEMMA UnitSlotsStep ==
    ASSUME ScheduleInv, UnitSlots, [ScheduleNext]_schedulerVars
    PROVE  UnitSlots'
  <1>1. ASSUME NEW p, Restart(p) PROVE Placed' = {} /\ PlacedInBody' = {}
    BY <1>1 DEF Restart, Placed, PlacedInBody
  <1>2. ASSUME NextInterval PROVE UnitSlots'
    <2>1. phase' = "failed" \/ (Placed' = {} /\ PlacedInBody' = {})
      BY <1>1, <1>2 DEF NextInterval
    <2> QED
      BY <2>1 DEF UnitSlots, Working
  <1>3. ASSUME UNCHANGED <<program, cycle, relative, slot>>, Working' => Working
        PROVE  UnitSlots'
    <2>1. Placed' = Placed /\ PlacedInBody' = PlacedInBody /\ Control' = Control
      BY <1>3 DEF Placed, PlacedInBody, Control
    <2> QED
      BY <1>3, <2>1 DEF UnitSlots, Code
  <1>4. CASE Parse
    BY <1>1, <1>4 DEF Parse, UnitSlots
  <1>5. CASE ParseError \/ NoCycleLeft \/ FinishBB0 \/ FinishBB2
    <2>1. UNCHANGED <<program, cycle, relative, slot>> /\ (Working' => Working)
      BY <1>5 DEF ParseError, NoCycleLeft, FinishBB0, FinishBB2, Working
    <2> QED
      BY <1>3, <2>1
  <1>6. CASE NoPlaceInBody \/ BodyTooSlow
    BY <1>2, <1>6 DEF NoPlaceInBody, BodyTooSlow
  <1>7. CASE PlaceInCycle
    <2>1. phase \in {"BB0", "BB2"} /\ Working /\ UNCHANGED <<program, phase, relative>>
      BY <1>7 DEF PlaceInCycle, Working
    <2>2. PICK a, c, s : Placing(a, c, s)
      BY <1>7, PlaceInCycleIs
    <2>3. /\ a \in todo /\ SuitsUnit(Code(a).unit, s)
          /\ cycle' = [cycle EXCEPT ![a] = c] /\ slot' = [slot EXCEPT ![a] = s]
      BY <2>2 DEF Placing
    <2>4. /\ DOMAIN cycle = DOMAIN program.code /\ DOMAIN slot = DOMAIN program.code
          /\ DOMAIN relative = DOMAIN program.code /\ a \in DOMAIN program.code
      BY <2>1, <2>3, StateIs
    <2>5. /\ Placed' \subseteq Placed \cup {a} /\ PlacedInBody' = PlacedInBody
          /\ Control' = Control
      BY <2>1, <2>3, <2>4 DEF Placed, PlacedInBody, Control
    <2>6. \A b \in (Placed' \cup PlacedInBody') \ {Control} : SuitsUnit(Code(b).unit, slot'[b])
      <3> TAKE b \in (Placed' \cup PlacedInBody') \ {Control}
      <3>1. b \in DOMAIN program.code
        BY <2>4, <2>5 DEF Placed, PlacedInBody
      <3>2. CASE b = a
        BY <2>3, <2>4, <3>2
      <3>3. CASE b # a
        <4>1. b \in (Placed \cup PlacedInBody) \ {Control} /\ slot'[b] = slot[b]
          BY <2>3, <2>4, <2>5, <3>1, <3>3
        <4> QED
          BY <2>1, <4>1 DEF UnitSlots
      <3> QED
        BY <3>2, <3>3
    <2> QED
      BY <2>1, <2>5, <2>6 DEF UnitSlots, Code
  <1>8. CASE PlaceModulo
    <2>1. phase = "BB1" /\ Working /\ UNCHANGED <<program, phase, cycle>>
      BY <1>8 DEF PlaceModulo, Working
    <2>2. PICK a, c, s : PlacingModulo(a, c, s)
      BY <1>8, PlaceModuloIs
    <2>3. /\ a \in todo /\ SuitsUnit(Code(a).unit, s)
          /\ relative' = [relative EXCEPT ![a] = c] /\ slot' = [slot EXCEPT ![a] = s]
      BY <2>2 DEF PlacingModulo
    <2>4. /\ DOMAIN cycle = DOMAIN program.code /\ DOMAIN slot = DOMAIN program.code
          /\ DOMAIN relative = DOMAIN program.code /\ a \in DOMAIN program.code
      BY <2>1, <2>3, StateIs
    <2>5. /\ Placed' = Placed /\ PlacedInBody' \subseteq PlacedInBody \cup {a}
          /\ Control' = Control
      BY <2>1, <2>3, <2>4 DEF Placed, PlacedInBody, Control
    <2>6. \A b \in (Placed' \cup PlacedInBody') \ {Control} : SuitsUnit(Code(b).unit, slot'[b])
      <3> TAKE b \in (Placed' \cup PlacedInBody') \ {Control}
      <3>1. b \in DOMAIN program.code
        BY <2>4, <2>5 DEF Placed, PlacedInBody
      <3>2. CASE b = a
        BY <2>3, <2>4, <3>2
      <3>3. CASE b # a
        <4>1. b \in (Placed \cup PlacedInBody) \ {Control} /\ slot'[b] = slot[b]
          BY <2>3, <2>4, <2>5, <3>1, <3>3
        <4> QED
          BY <2>1, <4>1 DEF UnitSlots
      <3> QED
        BY <3>2, <3>3
    <2> QED
      BY <2>1, <2>5, <2>6 DEF UnitSlots, Code
  <1>9. CASE AcceptBody
    <2>1. phase = "BB1" /\ Working /\ todo = {} /\ program' = program
      BY <1>9 DEF AcceptBody, Working
    <2>2. /\ PlacedInBody = Body /\ Placed = InBlock(program, "BB0")
          /\ DOMAIN slot = DOMAIN program.code /\ DOMAIN cycle = DOMAIN program.code
          /\ Body = InBlock(program, "BB1") \ {Control}
      BY <2>1, StateIs, AddressesAre DEF ScheduleInv, Progress
    <2>3. slot' = [slot EXCEPT ![Control] = "Branch"]
      BY <1>9 DEF AcceptBody
    <2>4. PlacedInBody' \subseteq PlacedInBody \cup {Control}
      <3>1. \E n : relative' = [relative EXCEPT ![Control] = n]
        BY <1>9 DEF AcceptBody
      <3> QED
        BY <3>1 DEF PlacedInBody
    <2>5. Placed' \subseteq Placed \cup InBlock(program, "BB1")
      <3>1. /\ DOMAIN cycle' = DOMAIN cycle
            /\ \A b \in DOMAIN cycle \ InBlock(program, "BB1") : cycle'[b] = cycle[b]
        BY <1>9 DEF AcceptBody
      <3> QED
        BY <3>1 DEF Placed
    <2>6. Control' = Control
      BY <2>1 DEF Control
    <2>7. \A b \in (Placed' \cup PlacedInBody') \ {Control} : SuitsUnit(Code(b).unit, slot'[b])
      <3> TAKE b \in (Placed' \cup PlacedInBody') \ {Control}
      <3>1. b \in (Placed \cup PlacedInBody) \ {Control}
        BY <2>2, <2>4, <2>5
      <3>2. b \in DOMAIN slot
        BY <2>2, <3>1 DEF Placed, PlacedInBody, Body, InBlock
      <3>3. slot'[b] = slot[b]
        BY <2>3, <3>1, <3>2
      <3> QED
        BY <2>1, <3>1, <3>3 DEF UnitSlots
    <2> QED
      BY <2>1, <2>6, <2>7 DEF UnitSlots, Code
  <1>10. CASE UNCHANGED schedulerVars
    <2>1. UNCHANGED <<program, cycle, relative, slot>> /\ (Working' => Working)
      BY <1>10 DEF schedulerVars, Working
    <2> QED
      BY <1>3, <2>1
  <1> QED
    BY <1>4, <1>5, <1>6, <1>7, <1>8, <1>9, <1>10 DEF ScheduleNext

\* It does so on the whole path.
LEMMA UnitSlotsKept == Spec => []UnitSlots
  <1>1. Init => UnitSlots
    BY DEF Init, SchedulerInit, UnitSlots, Working
  <1>2. ScheduleInv /\ UnitSlots /\ [Next]_vars => UnitSlots'
    <2> SUFFICES ASSUME ScheduleInv, UnitSlots, [Next]_vars PROVE UnitSlots'
      OBVIOUS
    <2>1. CASE Schedule
      BY <2>1, UnitSlotsStep DEF Schedule
    <2>2. CASE AllocateRegisters \/ Prepare
      BY <2>2 DEF AllocateRegisters, AllocateNext, Allocate, OutOfRegisters, Prepare,
                  UnitSlots, Working
    <2>3. CASE Run
      BY <2>3, UnitSlotsStep DEF Run
    <2>4. CASE UNCHANGED vars
      BY <2>4, UnitSlotsStep DEF vars
    <2> QED
      BY <2>1, <2>2, <2>3, <2>4 DEF Next
  <1> QED
    BY <1>1, <1>2, PathKept, PTL DEF Spec

-----------------------------------------------------------------------------
(* What the finished schedule keeps for the machine *)

\* No two instructions are in one slot of one cycle, each has a slot of its unit, and each
\* is behind the latency of those it reads from.
Exact ==
    Scheduled =>
        /\ slot \in [DOMAIN program.code -> Slot]
        /\ \A a \in DOMAIN program.code \ {Control} : SuitsUnit(Code(a).unit, slot[a])
        /\ \A a, b \in DOMAIN program.code : cycle[a] = cycle[b] /\ slot[a] = slot[b] => a = b
        /\ \A a \in DOMAIN program.code \ InBlock(program, "BB1") :
              \A d \in TimedDependencies(a) : Ready(d.producer, cycle[d.producer]) <= cycle[a]
        /\ \A a \in Body :
              /\ \A d \in LocalDependencies(program, a) :
                    Ready(d.producer, relative[d.producer]) <= relative[a]
              /\ \A d \in InterloopDependencies(program, a) :
                    Ready(d.previous, relative[d.previous]) <= relative[a] + ii
              /\ \A d \in InvariantDependencies(program, a)
                             \cup InterloopDependencies(program, a) :
                    d.producer # 0 => Ready(d.producer, cycle[d.producer]) <= cycle[a]

\* The scheduler's result is exact.
LEMMA DoneExact ==
    ASSUME ScheduleInv, UnitSlots, phase = "done"
    PROVE  Exact
  <1>1. /\ Working /\ LoopPlaced /\ Splittable(program)
        /\ Placed = DOMAIN program.code /\ PlacedInBody = InBlock(program, "BB1")
        /\ ii \in Nat \ {0} /\ start \in Nat /\ Span \in Nat
        /\ \A a \in DOMAIN program.code : cycle[a] \in Nat
        /\ \A a \in InBlock(program, "BB0") : cycle[a] < start
        /\ \A a \in InBlock(program, "BB1") :
              relative[a] \in Nat /\ relative[a] < Span /\ cycle[a] = start + relative[a]
        /\ \A a \in InBlock(program, "BB2") : cycle[a] >= start + Span
    BY DoneIs
  <1>2. slot \in [DOMAIN program.code -> Slot]
    BY <1>1, StateIs
  <1>3. \A a \in DOMAIN program.code \ {Control} : SuitsUnit(Code(a).unit, slot[a])
    BY <1>1 DEF UnitSlots
  <1>4. ASSUME NEW a \in DOMAIN program.code, NEW b \in DOMAIN program.code,
               cycle[a] = cycle[b], slot[a] = slot[b]
        PROVE  a = b
    <2>1. /\ \A x, y \in DOMAIN program.code \ InBlock(program, "BB1") :
                x # y /\ cycle[x] = cycle[y] => slot[x] # slot[y]
          /\ \A x, y \in InBlock(program, "BB1") :
                x # y /\ relative[x] % ii = relative[y] % ii => slot[x] # slot[y]
      BY <1>1 DEF ScheduleInv, SlotsApart
    <2>2. CASE a \in InBlock(program, "BB1") /\ b \in InBlock(program, "BB1")
      <3>1. relative[a] = relative[b]
        BY <1>1, <1>4, <2>2
      <3> QED
        BY <1>4, <2>1, <2>2, <3>1
    <2>3. CASE a \notin InBlock(program, "BB1") /\ b \notin InBlock(program, "BB1")
      BY <1>4, <2>1, <2>3
    <2>4. ASSUME NEW x \in InBlock(program, "BB1"),
                 NEW y \in DOMAIN program.code \ InBlock(program, "BB1")
          PROVE  cycle[x] # cycle[y]
      <3>1. y \in InBlock(program, "BB0") \/ y \in InBlock(program, "BB2")
        BY <1>1, AddressesAre
      <3>2. x \in DOMAIN program.code
        BY DEF InBlock
      <3>3. /\ cycle[x] = start + relative[x] /\ relative[x] \in Nat /\ relative[x] < Span
            /\ cycle[y] \in Nat
        BY <1>1, <3>2
      <3>4. CASE y \in InBlock(program, "BB0")
        BY <1>1, <3>3, <3>4
      <3>5. CASE y \in InBlock(program, "BB2")
        <4>1. cycle[y] >= start + Span
          BY <1>1, <3>5
        <4> QED
          BY <1>1, <3>3, <4>1
      <3> QED
        BY <3>1, <3>4, <3>5
    <2> QED
      BY <1>4, <2>2, <2>3, <2>4
  <1>5. OperandsTimed /\ LoopTimed
    BY DEF ScheduleInv
  <1>6. \A a \in DOMAIN program.code \ InBlock(program, "BB1") :
           \A d \in TimedDependencies(a) : Ready(d.producer, cycle[d.producer]) <= cycle[a]
    BY <1>1, <1>5 DEF OperandsTimed
  <1>7. ASSUME NEW a \in Body
        PROVE  \A d \in LocalDependencies(program, a) :
                  Ready(d.producer, relative[d.producer]) <= relative[a]
    <2>1. a \in PlacedInBody \ {Control}
      BY <1>1 DEF Body
    <2> QED
      BY <1>1, <1>5, <2>1 DEF OperandsTimed
  <1>8. ASSUME NEW a \in Body
        PROVE  /\ \A d \in InterloopDependencies(program, a) :
                     Ready(d.previous, relative[d.previous]) <= relative[a] + ii
               /\ \A d \in InvariantDependencies(program, a)
                              \cup InterloopDependencies(program, a) :
                     d.producer # 0 => Ready(d.producer, cycle[d.producer]) <= cycle[a]
    BY <1>1, <1>5 DEF LoopTimed, CarriedInTime
  <1> QED
    BY <1>2, <1>3, <1>4, <1>6, <1>7, <1>8 DEF Exact

\* The tables stay as they are.
LEMMA ExactKept ==
    ASSUME Exact, UNCHANGED <<program, ii, cycle, relative, slot, stages, start>>,
           Scheduled' => Scheduled
    PROVE  Exact'
  <1>1. /\ Body' = Body /\ Control' = Control
        /\ \A x : /\ LocalDependencies(program, x)' = LocalDependencies(program, x)
                  /\ InterloopDependencies(program, x)' = InterloopDependencies(program, x)
                  /\ InvariantDependencies(program, x)' = InvariantDependencies(program, x)
                  /\ TimedDependencies(x)' = TimedDependencies(x)
                  /\ Code(x)' = Code(x)
        /\ \A x, n : Ready(x, n)' = Ready(x, n)
        /\ \A b : InBlock(program, b)' = InBlock(program, b)
    BY DEF Body, Control, TimedDependencies, Code, Ready
  <1> QED
    BY <1>1 DEF Exact

-----------------------------------------------------------------------------
(* Names *)

\* The passes have given every result and operand its name.
Named ==
    phase \in {"allocated", "running"} =>
        /\ RotatingFit /\ StaticFit
        /\ dst = [a \in DOMAIN program.code |->
                     IF Code(a).dst = {} THEN {} ELSE {ResultName(a)}]
        /\ src = [a \in DOMAIN program.code |->
                     [k \in DOMAIN Code(a).src |-> OperandName(a, Code(a).src[k])]]

\* The names are those of the schedule.
LEMMA SameNames ==
    ASSUME UNCHANGED <<program, ii, cycle, relative, slot, stages, start>>
    PROVE  /\ \A a : Code(a)' = Code(a) /\ ResultName(a)' = ResultName(a)
           /\ \A a, r : OperandName(a, r)' = OperandName(a, r)
           /\ RotatingFit' = RotatingFit /\ StaticFit' = StaticFit
           /\ InitialsInReach' = InitialsInReach /\ ResultsInWindow' = ResultsInWindow
  <1>1. /\ Body' = Body
        /\ \A a : /\ Code(a)' = Code(a) /\ Place(a)' = Place(a) /\ Stage(a)' = Stage(a)
                  /\ LocalDependencies(program, a)' = LocalDependencies(program, a)
                  /\ InterloopDependencies(program, a)' = InterloopDependencies(program, a)
                  /\ InvariantDependencies(program, a)' = InvariantDependencies(program, a)
                  /\ PostLoopDependencies(program, a)' = PostLoopDependencies(program, a)
        /\ WindowSize' = WindowSize
    BY DEF Body, Control, Code, Place, Stage, WindowSize
  <1>2. RotatingWriters' = RotatingWriters
    BY <1>1 DEF RotatingWriters
  <1>3. \A a : Base(a)' = Base(a)
    BY <1>1, <1>2 DEF Base
  <1>4. \A a, o : InWindow(a, o)' = InWindow(a, o)
    BY <1>1, <1>3 DEF InWindow
  <1>5. CarriedFromBB0' = CarriedFromBB0
    BY <1>1 DEF CarriedFromBB0
  <1>6. Initials' = Initials /\ \A b : Replacement(b)' = Replacement(b)
    BY <1>5 DEF Initials, Replacement, TheElement
  <1>7. Invariants' = Invariants /\ \A b : FirstReader(b)' = FirstReader(b)
    BY <1>1 DEF Invariants, FirstReader
  <1>8. \A a, r : FirstOperand(a, r)' = FirstOperand(a, r) /\ External(a)' = External(a)
    BY <1>1 DEF FirstOperand, External
  <1>9. InvariantClaims' = InvariantClaims
    BY <1>7, <1>8 DEF InvariantClaims
  <1>10. RemainingClaims' = RemainingClaims
    BY <1>1, <1>6, <1>7 DEF RemainingClaims
  <1>11. ExternalClaims' = ExternalClaims
    BY <1>1, <1>8 DEF ExternalClaims
  <1>12. Claims' = Claims
    BY <1>9, <1>10, <1>11 DEF Claims
  <1>13. \A c : StaticName(c)' = StaticName(c)
    BY <1>12 DEF StaticName
  <1>14. \A a : ResultName(a)' = ResultName(a)
    BY <1>2, <1>3, <1>4, <1>6, <1>1, <1>9, <1>10, <1>13 DEF ResultName, TheElement
  <1>15. \A a, d : /\ LocalName(a, d)' = LocalName(a, d)
                   /\ CarriedName(a, d)' = CarriedName(a, d)
                   /\ PostLoopName(d)' = PostLoopName(d)
    BY <1>1, <1>4, <1>14 DEF LocalName, CarriedName, PostLoopName
  <1>16. \A a, r : OperandName(a, r)' = OperandName(a, r)
    BY <1>1, <1>8, <1>13, <1>14, <1>15 DEF OperandName, TheElement
  <1>17. RotatingFit' = RotatingFit /\ StaticFit' = StaticFit
    BY <1>1, <1>2, <1>12 DEF RotatingFit, StaticFit
  <1>18. InitialsInReach' = InitialsInReach
    BY <1>1, <1>6 DEF InitialsInReach
  <1>19. ResultsInWindow' = ResultsInWindow
    BY <1>1, <1>2 DEF ResultsInWindow
  <1> QED
    BY <1>1, <1>14, <1>16, <1>17, <1>18, <1>19

\* What the scheduler and the allocator hand on is there until the machine halts.
LEMMA TablesAre == Spec => [](Exact /\ Named)
  <1>1. Init => Exact /\ Named
    BY DEF Init, SchedulerInit, Exact, Scheduled, Named
  <1>2. Exact /\ Named /\ [Next]_vars => (Exact' \/ Finished') /\ Named'
    <2> SUFFICES ASSUME Exact, Named, [Next]_vars
                 PROVE  (Exact' \/ phase' = "done") /\ Named'
      BY DEF Finished
    <2>1. ASSUME UNCHANGED <<program, ii, cycle, relative, slot, stages, start, dst, src>>,
                 phase' = phase \/ (phase = "allocated" /\ phase' = "running")
          PROVE  Exact' /\ Named'
      <3>1. Exact'
        BY <2>1, ExactKept DEF Scheduled
      <3>2. Named'
        BY <2>1, SameNames DEF Named
      <3> QED
        BY <3>1, <3>2
    <2>2. CASE Schedule
      <3>1. phase' \notin {"allocated", "running"}
        BY <2>2 DEF Schedule, ScheduleNext, Parse, ParseError, PlaceInCycle, NoCycleLeft,
                    FinishBB0, FinishBB2, PlaceModulo, NoPlaceInBody, BodyTooSlow, AcceptBody,
                    NextInterval
      <3> QED
        BY <3>1 DEF Exact, Scheduled, Named
    <2>3. CASE AllocateRegisters
      <3>1. UNCHANGED <<program, ii, cycle, relative, slot, stages, start>> /\ phase = "done"
        BY <2>3 DEF AllocateRegisters, AllocateNext, Allocate, OutOfRegisters
      <3>2. Exact'
        BY <2>3, <3>1, ExactKept DEF Scheduled
      <3>3. CASE Allocate
        <4>1. /\ RotatingFit /\ StaticFit /\ program' = program
              /\ dst' = [a \in DOMAIN program.code |->
                           IF Code(a).dst = {} THEN {} ELSE {ResultName(a)}]
              /\ src' = [a \in DOMAIN program.code |->
                           [k \in DOMAIN Code(a).src |-> OperandName(a, Code(a).src[k])]]
          BY <3>1, <3>3 DEF Allocate
        <4>2. /\ \A a : Code(a)' = Code(a) /\ ResultName(a)' = ResultName(a)
              /\ \A a, r : OperandName(a, r)' = OperandName(a, r)
              /\ RotatingFit' = RotatingFit /\ StaticFit' = StaticFit
          BY <3>1, SameNames
        <4>3. Named'
          BY <4>1, <4>2 DEF Named
        <4> QED
          BY <3>2, <4>3
      <3>4. CASE OutOfRegisters
        BY <3>2, <3>4 DEF Named, OutOfRegisters
      <3> QED
        BY <2>3, <3>2, <3>3, <3>4 DEF AllocateRegisters, AllocateNext
    <2>4. CASE Prepare
      BY <2>1, <2>4 DEF Prepare, registerVars
    <2>5. CASE Run
      BY <2>1, <2>5, RunKeeps
    <2>6. CASE UNCHANGED vars
      BY <2>1, <2>6 DEF vars, schedulerVars, registerVars
    <2> QED
      BY <2>2, <2>3, <2>4, <2>5, <2>6 DEF Next
  <1>3. ScheduleInv /\ UnitSlots /\ Finished => Exact
    BY DoneExact DEF Finished
  <1> QED
    BY <1>1, <1>2, <1>3, PathKept, UnitSlotsKept, PTL DEF Spec

-----------------------------------------------------------------------------
(* The clock of the machine *)

\* How many cycles the machine has run.
Clock == pc + ii * lap + (2 - rest)

\* When instruction a executes if the loop has gone back n times, and when its result is
\* there.
Issue(a, n) == BundleOf(a) + ii * n
Arrival(a, n) == Issue(a, n) + Latency(Code(a))

\* The machine has its two last cycles when it has read all bundles.
RestInv == phase = "running" /\ pc < Len(code) => rest = 2

\* The numbers of the clock.
LEMMA ClockIs ==
    ASSUME Following
    PROVE  /\ Clock \in Int /\ ii * lap \in Nat
           /\ pc \in Nat /\ lap \in Nat /\ rest \in 0 .. 2
           /\ Clock >= pc + ii * lap
           /\ RestInv /\ pc < Len(code) => Clock = pc + ii * lap
           /\ \A a \in DOMAIN program.code : \A n \in Nat :
                 /\ ii * n \in Nat /\ Issue(a, n) = BundleOf(a) + ii * n
                 /\ Issue(a, n) \in Nat /\ BundleOf(a) \in Nat
                 /\ Latency(Code(a)) \in {1, 3}
                 /\ Arrival(a, n) \in Nat /\ Issue(a, n) < Arrival(a, n)
                 /\ Arrival(a, n) = Issue(a, n) + Latency(Code(a))
  <1>1. pc \in Nat /\ lap \in Nat /\ rest \in 0 .. 2 /\ ii \in Nat /\ phase = "running"
    BY LapIs DEF Following, MachineInv
  <1>2. ii * lap \in Nat
    BY <1>1
  <1>3. Clock \in Int /\ Clock >= pc + ii * lap
    <2>1. PICK y \in Nat : y = ii * lap
      BY <1>2
    <2>2. Clock = pc + y + (2 - rest)
      BY <2>1 DEF Clock
    <2> QED
      BY <1>1, <2>1, <2>2
  <1>4. RestInv /\ pc < Len(code) => Clock = pc + ii * lap
    <2>1. PICK y \in Nat : y = ii * lap
      BY <1>2
    <2>2. Clock = pc + y + (2 - rest)
      BY <2>1 DEF Clock
    <2> QED
      BY <1>1, <2>1, <2>2 DEF RestInv
  <1>5. ASSUME NEW a \in DOMAIN program.code, NEW n \in Nat
        PROVE  /\ ii * n \in Nat /\ Issue(a, n) = BundleOf(a) + ii * n
               /\ Issue(a, n) \in Nat /\ BundleOf(a) \in Nat
               /\ Latency(Code(a)) \in {1, 3}
               /\ Arrival(a, n) \in Nat /\ Issue(a, n) < Arrival(a, n)
               /\ Arrival(a, n) = Issue(a, n) + Latency(Code(a))
    <2>1. BundleOf(a) \in Nat
      BY BundlesAre DEF Following, Scheduled
    <2>2. PICK y \in Nat : y = ii * n
      BY <1>1
    <2>3. Issue(a, n) = BundleOf(a) + y /\ Issue(a, n) \in Nat
      BY <2>1, <2>2 DEF Issue
    <2>4. Latency(Code(a)) \in {1, 3}
      BY DEF Latency
    <2> QED
      BY <2>1, <2>2, <2>3, <2>4 DEF Arrival
  <1> QED
    BY <1>1, <1>2, <1>3, <1>4, <1>5

\* An instruction that executes now does so at this time.
LEMMA NowIs ==
    ASSUME Following, RestInv, NEW a \in On
    PROVE  /\ a \in DOMAIN program.code /\ Issue(a, lap) = Clock /\ pc < Len(code)
  <1>1. a \in DOMAIN program.code /\ BundleOf(a) = pc
    BY DEF On, AtPc
  <1>2. pc < Len(code)
    BY <1>1, ActiveIs DEF Following
  <1> QED
    BY <1>1, <1>2, ClockIs

\* The machine's clock advances by one in each cycle.
LEMMA ClockTicks ==
    ASSUME Following, RestInv, Run, Following'
    PROVE  Clock' = Clock + 1 /\ RestInv'
  <1>1. /\ Compacted /\ MachineInv /\ phase = "running" /\ Tick /\ phase' = "running"
        /\ UNCHANGED <<program, ii>>
    BY RunKeeps DEF Following
  <1>2. /\ pc \in Nat /\ lap \in Nat /\ rest \in 0 .. 2 /\ ii \in Nat \ {0}
        /\ LoopBundle \in Nat /\ LoopEnd = LoopBundle + ii /\ LoopEnd \in Nat
        /\ lap' \in Nat
    <2>1. lap' \in Nat
      BY FileIs DEF Following, MachineInv
    <2> QED
      BY <1>1, <2>1, LapIs DEF Following, MachineInv
  <1>3. Len(code) \in Nat /\ LoopEnd <= Len(code) /\ pc <= Len(code)
    BY <1>1, ActiveIs
  <1>4. /\ code' = code
        /\ rest' = IF pc < Len(code) THEN rest ELSE rest - 1
        /\ Starts \/ Drains =>
              /\ pc' = LoopBundle
              /\ lap' = IF lap < MaxLaps THEN lap + 1 ELSE lap
        /\ ~(Starts \/ Drains) =>
              /\ pc' = IF pc < Len(code) THEN pc + 1 ELSE pc
              /\ lap' = lap
    BY <1>1, TickIs
  <1>5. PICK y \in Nat : y = ii * lap
    BY <1>2
  <1>6. Clock = pc + y + (2 - rest)
    BY <1>5 DEF Clock
  <1>7. CASE Starts \/ Drains
    <2>1. pc = LoopEnd - 1 /\ pc < Len(code)
      BY <1>2, <1>3, <1>7 DEF Starts, Drains
    <2>2. LoopBundle <= pc /\ pc < LoopEnd
      BY <1>2, <2>1
    <2>3. lap' = lap + 1 /\ pc' = LoopBundle /\ rest' = rest
      BY <1>4, <1>7, <2>1, <2>2, RunInLoop
    <2>4. ii * lap' = y + ii
      BY <1>2, <1>5, <2>3
    <2>5. Clock' = pc' + (y + ii) + (2 - rest')
      BY <1>1, <2>4 DEF Clock
    <2>6. Clock' = Clock + 1
      BY <1>2, <1>5, <1>6, <2>1, <2>3, <2>5
    <2>7. RestInv'
      BY <1>4, <2>1, <2>3, <1>1 DEF RestInv
    <2> QED
      BY <2>6, <2>7
  <1>8. CASE ~(Starts \/ Drains)
    <2>1. lap' = lap /\ pc' = (IF pc < Len(code) THEN pc + 1 ELSE pc)
      BY <1>4, <1>8
    <2>2. Clock' = pc' + y + (2 - rest')
      BY <1>1, <1>5, <2>1 DEF Clock
    <2>3. rest > 0 \/ pc < Len(code)
      BY <1>1, <1>2 DEF Tick, Running
    <2>4. Clock' = Clock + 1
      BY <1>2, <1>4, <1>5, <1>6, <2>1, <2>2, <2>3
    <2>5. RestInv'
      BY <1>1, <1>2, <1>3, <1>4, <2>1 DEF RestInv
    <2> QED
      BY <2>4, <2>5
  <1> QED
    BY <1>7, <1>8

-----------------------------------------------------------------------------
(* What the register file holds *)

\* What has been executed with a result, and the register that the result goes to.
Writing == {e \in ran : Code(e[1]).dst # {}}
Goal(e) == RegisterBehind(ResultName(e[1]), e[2])

\* The products that the multiplier began so many cycles ago.
Begun(k) ==
    {<<Goal(e), e>> : e \in {f \in Writing : /\ Code(f[1]).unit = "Mult"
                                             /\ Issue(f[1], f[2]) = Clock - k}}

\* A result that goes to register r has arrived.
Arrived(e, r) == Goal(e) = r /\ Arrival(e[1], e[2]) <= Clock

\* A register holds what has arrived in it last, and its first value before: stated for
\* results that no other one arrives together with.
FileInv ==
    phase = "running" /\ ~Endless /\ LapsFit =>
        /\ RestInv
        /\ multiplier = <<Begun(1), Begun(2)>>
        /\ \A r \in Register :
              /\ (\A e \in Writing : ~Arrived(e, r)) => registers[r] = Zero
              /\ \A e \in Writing :
                    Arrived(e, r)
                        /\ (\A f \in Writing : f # e /\ Arrived(f, r) =>
                               Arrival(f[1], f[2]) < Arrival(e[1], e[2]))
                        => registers[r] = e

\* Writes to a register, one after the other.
LEMMA AfterIs ==
    ASSUME NEW file, NEW writes, NEW r \in Register
    PROVE  /\ (\A w \in writes : w[1] # r) => After(file, writes)[r] = file[r]
           /\ \A v : (\E w \in writes : w[1] = r) /\ (\A w \in writes : w[1] = r => w[2] = v)
                        => After(file, writes)[r] = v
  <1>1. After(file, writes)[r] = IF \E w \in writes : w[1] = r
                                 THEN (CHOOSE w \in writes : w[1] = r)[2] ELSE file[r]
    BY DEF After
  <1>2. ASSUME NEW v, \E w \in writes : w[1] = r, \A w \in writes : w[1] = r => w[2] = v
        PROVE  After(file, writes)[r] = v
    <2> DEFINE w == CHOOSE x \in writes : x[1] = r
    <2>1. w \in writes /\ w[1] = r
      BY <1>2
    <2>2. w[2] = v
      BY <1>2, <2>1
    <2> QED
      BY <1>1, <1>2, <2>2
  <1> QED
    BY <1>1, <1>2

\* What the cycle writes in a slot.
LEMMA WritesIs ==
    ASSUME Following, Named, NEW s, NEW w
    PROVE  w \in Writes(s) <=>
              \E a \in On : /\ slot[a] = s /\ Code(a).dst # {}
                            /\ w = <<Goal(<<a, lap>>), <<a, lap>>>>
  <1>1. /\ Compacted /\ MachineInv /\ phase = "running" /\ rrb = lap
        /\ dst = [a \in DOMAIN program.code |-> IF Code(a).dst = {} THEN {} ELSE {ResultName(a)}]
    BY DEF Following, MachineInv, Named
  <1>2. \A op : op \in Active <=> \/ \E a \in On : op = PreparedOperation(a)
                                  \/ pc = EpiloguePlace[1] /\ op = SetEpilogue
                                  \/ pc = PredicatePlace[1] /\ op = SetPredicate
    BY <1>1, ActiveIs
  <1>3. On \subseteq DOMAIN program.code /\ \A a \in On : a # NoName
    <2>1. DOMAIN program.code \subseteq Nat \ {0}
      BY <1>1, BlocksOf DEF Compacted, Scheduled
    <2> QED
      BY <2>1 DEF On, AtPc, NoName
  <1>4. ASSUME NEW a \in On
        PROVE  LET op == PreparedOperation(a)
               IN  /\ op.slot = slot[a] /\ Result(op) = <<a, lap>>
                   /\ op.dst = IF Code(a).dst = {} THEN {} ELSE {ResultName(a)}
    <2>1. /\ PreparedOperation(a).slot = slot[a] /\ PreparedOperation(a).name = a
          /\ PreparedOperation(a).dst = dst[a]
      BY DEF PreparedOperation, Operation
    <2> QED
      BY <1>1, <1>3, <2>1 DEF Result, NoName
  <1>5. SetEpilogue.dst = {} /\ SetPredicate.dst = {}
    BY DEF SetEpilogue, SetPredicate, Operation
  <1>6. ASSUME NEW a \in On
        PROVE  Goal(<<a, lap>>) = Physical(ResultName(a))
    BY <1>1 DEF Goal, Physical
  <1>7. w \in Writes(s) <=> \E op \in Active : \E d \in op.dst :
                               op.slot = s /\ w = <<Physical(d), Result(op)>>
    BY DEF Writes
  <1>8. ASSUME NEW op \in Active, NEW d \in op.dst, op.slot = s, w = <<Physical(d), Result(op)>>
        PROVE  \E a \in On : /\ slot[a] = s /\ Code(a).dst # {}
                             /\ w = <<Goal(<<a, lap>>), <<a, lap>>>>
    <2>1. PICK a \in On : op = PreparedOperation(a)
      BY <1>2, <1>5, <1>8
    <2>2. Code(a).dst # {} /\ d = ResultName(a) /\ slot[a] = s /\ Result(op) = <<a, lap>>
      BY <1>4, <1>8, <2>1
    <2> QED
      BY <1>6, <1>8, <2>1, <2>2
  <1>9. ASSUME NEW a \in On, slot[a] = s, Code(a).dst # {},
               w = <<Goal(<<a, lap>>), <<a, lap>>>>
        PROVE  w \in Writes(s)
    <2>1. PreparedOperation(a) \in Active
      BY <1>2
    <2>2. ResultName(a) \in PreparedOperation(a).dst
      BY <1>4, <1>9
    <2> QED
      BY <1>4, <1>6, <1>7, <1>9, <2>1, <2>2
  <1> QED
    BY <1>7, <1>8, <1>9

\* What has been executed has been issued before.
LEMMA IssuedBefore ==
    ASSUME RunningInv, phase = "running", ~Endless, LapsFit, NEW e \in ran
    PROVE  /\ e = <<e[1], e[2]>> /\ e[1] \in DOMAIN program.code /\ e[2] \in Nat /\ e[2] <= lap
           /\ HasRun(e[1], e[2]) /\ Issue(e[1], e[2]) < Clock
  <1>1. /\ Following /\ Compacted /\ Scheduled
        /\ ran = {x \in (DOMAIN program.code) \X (0 .. lap) : HasRun(x[1], x[2])}
    BY FollowingIs
  <1>2. /\ lap \in Nat /\ ii \in Nat \ {0} /\ LoopBundle \in Nat /\ LoopEnd = LoopBundle + ii
        /\ pc \in Nat /\ pc < LoopBundle => lap = 0
        /\ pc \in Nat
    BY <1>1, LapIs
  <1>3. e[1] \in DOMAIN program.code /\ e[2] \in 0 .. lap /\ HasRun(e[1], e[2]) /\ e = <<e[1], e[2]>>
    BY <1>1
  <1> DEFINE a == e[1]
             n == e[2]
  <1>4. a \in DOMAIN program.code /\ n \in Nat /\ n <= lap
    BY <1>2, <1>3
  <1>5. /\ Clock \in Int /\ ii * lap \in Nat /\ Clock >= pc + ii * lap
        /\ ii * n \in Nat /\ Issue(a, n) = BundleOf(a) + ii * n /\ BundleOf(a) \in Nat
    BY <1>1, <1>4, ClockIs
  <1>6. /\ Block(program, a) \in {"BB0", "BB1", "BB2"}
        /\ Block(program, a) = "BB1" => BundleOf(a) < LoopEnd
    BY <1>1, <1>4, BundlesAre
  <1>7. ASSUME n < lap PROVE ii * n + ii <= ii * lap
    <2>1. PICK m \in Nat : lap = n + 1 + m
      <3>1. lap - n - 1 \in Nat /\ lap = n + 1 + (lap - n - 1)
        BY <1>2, <1>4, <1>7
      <3> QED
        BY <3>1
    <2>2. ii * lap = ii * n + ii + ii * m /\ ii * m \in Nat
      BY <1>2, <1>4, <2>1
    <2> QED
      BY <1>2, <1>4, <1>5, <2>2
  <1>8. n = lap => ii * n = ii * lap
    OBVIOUS
  <1>9. Issue(a, n) < Clock
    <2> HIDE DEF a, n
    <2>1. CASE Block(program, a) = "BB1" /\ n < lap
      <3>1. LoopBundle <= pc
        BY <1>2, <1>4, <2>1
      <3>2. PICK x \in Nat : x = ii * n
        BY <1>5
      <3>3. PICK y \in Nat : y = ii * lap
        BY <1>5
      <3>4. x + ii <= y
        BY <1>7, <2>1, <3>2, <3>3
      <3> QED
        BY <1>2, <1>5, <1>6, <2>1, <3>1, <3>2, <3>3, <3>4
    <2>2. CASE n = lap /\ BundleOf(a) < pc
      <3>1. PICK y \in Nat : y = ii * lap
        BY <1>5
      <3>2. Issue(a, n) = BundleOf(a) + y
        BY <1>5, <2>2, <3>1
      <3> QED
        BY <1>2, <1>5, <2>2, <3>1, <3>2
    <2>3. CASE Block(program, a) = "BB0" /\ n = 0 /\ BundleOf(a) < pc
      <3>1. ii * n = 0
        BY <1>2, <2>3
      <3>2. PICK y \in Nat : y = ii * lap
        BY <1>5
      <3> QED
        BY <1>2, <1>5, <2>3, <3>1, <3>2
    <2> QED
      BY <1>3, <1>6, <2>1, <2>2, <2>3 DEF HasRun, a, n
  <1> QED
    BY <1>3, <1>4, <1>9

\* What the machine is in when it runs behind the passes.
Holding ==
    /\ RunningInv /\ Exact /\ Named /\ RestInv
    /\ phase = "running" /\ ~Endless /\ LapsFit

\* The names and times stay while the machine runs.
LEMMA SameTimes ==
    ASSUME Run
    PROVE  /\ \A a : Code(a)' = Code(a)
           /\ \A e : Goal(e)' = Goal(e)
           /\ \A a, n : Issue(a, n)' = Issue(a, n) /\ Arrival(a, n)' = Arrival(a, n)
           /\ (Endless' <=> Endless) /\ (LapsFit' <=> LapsFit) /\ program' = program
  <1>1. /\ UNCHANGED <<source, program, phase, ii, todo, cycle, relative, slot, stages, start>>
        /\ UNCHANGED <<dst, src>>
    BY RunKeeps
  <1>2. /\ \A a : Code(a)' = Code(a) /\ ResultName(a)' = ResultName(a)
        /\ \A a : BundleOf(a)' = BundleOf(a) /\ Times' = Times /\ (Endless' <=> Endless)
    BY <1>1, SameNames, SameSchedule
  <1>3. \A e : Goal(e)' = Goal(e)
    BY <1>2 DEF Goal
  <1>4. \A a, n : Issue(a, n)' = Issue(a, n)
    BY <1>1, <1>2 DEF Issue
  <1>5. \A a, n : Arrival(a, n)' = Arrival(a, n)
    BY <1>2, <1>4 DEF Arrival
  <1>6. LapsFit' <=> LapsFit
    BY <1>1, <1>2 DEF LapsFit
  <1> QED
    BY <1>1, <1>2, <1>3, <1>4, <1>5, <1>6

\* What a cycle adds to the results.
LEMMA MoreWriting ==
    ASSUME Holding, Run
    PROVE  /\ \A e : e \in Writing' <=>
                 e \in Writing \/ \E a \in On : e = <<a, lap>> /\ Code(a).dst # {}
           /\ \A a \in On : Issue(a, lap) = Clock /\ <<a, lap>> \notin Writing
           /\ \A e \in Writing : Issue(e[1], e[2]) < Clock
           /\ \A e \in Writing' : /\ e = <<e[1], e[2]>> /\ e[1] \in DOMAIN program.code
                                  /\ e[2] \in Nat /\ Code(e[1]).dst # {}
                                  /\ Issue(e[1], e[2]) \in Nat /\ Issue(e[1], e[2]) <= Clock
                                  /\ Issue(e[1], e[2]) = Clock => e \notin Writing
                                  /\ Arrival(e[1], e[2]) =
                                        Issue(e[1], e[2])
                                           + (IF Code(e[1]).unit = "Mult" THEN 3 ELSE 1)
  <1>1. Following /\ Compacted /\ MachineInv /\ phase = "running" /\ Tick
    BY FollowingIs, RunKeeps DEF Holding
  <1>2. ran' = ran \cup {<<a, lap>> : a \in On}
    BY <1>1, TickIs
  <1>3. \A e : e \in Writing' <=>
           e \in Writing \/ \E a \in On : e = <<a, lap>> /\ Code(a).dst # {}
    BY <1>2, SameTimes DEF Writing
  <1>4. \A a \in On : Issue(a, lap) = Clock /\ a \in DOMAIN program.code
    BY <1>1, NowIs DEF Holding
  <1>5. \A e \in ran : /\ e = <<e[1], e[2]>> /\ e[1] \in DOMAIN program.code /\ e[2] \in Nat
                       /\ Issue(e[1], e[2]) < Clock
    BY IssuedBefore DEF Holding
  <1>6. Clock \in Int /\ lap \in Nat
    BY <1>1, ClockIs
  <1>7. ASSUME NEW a \in On PROVE <<a, lap>> \notin Writing
    <2>1. <<a, lap>> \in ran => Issue(a, lap) < Clock
      BY <1>5
    <2> QED
      BY <1>4, <1>6, <2>1 DEF Writing
  <1>8. \A e \in Writing : Issue(e[1], e[2]) < Clock
    BY <1>5 DEF Writing
  <1>9. ASSUME NEW e \in Writing'
        PROVE  /\ e = <<e[1], e[2]>> /\ e[1] \in DOMAIN program.code
               /\ e[2] \in Nat /\ Code(e[1]).dst # {} /\ Issue(e[1], e[2]) <= Clock
    <2>1. CASE e \in Writing
      <3>1. /\ e = <<e[1], e[2]>> /\ e[1] \in DOMAIN program.code
            /\ e[2] \in Nat /\ Code(e[1]).dst # {} /\ Issue(e[1], e[2]) < Clock
        BY <1>5, <2>1 DEF Writing
      <3>2. Issue(e[1], e[2]) \in Nat
        BY <1>1, <3>1, ClockIs
      <3> QED
        BY <1>6, <3>1, <3>2
    <2>2. CASE \E a \in On : e = <<a, lap>> /\ Code(a).dst # {}
      <3>1. PICK a \in On : e = <<a, lap>> /\ Code(a).dst # {}
        BY <2>2
      <3>2. e[1] = a /\ e[2] = lap
        BY <3>1
      <3> QED
        BY <1>4, <1>6, <3>1, <3>2
    <2> QED
      BY <1>3, <1>9, <2>1, <2>2
  <1>10. ASSUME NEW e \in Writing'
         PROVE  /\ Issue(e[1], e[2]) \in Nat
                /\ Arrival(e[1], e[2]) = Issue(e[1], e[2])
                                            + (IF Code(e[1]).unit = "Mult" THEN 3 ELSE 1)
    BY <1>1, <1>9, ClockIs DEF Latency
  <1>11. \A e \in Writing' : Issue(e[1], e[2]) = Clock => e \notin Writing
    BY <1>6, <1>8
  <1> QED
    BY <1>3, <1>4, <1>7, <1>8, <1>9, <1>10, <1>11

\* A result is written from the slot of its unit.
LEMMA SlotOfResult ==
    ASSUME Holding, NEW a \in DOMAIN program.code, Code(a).dst # {}
    PROVE  /\ Code(a).unit = "Mult" <=> slot[a] = "Mult"
           /\ slot[a] \in {"ALU0", "ALU1", "Mult", "Mem"}
  <1>1. Compacted /\ Scheduled /\ Exact
    BY FollowingIs DEF Holding
  <1>2. a # Control
    BY <1>1, BlocksOf DEF Compacted, Loop
  <1>3. Code(a).unit \in {"ALU", "Mult", "Mem"}
    <2>1. program \in Program
      BY <1>1, SplittableIs DEF Compacted
    <2>2. Code(a) \in Instruction
      BY <2>1 DEF Program, Code
    <2> QED
      BY <2>2 DEF Instruction, Loop
  <1>4. SuitsUnit(Code(a).unit, slot[a])
    BY <1>1, <1>2 DEF Exact
  <1> QED
    BY <1>3, <1>4 DEF SuitsUnit

\* What the cycle writes is what arrives at its end.
LEMMA LandingIs ==
    ASSUME Holding, Run, multiplier = <<Begun(1), Begun(2)>>, NEW w
    PROVE  (\/ w \in Writes("ALU0") \/ w \in Writes("ALU1") \/ w \in Writes("Mem")
            \/ w \in multiplier[2])
           <=> \E e \in Writing' : Arrival(e[1], e[2]) = Clock + 1 /\ w = <<Goal(e), e>>
  <1>1. Following /\ Named /\ On \subseteq DOMAIN program.code
    BY FollowingIs DEF Holding, On, AtPc
  <1>2. Clock \in Int
    BY <1>1, ClockIs
  <1>3. ASSUME NEW s \in {"ALU0", "ALU1", "Mem"}, w \in Writes(s)
        PROVE  \E e \in Writing' : Arrival(e[1], e[2]) = Clock + 1 /\ w = <<Goal(e), e>>
    <2>1. PICK a \in On : /\ slot[a] = s /\ Code(a).dst # {}
                          /\ w = <<Goal(<<a, lap>>), <<a, lap>>>>
      BY <1>1, <1>3, WritesIs, ZenonT(30)
    <2>2. Code(a).unit # "Mult"
      BY <1>1, <1>3, <2>1, SlotOfResult
    <2>3. <<a, lap>> \in Writing' /\ Issue(a, lap) = Clock
      BY <2>1, MoreWriting
    <2>4. Arrival(a, lap) = Clock + 1
      BY <2>2, <2>3, MoreWriting
    <2> QED
      BY <2>1, <2>3, <2>4
  <1>4. ASSUME w \in multiplier[2]
        PROVE  \E e \in Writing' : Arrival(e[1], e[2]) = Clock + 1 /\ w = <<Goal(e), e>>
    <2>1. PICK e \in Writing : /\ Code(e[1]).unit = "Mult" /\ Issue(e[1], e[2]) = Clock - 2
                               /\ w = <<Goal(e), e>>
      BY <1>4 DEF Begun
    <2>2. e \in Writing' /\ Arrival(e[1], e[2]) = Clock + 1
      BY <1>2, <2>1, MoreWriting
    <2> QED
      BY <2>1, <2>2
  <1>5. ASSUME NEW e \in Writing', Arrival(e[1], e[2]) = Clock + 1, w = <<Goal(e), e>>
        PROVE  \/ w \in Writes("ALU0") \/ w \in Writes("ALU1") \/ w \in Writes("Mem")
               \/ w \in multiplier[2]
    <2>1. /\ e = <<e[1], e[2]>> /\ e[1] \in DOMAIN program.code /\ Code(e[1]).dst # {}
          /\ Issue(e[1], e[2]) \in Nat
          /\ Arrival(e[1], e[2]) =
                Issue(e[1], e[2]) + (IF Code(e[1]).unit = "Mult" THEN 3 ELSE 1)
          /\ Issue(e[1], e[2]) = Clock => e \notin Writing
      BY MoreWriting
    <2>2. CASE Code(e[1]).unit = "Mult"
      <3>1. Issue(e[1], e[2]) = Clock - 2 /\ Issue(e[1], e[2]) # Clock
        BY <1>2, <1>5, <2>1, <2>2
      <3>2. e \in Writing
        <4>1. ASSUME NEW a \in On, e = <<a, lap>> PROVE FALSE
          <5>1. Issue(a, lap) = Clock /\ e[1] = a /\ e[2] = lap
            BY <4>1, MoreWriting
          <5> QED
            BY <3>1, <5>1
        <4> QED
          BY <4>1, MoreWriting
      <3>3. w \in Begun(2)
        BY <1>5, <2>2, <3>1, <3>2 DEF Begun
      <3> QED
        BY <3>3
    <2>3. CASE Code(e[1]).unit # "Mult"
      <3>1. Issue(e[1], e[2]) = Clock
        BY <1>2, <1>5, <2>1, <2>3
      <3>2. PICK a \in On : e = <<a, lap>> /\ Code(a).dst # {}
        BY <2>1, <3>1, MoreWriting
      <3>3. slot[a] \in {"ALU0", "ALU1", "Mem"}
        BY <1>1, <2>1, <2>3, <3>2, SlotOfResult
      <3>4. w \in Writes(slot[a])
        BY <1>1, <1>5, <3>2, WritesIs
      <3> QED
        BY <3>3, <3>4
    <2> QED
      BY <2>2, <2>3
  <1> QED
    BY <1>3, <1>4, <1>5

\* What a cycle does to a register: nothing, or it takes what alone arrives there.
LEMMA RegisterStep ==
    ASSUME Holding, Run, multiplier = <<Begun(1), Begun(2)>>, NEW r \in Register
    PROVE  LET landing == {e \in Writing' : Goal(e) = r /\ Arrival(e[1], e[2]) = Clock + 1}
           IN  /\ landing = {} => registers'[r] = registers[r]
               /\ \A e : landing = {e} => registers'[r] = e
  <1> DEFINE landing == {e \in Writing' : Goal(e) = r /\ Arrival(e[1], e[2]) = Clock + 1}
             f1 == After(registers, Writes("ALU0"))
             f2 == After(f1, Writes("ALU1"))
             f3 == After(f2, Writes("Mem"))
             f4 == After(f3, multiplier[2])
             all == Writes("ALU0") \cup Writes("ALU1") \cup Writes("Mem") \cup multiplier[2]
  <1>1. registers' = f4
    <2>1. Tick
      BY RunKeeps
    <2> QED
      BY <2>1 DEF Tick
  <1>2. \A w : w \in all <=>
           \E e \in Writing' : Arrival(e[1], e[2]) = Clock + 1 /\ w = <<Goal(e), e>>
    BY LandingIs
  <1>3. \A w \in all : w[1] = r => w[2] \in landing
    BY <1>2
  <1>4. \A e \in landing : <<r, e>> \in all
    BY <1>2
  <1>5. ASSUME NEW file, NEW writes, writes \subseteq all, landing = {}
        PROVE  After(file, writes)[r] = file[r]
    <2>1. \A w \in writes : w[1] # r
      BY <1>3, <1>5
    <2> QED
      BY <2>1, AfterIs
  <1>6. ASSUME NEW file, NEW writes, writes \subseteq all, NEW e, landing = {e}
        PROVE  /\ file[r] = e \/ <<r, e>> \in writes => After(file, writes)[r] = e
    <2>1. \A w \in writes : w[1] = r => w[2] = e
      BY <1>3, <1>6
    <2>2. CASE \A w \in writes : w[1] # r
      <3>1. <<r, e>>[1] = r
        OBVIOUS
      <3> QED
        BY <2>2, <3>1, AfterIs
    <2>3. CASE \E w \in writes : w[1] = r
      BY <2>1, <2>3, AfterIs
    <2> QED
      BY <2>2, <2>3
  <1> HIDE DEF landing
  <1>7. /\ Writes("ALU0") \subseteq all /\ Writes("ALU1") \subseteq all
        /\ Writes("Mem") \subseteq all /\ multiplier[2] \subseteq all
    OBVIOUS
  <1>8. ASSUME landing = {} PROVE registers'[r] = registers[r]
    <2>1. f1[r] = registers[r]
      BY <1>5, <1>7, <1>8
    <2>2. f2[r] = f1[r]
      BY <1>5, <1>7, <1>8
    <2>3. f3[r] = f2[r]
      BY <1>5, <1>7, <1>8
    <2>4. f4[r] = f3[r]
      BY <1>5, <1>7, <1>8
    <2> QED
      BY <1>1, <2>1, <2>2, <2>3, <2>4
  <1>9. ASSUME NEW e, landing = {e} PROVE registers'[r] = e
    <2>1. <<r, e>> \in all
      BY <1>4, <1>9
    <2>2. <<r, e>> \in Writes("ALU0") => f1[r] = e
      BY <1>6, <1>7, <1>9
    <2>3. <<r, e>> \in Writes("ALU1") \/ f1[r] = e => f2[r] = e
      BY <1>6, <1>7, <1>9
    <2>4. <<r, e>> \in Writes("Mem") \/ f2[r] = e => f3[r] = e
      BY <1>6, <1>7, <1>9
    <2>5. <<r, e>> \in multiplier[2] \/ f3[r] = e => f4[r] = e
      BY <1>6, <1>7, <1>9
    <2> HIDE DEF f1, f2, f3, f4
    <2> QED
      BY <1>1, <2>1, <2>2, <2>3, <2>4, <2>5
  <1> QED
    BY <1>8, <1>9 DEF landing

\* The multiplier keeps what it has begun.
LEMMA MultiplierStep ==
    ASSUME Holding, Run, multiplier = <<Begun(1), Begun(2)>>, Clock' = Clock + 1
    PROVE  multiplier' = <<Begun(1)', Begun(2)'>>
  <1>1. Following /\ Named /\ On \subseteq DOMAIN program.code /\ Compacted /\ MachineInv
        /\ phase = "running" /\ Tick
    BY FollowingIs, RunKeeps DEF Holding, On, AtPc
  <1>2. Clock \in Int
    BY <1>1, ClockIs
  <1>3. multiplier' = <<Writes("Mult"), multiplier[1]>>
    BY <1>1, TickIs
  <1>4. ASSUME NEW k \in {1, 2}, NEW w
        PROVE  w \in Begun(k)' <=>
                  \E e \in Writing' : /\ Code(e[1]).unit = "Mult"
                                      /\ Issue(e[1], e[2]) = Clock + 1 - k
                                      /\ w = <<Goal(e), e>>
    <2>1. Begun(k)' = {<<Goal(e)', e>> : e \in {f \in Writing' :
                          Code(f[1])'.unit = "Mult" /\ Issue(f[1], f[2])' = Clock' - k}}
      BY DEF Begun
    <2>2. ASSUME NEW e
          PROVE  /\ Code(e[1])'.unit = Code(e[1]).unit /\ Goal(e)' = Goal(e)
                 /\ Issue(e[1], e[2])' = Issue(e[1], e[2])
      BY SameTimes
    <2>3. Clock' - k = Clock + 1 - k
      BY <1>2
    <2>4. ASSUME w \in Begun(k)'
          PROVE  \E e \in Writing' : /\ Code(e[1]).unit = "Mult"
                                     /\ Issue(e[1], e[2]) = Clock + 1 - k
                                     /\ w = <<Goal(e), e>>
      <3>1. PICK e \in Writing' : /\ Code(e[1])'.unit = "Mult" /\ Issue(e[1], e[2])' = Clock' - k
                                  /\ w = <<Goal(e)', e>>
        BY <2>1, <2>4
      <3> QED
        BY <2>2, <2>3, <3>1
    <2>5. ASSUME NEW e \in Writing', Code(e[1]).unit = "Mult",
                 Issue(e[1], e[2]) = Clock + 1 - k, w = <<Goal(e), e>>
          PROVE  w \in Begun(k)'
      <3>1. /\ Code(e[1])'.unit = "Mult" /\ Issue(e[1], e[2])' = Clock' - k
            /\ w = <<Goal(e)', e>>
        BY <2>2, <2>5, <2>3
      <3> QED
        BY <2>1, <3>1
    <2> QED
      BY <2>4, <2>5
  <1>5. ASSUME NEW w PROVE w \in Writes("Mult") <=> w \in Begun(1)'
    <2>1. ASSUME NEW a \in On, slot[a] = "Mult", Code(a).dst # {},
                 w = <<Goal(<<a, lap>>), <<a, lap>>>>
          PROVE  w \in Begun(1)'
      <3>1. <<a, lap>> \in Writing' /\ Issue(a, lap) = Clock
        BY <2>1, MoreWriting
      <3>2. Code(a).unit = "Mult"
        BY <1>1, <2>1, SlotOfResult
      <3>3. Clock + 1 - 1 = Clock
        BY <1>2
      <3> QED
        BY <1>4, <2>1, <3>1, <3>2, <3>3
    <2>2. ASSUME w \in Begun(1)' PROVE w \in Writes("Mult")
      <3>1. PICK e \in Writing' : /\ Code(e[1]).unit = "Mult"
                                  /\ Issue(e[1], e[2]) = Clock + 1 - 1
                                  /\ w = <<Goal(e), e>>
        BY <1>4, <2>2
      <3>2. Issue(e[1], e[2]) = Clock /\ e \notin Writing /\ Code(e[1]).dst # {}
        BY <1>2, <3>1, MoreWriting
      <3>3. PICK a \in On : e = <<a, lap>> /\ Code(a).dst # {}
        BY <3>2, MoreWriting
      <3>4. slot[a] = "Mult"
        BY <1>1, <3>1, <3>3, SlotOfResult
      <3> QED
        BY <1>1, <3>1, <3>3, <3>4, WritesIs
    <2>3. w \in Writes("Mult") =>
             \E a \in On : /\ slot[a] = "Mult" /\ Code(a).dst # {}
                           /\ w = <<Goal(<<a, lap>>), <<a, lap>>>>
      BY <1>1, WritesIs
    <2> QED
      BY <2>1, <2>2, <2>3
  <1>6. ASSUME NEW w PROVE w \in Begun(1) <=> w \in Begun(2)'
    <2>1. Clock + 1 - 2 = Clock - 1 /\ Clock - 1 # Clock
      BY <1>2
    <2>2. ASSUME NEW e \in Writing', Issue(e[1], e[2]) = Clock - 1 PROVE e \in Writing
      <3>1. ASSUME NEW a \in On, e = <<a, lap>> PROVE FALSE
        <4>1. Issue(a, lap) = Clock /\ e[1] = a /\ e[2] = lap
          BY <3>1, MoreWriting
        <4> QED
          BY <2>1, <2>2, <4>1
      <3> QED
        BY <3>1, MoreWriting
    <2>3. w \in Begun(1) <=>
             \E e \in Writing : /\ Code(e[1]).unit = "Mult" /\ Issue(e[1], e[2]) = Clock - 1
                                /\ w = <<Goal(e), e>>
      BY DEF Begun
    <2>4. w \in Begun(2)' <=>
             \E e \in Writing' : /\ Code(e[1]).unit = "Mult" /\ Issue(e[1], e[2]) = Clock - 1
                                 /\ w = <<Goal(e), e>>
      BY <1>4, <2>1
    <2>5. Writing \subseteq Writing'
      BY MoreWriting
    <2> QED
      BY <2>2, <2>3, <2>4, <2>5
  <1>7. Writes("Mult") = Begun(1)' /\ Begun(1) = Begun(2)'
    BY <1>5, <1>6
  <1> QED
    BY <1>3, <1>7

\* A cycle keeps the register file what it should be.
LEMMA FileStep ==
    ASSUME RunningInv, RunningInv', Exact, Named, FileInv, Run
    PROVE  FileInv'
  <1> SUFFICES ASSUME ~Endless', LapsFit'
               PROVE  /\ RestInv'
                      /\ multiplier' = <<Begun(1)', Begun(2)'>>
                      /\ \A r \in Register :
                            /\ (\A e \in Writing' : ~Arrived(e, r)') => registers'[r] = Zero
                            /\ \A e \in Writing' :
                                  Arrived(e, r)'
                                    /\ (\A f \in Writing' : f # e /\ Arrived(f, r)' =>
                                           Arrival(f[1], f[2])' < Arrival(e[1], e[2])')
                                    => registers'[r] = e
    BY DEF FileInv
  <1>1. phase = "running" /\ phase' = "running" /\ ~Endless /\ LapsFit
    BY RunKeeps, SameTimes
  <1>2. /\ RestInv /\ multiplier = <<Begun(1), Begun(2)>>
        /\ \A r \in Register :
              /\ (\A e \in Writing : ~Arrived(e, r)) => registers[r] = Zero
              /\ \A e \in Writing :
                    Arrived(e, r)
                        /\ (\A f \in Writing : f # e /\ Arrived(f, r) =>
                               Arrival(f[1], f[2]) < Arrival(e[1], e[2]))
                        => registers[r] = e
    BY <1>1 DEF FileInv
  <1>3. Holding
    BY <1>1, <1>2 DEF Holding
  <1>4. Following /\ Following'
    <2>1. Following
      BY <1>3, FollowingIs DEF Holding
    <2>2. Following'
      BY <1>1 DEF Following, RunningInv, BackendInv
    <2> QED
      BY <2>1, <2>2
  <1>5. Clock' = Clock + 1 /\ RestInv' /\ Clock \in Int
    BY <1>2, <1>4, ClockTicks, ClockIs
  <1>6. multiplier' = <<Begun(1)', Begun(2)'>>
    BY <1>2, <1>3, <1>5, MultiplierStep
  <1>7. ASSUME NEW e, NEW r
        PROVE  /\ Arrived(e, r)' <=> Goal(e) = r /\ Arrival(e[1], e[2]) <= Clock + 1
               /\ Arrival(e[1], e[2])' = Arrival(e[1], e[2])
    <2>1. Goal(e)' = Goal(e) /\ Arrival(e[1], e[2])' = Arrival(e[1], e[2])
      BY SameTimes
    <2> QED
      BY <1>5, <2>1 DEF Arrived
  <1>8. ASSUME NEW e \in Writing' PROVE Arrival(e[1], e[2]) \in Int
    <2>1. e[1] \in DOMAIN program.code /\ e[2] \in Nat
      BY <1>3, MoreWriting
    <2>2. Arrival(e[1], e[2]) \in Nat
      BY <1>4, <2>1, ClockIs
    <2> QED
      BY <2>2
  <1>9. Writing \subseteq Writing'
    BY <1>3, MoreWriting
  <1>10. ASSUME NEW e \in Writing', Arrival(e[1], e[2]) <= Clock PROVE e \in Writing
    <2>1. ASSUME NEW a \in On, e = <<a, lap>>
          PROVE  FALSE
      <3>1. e[1] = a /\ e[2] = lap /\ Issue(a, lap) = Clock
        BY <1>3, <2>1, MoreWriting
      <3>2. Issue(a, lap) < Arrival(a, lap)
        BY <1>4, ClockIs DEF On, AtPc
      <3> QED
        BY <1>5, <1>8, <1>10, <3>1, <3>2
    <2> QED
      BY <1>3, <2>1, MoreWriting
  <1>11. ASSUME NEW r \in Register
         PROVE  /\ (\A e \in Writing' : ~Arrived(e, r)') => registers'[r] = Zero
                /\ \A e \in Writing' :
                      Arrived(e, r)'
                        /\ (\A f \in Writing' : f # e /\ Arrived(f, r)' =>
                               Arrival(f[1], f[2])' < Arrival(e[1], e[2])')
                        => registers'[r] = e
    <2> DEFINE landing == {e \in Writing' : Goal(e) = r /\ Arrival(e[1], e[2]) = Clock + 1}
    <2>1. /\ landing = {} => registers'[r] = registers[r]
          /\ \A e : landing = {e} => registers'[r] = e
      BY <1>2, <1>3, RegisterStep
    <2>2. \A e \in landing : e \in Writing' /\ Arrived(e, r)' /\ Arrival(e[1], e[2]) = Clock + 1
      BY <1>5, <1>7
    <2>3. ASSUME \A e \in Writing' : ~Arrived(e, r)' PROVE registers'[r] = Zero
      <3>1. landing = {}
        BY <2>2, <2>3
      <3>2. ASSUME NEW e \in Writing PROVE ~Arrived(e, r)
        <4>1. e \in Writing' /\ Arrival(e[1], e[2]) \in Int
          BY <1>8, <1>9
        <4>2. ~(Goal(e) = r /\ Arrival(e[1], e[2]) <= Clock + 1)
          BY <1>7, <2>3, <4>1
        <4>3. Arrived(e, r) <=> Goal(e) = r /\ Arrival(e[1], e[2]) <= Clock
          BY DEF Arrived
        <4> QED
          BY <1>5, <4>1, <4>2, <4>3
      <3> QED
        BY <1>2, <2>1, <3>1, <3>2
    <2>4. ASSUME NEW e \in Writing', Arrived(e, r)',
                 \A f \in Writing' : f # e /\ Arrived(f, r)' =>
                    Arrival(f[1], f[2])' < Arrival(e[1], e[2])'
          PROVE  registers'[r] = e
      <3>1. Goal(e) = r /\ Arrival(e[1], e[2]) <= Clock + 1 /\ Arrival(e[1], e[2]) \in Int
        BY <1>7, <1>8, <2>4
      <3>2. ASSUME NEW f \in Writing', f # e, Goal(f) = r, Arrival(f[1], f[2]) <= Clock + 1
            PROVE  Arrival(f[1], f[2]) < Arrival(e[1], e[2])
        BY <1>7, <2>4, <3>2
      <3>3. CASE Arrival(e[1], e[2]) = Clock + 1
        <4>1. e \in landing
          BY <3>1, <3>3
        <4>2. ASSUME NEW f \in landing PROVE f = e
          <5>1. f \in Writing' /\ Goal(f) = r /\ Arrival(f[1], f[2]) = Clock + 1
            BY <4>2
          <5> QED
            BY <1>5, <3>2, <3>3, <5>1
        <4> QED
          BY <2>1, <4>1, <4>2
      <3>4. CASE Arrival(e[1], e[2]) # Clock + 1
        <4>1. Arrival(e[1], e[2]) <= Clock
          BY <1>5, <3>1, <3>4
        <4>2. ASSUME NEW f \in landing PROVE FALSE
          <5>1. f \in Writing' /\ Goal(f) = r /\ Arrival(f[1], f[2]) = Clock + 1 /\ f # e
            BY <3>4, <4>2
          <5>2. Arrival(f[1], f[2]) < Arrival(e[1], e[2])
            BY <1>5, <3>2, <5>1
          <5> QED
            BY <1>5, <3>1, <4>1, <5>1, <5>2
        <4>3. registers'[r] = registers[r]
          BY <2>1, <4>2
        <4>4. e \in Writing /\ Arrived(e, r)
          BY <1>10, <3>1, <4>1 DEF Arrived
        <4>5. ASSUME NEW f \in Writing, f # e, Arrived(f, r)
              PROVE  Arrival(f[1], f[2]) < Arrival(e[1], e[2])
          <5>1. f \in Writing' /\ Goal(f) = r /\ Arrival(f[1], f[2]) <= Clock
            BY <1>9, <4>5 DEF Arrived
          <5>2. Arrival(f[1], f[2]) <= Clock + 1
            BY <1>5, <1>8, <5>1
          <5> QED
            BY <3>2, <4>5, <5>1, <5>2
        <4>6. registers[r] = e
          BY <1>2, <4>4, <4>5
        <4> QED
          BY <4>3, <4>6
      <3> QED
        BY <3>3, <3>4
    <2> QED
      BY <2>3, <2>4
  <1> QED
    BY <1>5, <1>6, <1>11

\* A program that has been loaded finds the machine empty.
LEMMA FilePrepare ==
    ASSUME RunningInv, Prepare
    PROVE  FileInv'
  <1>1. /\ UNCHANGED <<pc, lc, ec, rrb, registers, predicates, multiplier, rest, lap, ran>>
        /\ phase = "allocated"
    BY DEF Prepare
  <1>2. /\ registers = [r \in Register |-> Zero] /\ multiplier = <<{}, {}>>
        /\ rest = 2 /\ ran = {}
    BY <1>1 DEF RunningInv, BackendInv, MachineInv, MachineInit
  <1>3. Writing' = {} /\ RestInv'
    BY <1>1, <1>2 DEF Writing, RestInv
  <1>4. Begun(1)' = {} /\ Begun(2)' = {}
    BY <1>3 DEF Begun
  <1> QED
    BY <1>1, <1>2, <1>3, <1>4 DEF FileInv

\* While the machine runs the register file holds what has arrived.
LEMMA FileIsKept == Spec => []FileInv
  <1>1. Init => FileInv
    BY DEF Init, SchedulerInit, FileInv
  <1>2. /\ RunningInv /\ RunningInv' /\ Exact /\ Named /\ FileInv /\ [Next]_vars
        => FileInv'
    <2> SUFFICES ASSUME RunningInv, RunningInv', Exact, Named, FileInv, [Next]_vars
                 PROVE  FileInv'
      OBVIOUS
    <2>1. CASE Schedule
      <3>1. phase' # "running"
        BY <2>1 DEF Schedule, ScheduleNext, Parse, ParseError, PlaceInCycle, NoCycleLeft,
                    FinishBB0, FinishBB2, PlaceModulo, NoPlaceInBody, BodyTooSlow, AcceptBody,
                    NextInterval
      <3> QED
        BY <3>1 DEF FileInv
    <2>2. CASE AllocateRegisters
      BY <2>2 DEF AllocateRegisters, AllocateNext, Allocate, OutOfRegisters, FileInv
    <2>3. CASE Prepare
      BY <2>3, FilePrepare
    <2>4. CASE Run
      BY <2>4, FileStep
    <2>5. CASE UNCHANGED vars
      <3>1. /\ UNCHANGED <<source, program, phase, ii, todo, cycle, relative, slot, stages, start>>
            /\ UNCHANGED <<dst, src>> /\ UNCHANGED machineVars
        BY <2>5 DEF vars, schedulerVars, registerVars
      <3>2. /\ \A a : Code(a)' = Code(a) /\ ResultName(a)' = ResultName(a)
            /\ \A a : BundleOf(a)' = BundleOf(a) /\ Times' = Times /\ (Endless' <=> Endless)
            /\ LoopBundle' = LoopBundle
        BY <3>1, SameNames, SameSchedule
      <3>3. \A e : Goal(e)' = Goal(e)
        BY <3>2 DEF Goal
      <3>4. \A a, n : Issue(a, n)' = Issue(a, n)
        BY <3>1, <3>2 DEF Issue
      <3>5. \A a, n : Arrival(a, n)' = Arrival(a, n)
        BY <3>2, <3>4 DEF Arrival
      <3>6. /\ (LapsFit' <=> LapsFit) /\ Writing' = Writing /\ Clock' = Clock
            /\ (RestInv' <=> RestInv)
        BY <3>1, <3>2 DEF LapsFit, Writing, Clock, RestInv, machineVars
      <3>7. Begun(1)' = Begun(1) /\ Begun(2)' = Begun(2)
        BY <3>2, <3>3, <3>4, <3>6 DEF Begun
      <3>8. \A e, r : Arrived(e, r)' <=> Arrived(e, r)
        BY <3>3, <3>5, <3>6 DEF Arrived
      <3> QED
        BY <3>1, <3>2, <3>5, <3>6, <3>7, <3>8 DEF FileInv, machineVars
    <2> QED
      BY <2>1, <2>2, <2>3, <2>4, <2>5 DEF Next
  <1> QED
    BY <1>1, <1>2, RunningInvIs, TablesAre, PTL DEF Spec

-----------------------------------------------------------------------------
(* Rotating names *)

\* The order of the schedule has no two instructions at one place.
LEMMA PlacesApart ==
    ASSUME Compacted, Exact, Scheduled
    PROVE  /\ \A a \in DOMAIN program.code : Place(a) \in Nat
           /\ \A a, b \in DOMAIN program.code : Place(a) = Place(b) => a = b
  <1>1. /\ slot \in [DOMAIN program.code -> Slot]
        /\ \A a, b \in DOMAIN program.code : cycle[a] = cycle[b] /\ slot[a] = slot[b] => a = b
        /\ \A a \in DOMAIN program.code : cycle[a] \in Nat
    BY DEF Exact, Compacted
  <1>2. ASSUME NEW a \in DOMAIN program.code
        PROVE  /\ SlotIndex[slot[a]] \in 0 .. 4 /\ slot[a] \in Slot
               /\ Place(a) = 5 * cycle[a] + SlotIndex[slot[a]]
    BY <1>1 DEF Slot, SlotIndex, Place
  <1>3. \A s, t \in Slot : SlotIndex[s] = SlotIndex[t] => s = t
    BY DEF Slot, SlotIndex
  <1>4. ASSUME NEW a \in DOMAIN program.code, NEW b \in DOMAIN program.code, Place(a) = Place(b)
        PROVE  a = b
    <2>1. cycle[a] = cycle[b] /\ SlotIndex[slot[a]] = SlotIndex[slot[b]]
      BY <1>1, <1>2, <1>4
    <2> QED
      BY <1>1, <1>2, <1>3, <2>1
  <1>5. ASSUME NEW a \in DOMAIN program.code PROVE Place(a) \in Nat
    BY <1>1, <1>2
  <1> QED
    BY <1>4, <1>5

\* The windows are in the rotating part of the register file, one behind the other.
LEMMA WindowsAre ==
    ASSUME Compacted, Exact, Scheduled, RotatingFit
    PROVE  /\ WindowSize = stages + 1 /\ stages \in Nat \ {0}
           /\ \A a \in RotatingWriters :
                 /\ a \in DOMAIN program.code /\ a \in Body
                 /\ Base(a) \in Nat /\ FirstRotating <= Base(a)
                 /\ Base(a) + stages <= LastRotating
           /\ \A a, b \in RotatingWriters : Place(a) < Place(b) => Base(a) + stages < Base(b)
  <1>1. Splittable(program) /\ stages \in Nat \ {0}
    BY DEF Compacted
  <1>2. WindowSize \in Nat \ {0} /\ WindowSize = stages + 1
    BY <1>1 DEF WindowSize
  <1> DEFINE below(a) == {b \in RotatingWriters : Place(b) < Place(a)}
  <1>3. IsFiniteSet(RotatingWriters) /\ RotatingWriters \subseteq DOMAIN program.code
        /\ RotatingWriters \subseteq Body
    <2>1. IsFiniteSet(DOMAIN program.code) /\ Body \subseteq DOMAIN program.code
      BY <1>1, BlocksOf
    <2>2. RotatingWriters \in SUBSET (DOMAIN program.code)
      BY <2>1 DEF RotatingWriters
    <2> QED
      BY <2>1, <2>2, FS_Subset DEF RotatingWriters
  <1>4. \A a \in RotatingWriters : Place(a) \in Nat
    BY <1>3, PlacesApart
  <1>5. ASSUME NEW a \in RotatingWriters
        PROVE  /\ IsFiniteSet(below(a)) /\ Cardinality(below(a)) \in Nat
               /\ Cardinality(below(a)) + 1 <= Cardinality(RotatingWriters)
               /\ Cardinality(RotatingWriters) \in Nat
    <2>1. below(a) \in SUBSET RotatingWriters /\ a \notin below(a)
      BY <1>4
    <2>2. IsFiniteSet(below(a)) /\ IsFiniteSet(below(a) \cup {a})
          /\ Cardinality(below(a) \cup {a}) = Cardinality(below(a)) + 1
      BY <1>3, <2>1, FS_Subset, FS_AddElement
    <2>3. (below(a) \cup {a}) \in SUBSET RotatingWriters
      BY <2>1
    <2>4. Cardinality(below(a) \cup {a}) <= Cardinality(RotatingWriters)
      BY <1>3, <2>3, FS_Subset
    <2> QED
      BY <1>3, <2>2, <2>4, FS_CardinalityType
  <1>6. ASSUME NEW a \in RotatingWriters, NEW b \in RotatingWriters, Place(a) < Place(b)
        PROVE  Cardinality(below(a)) + 1 <= Cardinality(below(b))
    <2>1. (below(a) \cup {a}) \in SUBSET below(b) /\ a \notin below(a)
      BY <1>4, <1>6
    <2>2. Cardinality(below(a) \cup {a}) = Cardinality(below(a)) + 1
      BY <1>5, <2>1, FS_AddElement
    <2> QED
      BY <1>5, <2>1, <2>2, FS_Subset
  <1>7. \A a : Base(a) = LastStatic + 1 + WindowSize * Cardinality(below(a))
    BY DEF Base
  <1>8. /\ LastStatic \in Nat \ {0} /\ LastRotating \in Nat /\ FirstRotating = LastStatic + 1
    BY FileIs
  <1> HIDE DEF below
  <1>9. ASSUME NEW m \in Nat, NEW n \in Nat, m + 1 <= n
        PROVE  /\ WindowSize * m \in Nat /\ WindowSize * n \in Nat
               /\ WindowSize * m + WindowSize <= WindowSize * n
    <2>1. (WindowSize * m) + WindowSize <= WindowSize * n
      BY <1>2, <1>9, StepUp
    <2> QED
      BY <1>2, <2>1
  <1>10. ASSUME NEW a \in RotatingWriters
         PROVE  /\ Base(a) \in Nat /\ FirstRotating <= Base(a)
                /\ Base(a) + stages <= LastRotating
    <2> DEFINE x == WindowSize * Cardinality(below(a))
               y == WindowSize * Cardinality(RotatingWriters)
    <2>1. x \in Nat /\ y \in Nat /\ x + WindowSize <= y
      BY <1>5, <1>9
    <2>2. Base(a) = LastStatic + 1 + x
      BY <1>7
    <2>3. LastStatic + y <= LastRotating
      BY DEF RotatingFit
    <2> HIDE DEF x, y
    <2> QED
      BY <1>1, <1>2, <1>8, <2>1, <2>2, <2>3
  <1>11. ASSUME NEW a \in RotatingWriters, NEW b \in RotatingWriters, Place(a) < Place(b)
         PROVE  Base(a) + stages < Base(b)
    <2> DEFINE x == WindowSize * Cardinality(below(a))
               y == WindowSize * Cardinality(below(b))
    <2>1. x \in Nat /\ y \in Nat /\ x + WindowSize <= y
      BY <1>5, <1>6, <1>9, <1>11
    <2>2. Base(a) = LastStatic + 1 + x /\ Base(b) = LastStatic + 1 + y
      BY <1>7
    <2> HIDE DEF x, y
    <2> QED
      BY <1>1, <1>2, <1>8, <2>1, <2>2
  <1> QED
    BY <1>1, <1>2, <1>3, <1>10, <1>11

\* No name is in two windows.
LEMMA WindowsApart ==
    ASSUME Compacted, Exact, Scheduled, RotatingFit,
           NEW a \in RotatingWriters, NEW b \in RotatingWriters,
           NEW i \in 0 .. stages, NEW j \in 0 .. stages, Base(a) + i = Base(b) + j
    PROVE  a = b /\ i = j
  <1>1. /\ stages \in Nat /\ Base(a) \in Nat /\ Base(b) \in Nat
        /\ a \in DOMAIN program.code /\ b \in DOMAIN program.code
        /\ Place(a) < Place(b) => Base(a) + stages < Base(b)
        /\ Place(b) < Place(a) => Base(b) + stages < Base(a)
    BY WindowsAre
  <1>2. Place(a) \in Nat /\ Place(b) \in Nat
    BY <1>1, PlacesApart
  <1>3. Place(a) = Place(b)
    BY <1>1, <1>2
  <1>4. a = b
    BY <1>1, <1>3, PlacesApart
  <1> QED
    BY <1>1, <1>4

\* The register behind a name at a distance from the base.
At(x) == IF x >= 0 THEN FirstRotating + x ELSE FirstRotating + Rotating + x

\* A name of a window that the loop has gone round to.
LEMMA NameBehind ==
    ASSUME Compacted, Exact, Scheduled, RotatingFit, NEW w \in RotatingWriters,
           NEW v \in Int, NEW k \in Nat, 0 <= k - v, k - v <= stages, k < Rotating
    PROVE  RegisterBehind(Base(w) + (k - v), k) = At(Base(w) - FirstRotating - v)
  <1>1. /\ stages \in Nat /\ Base(w) \in Nat /\ FirstRotating <= Base(w)
        /\ Base(w) + stages <= LastRotating
    BY WindowsAre
  <1>2. /\ LastStatic \in Nat /\ LastRotating \in Nat /\ FirstRotating = LastStatic + 1
        /\ Rotating = LastRotating - LastStatic /\ Rotating \in Nat
    BY FileIs
  <1> DEFINE s == Base(w) - FirstRotating + (k - v)
  <1>3. s \in Nat /\ s < Rotating /\ k - s < Rotating /\ Base(w) + (k - v) = FirstRotating + s
    BY <1>1, <1>2
  <1>4. RegisterBehind(FirstRotating + s, k) =
           IF k <= s THEN FirstRotating + (s - k) ELSE FirstRotating + Rotating - (k - s)
    <2> HIDE DEF s
    <2> QED
      BY <1>3, BehindIs
  <1>5. s - k = Base(w) - FirstRotating - v
    BY <1>1, <1>2
  <1> QED
    BY <1>1, <1>2, <1>3, <1>4, <1>5 DEF At

\* Two names that share a register while both are in their windows are the same.
LEMMA SameRegister ==
    ASSUME Compacted, Exact, Scheduled, RotatingFit,
           NEW w \in RotatingWriters, NEW u \in RotatingWriters, NEW v \in Int, NEW m \in Int,
           v - m <= stages, m - v <= stages, -1 <= v, -1 <= m, v < Rotating, m < Rotating,
           At(Base(w) - FirstRotating - v) = At(Base(u) - FirstRotating - m)
    PROVE  w = u /\ v = m
  <1>1. /\ stages \in Nat \ {0} /\ Base(w) \in Nat /\ FirstRotating <= Base(w)
        /\ Base(w) + stages <= LastRotating
        /\ Base(u) \in Nat /\ FirstRotating <= Base(u) /\ Base(u) + stages <= LastRotating
    BY WindowsAre
  <1>2. /\ LastStatic \in Nat /\ LastRotating \in Nat /\ FirstRotating = LastStatic + 1
        /\ Rotating = LastRotating - LastStatic /\ Rotating \in Nat
    BY FileIs
  <1>3. PICK j \in Int : /\ 0 <= j - v /\ j - v <= stages /\ 0 <= j - m /\ j - m <= stages
    <2>1. CASE v <= m
      BY <1>1, <2>1
    <2>2. CASE m <= v
      BY <1>1, <2>2
    <2> QED
      BY <2>1, <2>2
  <1> DEFINE x == Base(w) - FirstRotating - v
             y == Base(u) - FirstRotating - m
  <1>4. /\ x \in Int /\ y \in Int /\ 0 <= x + j /\ x + j < Rotating /\ 0 <= y + j
        /\ y + j < Rotating /\ x > 0 - Rotating /\ y > 0 - Rotating
    BY <1>1, <1>2, <1>3
  <1>5. At(x) = At(y)
    OBVIOUS
  <1>6. x = y
    <2> HIDE DEF x, y
    <2>1. CASE x >= 0 /\ y >= 0
      BY <1>2, <1>4, <1>5, <2>1 DEF At
    <2>2. CASE x < 0 /\ y < 0
      BY <1>2, <1>4, <1>5, <2>2 DEF At
    <2>3. CASE x >= 0 /\ y < 0
      BY <1>2, <1>4, <1>5, <2>3 DEF At
    <2>4. CASE x < 0 /\ y >= 0
      BY <1>2, <1>4, <1>5, <2>4 DEF At
    <2> QED
      BY <1>4, <2>1, <2>2, <2>3, <2>4
  <1>7. Base(w) + (j - v) = Base(u) + (j - m)
    BY <1>1, <1>2, <1>3, <1>6
  <1>8. j - v \in 0 .. stages /\ j - m \in 0 .. stages
    BY <1>1, <1>3
  <1>9. w = u /\ j - v = j - m
    BY <1>7, <1>8, WindowsApart
  <1> QED
    BY <1>3, <1>9

-----------------------------------------------------------------------------
(* The values that the loop takes over *)

\* A dependency of the loop body on its previous iteration goes from the last writers of the
\* register.
LEMMA CarriedIs ==
    ASSUME Splittable(program), NEW c \in DOMAIN program.code,
           NEW d \in InterloopDependencies(program, c)
    PROVE  \E r \in Reads(Code(c)) :
              /\ d.reg = r /\ r \in Incoming(program, c) /\ Block(program, c) = "BB1"
              /\ d.producer = BlockProducer(program, "BB0", r)
              /\ d.previous = BlockProducer(program, "BB1", r)
              /\ d.previous \in RotatingWriters /\ Code(d.previous).dst = {r}
              /\ d.producer # 0 =>
                    d.producer \in InBlock(program, "BB0") /\ Code(d.producer).dst = {r}
  <1>1. program \in Program /\ \A a : Code(a) = program.code[a]
    BY SplittableIs DEF Code
  <1>2. PICK r \in Incoming(program, c) :
           /\ Block(program, c) = "BB1" /\ BlockProducer(program, "BB1", r) # 0
           /\ d = Dependency(r, BlockProducer(program, "BB0", r),
                                BlockProducer(program, "BB1", r))
    BY DEF InterloopDependencies
  <1>3. /\ d.reg = r /\ d.producer = BlockProducer(program, "BB0", r)
        /\ d.previous = BlockProducer(program, "BB1", r)
    BY <1>2 DEF Dependency
  <1>4. ASSUME NEW b, BlockProducer(program, b, r) # 0
        PROVE  /\ BlockProducer(program, b, r) \in InBlock(program, b)
               /\ Code(BlockProducer(program, b, r)).dst = {r}
    <2>1. /\ BlockProducer(program, b, r) \in InBlock(program, b)
          /\ BlockProducer(program, b, r) \in DOMAIN program.code
          /\ r \in Code(BlockProducer(program, b, r)).dst
      BY <1>1, <1>4, BlockProducerIs
    <2>2. \/ Code(BlockProducer(program, b, r)).dst = {}
          \/ \E q \in Reg : Code(BlockProducer(program, b, r)).dst = {q}
      BY <2>1, BlocksOf
    <2> QED
      BY <2>1, <2>2
  <1>5. d.previous \in RotatingWriters
    <2>1. Code(Control).dst = {}
      BY BlocksOf DEF Loop
    <2> QED
      BY <1>2, <1>3, <1>4, <2>1 DEF RotatingWriters, Body
  <1>6. r \in Reads(Code(c))
    BY <1>1 DEF Incoming
  <1> QED
    BY <1>2, <1>3, <1>4, <1>5, <1>6

\* An initial value is that of BB0's last writer of a register, and is replaced by that of
\* the loop's last writer.
LEMMA InitialIs ==
    ASSUME Splittable(program), NEW b \in Initials
    PROVE  /\ b \in InBlock(program, "BB0") /\ b \in DOMAIN program.code
           /\ Block(program, b) = "BB0" /\ b \notin RotatingWriters
           /\ Replacement(b) \in RotatingWriters
           /\ \E r : /\ Code(b).dst = {r} /\ Code(Replacement(b)).dst = {r}
                     /\ b = BlockProducer(program, "BB0", r)
                     /\ Replacement(b) = BlockProducer(program, "BB1", r)
           /\ \E c \in Body : \E d \in InterloopDependencies(program, c) :
                 d.producer = b /\ d.previous = Replacement(b)
  <1>1. \A c \in Body : c \in DOMAIN program.code
    BY BlocksOf
  <1>2. {d.previous : d \in {e \in CarriedFromBB0 : e.producer = b}} # {}
    BY DEF Initials
  <1>3. Replacement(b) \in {d.previous : d \in {e \in CarriedFromBB0 : e.producer = b}}
    BY <1>2 DEF Replacement, TheElement
  <1>4. PICK d \in CarriedFromBB0 : d.producer = b /\ d.previous = Replacement(b)
    BY <1>3
  <1>5. PICK c \in Body : d \in InterloopDependencies(program, c) /\ d.producer # 0
    BY DEF CarriedFromBB0
  <1>6. PICK r \in Reads(Code(c)) :
              /\ d.producer = BlockProducer(program, "BB0", r)
              /\ d.previous = BlockProducer(program, "BB1", r)
              /\ d.previous \in RotatingWriters /\ Code(d.previous).dst = {r}
              /\ d.producer \in InBlock(program, "BB0") /\ Code(d.producer).dst = {r}
    BY <1>1, <1>5, CarriedIs
  <1>7. b \in DOMAIN program.code /\ Block(program, b) = "BB0"
    BY <1>4, <1>6 DEF InBlock
  <1>8. b \notin RotatingWriters
    <2>1. b \in Body => Block(program, b) = "BB1"
      BY <1>7, BlocksOf
    <2> QED
      BY <1>7, <2>1 DEF RotatingWriters
  <1> QED
    BY <1>4, <1>5, <1>6, <1>7, <1>8

\* A result replaces one initial value: that of the dependency.
LEMMA ReplacementsApart ==
    ASSUME Splittable(program)
    PROVE  /\ \A b, c \in Initials : Replacement(b) = Replacement(c) => b = c
           /\ \A c \in Body : \A d \in InterloopDependencies(program, c) :
                 /\ d.producer # 0 =>
                       d.producer \in Initials /\ Replacement(d.producer) = d.previous
                 /\ d.producer = 0 => \A b \in Initials : Replacement(b) # d.previous
  <1>1. ASSUME NEW b \in Initials, NEW c \in Initials, Replacement(b) = Replacement(c)
        PROVE  b = c
    <2>1. PICK r : /\ Code(Replacement(b)).dst = {r} /\ b = BlockProducer(program, "BB0", r)
      BY InitialIs
    <2>2. PICK q : /\ Code(Replacement(c)).dst = {q} /\ c = BlockProducer(program, "BB0", q)
      BY InitialIs
    <2>3. r = q
      BY <1>1, <2>1, <2>2
    <2> QED
      BY <2>1, <2>2, <2>3
  <1>2. ASSUME NEW c \in Body, NEW d \in InterloopDependencies(program, c)
        PROVE  /\ d.producer # 0 =>
                     d.producer \in Initials /\ Replacement(d.producer) = d.previous
               /\ d.producer = 0 => \A b \in Initials : Replacement(b) # d.previous
    <2>1. c \in DOMAIN program.code
      BY BlocksOf
    <2>2. PICK r \in Reads(Code(c)) :
              /\ d.producer = BlockProducer(program, "BB0", r)
              /\ d.previous = BlockProducer(program, "BB1", r)
              /\ d.previous \in RotatingWriters /\ Code(d.previous).dst = {r}
              /\ d.producer # 0 =>
                    d.producer \in InBlock(program, "BB0") /\ Code(d.producer).dst = {r}
      BY <2>1, CarriedIs
    <2>3. ASSUME d.producer # 0
          PROVE  d.producer \in Initials /\ Replacement(d.producer) = d.previous
      <3>1. d \in CarriedFromBB0
        BY <2>3 DEF CarriedFromBB0
      <3>2. d.producer \in Initials
        BY <3>1 DEF Initials
      <3>3. PICK q : /\ Code(d.producer).dst = {q}
                     /\ Replacement(d.producer) = BlockProducer(program, "BB1", q)
        BY <3>2, InitialIs
      <3>4. q = r
        BY <2>2, <2>3, <3>3
      <3> QED
        BY <2>2, <3>2, <3>3, <3>4
    <2>4. ASSUME d.producer = 0, NEW b \in Initials, Replacement(b) = d.previous
          PROVE  FALSE
      <3>1. PICK q : /\ Code(Replacement(b)).dst = {q} /\ b = BlockProducer(program, "BB0", q)
        BY InitialIs
      <3>2. q = r
        BY <2>2, <2>4, <3>1
      <3>3. b = 0 /\ b \in DOMAIN program.code
        BY <2>2, <2>4, <3>1, <3>2, InitialIs
      <3> QED
        BY <3>3, BlocksOf
    <2> QED
      BY <2>3, <2>4
  <1> QED
    BY <1>1, <1>2

-----------------------------------------------------------------------------
(* Static names *)

\* The operand of a register that is read.
LEMMA OperandIs ==
    ASSUME Splittable(program), NEW a \in DOMAIN program.code, NEW r \in Reads(Code(a))
    PROVE  /\ FirstOperand(a, r) \in DOMAIN Code(a).src
           /\ Code(a).src[FirstOperand(a, r)] = r /\ FirstOperand(a, r) \in Nat
  <1>1. Code(a).src \in Seq(Reg)
    BY BlocksOf
  <1>2. DOMAIN Code(a).src \subseteq Nat
    BY <1>1
  <1>3. {k \in DOMAIN Code(a).src : Code(a).src[k] = r} # {}
    BY DEF Reads
  <1>4. FirstOperand(a, r) \in {k \in DOMAIN Code(a).src : Code(a).src[k] = r}
    BY <1>2, <1>3, SmallestIs DEF FirstOperand
  <1> QED
    BY <1>2, <1>4

\* An invariant value is that of BB0's last writer of a register that the loop does not write;
\* its first reader reads this register.
LEMMA InvariantIs ==
    ASSUME Splittable(program), NEW d \in Invariants
    PROVE  /\ d.producer \in DOMAIN program.code /\ Block(program, d.producer) = "BB0"
           /\ Code(d.producer).dst = {d.reg}
           /\ d.producer = BlockProducer(program, "BB0", d.reg)
           /\ d.producer \notin Initials
           /\ FirstReader(d.producer) \in DOMAIN program.code
           /\ d.reg \in Reads(Code(FirstReader(d.producer)))
  <1>1. program \in Program /\ DOMAIN program.code \subseteq Nat
        /\ \A a : Code(a) = program.code[a]
    BY SplittableIs, BlocksOf DEF Code
  <1>2. ASSUME NEW a \in DOMAIN program.code, NEW e \in InvariantDependencies(program, a)
        PROVE  /\ e.reg \in Reads(Code(a)) /\ BlockProducer(program, "BB1", e.reg) = 0
               /\ e.producer = BlockProducer(program, "BB0", e.reg)
               /\ e.producer \in DOMAIN program.code /\ Block(program, e.producer) = "BB0"
               /\ Code(e.producer).dst = {e.reg}
    <2>1. PICK r \in Incoming(program, a) :
             /\ BlockProducer(program, "BB1", r) = 0 /\ BlockProducer(program, "BB0", r) # 0
             /\ e = Dependency(r, BlockProducer(program, "BB0", r), 0)
      BY <1>2 DEF InvariantDependencies
    <2>2. e.reg = r /\ e.producer = BlockProducer(program, "BB0", r)
      BY <2>1 DEF Dependency
    <2>3. r \in Reads(Code(a))
      BY <1>1 DEF Incoming
    <2>4. /\ e.producer \in InBlock(program, "BB0") /\ e.producer \in DOMAIN program.code
          /\ r \in Code(e.producer).dst
      BY <1>1, <2>1, <2>2, BlockProducerIs
    <2>5. Code(e.producer).dst = {} \/ \E q \in Reg : Code(e.producer).dst = {q}
      BY <2>4, BlocksOf
    <2> QED
      BY <2>1, <2>2, <2>3, <2>4, <2>5 DEF InBlock
  <1>3. PICK a \in DOMAIN program.code : d \in InvariantDependencies(program, a)
    BY DEF Invariants
  <1> DEFINE readers == {x \in DOMAIN program.code :
                            \E e \in InvariantDependencies(program, x) : e.producer = d.producer}
  <1>4. FirstReader(d.producer) \in readers
    <2>1. readers \in SUBSET Nat /\ readers # {}
      BY <1>1, <1>3
    <2>2. FirstReader(d.producer) = Smallest(readers)
      BY DEF FirstReader
    <2> QED
      BY <2>1, <2>2, SmallestIs
  <1>5. PICK e \in InvariantDependencies(program, FirstReader(d.producer)) :
           e.producer = d.producer
    BY <1>4
  <1>6. e.reg = d.reg /\ e.reg \in Reads(Code(FirstReader(d.producer)))
    BY <1>2, <1>3, <1>4, <1>5
  <1>7. d.producer \notin Initials
    <2>1. ASSUME d.producer \in Initials PROVE FALSE
      <3>1. PICK r : /\ Code(d.producer).dst = {r}
                     /\ Replacement(d.producer) = BlockProducer(program, "BB1", r)
                     /\ Replacement(d.producer) \in RotatingWriters
        BY <2>1, InitialIs
      <3>2. r = d.reg /\ Replacement(d.producer) = 0
        BY <1>2, <1>3, <3>1
      <3> QED
        BY <3>1, <3>2, BlocksOf DEF RotatingWriters
    <2> QED
      BY <2>1
  <1> QED
    BY <1>2, <1>3, <1>4, <1>6, <1>7

\* A claim is named by its pass, its place in the pass and its operand.
LEMMA ClaimsAre ==
    ASSUME Compacted, Exact, Scheduled
    PROVE  /\ \A c \in Claims : c[1] \in {1, 2, 3} /\ c[2] \in Nat /\ c[3] \in Nat
           /\ \A c \in Claims : c[1] = 3 <=> c \in ExternalClaims
           /\ \A c, d \in Claims : c[1] = d[1] /\ c[2] = d[2] /\ c[3] = d[3] => c = d
  <1>1. Splittable(program) /\ DOMAIN program.code \subseteq Nat
    BY BlocksOf DEF Compacted
  <1>2. ASSUME NEW c \in InvariantClaims
        PROVE  /\ c[1] = 1 /\ c[2] \in Nat /\ c[3] \in Nat
               /\ c[2] \in DOMAIN program.code
               /\ c = <<1, c[2], c[3], BlockProducer(program, "BB0", Code(c[2]).src[c[3]])>>
    <2>1. PICK d \in Invariants :
             c = <<1, FirstReader(d.producer), FirstOperand(FirstReader(d.producer), d.reg),
                   d.producer>>
      BY DEF InvariantClaims
    <2>2. /\ FirstReader(d.producer) \in DOMAIN program.code
          /\ d.producer = BlockProducer(program, "BB0", d.reg)
          /\ d.reg \in Reads(Code(FirstReader(d.producer)))
      BY <1>1, InvariantIs
    <2>3. /\ Code(FirstReader(d.producer)).src[FirstOperand(FirstReader(d.producer), d.reg)] = d.reg
          /\ FirstOperand(FirstReader(d.producer), d.reg) \in Nat
      BY <1>1, <2>2, OperandIs
    <2> QED
      BY <1>1, <2>1, <2>2, <2>3
  <1>3. ASSUME NEW c \in RemainingClaims
        PROVE  c[1] = 2 /\ c[2] \in Nat /\ c[3] = 0 /\ c = <<2, c[2], 0, c[2]>>
    BY <1>1 DEF RemainingClaims
  <1>4. ASSUME NEW c \in ExternalClaims
        PROVE  /\ c[1] = 3 /\ c[2] \in Nat /\ c[3] \in Nat
               /\ c[4] \in DOMAIN program.code /\ c[2] = Place(c[4])
               /\ c = <<3, c[2], c[3], c[4]>>
    <2>1. PICK a \in DOMAIN program.code : \E r \in External(a) :
             c = <<3, Place(a), FirstOperand(a, r), a>>
      BY DEF ExternalClaims
    <2> PICK r \in External(a) : c = <<3, Place(a), FirstOperand(a, r), a>>
      BY <2>1
    <2>2. Place(a) \in Nat
      BY PlacesApart
    <2>3. FirstOperand(a, r) \in Nat
      BY <1>1, OperandIs DEF External
    <2> QED
      BY <2>1, <2>2, <2>3
  <1>5. \A c \in Claims : c[1] = 3 <=> c \in ExternalClaims
    BY <1>2, <1>3, <1>4 DEF Claims
  <1>6. ASSUME NEW c \in Claims, NEW d \in Claims, c[1] = d[1], c[2] = d[2], c[3] = d[3]
        PROVE  c = d
    <2>1. CASE c \in InvariantClaims
      <3>1. d \in InvariantClaims
        BY <1>2, <1>3, <1>4, <1>6, <2>1 DEF Claims
      <3> QED
        BY <1>2, <1>6, <2>1, <3>1
    <2>2. CASE c \in RemainingClaims
      <3>1. d \in RemainingClaims
        BY <1>2, <1>3, <1>4, <1>6, <2>2 DEF Claims
      <3> QED
        BY <1>3, <1>6, <2>2, <3>1
    <2>3. CASE c \in ExternalClaims
      <3>1. d \in ExternalClaims
        BY <1>2, <1>3, <1>4, <1>6, <2>3 DEF Claims
      <3>2. c[4] = d[4]
        BY <1>4, <1>6, <2>3, <3>1, PlacesApart
      <3> QED
        BY <1>4, <1>6, <2>3, <3>1, <3>2
    <2> QED
      BY <2>1, <2>2, <2>3 DEF Claims
  <1>7. \A c \in Claims : c[1] \in {1, 2, 3} /\ c[2] \in Nat /\ c[3] \in Nat
    BY <1>2, <1>3, <1>4 DEF Claims
  <1> QED
    BY <1>5, <1>6, <1>7

\* There are finitely many.
LEMMA ClaimsFinite ==
    ASSUME Splittable(program)
    PROVE  IsFiniteSet(Claims)
  <1>1. program \in Program /\ IsFiniteSet(DOMAIN program.code)
    BY SplittableIs, BlocksOf
  <1> DEFINE of == [a \in DOMAIN program.code |-> InvariantDependencies(program, a)]
             one == [d \in Invariants |->
                        <<1, FirstReader(d.producer),
                          FirstOperand(FirstReader(d.producer), d.reg), d.producer>>]
             rest2 == {b \in DOMAIN program.code \ InBlock(program, "BB1") :
                          Code(b).dst # {} /\ b \notin Initials
                             /\ \A d \in Invariants : d.producer # b}
             two == [a \in rest2 |-> <<2, a, 0, a>>]
             sets == [a \in DOMAIN program.code |->
                         {<<3, Place(a), FirstOperand(a, r), a>> : r \in External(a)}]
  <1>2. IsFiniteSet(Invariants)
    <2>1. Invariants = UNION {of[a] : a \in DOMAIN program.code}
      BY DEF Invariants
    <2>2. IsFiniteSet({of[a] : a \in DOMAIN program.code})
      <3> HIDE DEF of
      <3> QED
        BY <1>1, FiniteImage
    <2>3. \A S \in {of[a] : a \in DOMAIN program.code} : IsFiniteSet(S)
      BY <1>1, FiniteDependencies
    <2> HIDE DEF of
    <2> QED
      BY <2>1, <2>2, <2>3, FS_UNION
  <1>3. IsFiniteSet(InvariantClaims)
    <2>1. InvariantClaims = {one[d] : d \in Invariants}
      BY DEF InvariantClaims
    <2> HIDE DEF one
    <2> QED
      BY <1>2, <2>1, FiniteImage
  <1>4. IsFiniteSet(RemainingClaims)
    <2>1. RemainingClaims = {two[a] : a \in rest2}
      BY DEF RemainingClaims
    <2>2. rest2 \in SUBSET (DOMAIN program.code)
      OBVIOUS
    <2>3. IsFiniteSet(rest2)
      <3> HIDE DEF rest2
      <3> QED
        BY <1>1, <2>2, FS_Subset
    <2> HIDE DEF two, rest2
    <2> QED
      BY <2>1, <2>3, FiniteImage
  <1>5. ASSUME NEW a \in DOMAIN program.code
        PROVE  IsFiniteSet({<<3, Place(a), FirstOperand(a, r), a>> : r \in External(a)})
    <2> DEFINE three == [r \in External(a) |-> <<3, Place(a), FirstOperand(a, r), a>>]
    <2>1. IsFiniteSet(Reads(Code(a)))
      <3>1. Code(a).src \in Seq(Reg)
        BY BlocksOf
      <3>2. DOMAIN Code(a).src = 1 .. Len(Code(a).src) /\ Len(Code(a).src) \in Nat
        BY <3>1
      <3>3. IsFiniteSet(DOMAIN Code(a).src)
        BY <3>2, FS_Interval
      <3> QED
        BY <3>3, FiniteImage DEF Reads
    <2>2. External(a) \in SUBSET Reads(Code(a))
      BY DEF External
    <2>3. IsFiniteSet(External(a))
      BY <2>1, <2>2, FS_Subset
    <2>4. {<<3, Place(a), FirstOperand(a, r), a>> : r \in External(a)}
             = {three[r] : r \in External(a)}
      OBVIOUS
    <2> HIDE DEF three
    <2>5. IsFiniteSet({three[r] : r \in External(a)})
      BY <2>3, FiniteImage
    <2> QED
      BY <2>4, <2>5
  <1>6. IsFiniteSet(ExternalClaims)
    <2>1. ExternalClaims = UNION {sets[a] : a \in DOMAIN program.code}
      BY DEF ExternalClaims
    <2>2. \A S \in {sets[a] : a \in DOMAIN program.code} : IsFiniteSet(S)
      BY <1>5
    <2> HIDE DEF sets
    <2>3. IsFiniteSet({sets[a] : a \in DOMAIN program.code})
      BY <1>1, FiniteImage
    <2> QED
      BY <2>1, <2>2, <2>3, FS_UNION
  <1> HIDE DEF of, one, two, rest2, sets
  <1> QED
    BY <1>3, <1>4, <1>6, FS_Union DEF Claims

\* Each claim gets a static register of its own.
LEMMA StaticNamesAre ==
    ASSUME Compacted, Exact, Scheduled, StaticFit
    PROVE  /\ \A c \in Claims : StaticName(c) \in 1 .. LastStatic
           /\ \A c, d \in Claims : StaticName(c) = StaticName(d) => c = d
  <1>1. /\ \A c \in Claims : c[1] \in {1, 2, 3} /\ c[2] \in Nat /\ c[3] \in Nat
        /\ \A c, d \in Claims : c[1] = d[1] /\ c[2] = d[2] /\ c[3] = d[3] => c = d
    BY ClaimsAre
  <1>2. IsFiniteSet(Claims)
    BY ClaimsFinite DEF Compacted
  <1>3. ASSUME NEW c \in Claims, NEW d \in Claims
        PROVE  Before(c, d) <=> \/ c[1] < d[1]
                                \/ c[1] = d[1] /\ c[2] < d[2]
                                \/ c[1] = d[1] /\ c[2] = d[2] /\ c[3] < d[3]
    <2>1. 1 .. 3 = {1, 2, 3} /\ 1 .. (1 - 1) = {} /\ 1 .. (2 - 1) = {1} /\ 1 .. (3 - 1) = {1, 2}
      OBVIOUS
    <2> QED
      BY <2>1 DEF Before
  <1> DEFINE below(c) == {x \in Claims : Before(x, c)}
  <1>4. ASSUME NEW c \in Claims
        PROVE  /\ below(c) \in SUBSET Claims /\ c \notin below(c)
               /\ IsFiniteSet(below(c)) /\ Cardinality(below(c)) \in Nat
    <2>1. below(c) \in SUBSET Claims
      OBVIOUS
    <2>2. ~Before(c, c)
      BY <1>1, <1>3
    <2>3. IsFiniteSet(below(c))
      BY <1>2, <2>1, FS_Subset
    <2> QED
      BY <2>1, <2>2, <2>3, FS_CardinalityType
  <1>5. ASSUME NEW c \in Claims, NEW T \in SUBSET Claims, (below(c) \cup {c}) \subseteq T
        PROVE  Cardinality(below(c)) + 1 <= Cardinality(T)
    <2>1. Cardinality(below(c) \cup {c}) = Cardinality(below(c)) + 1
      BY <1>4, FS_AddElement
    <2>2. IsFiniteSet(T)
      BY <1>2, <1>5, FS_Subset
    <2>3. (below(c) \cup {c}) \in SUBSET T
      BY <1>5
    <2> QED
      BY <2>1, <2>2, <2>3, FS_Subset
  <1>6. ASSUME NEW c \in Claims, NEW d \in Claims, Before(c, d)
        PROVE  Cardinality(below(c)) < Cardinality(below(d))
    <2>1. ASSUME NEW x \in Claims, Before(x, c) PROVE Before(x, d)
      BY <1>1, <1>3, <1>6, <2>1
    <2>2. (below(c) \cup {c}) \subseteq below(d)
      BY <1>6, <2>1
    <2>3. below(d) \in SUBSET Claims
      OBVIOUS
    <2>4. Cardinality(below(c)) + 1 <= Cardinality(below(d))
      BY <1>5, <2>2, <2>3
    <2> HIDE DEF below
    <2>5. Cardinality(below(c)) \in Nat /\ Cardinality(below(d)) \in Nat
      BY <1>4
    <2> QED
      BY <2>4, <2>5
  <1>7. \A c : StaticName(c) = 1 + Cardinality(below(c))
    BY DEF StaticName
  <1>8. ASSUME NEW c \in Claims PROVE StaticName(c) \in 1 .. LastStatic
    <2>1. Cardinality(below(c)) + 1 <= Cardinality(Claims)
      <3>1. (below(c) \cup {c}) \subseteq Claims
        OBVIOUS
      <3> QED
        BY <1>5, <3>1
    <2>2. Cardinality(Claims) <= LastStatic /\ Cardinality(Claims) \in Nat
      BY <1>2, FS_CardinalityType DEF StaticFit
    <2> HIDE DEF below
    <2>3. StaticName(c) = 1 + Cardinality(below(c)) /\ Cardinality(below(c)) \in Nat
      BY <1>4, <1>7
    <2>4. LastStatic \in Nat
      BY FileIs
    <2> QED
      BY <2>1, <2>2, <2>3, <2>4
  <1> HIDE DEF below
  <1>9. ASSUME NEW c \in Claims, NEW d \in Claims, StaticName(c) = StaticName(d)
        PROVE  c = d
    <2>1. Cardinality(below(c)) = Cardinality(below(d))
      BY <1>4, <1>7, <1>9
    <2>2. ~Before(c, d) /\ ~Before(d, c)
      BY <1>4, <1>6, <2>1
    <2> QED
      BY <1>1, <1>3, <2>2
  <1> QED
    BY <1>8, <1>9

-----------------------------------------------------------------------------
(* Where results go *)

\* A result with a rotating name, the result whose window it enters, and when it would have
\* been written there under the first name of the window.
Rotary(a) == a \in RotatingWriters \cup Initials
Home(a) == IF a \in Initials THEN Replacement(a) ELSE a
Lag(e) == IF e[1] \in Initials THEN Stage(Replacement(e[1])) - 1 ELSE e[2]

\* What can be relied on while the machine runs.
LEMMA HoldingIs ==
    ASSUME Holding
    PROVE  /\ Following /\ Compacted /\ Exact /\ Scheduled /\ RotatingFit /\ StaticFit
           /\ Splittable(program) /\ stages \in Nat \ {0} /\ ii \in Nat \ {0}
           /\ lap \in Nat /\ lap < Rotating /\ lap <= Times + stages - 2 /\ Times \in Nat \ {0}
           /\ rrb = lap /\ phase = "running"
           /\ LastStatic \in Nat \ {0} /\ LastRotating \in Nat /\ FirstRotating = LastStatic + 1
           /\ Rotating = LastRotating - LastStatic /\ Rotating \in Nat \ {0}
           /\ Register = 0 .. LastRotating
  <1>1. Following /\ Compacted /\ Scheduled /\ MachineInv
    BY FollowingIs DEF Holding
  <1>2. Exact /\ Named /\ phase = "running"
    BY DEF Holding
  <1>3. RotatingFit /\ StaticFit
    BY <1>2 DEF Named
  <1>4. Splittable(program) /\ rrb = lap
    BY <1>1, <1>2 DEF Compacted, MachineInv
  <1>5. /\ stages \in Nat \ {0} /\ ii \in Nat \ {0} /\ lap \in Nat
        /\ lap <= Times + stages - 2 /\ Times + stages - 2 < Rotating
        /\ Times \in Nat \ {0}
    BY <1>1, LapIs, TimesIs
  <1>6. Rotating \in Nat
    BY FileIs
  <1>7. lap < Rotating
    BY <1>5, <1>6
  <1> QED
    BY <1>1, <1>2, <1>3, <1>4, <1>5, <1>7, FileIs

\* A register of the rotating part.
LEMMA AtIs ==
    ASSUME Holding, NEW w \in RotatingWriters, NEW v \in Int, -1 <= v, v <= lap
    PROVE  /\ At(Base(w) - FirstRotating - v) \in Register
           /\ At(Base(w) - FirstRotating - v) >= FirstRotating
           /\ v < Rotating
  <1>1. /\ Compacted /\ Exact /\ Scheduled /\ RotatingFit /\ stages \in Nat \ {0}
        /\ lap \in Nat /\ lap < Rotating /\ Register = 0 .. LastRotating
        /\ LastStatic \in Nat \ {0} /\ LastRotating \in Nat /\ FirstRotating = LastStatic + 1
        /\ Rotating = LastRotating - LastStatic /\ Rotating \in Nat \ {0}
    BY HoldingIs
  <1>2. Base(w) \in Nat /\ FirstRotating <= Base(w) /\ Base(w) + stages <= LastRotating
    BY <1>1, WindowsAre
  <1> DEFINE x == Base(w) - FirstRotating - v
  <1>3. x \in Int /\ 0 - Rotating < x /\ x < Rotating
    BY <1>1, <1>2
  <1>4. At(x) \in Register /\ At(x) >= FirstRotating
    <2> HIDE DEF x
    <2> QED
      BY <1>1, <1>3 DEF At
  <1> QED
    BY <1>1, <1>4

\* The register of a result with a rotating name.
LEMMA RotatingGoal ==
    ASSUME Holding, InitialsInReach, NEW e \in Writing, Rotary(e[1])
    PROVE  /\ Home(e[1]) \in RotatingWriters
           /\ Lag(e) \in Int /\ -1 <= Lag(e) /\ Lag(e) <= lap
           /\ e[1] \in Initials => e[2] = 0 /\ Lag(e) = Stage(Home(e[1])) - 1 /\ Lag(e) <= 0
           /\ e[1] \notin Initials => Lag(e) = e[2] /\ Stage(e[1]) <= e[2] /\ Home(e[1]) = e[1]
           /\ Goal(e) = At(Base(Home(e[1])) - FirstRotating - Lag(e))
           /\ Goal(e) \in Register /\ Goal(e) >= FirstRotating
  <1>1. /\ Following /\ Compacted /\ Exact /\ Scheduled /\ RotatingFit /\ stages \in Nat \ {0}
        /\ Splittable(program) /\ lap \in Nat /\ lap < Rotating
    BY HoldingIs
  <1>2. /\ e = <<e[1], e[2]>> /\ e[1] \in DOMAIN program.code /\ e[2] \in Nat /\ e[2] <= lap
        /\ HasRun(e[1], e[2])
    BY IssuedBefore DEF Holding, Writing
  <1>3. \A a \in RotatingWriters : a \in Body /\ Block(program, a) = "BB1"
                                     /\ a \in DOMAIN program.code
    BY <1>1, BlocksOf DEF RotatingWriters
  <1>4. \A a \in RotatingWriters : Stage(a) \in Nat /\ Stage(a) < stages
    BY <1>1, <1>3, BundlesAre
  <1>5. \A a \in RotatingWriters : Base(a) \in Nat /\ FirstRotating <= Base(a)
    BY <1>1, WindowsAre
  <1>6. CASE e[1] \in Initials
    <2> DEFINE w == Replacement(e[1])
    <2>1. /\ Block(program, e[1]) = "BB0" /\ e[1] \notin RotatingWriters
          /\ w \in RotatingWriters
      BY <1>1, <1>6, InitialIs
    <2>2. e[2] = 0
      BY <1>2, <2>1 DEF HasRun
    <2>3. Stage(w) \in Nat /\ Stage(w) <= 1 /\ Lag(e) = Stage(w) - 1 /\ Home(e[1]) = w
      BY <1>4, <1>6, <2>1 DEF InitialsInReach, Lag, Home
    <2>4. ResultName(e[1]) = InWindow(w, 1 - Stage(w))
      BY <1>6, <2>1 DEF ResultName
    <2>5. (1 - Stage(w)) % WindowSize = 1 - Stage(w)
      <3>1. WindowSize \in Nat /\ WindowSize >= 2
        BY <1>1 DEF WindowSize
      <3>2. \A x \in {0, 1} : x % WindowSize = x
        BY <3>1
      <3>3. 1 - Stage(w) \in {0, 1}
        BY <2>3
      <3> QED
        BY <3>2, <3>3
    <2>6. ResultName(e[1]) = Base(w) + (0 - Lag(e))
      <3>1. Base(w) \in Nat
        BY <1>5, <2>1
      <3> QED
        BY <2>3, <2>4, <2>5, <3>1 DEF InWindow
    <2>7. Lag(e) \in Int /\ -1 <= Lag(e) /\ Lag(e) <= 0
      BY <2>3
    <2> HIDE DEF w
    <2>8. RegisterBehind(Base(w) + (0 - Lag(e)), 0) = At(Base(w) - FirstRotating - Lag(e))
      <3>1. 0 <= 0 - Lag(e) /\ 0 - Lag(e) <= stages /\ 0 < Rotating
        BY <1>1, <2>7, HoldingIs
      <3> QED
        BY <1>1, <2>1, <2>7, <3>1, NameBehind
    <2>9. Goal(e) = At(Base(w) - FirstRotating - Lag(e))
      BY <2>2, <2>6, <2>8 DEF Goal
    <2>10. Lag(e) <= lap
      BY <1>1, <2>7
    <2>11. Goal(e) \in Register /\ Goal(e) >= FirstRotating
      BY <2>1, <2>7, <2>9, <2>10, AtIs
    <2> QED
      BY <1>6, <2>1, <2>2, <2>3, <2>7, <2>9, <2>10, <2>11
  <1>7. CASE e[1] \notin Initials
    <2>1. e[1] \in RotatingWriters
      BY <1>7 DEF Rotary
    <2>2. Home(e[1]) = e[1] /\ Lag(e) = e[2]
      BY <1>7 DEF Home, Lag
    <2>3. Stage(e[1]) <= e[2]
      BY <1>2, <1>3, <2>1 DEF HasRun
    <2>4. ResultName(e[1]) = Base(e[1]) + (e[2] - e[2])
      BY <1>2, <1>5, <2>1 DEF ResultName
    <2>5. RegisterBehind(Base(e[1]) + (e[2] - e[2]), e[2]) = At(Base(e[1]) - FirstRotating - e[2])
      <3>1. e[2] \in Int /\ 0 <= e[2] - e[2] /\ e[2] - e[2] <= stages /\ e[2] < Rotating
        BY <1>1, <1>2, HoldingIs
      <3> QED
        BY <1>1, <1>2, <2>1, <3>1, NameBehind
    <2>6. Goal(e) = At(Base(e[1]) - FirstRotating - e[2])
      BY <2>4, <2>5 DEF Goal
    <2>7. e[2] \in Int /\ -1 <= e[2]
      BY <1>2
    <2>8. Goal(e) \in Register /\ Goal(e) >= FirstRotating
      BY <1>2, <2>1, <2>6, <2>7, AtIs
    <2> QED
      BY <1>2, <1>7, <2>1, <2>2, <2>3, <2>6, <2>7, <2>8
  <1> QED
    BY <1>6, <1>7

\* The claim of a result without a rotating name.
LEMMA StaticResult ==
    ASSUME Compacted, Exact, Scheduled, NEW a \in DOMAIN program.code, Code(a).dst # {},
           ~Rotary(a)
    PROVE  \E c \in Claims : /\ c[4] = a /\ c \notin ExternalClaims
                             /\ ResultName(a) = StaticName(c)
  <1>1. Splittable(program)
    BY DEF Compacted
  <1>2. a \notin RotatingWriters /\ a \notin Initials /\ a \notin InBlock(program, "BB1")
    <2>1. Code(Control).dst = {}
      BY <1>1, BlocksOf DEF Loop
    <2> QED
      BY <2>1 DEF Rotary, RotatingWriters, Body
  <1>3. \E c \in InvariantClaims \cup RemainingClaims : c[4] = a
    <2>1. CASE \E d \in Invariants : d.producer = a
      <3>1. PICK d \in Invariants : d.producer = a
        BY <2>1
      <3>2. <<1, FirstReader(d.producer), FirstOperand(FirstReader(d.producer), d.reg),
              d.producer>> \in InvariantClaims
        BY DEF InvariantClaims
      <3> QED
        BY <3>1, <3>2
    <2>2. CASE \A d \in Invariants : d.producer # a
      <3>1. <<2, a, 0, a>> \in RemainingClaims
        BY <1>2, <2>2 DEF RemainingClaims
      <3> QED
        BY <3>1
    <2> QED
      BY <2>1, <2>2
  <1> DEFINE c == TheElement({x \in InvariantClaims \cup RemainingClaims : x[4] = a})
  <1>4. c \in InvariantClaims \cup RemainingClaims /\ c[4] = a
    BY <1>3 DEF TheElement
  <1>5. ResultName(a) = StaticName(c)
    BY <1>2 DEF ResultName
  <1> HIDE DEF c
  <1>6. c \in Claims /\ c \notin ExternalClaims
    <2>1. c \in Claims /\ (c[1] = 3 <=> c \in ExternalClaims)
      BY <1>4, ClaimsAre DEF Claims
    <2>2. c[1] # 3
      BY <1>4 DEF InvariantClaims, RemainingClaims
    <2> QED
      BY <2>1, <2>2
  <1> QED
    BY <1>4, <1>5, <1>6

\* A static name is the register behind it.
LEMMA StaticBehind ==
    ASSUME Holding, NEW c \in Claims, NEW n
    PROVE  /\ RegisterBehind(StaticName(c), n) = StaticName(c)
           /\ StaticName(c) \in Register /\ StaticName(c) < FirstRotating
  <1>1. /\ StaticName(c) \in 1 .. LastStatic
        /\ LastStatic \in Nat \ {0} /\ LastRotating \in Nat /\ FirstRotating = LastStatic + 1
        /\ Rotating = LastRotating - LastStatic /\ Rotating \in Nat \ {0}
        /\ Register = 0 .. LastRotating
    BY HoldingIs, StaticNamesAre
  <1> QED
    BY <1>1 DEF RegisterBehind

\* A result that shares a register with a name of a window either is the one of this name
\* or is older than the window is wide.
LEMMA NoOther ==
    ASSUME Holding, InitialsInReach, NEW w \in RotatingWriters,
           NEW v \in Int, -1 <= v, v <= lap, lap <= v + stages,
           NEW f \in Writing, Goal(f) = At(Base(w) - FirstRotating - v)
    PROVE  /\ Rotary(f[1])
           /\ (Home(f[1]) = w /\ Lag(f) = v) \/ Lag(f) + stages < v
  <1>1. /\ Compacted /\ Exact /\ Scheduled /\ RotatingFit /\ StaticFit /\ stages \in Nat \ {0}
        /\ lap \in Nat /\ lap < Rotating /\ Rotating \in Nat
    BY HoldingIs
  <1>2. Goal(f) >= FirstRotating /\ v < Rotating
    BY AtIs
  <1>3. Rotary(f[1])
    <2>1. ASSUME ~Rotary(f[1]) PROVE FALSE
      <3>1. f[1] \in DOMAIN program.code /\ Code(f[1]).dst # {}
        BY IssuedBefore DEF Holding, Writing
      <3>2. PICK c \in Claims : ResultName(f[1]) = StaticName(c)
        BY <1>1, <2>1, <3>1, StaticResult
      <3>3. Goal(f) = StaticName(c) /\ StaticName(c) < FirstRotating
        BY <3>2, StaticBehind DEF Goal
      <3>4. StaticName(c) \in Nat /\ FirstRotating \in Nat
        BY <1>1, StaticNamesAre, FileIs
      <3> QED
        BY <1>2, <3>3, <3>4
    <2> QED
      BY <2>1
  <1>4. /\ Home(f[1]) \in RotatingWriters
        /\ Lag(f) \in Int /\ -1 <= Lag(f) /\ Lag(f) <= lap
        /\ Goal(f) = At(Base(Home(f[1])) - FirstRotating - Lag(f))
    BY <1>3, RotatingGoal
  <1>5. ASSUME Lag(f) + stages >= v
        PROVE  Home(f[1]) = w /\ Lag(f) = v
    <2>1. v - Lag(f) <= stages /\ Lag(f) - v <= stages /\ Lag(f) < Rotating
      BY <1>1, <1>4, <1>5
    <2> QED
      BY <1>1, <1>2, <1>4, <2>1, SameRegister
  <1> QED
    BY <1>1, <1>3, <1>4, <1>5

\* One result enters a window at a time.
LEMMA OneHome ==
    ASSUME Holding, InitialsInReach, NEW e \in Writing, NEW f \in Writing,
           Rotary(e[1]), Rotary(f[1]), Home(e[1]) = Home(f[1]), Lag(e) = Lag(f)
    PROVE  e = f
  <1>1. e = <<e[1], e[2]>> /\ f = <<f[1], f[2]>>
    BY IssuedBefore DEF Holding, Writing
  <1>2. Splittable(program) /\ Compacted /\ Scheduled
    BY HoldingIs
  <1>3. ASSUME NEW x \in Writing, NEW y \in Writing, Rotary(x[1]), Rotary(y[1]),
               Home(x[1]) = Home(y[1]), Lag(x) = Lag(y), x[1] \in Initials, y[1] \notin Initials
        PROVE  FALSE
    <2>1. /\ Lag(x) = Stage(Home(x[1])) - 1
          /\ Lag(y) \in Int /\ Stage(y[1]) <= Lag(y) /\ Home(y[1]) = y[1]
          /\ Home(y[1]) \in RotatingWriters
      BY <1>3, RotatingGoal
    <2>2. Stage(y[1]) \in Nat
      <3>1. y[1] \in Body
        BY <2>1 DEF RotatingWriters
      <3> QED
        BY <1>2, <3>1, BlocksOf, BundlesAre
    <2> QED
      BY <1>3, <2>1, <2>2
  <1>4. CASE e[1] \in Initials /\ f[1] \in Initials
    <2>1. Replacement(e[1]) = Replacement(f[1])
      BY <1>4 DEF Home
    <2>2. e[1] = f[1]
      BY <1>2, <1>4, <2>1, ReplacementsApart
    <2>3. e[2] = 0 /\ f[2] = 0
      BY <1>4, RotatingGoal
    <2> QED
      BY <1>1, <2>2, <2>3
  <1>5. CASE e[1] \notin Initials /\ f[1] \notin Initials
    <2>1. Lag(e) = e[2] /\ Lag(f) = f[2] /\ Home(e[1]) = e[1] /\ Home(f[1]) = f[1]
      BY <1>5, RotatingGoal
    <2> QED
      BY <1>1, <2>1
  <1> QED
    BY <1>3, <1>4, <1>5

\* What is older than the window is wide arrived before the window's turn came.
LEMMA OlderArrived ==
    ASSUME Holding, InitialsInReach, ResultsInWindow, NEW v \in Nat,
           NEW f \in Writing, Rotary(f[1]), Lag(f) + stages < v
    PROVE  Arrival(f[1], f[2]) <= LoopBundle + ii * v
  <1>1. /\ Following /\ Compacted /\ Exact /\ Scheduled /\ stages \in Nat \ {0}
        /\ Splittable(program) /\ ii \in Nat \ {0}
    BY HoldingIs
  <1>2. /\ f = <<f[1], f[2]>> /\ f[1] \in DOMAIN program.code /\ f[2] \in Nat
    BY IssuedBefore DEF Holding, Writing
  <1>3. /\ Home(f[1]) \in RotatingWriters /\ Lag(f) \in Int /\ -1 <= Lag(f)
    BY RotatingGoal
  <1>4. /\ LoopBundle \in Nat /\ start \in Nat /\ start <= LoopBundle
        /\ \A a \in DOMAIN program.code :
              /\ BundleOf(a) \in Nat /\ Latency(Code(a)) \in {1, 3}
              /\ Block(program, a) = "BB0" => BundleOf(a) = cycle[a]
              /\ Block(program, a) = "BB1" =>
                    /\ LoopBundle <= BundleOf(a) /\ BundleOf(a) < LoopEnd
                    /\ relative[a] \in Nat
                    /\ relative[a] = ii * Stage(a) + (BundleOf(a) - LoopBundle)
                    /\ Stage(a) \in Nat /\ Stage(a) < stages
    BY <1>1, BundlesAre, LoopBundleIs, ClockIs
  <1>5. ii * f[2] \in Nat /\ Arrival(f[1], f[2]) = BundleOf(f[1]) + ii * f[2] + Latency(Code(f[1]))
    BY <1>1, <1>2, ClockIs DEF Arrival, Issue
  <1>6. ii * v \in Nat
    BY <1>1
  <1>7. CASE f[1] \notin Initials
    <2> DEFINE a == f[1]
               m == BundleOf(a) - LoopBundle
               q == (m + Latency(Code(a)) - 1) \div ii
    <2>1. a \in RotatingWriters /\ Lag(f) = f[2]
      BY <1>7, RotatingGoal DEF Rotary
    <2>2. a \in Body /\ Block(program, a) = "BB1" /\ a \in DOMAIN program.code
      BY <1>1, <2>1, BlocksOf DEF RotatingWriters
    <2>3. /\ m \in Nat /\ m < ii /\ relative[a] = ii * Stage(a) + m /\ Stage(a) \in Nat
          /\ relative[a] \in Nat /\ Latency(Code(a)) \in {1, 3}
      BY <1>1, <1>4, <2>2, BundlesAre
    <2>4. relative[a] % ii = m
      <3> HIDE DEF m, a
      <3>1. PICK t \in Nat, o \in 0 .. ii - 1 :
               relative[a] = (ii * t) + o /\ relative[a] % ii = o
        BY <1>1, <2>3, DivMod, ZenonT(30)
      <3>2. m \in 0 .. ii - 1
        BY <1>1, <2>3
      <3>3. (ii * Stage(a)) + m = (ii * t) + o /\ Stage(a) \in Int /\ t \in Int
        BY <2>3, <3>1
      <3> DEFINE u == Stage(a)
      <3> HIDE DEF u
      <3>4. u \in Int /\ (ii * u) + m = (ii * t) + o /\ ii \in Nat \ {0}
        BY <1>1, <3>3 DEF u
      <3>5. m = o
        BY <3>2, <3>3, <3>4, QuotientUnique
      <3> QED
        BY <3>1, <3>5
    <2>5. q <= stages
      BY <2>1, <2>4 DEF ResultsInWindow
    <2>6. m + Latency(Code(a)) - 1 <= ii * stages + (ii - 1)
      <3> DEFINE z == m + Latency(Code(a)) - 1
      <3>1. z \in Nat
        BY <2>3
      <3> HIDE DEF z
      <3>2. PICK t \in Nat, o \in 0 .. ii - 1 : z = (ii * t) + o /\ z \div ii = t
        BY <1>1, <3>1, DivMod
      <3>3. t <= stages
        BY <2>5, <3>2 DEF z
      <3>4. ii * t <= ii * stages /\ ii * t \in Nat /\ ii * stages \in Nat
        <4>1. t = stages \/ t < stages
          BY <1>1, <3>3
        <4>2. t < stages => (ii * t) + ii <= ii * stages
          BY <1>1, StepUp
        <4> QED
          BY <1>1, <4>1, <4>2
      <3>5. z <= ii * stages + (ii - 1)
        BY <1>1, <3>2, <3>4
      <3> QED
        BY <3>5 DEF z
    <2>7. ii * f[2] + ii * stages + ii <= ii * v
      <3>1. f[2] + stages < v
        BY <2>1
      <3>2. (ii * (f[2] + stages)) + ii <= ii * v
        BY <1>1, <1>2, <3>1, StepUp
      <3>3. ii * (f[2] + stages) = ii * f[2] + ii * stages
        BY <1>1, <1>2
      <3> QED
        BY <3>2, <3>3
    <2>8. BundleOf(a) = LoopBundle + m
      BY <1>4, <2>2
    <2> HIDE DEF m, q
    <2>9. PICK x \in Nat, y \in Nat, z \in Nat : x = ii * f[2] /\ y = ii * stages /\ z = ii * v
      BY <1>1, <1>2, <1>6
    <2>10. Arrival(f[1], f[2]) = LoopBundle + m + x + Latency(Code(a))
      BY <1>5, <2>8, <2>9
    <2>11. m + Latency(Code(a)) - 1 <= y + (ii - 1) /\ x + y + ii <= z
      BY <2>6, <2>7, <2>9
    <2>12. Arrival(f[1], f[2]) <= LoopBundle + z
      BY <1>1, <1>4, <2>3, <2>10, <2>11
    <2> QED
      BY <2>9, <2>12
  <1>8. CASE f[1] \in Initials
    <2> DEFINE b == f[1]
    <2>1. f[2] = 0 /\ Block(program, b) = "BB0"
      BY <1>1, <1>8, RotatingGoal, InitialIs
    <2>2. PICK c \in Body : \E d \in InterloopDependencies(program, c) : d.producer = b
      BY <1>1, <1>8, InitialIs
    <2>3. c \in DOMAIN program.code /\ Block(program, c) = "BB1"
      BY <1>1, BlocksOf
    <2>4. b # 0 /\ b \in DOMAIN program.code
      BY <1>1, <1>2, BlocksOf
    <2>5. Ready(b, cycle[b]) <= cycle[c]
      BY <1>1, <2>2, <2>4 DEF Exact
    <2>6. /\ cycle[c] = start + relative[c] /\ relative[c] \in Nat /\ relative[c] < Span
          /\ cycle[b] \in Nat
      BY <1>1, <2>3, <2>4, BlocksOf DEF Compacted
    <2>7. Span <= ii * v /\ Span \in Nat
      <3>1. stages <= v
        BY <1>1, <1>3
      <3>2. stages < v => (ii * stages) + ii <= ii * v
        BY <1>1, StepUp
      <3>3. Span = ii * stages
        BY <1>1 DEF Span
      <3> QED
        BY <1>1, <3>1, <3>2, <3>3
    <2>8. ii * f[2] = 0
      BY <1>1, <2>1
    <2>9. Arrival(f[1], f[2]) = cycle[b] + Latency(Code(b))
      BY <1>4, <1>5, <2>1, <2>4, <2>6, <2>8
    <2>10. cycle[b] + Latency(Code(b)) <= start + relative[c]
      BY <2>5, <2>6 DEF Ready
    <2>11. Latency(Code(b)) \in {1, 3}
      BY <1>4, <2>4
    <2> HIDE DEF b
    <2>12. PICK z \in Nat : z = ii * v
      BY <1>6
    <2> QED
      BY <1>4, <2>6, <2>7, <2>9, <2>10, <2>11, <2>12
  <1> QED
    BY <1>7, <1>8

-----------------------------------------------------------------------------
(* What is read under a name *)

\* A name of a window that the loop has gone round to since the turn of a result.
LEMMA ReadBehind ==
    ASSUME Holding, NEW w \in RotatingWriters, NEW v \in Int, -1 <= v, v <= lap,
           lap <= v + stages
    PROVE  Physical(InWindow(w, lap - v)) = At(Base(w) - FirstRotating - v)
  <1>1. /\ Compacted /\ Exact /\ Scheduled /\ RotatingFit /\ stages \in Nat \ {0}
        /\ lap \in Nat /\ lap < Rotating /\ rrb = lap
    BY HoldingIs
  <1>2. WindowSize = stages + 1 /\ Base(w) \in Nat
    BY <1>1, WindowsAre
  <1>3. lap - v \in 0 .. stages
    BY <1>1
  <1>4. (lap - v) % WindowSize = lap - v
    <2> DEFINE o == lap - v
    <2>1. o \in 0 .. stages /\ stages \in Nat
      BY <1>1, <1>3
    <2> HIDE DEF o
    <2>2. o % (stages + 1) = o
      BY <2>1
    <2> QED
      BY <1>2, <2>2 DEF o
  <1>5. InWindow(w, lap - v) = Base(w) + (lap - v)
    BY <1>4 DEF InWindow
  <1>6. RegisterBehind(Base(w) + (lap - v), lap) = At(Base(w) - FirstRotating - v)
    BY <1>1, <1>3, NameBehind
  <1> QED
    BY <1>1, <1>5, <1>6 DEF Physical

\* A result is read under its window's name while the window is its own.
LEMMA WindowRead ==
    ASSUME Holding, FileInv, InitialsInReach, ResultsInWindow, NEW e \in Writing,
           Rotary(e[1]), Arrival(e[1], e[2]) <= Clock, lap <= Lag(e) + stages
    PROVE  registers[Physical(InWindow(Home(e[1]), lap - Lag(e)))] = e
  <1>1. /\ Home(e[1]) \in RotatingWriters
        /\ Lag(e) \in Int /\ -1 <= Lag(e) /\ Lag(e) <= lap
        /\ e[1] \in Initials => Lag(e) <= 0
        /\ e[1] \notin Initials => Lag(e) = e[2] /\ Home(e[1]) = e[1]
        /\ Goal(e) = At(Base(Home(e[1])) - FirstRotating - Lag(e))
        /\ Goal(e) \in Register
    BY RotatingGoal
  <1>2. Physical(InWindow(Home(e[1]), lap - Lag(e))) = Goal(e)
    BY <1>1, ReadBehind
  <1>3. /\ phase = "running" /\ ~Endless /\ LapsFit
        /\ Following /\ Compacted /\ Scheduled /\ Splittable(program) /\ stages \in Nat \ {0}
        /\ ii \in Nat \ {0}
    BY HoldingIs DEF Holding
  <1>4. \A x \in Writing : x[1] \in DOMAIN program.code /\ x[2] \in Nat
    BY IssuedBefore DEF Holding, Writing
  <1>5. \A x \in Writing : Arrival(x[1], x[2]) \in Nat
    BY <1>3, <1>4, ClockIs
  <1>6. ASSUME NEW f \in Writing, f # e, Arrived(f, Goal(e))
        PROVE  Arrival(f[1], f[2]) < Arrival(e[1], e[2])
    <2>1. Goal(f) = At(Base(Home(e[1])) - FirstRotating - Lag(e))
      BY <1>1, <1>6 DEF Arrived
    <2>2. /\ Rotary(f[1])
          /\ (Home(f[1]) = Home(e[1]) /\ Lag(f) = Lag(e)) \/ Lag(f) + stages < Lag(e)
      BY <1>1, <2>1, NoOther
    <2>3. Lag(f) + stages < Lag(e)
      BY <1>6, <2>2, OneHome
    <2>4. -1 <= Lag(f) /\ Lag(f) \in Int
      BY <2>2, RotatingGoal
    <2>5. Lag(e) \in Nat /\ Lag(e) > 0
      BY <1>1, <1>3, <2>3, <2>4
    <2>6. Lag(e) = e[2] /\ e[1] \in RotatingWriters
      BY <1>1, <2>5
    <2>7. Arrival(f[1], f[2]) <= LoopBundle + ii * e[2]
      BY <2>2, <2>3, <2>5, <2>6, OlderArrived
    <2>8. LoopBundle <= BundleOf(e[1]) /\ LoopBundle \in Nat
      <3>1. Block(program, e[1]) = "BB1"
        BY <1>3, <2>6, BlocksOf DEF RotatingWriters
      <3> QED
        BY <1>3, <1>4, <3>1, BundlesAre
    <2>9. /\ Issue(e[1], e[2]) = BundleOf(e[1]) + ii * e[2] /\ ii * e[2] \in Nat
          /\ Issue(e[1], e[2]) < Arrival(e[1], e[2]) /\ BundleOf(e[1]) \in Nat
      BY <1>3, <1>4, ClockIs
    <2>10. PICK z \in Nat : z = ii * e[2]
      BY <2>9
    <2> QED
      BY <1>5, <2>7, <2>8, <2>9, <2>10
  <1>7. Arrived(e, Goal(e))
    BY DEF Arrived
  <1>8. registers[Goal(e)] = e
    BY <1>1, <1>3, <1>6, <1>7 DEF FileInv
  <1> QED
    BY <1>2, <1>8

\* A window that nothing has entered yet holds the first value of its register.
LEMMA EmptyWindowRead ==
    ASSUME Holding, FileInv, InitialsInReach, NEW a \in Body,
           NEW d \in InterloopDependencies(program, a), d.producer = 0,
           Stage(d.previous) - 1 <= lap, lap <= Stage(d.previous) - 1 + stages
    PROVE  registers[Physical(InWindow(d.previous, lap - (Stage(d.previous) - 1)))] = Zero
  <1> DEFINE w == d.previous
             v == Stage(w) - 1
  <1>1. /\ phase = "running" /\ ~Endless /\ LapsFit
        /\ Following /\ Compacted /\ Scheduled /\ Splittable(program) /\ stages \in Nat \ {0}
    BY HoldingIs DEF Holding
  <1>2. a \in DOMAIN program.code
    BY <1>1, BlocksOf
  <1>3. w \in RotatingWriters /\ \A b \in Initials : Replacement(b) # w
    BY <1>1, <1>2, CarriedIs, ReplacementsApart
  <1>4. Stage(w) \in Nat /\ Stage(w) < stages
    <2>1. w \in DOMAIN program.code /\ Block(program, w) = "BB1"
      BY <1>1, <1>3, BlocksOf DEF RotatingWriters
    <2> QED
      BY <1>1, <2>1, BundlesAre
  <1>5. v \in Int /\ -1 <= v /\ v <= lap /\ lap <= v + stages
    BY <1>4
  <1>6. Physical(InWindow(w, lap - v)) = At(Base(w) - FirstRotating - v)
    BY <1>3, <1>5, ReadBehind
  <1>7. ASSUME NEW f \in Writing, Goal(f) = At(Base(w) - FirstRotating - v)
        PROVE  FALSE
    <2>1. Rotary(f[1]) /\ ((Home(f[1]) = w /\ Lag(f) = v) \/ Lag(f) + stages < v)
      BY <1>3, <1>5, <1>7, NoOther
    <2>2. /\ -1 <= Lag(f) /\ Lag(f) \in Int
          /\ f[1] \notin Initials => /\ Lag(f) = f[2] /\ Stage(f[1]) <= f[2]
                                     /\ Home(f[1]) = f[1]
      BY <2>1, RotatingGoal
    <2>3. Home(f[1]) = w /\ Lag(f) = v
      BY <1>1, <1>4, <2>1, <2>2
    <2>4. f[1] \notin Initials
      BY <1>3, <2>3 DEF Home
    <2>5. Stage(w) <= v
      BY <2>2, <2>3, <2>4
    <2> QED
      BY <1>4, <2>5
  <1>8. At(Base(w) - FirstRotating - v) \in Register
    BY <1>3, <1>5, AtIs
  <1>9. registers[At(Base(w) - FirstRotating - v)] = Zero
    <2> HIDE DEF w, v
    <2> QED
      BY <1>1, <1>7, <1>8 DEF FileInv, Arrived
  <1> QED
    BY <1>6, <1>9

\* What writes a static register: the instruction of one claim.
LEMMA StaticWriter ==
    ASSUME Holding, InitialsInReach, NEW c \in Claims, NEW f \in Writing, Goal(f) = StaticName(c)
    PROVE  ~Rotary(f[1]) /\ c[4] = f[1] /\ c \notin ExternalClaims
  <1>1. /\ Compacted /\ Exact /\ Scheduled /\ StaticFit /\ LastStatic \in Nat
        /\ FirstRotating = LastStatic + 1
    BY HoldingIs
  <1>2. StaticName(c) < FirstRotating /\ StaticName(c) \in 1 .. LastStatic
    BY <1>1, StaticBehind, StaticNamesAre
  <1>3. ~Rotary(f[1])
    <2>1. Rotary(f[1]) => Goal(f) >= FirstRotating
      BY RotatingGoal
    <2> QED
      BY <1>1, <1>2, <2>1
  <1>4. f[1] \in DOMAIN program.code /\ Code(f[1]).dst # {}
    BY IssuedBefore DEF Holding, Writing
  <1>5. PICK x \in Claims : /\ x[4] = f[1] /\ x \notin ExternalClaims
                            /\ ResultName(f[1]) = StaticName(x)
    BY <1>1, <1>3, <1>4, StaticResult
  <1>6. Goal(f) = StaticName(x)
    BY <1>5, StaticBehind DEF Goal
  <1>7. x = c
    BY <1>1, <1>6, StaticNamesAre
  <1> QED
    BY <1>3, <1>5, <1>7

\* A result outside the loop stays in its static register.
LEMMA StaticRead ==
    ASSUME Holding, FileInv, InitialsInReach, NEW e \in Writing,
           ~Rotary(e[1]), Arrival(e[1], e[2]) <= Clock
    PROVE  registers[Physical(ResultName(e[1]))] = e
  <1>1. /\ phase = "running" /\ ~Endless /\ LapsFit
        /\ Compacted /\ Exact /\ Scheduled /\ Splittable(program) /\ StaticFit
    BY HoldingIs DEF Holding
  <1>2. \A x \in Writing : /\ x = <<x[1], x[2]>> /\ x[1] \in DOMAIN program.code
                           /\ Code(x[1]).dst # {} /\ HasRun(x[1], x[2])
    BY IssuedBefore DEF Holding, Writing
  <1>3. PICK c \in Claims : c[4] = e[1] /\ ResultName(e[1]) = StaticName(c)
    BY <1>1, <1>2, StaticResult
  <1>4. /\ Goal(e) = StaticName(c) /\ Physical(ResultName(e[1])) = StaticName(c)
        /\ StaticName(c) \in Register
    BY <1>3, StaticBehind DEF Goal, Physical
  <1>5. ASSUME NEW f \in Writing, Goal(f) = StaticName(c)
        PROVE  f = e
    <2>1. f[1] = e[1]
      BY <1>3, <1>5, StaticWriter
    <2>2. Block(program, e[1]) \in {"BB0", "BB2"}
      <3>1. Code(Control).dst = {}
        BY <1>1, BlocksOf DEF Loop
      <3>2. e[1] \notin Body
        BY <1>2 DEF Rotary, RotatingWriters
      <3> QED
        BY <1>1, <1>2, <3>1, <3>2, BlocksOf
    <2>3. f[2] = e[2]
      BY <1>2, <2>1, <2>2 DEF HasRun
    <2> QED
      BY <1>2, <2>1, <2>3
  <1>6. registers[StaticName(c)] = e
    BY <1>1, <1>4, <1>5 DEF FileInv, Arrived
  <1> QED
    BY <1>4, <1>6

\* A register that the program has not written holds its first value.
LEMMA ExternalRead ==
    ASSUME Holding, FileInv, InitialsInReach, NEW c \in ExternalClaims
    PROVE  registers[Physical(StaticName(c))] = Zero
  <1>1. phase = "running" /\ ~Endless /\ LapsFit /\ c \in Claims
    BY DEF Holding, Claims
  <1>2. StaticName(c) \in Register /\ Physical(StaticName(c)) = StaticName(c)
    BY <1>1, StaticBehind DEF Physical
  <1>3. ASSUME NEW f \in Writing, Goal(f) = StaticName(c) PROVE FALSE
    BY <1>1, <1>3, StaticWriter
  <1> QED
    BY <1>1, <1>2, <1>3 DEF FileInv, Arrived

-----------------------------------------------------------------------------
(* The name of an operand and the value behind it *)

\* The name of an operand, in the cases that the allocator tells apart.
LEMMA OperandNameIs ==
    ASSUME Splittable(program), NEW a \in DOMAIN program.code, NEW r \in Reads(Code(a)),
           NEW inner, inner = BlockProducer(program, "BB1", r),
           NEW outer, outer = BlockProducer(program, "BB0", r),
           NEW w, w = LocalProducer(program, a, r)
    PROVE  /\ r \notin Incoming(program, a) =>
                 /\ Dependency(r, w, 0) \in LocalDependencies(program, a)
                 /\ OperandName(a, r) = LocalName(a, Dependency(r, w, 0))
           /\ r \in Incoming(program, a) =>
                 /\ Block(program, a) = "BB1" /\ inner # 0 =>
                       /\ Dependency(r, outer, inner) \in InterloopDependencies(program, a)
                       /\ OperandName(a, r) = CarriedName(a, Dependency(r, outer, inner))
                 /\ Block(program, a) \in {"BB1", "BB2"} /\ inner = 0 /\ outer # 0 =>
                       /\ Dependency(r, outer, 0) \in InvariantDependencies(program, a)
                       /\ OperandName(a, r) = ResultName(outer)
                 /\ Block(program, a) = "BB2" /\ inner # 0 =>
                       /\ Dependency(r, inner, 0) \in PostLoopDependencies(program, a)
                       /\ OperandName(a, r) = PostLoopName(Dependency(r, inner, 0))
                 /\ Block(program, a) = "BB0" \/ (inner = 0 /\ outer = 0) =>
                       /\ <<3, Place(a), FirstOperand(a, r), a>> \in ExternalClaims
                       /\ OperandName(a, r) = StaticName(<<3, Place(a), FirstOperand(a, r), a>>)
  <1> DEFINE Of(S) == {d \in S : d.reg = r}
             local == Dependency(r, w, 0)
             carried == Dependency(r, outer, inner)
             invariant == Dependency(r, outer, 0)
             final == Dependency(r, inner, 0)
             claim == <<3, Place(a), FirstOperand(a, r), a>>
             A == {LocalName(a, d) : d \in Of(LocalDependencies(program, a))}
             B == {CarriedName(a, d) : d \in Of(InterloopDependencies(program, a))}
             C == {ResultName(d.producer) : d \in Of(InvariantDependencies(program, a))}
             D == {PostLoopName(d) : d \in Of(PostLoopDependencies(program, a))}
             E == {StaticName(<<3, Place(a), FirstOperand(a, q), a>>) : q \in External(a) \cap {r}}
  <1>1. r \in Reads(program.code[a]) /\ invariant.producer = outer
    BY DEF Code, Dependency
  <1>2. /\ r \notin Incoming(program, a) => Of(LocalDependencies(program, a)) = {local}
        /\ r \in Incoming(program, a) => Of(LocalDependencies(program, a)) = {}
    BY <1>1 DEF LocalDependencies, Dependency
  <1>3. /\ r \in Incoming(program, a) /\ Block(program, a) = "BB1" /\ inner # 0 =>
              Of(InterloopDependencies(program, a)) = {carried}
        /\ ~(r \in Incoming(program, a) /\ Block(program, a) = "BB1" /\ inner # 0) =>
              Of(InterloopDependencies(program, a)) = {}
    BY DEF InterloopDependencies, Dependency
  <1>4. /\ r \in Incoming(program, a) /\ Block(program, a) \in {"BB1", "BB2"}
              /\ inner = 0 /\ outer # 0 =>
              Of(InvariantDependencies(program, a)) = {invariant}
        /\ ~(r \in Incoming(program, a) /\ Block(program, a) \in {"BB1", "BB2"}
              /\ inner = 0 /\ outer # 0) =>
              Of(InvariantDependencies(program, a)) = {}
    BY DEF InvariantDependencies, Dependency
  <1>5. /\ r \in Incoming(program, a) /\ Block(program, a) = "BB2" /\ inner # 0 =>
              Of(PostLoopDependencies(program, a)) = {final}
        /\ ~(r \in Incoming(program, a) /\ Block(program, a) = "BB2" /\ inner # 0) =>
              Of(PostLoopDependencies(program, a)) = {}
    BY DEF PostLoopDependencies, Dependency
  <1>6. r \in External(a) <=> /\ Of(LocalDependencies(program, a)) = {}
                              /\ Of(InterloopDependencies(program, a)) = {}
                              /\ Of(InvariantDependencies(program, a)) = {}
                              /\ Of(PostLoopDependencies(program, a)) = {}
    BY DEF External
  <1>7. OperandName(a, r) = TheElement(A \cup B \cup C \cup D \cup E)
    BY DEF OperandName
  <1>8. r \notin External(a) => E = {}
    OBVIOUS
  <1>9. ASSUME NEW n, A \cup B \cup C \cup D \cup E = {n} PROVE OperandName(a, r) = n
    <2>1. OperandName(a, r) = TheElement({n})
      BY <1>7, <1>9
    <2> QED
      BY <2>1 DEF TheElement
  <1>10. ASSUME r \notin Incoming(program, a)
         PROVE  /\ local \in LocalDependencies(program, a)
                /\ OperandName(a, r) = LocalName(a, local)
    <2>1. Of(LocalDependencies(program, a)) = {local}
      BY <1>2, <1>10
    <2>2. B = {} /\ C = {} /\ D = {} /\ E = {}
      BY <1>3, <1>4, <1>5, <1>6, <1>8, <1>10, <2>1
    <2>3. A = {LocalName(a, local)}
      BY <2>1
    <2> HIDE DEF A, B, C, D, E
    <2> QED
      BY <1>9, <2>1, <2>2, <2>3
  <1>11. ASSUME r \in Incoming(program, a), Block(program, a) = "BB1", inner # 0
         PROVE  /\ carried \in InterloopDependencies(program, a)
                /\ OperandName(a, r) = CarriedName(a, carried)
    <2>1. Of(InterloopDependencies(program, a)) = {carried}
      BY <1>3, <1>11
    <2>2. A = {} /\ C = {} /\ D = {} /\ E = {}
      BY <1>2, <1>4, <1>5, <1>6, <1>8, <1>11, <2>1
    <2>3. B = {CarriedName(a, carried)}
      BY <2>1
    <2> HIDE DEF A, B, C, D, E
    <2> QED
      BY <1>9, <2>1, <2>2, <2>3
  <1>12. ASSUME r \in Incoming(program, a), Block(program, a) \in {"BB1", "BB2"},
                inner = 0, outer # 0
         PROVE  /\ invariant \in InvariantDependencies(program, a)
                /\ OperandName(a, r) = ResultName(outer)
    <2>1. Of(InvariantDependencies(program, a)) = {invariant}
      BY <1>4, <1>12
    <2>2. A = {} /\ B = {} /\ D = {} /\ E = {}
      BY <1>2, <1>3, <1>5, <1>6, <1>8, <1>12, <2>1
    <2>3. C = {ResultName(outer)}
      BY <1>1, <2>1
    <2> HIDE DEF A, B, C, D, E
    <2> QED
      BY <1>9, <2>1, <2>2, <2>3
  <1>13. ASSUME r \in Incoming(program, a), Block(program, a) = "BB2", inner # 0
         PROVE  /\ final \in PostLoopDependencies(program, a)
                /\ OperandName(a, r) = PostLoopName(final)
    <2>1. Of(PostLoopDependencies(program, a)) = {final}
      BY <1>5, <1>13
    <2>2. A = {} /\ B = {} /\ C = {} /\ E = {}
      BY <1>2, <1>3, <1>4, <1>6, <1>8, <1>13, <2>1
    <2>3. D = {PostLoopName(final)}
      BY <2>1
    <2> HIDE DEF A, B, C, D, E
    <2> QED
      BY <1>9, <2>1, <2>2, <2>3
  <1>14. ASSUME r \in Incoming(program, a),
                Block(program, a) = "BB0" \/ (inner = 0 /\ outer = 0)
         PROVE  /\ claim \in ExternalClaims
                /\ OperandName(a, r) = StaticName(claim)
    <2>1. A = {} /\ B = {} /\ C = {} /\ D = {} /\ r \in External(a)
      BY <1>2, <1>3, <1>4, <1>5, <1>6, <1>14
    <2>2. E = {StaticName(claim)}
      BY <2>1
    <2>3. claim \in ExternalClaims
      BY <2>1 DEF ExternalClaims
    <2> HIDE DEF A, B, C, D, E
    <2> QED
      BY <1>9, <2>1, <2>2, <2>3
  <1> QED
    BY <1>10, <1>11, <1>12, <1>13, <1>14

\* When the instances execute: in the cycles of the schedule, one interval later in each
\* iteration.
LEMMA IssuesAre ==
    ASSUME Holding, NEW b \in DOMAIN program.code, NEW i \in Nat
    PROVE  /\ Block(program, b) = "BB0" => Issue(b, 0) = cycle[b]
           /\ Block(program, b) = "BB1" =>
                 /\ Stage(b) \in Nat
                 /\ Issue(b, i + Stage(b)) = LoopBundle + relative[b] + ii * i
           /\ Block(program, b) = "BB2" =>
                 Issue(b, Times + stages - 2)
                    = cycle[b] + (LoopBundle - start) + ii * (Times - 1)
  <1>1. /\ Following /\ Compacted /\ Scheduled /\ ii \in Nat \ {0} /\ stages \in Nat \ {0}
        /\ Times \in Nat \ {0} /\ LoopBundle \in Nat /\ start \in Nat /\ cycle[b] \in Nat
    BY HoldingIs, BundlesAre DEF Compacted
  <1>2. CASE Block(program, b) = "BB0"
    <2>1. BundleOf(b) = cycle[b] /\ ii * 0 = 0
      BY <1>1, <1>2, BundlesAre
    <2> QED
      BY <1>1, <1>2, <2>1 DEF Issue
  <1>3. CASE Block(program, b) = "BB1"
    <2> DEFINE s == Stage(b)
    <2>1. /\ BundleOf(b) \in Nat /\ relative[b] \in Nat /\ s \in Nat
          /\ relative[b] = ii * s + (BundleOf(b) - LoopBundle)
      BY <1>1, <1>3, BundlesAre
    <2> HIDE DEF s
    <2>2. ii * (i + s) = ii * i + ii * s
      BY <1>1, <2>1
    <2>3. PICK y \in Nat, z \in Nat : y = ii * i /\ z = ii * s
      BY <1>1, <2>1
    <2>4. Issue(b, i + s) = BundleOf(b) + (y + z) /\ relative[b] = z + (BundleOf(b) - LoopBundle)
      BY <2>1, <2>2, <2>3 DEF Issue
    <2>5. Issue(b, i + s) = LoopBundle + relative[b] + y
      BY <1>1, <2>1, <2>3, <2>4
    <2> QED
      BY <1>3, <2>1, <2>3, <2>5 DEF s
  <1>4. CASE Block(program, b) = "BB2"
    <2>1. PICK y \in Nat, z \in Nat : y = ii * (Times - 1) /\ z = ii * stages
      BY <1>1
    <2>2. stages * ii = z /\ ii * (Times + stages - 2) = y + (z - ii)
      <3>1. stages * ii = ii * stages
        BY <1>1
      <3>2. PICK p \in Nat : p = Times - 1
        BY <1>1
      <3>3. PICK q \in Nat : q = stages - 1
        BY <1>1
      <3>4. Times + stages - 2 = p + q /\ stages = q + 1
        BY <1>1, <3>2, <3>3
      <3>5. ii * (p + q) = ii * p + ii * q /\ ii * (q + 1) = ii * q + ii
        BY <1>1, <3>2, <3>3
      <3>6. PICK u \in Nat : u = ii * q
        BY <1>1, <3>3
      <3> QED
        BY <1>1, <2>1, <3>1, <3>2, <3>4, <3>5, <3>6
    <2>3. BundleOf(b) = LoopBundle + ii + (cycle[b] - start - z)
      BY <1>4, <2>2 DEF BundleOf
    <2>4. Issue(b, Times + stages - 2) = BundleOf(b) + (y + (z - ii))
      BY <2>2 DEF Issue
    <2> QED
      BY <1>1, <1>4, <2>1, <2>3, <2>4
  <1> QED
    BY <1>2, <1>3, <1>4

\* What an executed instance has written.
LEMMA ValueWritten ==
    ASSUME Holding, NEW y \in Executed470, Code(y[1]).dst # {}
    PROVE  /\ ValueOf(y) \in Writing
           /\ y[1] \in DOMAIN program.code /\ y[2] \in Nat
           /\ Block(program, y[1]) = "BB0" => ValueOf(y) = <<y[1], 0>>
           /\ Block(program, y[1]) = "BB1" => ValueOf(y) = <<y[1], y[2] + Stage(y[1])>>
           /\ Block(program, y[1]) = "BB2" => ValueOf(y) = <<y[1], Times + stages - 2>>
  <1>1. /\ RunningInv /\ phase = "running" /\ ~Endless /\ LapsFit
        /\ Following /\ Compacted /\ Scheduled
    BY HoldingIs DEF Holding
  <1>2. /\ y[1] \in DOMAIN program.code /\ y[2] \in Nat
        /\ Block(program, y[1]) \in {"BB0", "BB1", "BB2"}
    BY <1>1, ExecutedIs, BundlesAre
  <1>3. /\ Block(program, y[1]) = "BB0" => ValueOf(y) = <<y[1], 0>>
        /\ Block(program, y[1]) = "BB1" => ValueOf(y) = <<y[1], y[2] + Stage(y[1])>>
        /\ Block(program, y[1]) = "BB2" => ValueOf(y) = <<y[1], Times + stages - 2>>
    BY DEF ValueOf
  <1>4. PICK e \in ran : y = InstanceAt(e[1], e[2])
    BY DEF Executed470
  <1>5. /\ e = <<e[1], e[2]>> /\ e[2] \in Nat /\ HasRun(e[1], e[2])
    BY <1>1, IssuedBefore
  <1>6. y[1] = e[1] /\ y[2] = IF Block(program, e[1]) = "BB1" THEN e[2] - Stage(e[1]) ELSE 0
    BY <1>4 DEF InstanceAt
  <1>7. ValueOf(y) = e
    <2>1. CASE Block(program, y[1]) = "BB0"
      BY <1>3, <1>5, <1>6, <2>1 DEF HasRun
    <2>2. CASE Block(program, y[1]) = "BB1"
      <3>1. Stage(y[1]) \in Nat
        BY <1>1, <1>2, <2>2, BundlesAre
      <3>2. y[2] + Stage(y[1]) = e[2]
        BY <1>5, <1>6, <2>2, <3>1
      <3> QED
        BY <1>3, <1>5, <1>6, <2>2, <3>2
    <2>3. CASE Block(program, y[1]) = "BB2"
      <3>1. e[2] = lap /\ BundleOf(e[1]) < pc
        BY <1>5, <1>6, <2>3 DEF HasRun
      <3>2. LoopEnd <= BundleOf(e[1]) /\ BundleOf(e[1]) \in Nat /\ LoopEnd \in Nat
        BY <1>1, <1>2, <1>6, <2>3, BundlesAre
      <3>3. LoopEnd <= pc /\ pc \in Nat
        BY <1>1, <3>1, <3>2, LapIs
      <3>4. lap = Times + stages - 2
        BY <1>1, <3>3, LapIs
      <3> QED
        BY <1>3, <1>5, <1>6, <2>3, <3>1, <3>4
    <2> QED
      BY <1>2, <2>1, <2>2, <2>3
  <1> QED
    BY <1>2, <1>3, <1>6, <1>7 DEF Writing

\* Who reads, when, and from which instances.
LEMMA ReaderIs ==
    ASSUME Holding, NEW a \in On, NEW r \in Reads(Code(a)), NEW x, x = InstanceAt(a, lap)
    PROVE  /\ a \in DOMAIN program.code /\ x[1] = a /\ x = <<a, x[2]>>
           /\ x[2] \in Nat /\ x[2] <= Times - 1
           /\ Block(program, a) \in {"BB0", "BB1", "BB2"}
           /\ Block(program, a) = "BB0" => x[2] = 0 /\ lap = 0 /\ Clock = cycle[a]
           /\ Block(program, a) = "BB1" =>
                 /\ a \in Body /\ Stage(a) \in Nat /\ Stage(a) < stages /\ lap = x[2] + Stage(a)
                 /\ Clock = LoopBundle + relative[a] + ii * x[2]
           /\ Block(program, a) = "BB2" =>
                 /\ x[2] = 0 /\ lap = Times + stages - 2
                 /\ Clock = cycle[a] + (LoopBundle - start) + ii * (Times - 1)
           /\ Reaching(program, Times, x, r) = PredictedCase(program, Times, x, r)
           /\ Reaching(program, Times, x, r) \subseteq Executed470
  <1>1. /\ RunningInv /\ phase = "running" /\ ~Endless /\ LapsFit /\ RestInv
        /\ Following /\ Compacted /\ Scheduled /\ Splittable(program)
        /\ Times \in Nat \ {0} /\ lap \in Nat /\ stages \in Nat \ {0}
    BY HoldingIs DEF Holding
  <1>2. /\ a \in DOMAIN program.code /\ BundleOf(a) = pc /\ Issue(a, lap) = Clock
        /\ a \in Body => Stage(a) <= lap /\ lap - Stage(a) < Times
    <2>1. a \in DOMAIN program.code /\ Issue(a, lap) = Clock
      BY <1>1, NowIs
    <2> QED
      BY <1>1, <2>1, OnWhen
  <1>3. /\ Block(program, a) \in {"BB0", "BB1", "BB2"}
        /\ a \in Body <=> Block(program, a) = "BB1" /\ a # Control
        /\ BundleOf(a) \in Nat /\ LoopBundle \in Nat /\ LoopEnd \in Nat
        /\ Block(program, a) = "BB0" => BundleOf(a) < LoopBundle
        /\ Block(program, a) = "BB1" => Stage(a) \in Nat /\ Stage(a) < stages
        /\ Block(program, a) = "BB2" => LoopEnd <= BundleOf(a)
    BY <1>1, <1>2, BundlesAre, BlocksOf
  <1>4. a # Control
    <2>1. Reads(Code(Control)) = {}
      BY <1>1, BlocksOf DEF Reads, Loop
    <2> QED
      BY <2>1
  <1>5. /\ Block(program, a) = "BB0" => lap = 0
        /\ Block(program, a) = "BB2" => lap = Times + stages - 2
    BY <1>1, <1>2, <1>3, LapIs
  <1>6. /\ x[1] = a /\ x = <<a, x[2]>>
        /\ x[2] = IF Block(program, a) = "BB1" THEN lap - Stage(a) ELSE 0
    BY DEF InstanceAt
  <1>7. /\ x[2] \in Nat /\ x[2] <= Times - 1
        /\ Block(program, a) # "BB1" => x[2] = 0
        /\ Block(program, a) = "BB1" => a \in Body /\ lap = x[2] + Stage(a)
    BY <1>1, <1>2, <1>3, <1>4, <1>6
  <1>8. <<a, x[2]>> \in Instances(program, Times)
    <2> HIDE DEF Times
    <2> QED
      BY <1>1, <1>2, <1>3, <1>7, InstanceMade
  <1>9. x \in Instances(program, Times)
    BY <1>6, <1>8
  <1>10. Reaching(program, Times, x, r) = PredictedCase(program, Times, x, r)
    <2>1. r \in Reads(program.code[x[1]])
      BY <1>6 DEF Code
    <2>2. /\ Predicted(program, Times, x, r) = Reaching(program, Times, x, r)
          /\ Predicted(program, Times, x, r) = PredictedCase(program, Times, x, r)
      BY <1>1, <1>9, <2>1, AnalysisReaches, PredictedIs
    <2> QED
      BY <2>2
  <1>11. Reaching(program, Times, x, r) \subseteq Executed470
    BY <1>1, <1>9, NeedsExecuted
  <1>12. /\ Block(program, a) = "BB0" => Clock = cycle[a]
         /\ Block(program, a) = "BB1" => Clock = LoopBundle + relative[a] + ii * x[2]
         /\ Block(program, a) = "BB2" =>
               Clock = cycle[a] + (LoopBundle - start) + ii * (Times - 1)
    BY <1>2, <1>5, <1>7, IssuesAre
  <1> QED
    BY <1>2, <1>3, <1>5, <1>6, <1>7, <1>10, <1>11, <1>12

\* What a sequential run reads.
LEMMA MeantIs ==
    ASSUME NEW x, NEW r
    PROVE  /\ Reaching(program, Times, x, r) = {} => MeantValue(x, r) = Zero
           /\ \A y : Reaching(program, Times, x, r) = {y} => MeantValue(x, r) = ValueOf(y)
  <1>1. ASSUME NEW y, Reaching(program, Times, x, r) = {y} PROVE MeantValue(x, r) = ValueOf(y)
    <2>1. MeantValue(x, r) = ValueOf(TheElement({y}))
      BY <1>1 DEF MeantValue
    <2> QED
      BY <2>1 DEF TheElement
  <1> QED
    BY <1>1 DEF MeantValue

\* The writers of a register that the analysis names.
LEMMA ProducerIs ==
    ASSUME Splittable(program), NEW a \in DOMAIN program.code, NEW r
    PROVE  /\ \A b : BlockProducer(program, b, r) # 0 =>
                 /\ BlockProducer(program, b, r) \in DOMAIN program.code
                 /\ Block(program, BlockProducer(program, b, r)) = b
                 /\ Code(BlockProducer(program, b, r)).dst # {}
           /\ LocalProducer(program, a, r) # 0 =>
                 /\ LocalProducer(program, a, r) \in DOMAIN program.code
                 /\ Block(program, LocalProducer(program, a, r)) = Block(program, a)
                 /\ Code(LocalProducer(program, a, r)).dst # {}
           /\ \A w \in DOMAIN program.code :
                 Code(w).dst # {} =>
                    /\ w \in RotatingWriters <=> Block(program, w) = "BB1"
                    /\ w \in Body <=> Block(program, w) = "BB1"
           /\ \A b \in Initials : Block(program, b) = "BB0" /\ b \notin RotatingWriters
  <1>1. program \in Program
    BY SplittableIs
  <1>2. /\ \A w \in DOMAIN program.code : w \in Body <=> Block(program, w) = "BB1" /\ w # Control
        /\ Code(Control).dst = {}
    BY BlocksOf DEF Loop
  <1>3. \A b \in Initials : Block(program, b) = "BB0" /\ b \notin RotatingWriters
    BY InitialIs
  <1>4. /\ \A b : BlockProducer(program, b, r) # 0 =>
              /\ BlockProducer(program, b, r) \in DOMAIN program.code
              /\ Block(program, BlockProducer(program, b, r)) = b
              /\ Code(BlockProducer(program, b, r)).dst # {}
        /\ LocalProducer(program, a, r) # 0 =>
              /\ LocalProducer(program, a, r) \in DOMAIN program.code
              /\ Block(program, LocalProducer(program, a, r)) = Block(program, a)
              /\ Code(LocalProducer(program, a, r)).dst # {}
    BY <1>1, BlockProducerIs, LocalProducerIs DEF InBlock, Code
  <1> QED
    BY <1>2, <1>3, <1>4 DEF RotatingWriters

\* An operand from the same block holds the last result before it.
LEMMA LocalHolds ==
    ASSUME Holding, FileInv, InitialsInReach, ResultsInWindow,
           NEW a \in On, NEW r \in Reads(Code(a)), r \notin Incoming(program, a)
    PROVE  registers[Physical(OperandName(a, r))] = MeantValue(InstanceAt(a, lap), r)
  <1> DEFINE x == InstanceAt(a, lap)
             w == LocalProducer(program, a, r)
             d == Dependency(r, w, 0)
             e == ValueOf(<<w, x[2]>>)
  <1>1. /\ Following /\ Compacted /\ Exact /\ Scheduled /\ Splittable(program)
        /\ stages \in Nat \ {0} /\ ii \in Nat \ {0} /\ Times \in Nat \ {0} /\ LoopBundle \in Nat
        /\ lap \in Nat /\ start \in Nat
    BY HoldingIs, BundlesAre
  <1>2. /\ a \in DOMAIN program.code /\ x[1] = a /\ x[2] \in Nat
        /\ Block(program, a) \in {"BB0", "BB1", "BB2"}
        /\ Block(program, a) = "BB0" => x[2] = 0 /\ lap = 0 /\ Clock = cycle[a]
        /\ Block(program, a) = "BB1" =>
              /\ a \in Body /\ Stage(a) \in Nat /\ Stage(a) < stages /\ lap = x[2] + Stage(a)
              /\ Clock = LoopBundle + relative[a] + ii * x[2]
        /\ Block(program, a) = "BB2" =>
              /\ x[2] = 0 /\ lap = Times + stages - 2
              /\ Clock = cycle[a] + (LoopBundle - start) + ii * (Times - 1)
        /\ Reaching(program, Times, x, r) = PredictedCase(program, Times, x, r)
        /\ Reaching(program, Times, x, r) \subseteq Executed470
    BY ReaderIs
  <1>3. d \in LocalDependencies(program, a) /\ OperandName(a, r) = LocalName(a, d)
    BY <1>1, <1>2, OperandNameIs
  <1>4. d.producer = w /\ w # 0
    <2>1. w # 0
      BY DEF Incoming, Code
    <2> QED
      BY <2>1 DEF Dependency
  <1>5. /\ w \in DOMAIN program.code /\ Block(program, w) = Block(program, a)
        /\ Code(w).dst # {}
        /\ w \in RotatingWriters <=> Block(program, w) = "BB1"
        /\ w \in Body <=> Block(program, w) = "BB1"
        /\ w \in Initials => Block(program, w) = "BB0"
    BY <1>1, <1>2, <1>4, ProducerIs
  <1>6. Reaching(program, Times, x, r) = {<<w, x[2]>>}
    BY <1>2 DEF PredictedCase
  <1>7. MeantValue(x, r) = e
    BY <1>6, MeantIs
  <1>8. /\ e \in Writing
        /\ Block(program, w) = "BB0" => e = <<w, 0>>
        /\ Block(program, w) = "BB1" => e = <<w, x[2] + Stage(w)>>
        /\ Block(program, w) = "BB2" => e = <<w, Times + stages - 2>>
    <2>1. <<w, x[2]>> \in Executed470
      BY <1>2, <1>6
    <2>2. <<w, x[2]>>[1] = w /\ <<w, x[2]>>[2] = x[2]
      OBVIOUS
    <2> HIDE DEF w, x
    <2> QED
      BY <1>5, <2>1, <2>2, ValueWritten
  <1>9. e[1] = w
    BY <1>2, <1>5, <1>8
  <1>10. /\ Arrival(e[1], e[2]) = Issue(e[1], e[2]) + Latency(Code(w))
         /\ Latency(Code(w)) \in {1, 3}
    BY <1>9 DEF Arrival, Latency
  <1>11. CASE Block(program, a) = "BB1"
    <2> DEFINE i == x[2]
               s == Stage(w)
    <2>1. /\ s \in Nat /\ e = <<w, i + s>>
          /\ Issue(w, i + s) = LoopBundle + relative[w] + ii * i
      BY <1>2, <1>5, <1>8, <1>11, IssuesAre
    <2>2. relative[w] + Latency(Code(w)) <= relative[a]
      BY <1>1, <1>2, <1>3, <1>4, <1>11 DEF Exact, Ready
    <2>3. relative[w] \in Nat /\ relative[a] \in Nat
      BY <1>1, <1>2, <1>5, <1>11, BundlesAre
    <2>4. Arrival(e[1], e[2]) <= Clock
      <3>1. PICK z \in Nat : z = ii * i
        BY <1>1, <1>2
      <3>2. Arrival(e[1], e[2]) = LoopBundle + relative[w] + z + Latency(Code(w))
        BY <1>10, <2>1, <3>1
      <3>3. Clock = LoopBundle + relative[a] + z
        BY <1>2, <1>11, <3>1
      <3> HIDE DEF e, w, i, s, x
      <3> QED
        BY <1>1, <1>10, <2>2, <2>3, <3>1, <3>2, <3>3
    <2>5. Rotary(e[1]) /\ Home(e[1]) = w /\ Lag(e) = i + s
      <3>1. w \notin Initials /\ w \in RotatingWriters
        BY <1>5, <1>11
      <3> QED
        BY <1>9, <2>1, <3>1 DEF Rotary, Home, Lag
    <2>6. lap = i + Stage(a) /\ i \in Nat /\ Stage(a) \in Nat /\ Stage(a) < stages
      BY <1>2, <1>11
    <2>7. lap <= Lag(e) + stages /\ lap - Lag(e) = Stage(a) - s
      <3> HIDE DEF e, w, i, s, x
      <3> QED
        BY <1>1, <2>1, <2>5, <2>6
    <2>8. registers[Physical(InWindow(w, Stage(a) - s))] = e
      <3> HIDE DEF e, w, i, s, x
      <3>1. registers[Physical(InWindow(Home(e[1]), lap - Lag(e)))] = e
        BY <1>8, <2>4, <2>5, <2>7, WindowRead
      <3> QED
        BY <2>5, <2>7, <3>1
    <2>9. LocalName(a, d) = InWindow(w, Stage(a) - s)
      BY <1>4, <1>5, <1>11 DEF LocalName
    <2> QED
      BY <1>3, <1>7, <2>8, <2>9
  <1>12. CASE Block(program, a) # "BB1"
    <2>1. LocalName(a, d) = ResultName(w)
      BY <1>4, <1>5, <1>12 DEF LocalName
    <2>2. Arrival(e[1], e[2]) <= Clock
      <3>1. cycle[w] + Latency(Code(w)) <= cycle[a]
        <4>1. a \in DOMAIN program.code \ InBlock(program, "BB1") /\ d \in TimedDependencies(a)
          BY <1>2, <1>3, <1>12 DEF InBlock, TimedDependencies
        <4> QED
          BY <1>1, <1>4, <4>1 DEF Exact, Ready
      <3>2. cycle[w] \in Nat /\ cycle[a] \in Nat
        BY <1>1, <1>2, <1>5 DEF Compacted
      <3>3. \/ Issue(e[1], e[2]) = cycle[w] /\ Clock = cycle[a]
            \/ /\ Issue(e[1], e[2]) = cycle[w] + (LoopBundle - start) + ii * (Times - 1)
               /\ Clock = cycle[a] + (LoopBundle - start) + ii * (Times - 1)
        BY <1>2, <1>5, <1>8, <1>12, IssuesAre
      <3>4. PICK z \in Nat : z = ii * (Times - 1)
        BY <1>1
      <3> HIDE DEF e, w, x
      <3> QED
        BY <1>1, <1>10, <3>1, <3>2, <3>3, <3>4
    <2>3. CASE w \in Initials
      <3> DEFINE s == Stage(Replacement(w))
      <3>1. /\ Rotary(e[1]) /\ Home(e[1]) = Replacement(w) /\ Lag(e) = s - 1
        BY <1>9, <2>3 DEF Rotary, Home, Lag
      <3>2. w \notin RotatingWriters /\ lap = 0
        BY <1>2, <1>5, <1>12, <2>3
      <3>3. s \in Nat
        <4>1. Replacement(w) \in RotatingWriters
          BY <1>1, <2>3, InitialIs
        <4>2. Replacement(w) \in DOMAIN program.code /\ Block(program, Replacement(w)) = "BB1"
          BY <1>1, <4>1, BlocksOf DEF RotatingWriters
        <4> QED
          BY <1>1, <4>2, BundlesAre
      <3>4. lap <= Lag(e) + stages /\ lap - Lag(e) = 1 - s
        <4> HIDE DEF e, w, s
        <4> QED
          BY <1>1, <3>1, <3>2, <3>3
      <3>5. registers[Physical(InWindow(Replacement(w), 1 - s))] = e
        <4> HIDE DEF e, w, s
        <4>1. registers[Physical(InWindow(Home(e[1]), lap - Lag(e)))] = e
          BY <1>8, <2>2, <3>1, <3>4, WindowRead
        <4> QED
          BY <3>1, <3>4, <4>1
      <3>6. ResultName(w) = InWindow(Replacement(w), 1 - s)
        BY <2>3, <3>2 DEF ResultName
      <3> QED
        BY <1>3, <1>7, <2>1, <3>5, <3>6
    <2>4. CASE w \notin Initials
      <3>1. ~Rotary(e[1])
        BY <1>5, <1>9, <1>12, <2>4 DEF Rotary
      <3>2. registers[Physical(ResultName(w))] = e
        <4> HIDE DEF e, w
        <4> QED
          BY <1>8, <1>9, <2>2, <3>1, StaticRead
      <3> QED
        BY <1>3, <1>7, <2>1, <3>2
    <2> QED
      BY <2>3, <2>4
  <1> QED
    BY <1>11, <1>12

\* An operand carried around the loop holds the result of the previous iteration, and the
\* value from before the loop in the first.
LEMMA CarriedHolds ==
    ASSUME Holding, FileInv, InitialsInReach, ResultsInWindow,
           NEW a \in On, NEW r \in Reads(Code(a)), r \in Incoming(program, a),
           Block(program, a) = "BB1", BlockProducer(program, "BB1", r) # 0
    PROVE  registers[Physical(OperandName(a, r))] = MeantValue(InstanceAt(a, lap), r)
  <1> DEFINE x == InstanceAt(a, lap)
             i == x[2]
             inner == BlockProducer(program, "BB1", r)
             outer == BlockProducer(program, "BB0", r)
             d == Dependency(r, outer, inner)
             s == Stage(inner)
             t == Stage(a)
  <1>1. /\ Following /\ Compacted /\ Exact /\ Scheduled /\ Splittable(program)
        /\ stages \in Nat \ {0} /\ ii \in Nat \ {0} /\ Times \in Nat \ {0} /\ LoopBundle \in Nat
        /\ lap \in Nat /\ start \in Nat /\ start <= LoopBundle
    BY HoldingIs, BundlesAre, LoopBundleIs
  <1>2. /\ a \in DOMAIN program.code /\ x[1] = a /\ i \in Nat
        /\ a \in Body /\ t \in Nat /\ t < stages /\ lap = i + t
        /\ Clock = LoopBundle + relative[a] + ii * i
        /\ Reaching(program, Times, x, r) = PredictedCase(program, Times, x, r)
        /\ Reaching(program, Times, x, r) \subseteq Executed470
    BY ReaderIs
  <1>3. /\ d \in InterloopDependencies(program, a) /\ OperandName(a, r) = CarriedName(a, d)
        /\ d.producer = outer /\ d.previous = inner
    <2>1. a \in DOMAIN program.code /\ Splittable(program)
      BY <1>1, <1>2
    <2>2. d \in InterloopDependencies(program, a) /\ OperandName(a, r) = CarriedName(a, d)
      BY <2>1, OperandNameIs, ZenonT(30)
    <2> QED
      BY <2>2 DEF Dependency
  <1>4. /\ inner \in DOMAIN program.code /\ Block(program, inner) = "BB1" /\ Code(inner).dst # {}
        /\ inner \in RotatingWriters /\ inner \notin Initials
        /\ outer # 0 => /\ outer \in DOMAIN program.code /\ Block(program, outer) = "BB0"
                        /\ Code(outer).dst # {}
    BY <1>1, <1>2, ProducerIs
  <1>5. Reaching(program, Times, x, r) =
           IF i = 0 THEN Producing(outer, 0) ELSE {<<inner, i - 1>>}
    BY <1>2 DEF PredictedCase
  <1>6. OperandName(a, r) = InWindow(inner, t - s + 1)
    BY <1>3 DEF CarriedName
  <1>7. /\ s \in Nat /\ s < stages /\ relative[inner] \in Nat /\ relative[a] \in Nat
        /\ BundleOf(inner) \in Nat /\ BundleOf(a) \in Nat
        /\ BundleOf(inner) - LoopBundle \in 0 .. ii - 1 /\ BundleOf(a) - LoopBundle \in 0 .. ii - 1
        /\ relative[inner] = ii * s + (BundleOf(inner) - LoopBundle)
        /\ relative[a] = ii * t + (BundleOf(a) - LoopBundle)
    <2>1. LoopEnd = LoopBundle + ii /\ Block(program, a) = "BB1"
      BY <1>1, BundlesAre
    <2>2. \A b \in {inner, a} :
             /\ LoopBundle <= BundleOf(b) /\ BundleOf(b) < LoopEnd /\ BundleOf(b) \in Nat
             /\ relative[b] \in Nat /\ Stage(b) \in Nat /\ Stage(b) < stages
             /\ relative[b] = ii * Stage(b) + (BundleOf(b) - LoopBundle)
      BY <1>1, <1>2, <1>4, <2>1, BundlesAre
    <2> QED
      BY <1>1, <2>1, <2>2
  <1>8. /\ relative[inner] + Latency(Code(inner)) <= relative[a] + ii
        /\ outer # 0 => cycle[outer] + Latency(Code(outer)) <= cycle[a]
        /\ cycle[a] = start + relative[a]
        /\ \A b : Latency(Code(b)) \in {1, 3}
        /\ outer # 0 => cycle[outer] \in Nat
    <2>1. a \in InBlock(program, "BB1")
      BY <1>2 DEF InBlock
    <2>2. cycle[a] = start + relative[a] /\ (outer # 0 => cycle[outer] \in Nat)
      BY <1>1, <1>4, <2>1 DEF Compacted
    <2>3. relative[inner] + Latency(Code(inner)) <= relative[a] + ii
      BY <1>1, <1>2, <1>3 DEF Exact, Ready
    <2>4. outer # 0 => cycle[outer] + Latency(Code(outer)) <= cycle[a]
      BY <1>1, <1>2, <1>3 DEF Exact, Ready
    <2> QED
      BY <2>2, <2>3, <2>4 DEF Latency
  <1>9. s <= t + 1
    <2> DEFINE m == BundleOf(inner) - LoopBundle
               o == BundleOf(a) - LoopBundle
    <2>1. /\ m \in 0 .. ii - 1 /\ o \in 0 .. ii - 1
          /\ relative[inner] = ii * s + m /\ relative[a] = ii * t + o
      BY <1>7
    <2> HIDE DEF m, o, s, t
    <2>2. ii * (t + 1) = ii * t + ii
      BY <1>1, <1>2
    <2>3. PICK y \in Nat, z \in Nat : y = ii * s /\ z = ii * t
      BY <1>1, <1>2, <1>7
    <2>4. y + m < (z + ii) + o
      <3>1. Latency(Code(inner)) \in Nat /\ Latency(Code(inner)) > 0
        BY <1>8
      <3> QED
        BY <1>1, <1>7, <1>8, <2>1, <2>3, <3>1
    <2>5. (ii * s) + m < (ii * (t + 1)) + o
      BY <2>2, <2>3, <2>4
    <2>6. t + 1 \in Nat
      BY <1>2
    <2>7. s < t + 1 \/ s = t + 1
      BY <1>1, <1>7, <2>1, <2>5, <2>6, EarlierStage
    <2> QED
      BY <1>2, <1>7, <2>7
  <1>10. CASE i # 0
    <2> DEFINE e == ValueOf(<<inner, i - 1>>)
    <2>1. i - 1 \in Nat /\ <<inner, i - 1>> \in Executed470
      BY <1>2, <1>5, <1>10
    <2>2. MeantValue(x, r) = e
      BY <1>5, <1>10, MeantIs
    <2>3. e \in Writing /\ e = <<inner, (i - 1) + s>>
      <3>1. <<inner, i - 1>>[1] = inner /\ <<inner, i - 1>>[2] = i - 1
        OBVIOUS
      <3> HIDE DEF inner, x, i
      <3> QED
        BY <1>4, <2>1, <3>1, ValueWritten
    <2>4. Arrival(e[1], e[2]) <= Clock
      <3>1. Issue(inner, (i - 1) + s) = LoopBundle + relative[inner] + ii * (i - 1)
        BY <1>4, <2>1, IssuesAre
      <3>2. Arrival(e[1], e[2]) = LoopBundle + relative[inner] + ii * (i - 1)
                                     + Latency(Code(inner))
        BY <2>3, <3>1 DEF Arrival
      <3>3. PICK z \in Nat : z = ii * (i - 1)
        BY <1>1, <2>1
      <3> HIDE DEF e, inner, i, s, x
      <3>4. ii * i = z + ii
        <4>1. PICK p \in Nat : p = i - 1
          BY <2>1
        <4>2. i = p + 1 /\ ii * (p + 1) = ii * p + ii
          BY <1>1, <1>2, <4>1
        <4> QED
          BY <3>3, <4>1, <4>2
      <3>5. Clock = LoopBundle + relative[a] + (z + ii)
        BY <1>2, <3>4
      <3>6. Latency(Code(inner)) \in Nat
        BY <1>8
      <3> QED
        BY <1>1, <1>7, <1>8, <3>2, <3>3, <3>5, <3>6
    <2>5. Rotary(e[1]) /\ Home(e[1]) = inner /\ Lag(e) = (i - 1) + s
      BY <1>4, <2>3 DEF Rotary, Home, Lag
    <2>6. lap <= Lag(e) + stages /\ lap - Lag(e) = t - s + 1
      <3> HIDE DEF e, inner, i, s, t, x
      <3> QED
        BY <1>1, <1>2, <1>7, <2>5
    <2>7. registers[Physical(InWindow(inner, t - s + 1))] = e
      <3> HIDE DEF e, inner, i, s, t, x
      <3>1. registers[Physical(InWindow(Home(e[1]), lap - Lag(e)))] = e
        BY <2>3, <2>4, <2>5, <2>6, WindowRead
      <3> QED
        BY <2>5, <2>6, <3>1
    <2> QED
      BY <1>6, <2>2, <2>7
  <1>11. CASE i = 0 /\ outer # 0
    <2> DEFINE e == ValueOf(<<outer, 0>>)
    <2>1. Reaching(program, Times, x, r) = {<<outer, 0>>}
      BY <1>5, <1>11 DEF Producing
    <2>2. MeantValue(x, r) = e /\ <<outer, 0>> \in Executed470
      BY <1>2, <2>1, MeantIs
    <2>3. e \in Writing /\ e = <<outer, 0>>
      <3>1. <<outer, 0>>[1] = outer
        OBVIOUS
      <3> HIDE DEF outer
      <3> QED
        BY <1>4, <1>11, <2>2, <3>1, ValueWritten
    <2>4. Arrival(e[1], e[2]) <= Clock
      <3>1. Issue(outer, 0) = cycle[outer]
        BY <1>4, <1>11, IssuesAre
      <3>2. Arrival(e[1], e[2]) = cycle[outer] + Latency(Code(outer))
        BY <2>3, <3>1 DEF Arrival
      <3>3. ii * i = 0
        BY <1>1, <1>11
      <3>4. Clock = LoopBundle + relative[a]
        BY <1>1, <1>2, <1>7, <3>3
      <3>5. Latency(Code(outer)) \in Nat
        BY <1>8
      <3> HIDE DEF e, outer, i, x
      <3> QED
        BY <1>1, <1>7, <1>8, <1>11, <3>2, <3>4, <3>5
    <2>5. outer \in Initials /\ Replacement(outer) = inner
      BY <1>1, <1>2, <1>3, <1>11, ReplacementsApart
    <2>6. Rotary(e[1]) /\ Home(e[1]) = inner /\ Lag(e) = s - 1
      BY <2>3, <2>5 DEF Rotary, Home, Lag
    <2>7. lap <= Lag(e) + stages /\ lap - Lag(e) = t - s + 1
      <3> HIDE DEF e, inner, outer, i, s, t, x
      <3> QED
        BY <1>1, <1>2, <1>7, <1>11, <2>6
    <2>8. registers[Physical(InWindow(inner, t - s + 1))] = e
      <3> HIDE DEF e, inner, outer, i, s, t, x
      <3>1. registers[Physical(InWindow(Home(e[1]), lap - Lag(e)))] = e
        BY <2>3, <2>4, <2>6, <2>7, WindowRead
      <3> QED
        BY <2>6, <2>7, <3>1
    <2> QED
      BY <1>6, <2>2, <2>8
  <1>12. CASE i = 0 /\ outer = 0
    <2>1. MeantValue(x, r) = Zero
      BY <1>5, <1>12, MeantIs DEF Producing
    <2>2. d.producer = 0 /\ d.previous = inner
      BY <1>3, <1>12
    <2>3. s - 1 <= lap /\ lap <= s - 1 + stages /\ lap - (s - 1) = t - s + 1
      <3> HIDE DEF inner, outer, i, s, t, x, d
      <3> QED
        BY <1>1, <1>2, <1>7, <1>9, <1>12
    <2>4. registers[Physical(InWindow(inner, lap - (s - 1)))] = Zero
      <3> HIDE DEF d
      <3>1. Stage(d.previous) - 1 <= lap /\ lap <= Stage(d.previous) - 1 + stages
        BY <2>2, <2>3
      <3>2. registers[Physical(InWindow(d.previous, lap - (Stage(d.previous) - 1)))] = Zero
        BY <1>2, <1>3, <2>2, <3>1, EmptyWindowRead
      <3> QED
        BY <2>2, <3>2
    <2> QED
      BY <1>6, <2>1, <2>3, <2>4
  <1> QED
    BY <1>10, <1>11, <1>12

\* An operand that the loop does not write holds the value from before the loop.
LEMMA InvariantHolds ==
    ASSUME Holding, FileInv, InitialsInReach, ResultsInWindow,
           NEW a \in On, NEW r \in Reads(Code(a)), r \in Incoming(program, a),
           Block(program, a) \in {"BB1", "BB2"}, BlockProducer(program, "BB1", r) = 0,
           BlockProducer(program, "BB0", r) # 0
    PROVE  registers[Physical(OperandName(a, r))] = MeantValue(InstanceAt(a, lap), r)
  <1> DEFINE x == InstanceAt(a, lap)
             outer == BlockProducer(program, "BB0", r)
             d == Dependency(r, outer, 0)
             e == ValueOf(<<outer, 0>>)
  <1>1. /\ Following /\ Compacted /\ Exact /\ Scheduled /\ Splittable(program)
        /\ stages \in Nat \ {0} /\ ii \in Nat \ {0} /\ Times \in Nat \ {0} /\ LoopBundle \in Nat
        /\ lap \in Nat /\ start \in Nat /\ start <= LoopBundle
    BY HoldingIs, BundlesAre, LoopBundleIs
  <1>2. /\ a \in DOMAIN program.code /\ x[1] = a /\ x[2] \in Nat
        /\ Block(program, a) = "BB1" =>
              /\ a \in Body /\ Clock = LoopBundle + relative[a] + ii * x[2]
        /\ Block(program, a) = "BB2" =>
              Clock = cycle[a] + (LoopBundle - start) + ii * (Times - 1)
        /\ Reaching(program, Times, x, r) = PredictedCase(program, Times, x, r)
        /\ Reaching(program, Times, x, r) \subseteq Executed470
    BY ReaderIs
  <1>3. /\ d \in InvariantDependencies(program, a) /\ OperandName(a, r) = ResultName(outer)
        /\ d.producer = outer
    <2>1. a \in DOMAIN program.code /\ Splittable(program)
      BY <1>1, <1>2
    <2>2. d \in InvariantDependencies(program, a) /\ OperandName(a, r) = ResultName(outer)
      BY <2>1, OperandNameIs, ZenonT(30)
    <2> QED
      BY <2>2 DEF Dependency
  <1>4. /\ outer \in DOMAIN program.code /\ Block(program, outer) = "BB0"
        /\ Code(outer).dst # {} /\ outer \notin RotatingWriters
    <2>1. a \in DOMAIN program.code /\ Splittable(program)
      BY <1>1, <1>2
    <2>2. /\ outer \in DOMAIN program.code /\ Block(program, outer) = "BB0"
          /\ Code(outer).dst # {}
      BY <2>1, ProducerIs
    <2>3. outer \in RotatingWriters <=> Block(program, outer) = "BB1"
      BY <2>1, <2>2, ProducerIs
    <2> QED
      BY <2>2, <2>3
  <1>5. outer \notin Initials
    <2>1. d \in Invariants
      BY <1>2, <1>3 DEF Invariants
    <2> QED
      BY <1>1, <1>3, <2>1, InvariantIs
  <1>6. Reaching(program, Times, x, r) = {<<outer, 0>>}
    <2>1. PredictedCase(program, Times, x, r) = Producing(outer, 0)
      BY <1>2 DEF PredictedCase
    <2> QED
      BY <1>2, <2>1 DEF Producing
  <1>7. MeantValue(x, r) = e /\ <<outer, 0>> \in Executed470
    BY <1>2, <1>6, MeantIs
  <1>8. e \in Writing /\ e = <<outer, 0>>
    <2>1. <<outer, 0>>[1] = outer
      OBVIOUS
    <2> HIDE DEF outer
    <2> QED
      BY <1>4, <1>7, <2>1, ValueWritten
  <1>9. cycle[outer] + Latency(Code(outer)) <= cycle[a]
    <2>1. CASE Block(program, a) = "BB1"
      BY <1>1, <1>2, <1>3, <2>1 DEF Exact, Ready
    <2>2. CASE Block(program, a) = "BB2"
      <3>1. a \in DOMAIN program.code \ InBlock(program, "BB1") /\ d \in TimedDependencies(a)
        BY <1>2, <1>3, <2>2 DEF InBlock, TimedDependencies
      <3> QED
        BY <1>1, <1>3, <3>1 DEF Exact, Ready
    <2> QED
      BY <2>1, <2>2
  <1>10. cycle[a] <= Clock /\ cycle[a] \in Nat /\ Clock \in Int
    <2>1. cycle[a] \in Nat /\ Clock \in Int
      BY <1>1, <1>2, ClockIs DEF Compacted
    <2>2. CASE Block(program, a) = "BB1"
      <3>1. a \in InBlock(program, "BB1")
        BY <1>2, <2>2 DEF InBlock
      <3>2. cycle[a] = start + relative[a] /\ relative[a] \in Nat
        BY <1>1, <3>1 DEF Compacted
      <3>3. PICK z \in Nat : z = ii * x[2]
        BY <1>1, <1>2
      <3> QED
        BY <1>1, <1>2, <2>1, <2>2, <3>2, <3>3
    <2>3. CASE Block(program, a) = "BB2"
      <3>1. PICK z \in Nat : z = ii * (Times - 1)
        BY <1>1
      <3> QED
        BY <1>1, <1>2, <2>1, <2>3, <3>1
    <2> QED
      BY <2>1, <2>2, <2>3
  <1>11. Arrival(e[1], e[2]) <= Clock
    <2>1. Issue(outer, 0) = cycle[outer] /\ cycle[outer] \in Nat
      BY <1>1, <1>4, IssuesAre DEF Compacted
    <2>2. Arrival(e[1], e[2]) = cycle[outer] + Latency(Code(outer))
      BY <1>8, <2>1 DEF Arrival
    <2>3. Latency(Code(outer)) \in Nat
      BY DEF Latency
    <2> HIDE DEF e, outer, x
    <2> QED
      BY <1>9, <1>10, <2>1, <2>2, <2>3
  <1>12. e[1] = outer /\ ~Rotary(e[1])
    BY <1>4, <1>5, <1>8 DEF Rotary
  <1>13. registers[Physical(ResultName(outer))] = e
    <2> HIDE DEF e, outer
    <2> QED
      BY <1>8, <1>11, <1>12, StaticRead
  <1> QED
    BY <1>3, <1>7, <1>13

\* An operand that is read behind the loop holds the result of the last iteration.
LEMMA FinalHolds ==
    ASSUME Holding, FileInv, InitialsInReach, ResultsInWindow,
           NEW a \in On, NEW r \in Reads(Code(a)), r \in Incoming(program, a),
           Block(program, a) = "BB2", BlockProducer(program, "BB1", r) # 0
    PROVE  registers[Physical(OperandName(a, r))] = MeantValue(InstanceAt(a, lap), r)
  <1> DEFINE x == InstanceAt(a, lap)
             inner == BlockProducer(program, "BB1", r)
             d == Dependency(r, inner, 0)
             e == ValueOf(<<inner, Times - 1>>)
             s == Stage(inner)
  <1>1. /\ Following /\ Compacted /\ Exact /\ Scheduled /\ Splittable(program)
        /\ stages \in Nat \ {0} /\ ii \in Nat \ {0} /\ Times \in Nat \ {0} /\ LoopBundle \in Nat
        /\ lap \in Nat /\ start \in Nat
    BY HoldingIs, BundlesAre
  <1>2. /\ a \in DOMAIN program.code /\ x[1] = a
        /\ lap = Times + stages - 2
        /\ Clock = cycle[a] + (LoopBundle - start) + ii * (Times - 1)
        /\ Reaching(program, Times, x, r) = PredictedCase(program, Times, x, r)
        /\ Reaching(program, Times, x, r) \subseteq Executed470
    BY ReaderIs
  <1>3. /\ d \in PostLoopDependencies(program, a) /\ OperandName(a, r) = PostLoopName(d)
        /\ d.producer = inner
    <2>1. d \in PostLoopDependencies(program, a) /\ OperandName(a, r) = PostLoopName(d)
      BY <1>1, <1>2, OperandNameIs
    <2> QED
      BY <2>1 DEF Dependency
  <1>4. /\ inner \in DOMAIN program.code /\ Block(program, inner) = "BB1" /\ Code(inner).dst # {}
        /\ inner \in RotatingWriters /\ inner \notin Initials
    BY <1>1, <1>2, ProducerIs
  <1>5. Reaching(program, Times, x, r) = {<<inner, Times - 1>>}
    BY <1>2 DEF PredictedCase
  <1>6. MeantValue(x, r) = e /\ <<inner, Times - 1>> \in Executed470 /\ Times - 1 \in Nat
    BY <1>1, <1>2, <1>5, MeantIs
  <1>7. e \in Writing /\ e = <<inner, (Times - 1) + s>>
    <2>1. <<inner, Times - 1>>[1] = inner /\ <<inner, Times - 1>>[2] = Times - 1
      OBVIOUS
    <2> HIDE DEF inner
    <2> QED
      BY <1>4, <1>6, <2>1, ValueWritten
  <1>8. s \in Nat /\ s < stages /\ relative[inner] \in Nat
    BY <1>1, <1>4, BundlesAre
  <1>9. Arrival(e[1], e[2]) <= Clock
    <2>1. Issue(inner, (Times - 1) + s) = LoopBundle + relative[inner] + ii * (Times - 1)
      BY <1>4, <1>6, IssuesAre
    <2>2. Arrival(e[1], e[2]) =
             LoopBundle + relative[inner] + ii * (Times - 1) + Latency(Code(inner))
      BY <1>7, <2>1 DEF Arrival
    <2>3. cycle[inner] + Latency(Code(inner)) <= cycle[a]
      <3>1. a \in DOMAIN program.code \ InBlock(program, "BB1") /\ d \in TimedDependencies(a)
        BY <1>2, <1>3 DEF InBlock, TimedDependencies
      <3> QED
        BY <1>1, <1>3, <3>1 DEF Exact, Ready
    <2>4. cycle[inner] = start + relative[inner] /\ cycle[a] \in Nat
      <3>1. inner \in InBlock(program, "BB1")
        BY <1>4 DEF InBlock
      <3> QED
        BY <1>1, <1>2, <3>1 DEF Compacted
    <2>5. Latency(Code(inner)) \in Nat
      BY DEF Latency
    <2>6. PICK z \in Nat : z = ii * (Times - 1)
      BY <1>1, <1>6
    <2> HIDE DEF e, inner, s
    <2> QED
      BY <1>1, <1>2, <1>8, <2>2, <2>3, <2>4, <2>5, <2>6
  <1>10. Rotary(e[1]) /\ Home(e[1]) = inner /\ Lag(e) = (Times - 1) + s
    BY <1>4, <1>7 DEF Rotary, Home, Lag
  <1>11. lap <= Lag(e) + stages /\ lap - Lag(e) = stages - 1 - s
    <2> HIDE DEF e, inner, s
    <2> QED
      BY <1>1, <1>2, <1>8, <1>10
  <1>12. registers[Physical(InWindow(inner, stages - 1 - s))] = e
    <2> HIDE DEF e, inner, s
    <2>1. registers[Physical(InWindow(Home(e[1]), lap - Lag(e)))] = e
      BY <1>7, <1>9, <1>10, <1>11, WindowRead
    <2> QED
      BY <1>10, <1>11, <2>1
  <1>13. PostLoopName(d) = InWindow(inner, stages - 1 - s)
    BY <1>3 DEF PostLoopName
  <1> QED
    BY <1>3, <1>6, <1>12, <1>13

\* Every operand holds what it should.
LEMMA OperandHolds ==
    ASSUME Holding, FileInv, InitialsInReach, ResultsInWindow,
           NEW a \in On, NEW r \in Reads(Code(a))
    PROVE  registers[Physical(OperandName(a, r))] = MeantValue(InstanceAt(a, lap), r)
  <1> DEFINE x == InstanceAt(a, lap)
             inner == BlockProducer(program, "BB1", r)
             outer == BlockProducer(program, "BB0", r)
  <1>1. /\ a \in DOMAIN program.code /\ x[1] = a
        /\ Block(program, a) \in {"BB0", "BB1", "BB2"}
        /\ Reaching(program, Times, x, r) = PredictedCase(program, Times, x, r)
    BY ReaderIs
  <1>2. CASE r \notin Incoming(program, a)
    BY <1>2, LocalHolds
  <1>3. CASE r \in Incoming(program, a) /\ Block(program, a) = "BB1" /\ inner # 0
    BY <1>3, CarriedHolds
  <1>4. CASE /\ r \in Incoming(program, a) /\ Block(program, a) \in {"BB1", "BB2"}
             /\ inner = 0 /\ outer # 0
    BY <1>4, InvariantHolds
  <1>5. CASE r \in Incoming(program, a) /\ Block(program, a) = "BB2" /\ inner # 0
    BY <1>5, FinalHolds
  <1>6. CASE r \in Incoming(program, a) /\ (Block(program, a) = "BB0" \/ (inner = 0 /\ outer = 0))
    <2> DEFINE claim == <<3, Place(a), FirstOperand(a, r), a>>
    <2>1. claim \in ExternalClaims /\ OperandName(a, r) = StaticName(claim)
      BY <1>1, <1>6, HoldingIs, OperandNameIs
    <2>2. registers[Physical(StaticName(claim))] = Zero
      BY <2>1, ExternalRead
    <2>3. PredictedCase(program, Times, x, r) = {}
      BY <1>1, <1>6 DEF PredictedCase, Producing
    <2>4. MeantValue(x, r) = Zero
      BY <1>1, <2>3, MeantIs
    <2> QED
      BY <2>1, <2>2, <2>4
  <1> QED
    BY <1>1, <1>2, <1>3, <1>4, <1>5, <1>6

\* The operands that the machine reads are those.
LEMMA ValuesHold ==
    ASSUME RunningInv, Exact, Named, FileInv, ~Endless, LapsFit
    PROVE  ValuesArrive
  <1> SUFFICES ASSUME phase = "running", InitialsInReach, ResultsInWindow,
                      NEW op \in Active, op.name # NoName, NEW k \in DOMAIN op.src
               PROVE  registers[Physical(op.src[k])] =
                         MeantValue(InstanceAt(op.name, lap), Code(op.name).src[k])
    BY DEF ValuesArrive
  <1>1. Holding /\ Compacted /\ MachineInv
    BY FollowingIs DEF Holding, FileInv
  <1>2. PICK a \in On : op = PreparedOperation(a)
    <2>1. SetEpilogue.name = NoName /\ SetPredicate.name = NoName
      BY DEF SetEpilogue, SetPredicate, Operation
    <2> QED
      BY <1>1, <2>1, ActiveIs
  <1>3. op.name = a /\ op.src = src[a]
    BY <1>2 DEF PreparedOperation, Operation
  <1>4. a \in DOMAIN program.code
    BY DEF On, AtPc
  <1>5. src[a] = [j \in DOMAIN Code(a).src |-> OperandName(a, Code(a).src[j])]
    BY <1>4 DEF Named
  <1>6. /\ k \in DOMAIN Code(a).src /\ op.src[k] = OperandName(a, Code(a).src[k])
        /\ Code(a).src[k] \in Reads(Code(a))
    BY <1>3, <1>5 DEF Reads
  <1>7. registers[Physical(OperandName(a, Code(a).src[k]))]
           = MeantValue(InstanceAt(a, lap), Code(a).src[k])
    BY <1>1, <1>6, OperandHolds
  <1> QED
    BY <1>3, <1>6, <1>7

\* On the loop.pip path every operand holds the value that a sequential run would give it
\* (run_instruction reading what the allocator of rotating registers has named), across
\* stages, iterations, the fill and the drain of the pipeline, and the end of the loop:
\* for every program that is not an endless loop and every number of stages and iterations
\* that the rotating registers have room for.
THEOREM PipelineValues == Spec => [](~Endless /\ LapsFit => ValuesArrive)
  <1>1. RunningInv /\ Exact /\ Named /\ FileInv => (~Endless /\ LapsFit => ValuesArrive)
    BY ValuesHold
  <1> QED
    BY <1>1, RunningInvIs, TablesAre, FileIsKept, PTL

-----------------------------------------------------------------------------
(* Types *)

\* A name of a window is a rotating register.
LEMMA InWindowIs ==
    ASSUME Compacted, Exact, Scheduled, RotatingFit, NEW w \in RotatingWriters, NEW k \in Int
    PROVE  InWindow(w, k) \in Register \ {0}
  <1>1. /\ WindowSize = stages + 1 /\ stages \in Nat \ {0}
        /\ Base(w) \in Nat /\ FirstRotating <= Base(w) /\ Base(w) + stages <= LastRotating
    BY WindowsAre
  <1>2. FirstRotating \in Nat \ {0} /\ LastRotating \in Nat /\ Register = 0 .. LastRotating
    BY FileIs
  <1>3. k % WindowSize \in 0 .. stages
    BY <1>1
  <1> QED
    BY <1>1, <1>2, <1>3 DEF InWindow

\* A static name is a static register.
LEMMA StaticInFile ==
    ASSUME Compacted, Exact, Scheduled, StaticFit, NEW c \in Claims
    PROVE  StaticName(c) \in Register \ {0}
  <1>1. StaticName(c) \in 1 .. LastStatic
    BY StaticNamesAre
  <1> QED
    BY <1>1, FileIs

\* Every result is given a register, and not x0.
LEMMA ResultInFile ==
    ASSUME Compacted, Exact, Scheduled, RotatingFit, StaticFit,
           NEW a \in DOMAIN program.code, Code(a).dst # {}
    PROVE  ResultName(a) \in Register \ {0}
  <1>1. Splittable(program) /\ \A x \in DOMAIN program.code :
           Block(program, x) = "BB1" => Stage(x) \in Nat
    BY BundlesAre
  <1>2. CASE a \in RotatingWriters
    <2>1. Base(a) \in Nat /\ FirstRotating <= Base(a) /\ Base(a) + stages <= LastRotating
          /\ stages \in Nat
      BY <1>2, WindowsAre
    <2>2. FirstRotating \in Nat \ {0} /\ LastRotating \in Nat /\ Register = 0 .. LastRotating
      BY FileIs
    <2> QED
      BY <1>2, <2>1, <2>2 DEF ResultName
  <1>3. CASE a \notin RotatingWriters /\ a \in Initials
    <2>1. Replacement(a) \in RotatingWriters
      BY <1>1, <1>3, InitialIs
    <2>2. Stage(Replacement(a)) \in Nat
      BY <1>1, <2>1, BlocksOf DEF RotatingWriters
    <2> QED
      BY <1>3, <2>1, <2>2, InWindowIs DEF ResultName
  <1>4. CASE a \notin RotatingWriters /\ a \notin Initials
    <2>1. PICK c \in Claims : ResultName(a) = StaticName(c)
      BY <1>4, StaticResult DEF Rotary
    <2> QED
      BY <2>1, StaticInFile
  <1> QED
    BY <1>2, <1>3, <1>4

\* So is every operand.
LEMMA OperandInFile ==
    ASSUME Compacted, Exact, Scheduled, RotatingFit, StaticFit,
           NEW a \in DOMAIN program.code, NEW r \in Reads(Code(a))
    PROVE  OperandName(a, r) \in Register \ {0}
  <1> DEFINE inner == BlockProducer(program, "BB1", r)
             outer == BlockProducer(program, "BB0", r)
             w == LocalProducer(program, a, r)
  <1>1. /\ Splittable(program) /\ stages \in Nat \ {0} /\ Block(program, a) \in {"BB0", "BB1", "BB2"}
        /\ \A x \in DOMAIN program.code : Block(program, x) = "BB1" => Stage(x) \in Nat
    BY BundlesAre
  <1>2. /\ inner # 0 => /\ inner \in RotatingWriters /\ inner \in DOMAIN program.code
                        /\ Stage(inner) \in Nat
        /\ outer # 0 => outer \in DOMAIN program.code /\ Code(outer).dst # {}
        /\ w # 0 => /\ w \in DOMAIN program.code /\ Code(w).dst # {}
                    /\ Block(program, w) = Block(program, a)
                    /\ w \in Body => /\ w \in RotatingWriters /\ Stage(w) \in Nat
                                     /\ Stage(a) \in Nat
    BY <1>1, ProducerIs
  <1>3. CASE r \notin Incoming(program, a)
    <2>1. w # 0
      BY <1>3 DEF Incoming, Code
    <2>2. OperandName(a, r) = LocalName(a, Dependency(r, w, 0))
      BY <1>1, <1>3, OperandNameIs
    <2>3. OperandName(a, r) = IF w \in Body THEN InWindow(w, Stage(a) - Stage(w))
                              ELSE ResultName(w)
      BY <2>2 DEF LocalName, Dependency
    <2>4. CASE w \in Body
      <3>1. Stage(a) - Stage(w) \in Int /\ w \in RotatingWriters
        BY <1>2, <2>1, <2>4
      <3> QED
        BY <2>3, <2>4, <3>1, InWindowIs
    <2>5. CASE w \notin Body
      BY <1>2, <2>1, <2>3, <2>5, ResultInFile
    <2> QED
      BY <2>4, <2>5
  <1>4. CASE r \in Incoming(program, a) /\ Block(program, a) = "BB1" /\ inner # 0
    <2>1. OperandName(a, r) = CarriedName(a, Dependency(r, outer, inner))
      <3>1. r \in Incoming(program, a) => (Block(program, a) = "BB1" /\ inner # 0 =>
               OperandName(a, r) = CarriedName(a, Dependency(r, outer, inner)))
        BY <1>1, OperandNameIs, ZenonT(30)
      <3> QED
        BY <1>4, <3>1, Zenon
    <2>2. OperandName(a, r) = InWindow(inner, Stage(a) - Stage(inner) + 1)
      BY <2>1 DEF CarriedName, Dependency
    <2>3. Stage(a) - Stage(inner) + 1 \in Int
      BY <1>1, <1>2, <1>4
    <2> QED
      BY <1>2, <1>4, <2>2, <2>3, InWindowIs
  <1>5. CASE /\ r \in Incoming(program, a) /\ Block(program, a) \in {"BB1", "BB2"}
             /\ inner = 0 /\ outer # 0
    <2>1. OperandName(a, r) = ResultName(outer)
      <3>1. r \in Incoming(program, a) => (Block(program, a) \in {"BB1", "BB2"} /\ inner = 0 /\ outer # 0 =>
               OperandName(a, r) = ResultName(outer))
        BY <1>1, OperandNameIs, ZenonT(30)
      <3> QED
        BY <1>5, <3>1, Zenon
    <2> QED
      BY <1>2, <1>5, <2>1, ResultInFile
  <1>6. CASE r \in Incoming(program, a) /\ Block(program, a) = "BB2" /\ inner # 0
    <2>1. OperandName(a, r) = PostLoopName(Dependency(r, inner, 0))
      BY <1>1, <1>6, OperandNameIs
    <2>2. OperandName(a, r) = InWindow(inner, stages - 1 - Stage(inner))
      BY <2>1 DEF PostLoopName, Dependency
    <2>3. stages - 1 - Stage(inner) \in Int
      BY <1>1, <1>2, <1>6
    <2> QED
      BY <1>2, <1>6, <2>2, <2>3, InWindowIs
  <1>7. CASE /\ r \in Incoming(program, a)
             /\ Block(program, a) = "BB0" \/ (inner = 0 /\ outer = 0)
    <2> DEFINE claim == <<3, Place(a), FirstOperand(a, r), a>>
    <2>1. claim \in ExternalClaims /\ OperandName(a, r) = StaticName(claim)
      BY <1>1, <1>7, OperandNameIs
    <2>2. claim \in Claims
      BY <2>1 DEF Claims
    <2> HIDE DEF claim
    <2> QED
      BY <2>1, <2>2, StaticInFile
  <1> QED
    BY <1>1, <1>3, <1>4, <1>5, <1>6, <1>7

\* What a register may hold: the instance of an instruction.
Contents == (0 .. Len(program.code)) \X (0 .. MaxLaps)

\* Types of the tables and of the machine.  A predicate has a rotating name's register as
\* long as the base is in range.
FileTypes ==
    /\ phase \in {"source", "BB0", "BB1", "BB2", "done", "failed", "rejected",
                  "unallocated", "allocated", "running"}
    /\ phase \notin {"allocated", "running"} => dst = <<>> /\ src = <<>>
    /\ phase = "running" =>
          /\ registers \in [Register -> Contents]
          /\ \A k \in 1 .. 2 : \A w \in multiplier[k] : w[2] \in Contents
          /\ BaseInRange => predicates \subseteq FirstRotating .. LastRotating
          /\ ran \subseteq (DOMAIN program.code) \X (0 .. MaxLaps)

\* What the operations of a cycle write are instances of their instructions.
LEMMA WritesTyped ==
    ASSUME Compacted, MachineInv, phase = "running", NEW s, NEW w \in Writes(s)
    PROVE  w[2] \in Contents
  <1>1. PICK op \in Active : \E d \in op.dst : w = <<Physical(d), Result(op)>>
    BY DEF Writes
  <1>2. PICK a \in On : op = PreparedOperation(a)
    <2>1. SetEpilogue.dst = {} /\ SetPredicate.dst = {}
      BY DEF SetEpilogue, SetPredicate, Operation
    <2> QED
      BY <1>1, <2>1, ActiveIs
  <1>3. op.name = a
    BY <1>2 DEF PreparedOperation, Operation
  <1>4. a \in 1 .. Len(program.code) /\ Len(program.code) \in Nat
    <2>1. a \in DOMAIN program.code
      BY DEF On, AtPc
    <2> QED
      BY <2>1, BlocksOf DEF Compacted, Scheduled
  <1>5. Result(op) = <<a, lap>>
    BY <1>3, <1>4 DEF Result
  <1>6. lap \in 0 .. MaxLaps
    BY DEF MachineInv
  <1> QED
    BY <1>1, <1>4, <1>5, <1>6 DEF Contents

\* Writes of such values leave a register file of such values.
LEMMA AfterTyped ==
    ASSUME NEW S, NEW file \in [Register -> S], NEW writes, \A w \in writes : w[2] \in S
    PROVE  After(file, writes) \in [Register -> S]
  <1>1. ASSUME NEW r \in Register
        PROVE  (IF \E w \in writes : w[1] = r
                THEN (CHOOSE w \in writes : w[1] = r)[2] ELSE file[r]) \in S
    OBVIOUS
  <1> QED
    BY <1>1 DEF After

\* A cycle makes no predicate true outside the rotating ones.
LEMMA PredicatesTyped ==
    ASSUME Compacted, MachineInv, FileTypes, Run, BaseInRange'
    PROVE  predicates' \subseteq FirstRotating .. LastRotating
  <1>1. phase = "running" /\ Tick
    BY RunKeeps
  <1>2. /\ lap \in Nat /\ rrb = lap /\ lap \in 0 .. MaxLaps /\ MaxLaps \in Nat
    BY <1>1, FileIs DEF MachineInv
  <1>3. lap' \in Nat /\ rrb' = lap' /\ lap <= lap' /\ lap' < Rotating
    <2>1. /\ Starts \/ Drains => lap' = (IF lap < MaxLaps THEN lap + 1 ELSE lap) /\ rrb' = lap'
          /\ ~(Starts \/ Drains) => lap' = lap /\ rrb' = rrb
      BY <1>1, TickIs
    <2>2. rrb' < Rotating'
      BY DEF BaseInRange
    <2>3. Rotating' = Rotating
      BY DEF Rotating
    <2> QED
      BY <1>2, <2>1, <2>2, <2>3
  <1>4. BaseInRange /\ lap < Rotating /\ Rotating \in Nat
    BY <1>2, <1>3, FileIs DEF BaseInRange
  <1>5. \A i \in Nat : i < Rotating => FirstOf(i) \in FirstRotating .. LastRotating
    <2>1. /\ FirstRotating = LastStatic + 1 /\ LastStatic \in Nat /\ LastRotating \in Nat
          /\ Rotating = LastRotating - LastStatic /\ Rotating \in Nat \ {0}
      BY FileIs
    <2>2. ASSUME NEW i \in Nat, i < Rotating PROVE FirstOf(i) \in FirstRotating .. LastRotating
      BY <2>1, <2>2, FirstIs
    <2> QED
      BY <2>2
  <1>6. Predicated \subseteq FirstRotating .. LastRotating
    <2>1. Predicated \subseteq predicates \cup {Physical(FirstRotating)}
      BY <1>1, CycleIs
    <2>2. Physical(FirstRotating) = FirstOf(lap)
      BY <1>2 DEF Physical, FirstOf
    <2>3. predicates \subseteq FirstRotating .. LastRotating
      BY <1>1, <1>4 DEF FileTypes
    <2>4. FirstOf(lap) \in FirstRotating .. LastRotating
      BY <1>2, <1>4, <1>5
    <2> QED
      BY <2>1, <2>2, <2>3, <2>4
  <1>7. predicates' \subseteq Predicated \cup {FirstOf(lap')}
    BY <1>1, TickIs
  <1>8. FirstOf(lap') \in FirstRotating .. LastRotating
    BY <1>3, <1>5
  <1> QED
    BY <1>6, <1>7, <1>8

\* A cycle keeps the types.
LEMMA RunTypes ==
    ASSUME Compacted, MachineInv, FileTypes, Run
    PROVE  FileTypes'
  <1>1. /\ UNCHANGED <<program, phase, dst, src>> /\ phase = "running" /\ Tick
        /\ Contents' = Contents
    BY RunKeeps DEF Contents
  <1>2. /\ registers' = After(After(After(After(registers, Writes("ALU0")), Writes("ALU1")),
                                    Writes("Mem")), multiplier[2])
        /\ multiplier' = <<Writes("Mult"), multiplier[1]>>
    BY <1>1 DEF Tick
  <1>3. \A s : \A w \in Writes(s) : w[2] \in Contents
    BY <1>1, WritesTyped
  <1>4. \A k \in 1 .. 2 : \A w \in multiplier[k] : w[2] \in Contents
    BY <1>1 DEF FileTypes
  <1>5. registers' \in [Register -> Contents]
    <2> DEFINE one == After(registers, Writes("ALU0"))
               two == After(one, Writes("ALU1"))
               three == After(two, Writes("Mem"))
    <2>1. registers \in [Register -> Contents]
      BY <1>1 DEF FileTypes
    <2>2. one \in [Register -> Contents]
      BY <1>3, <2>1, AfterTyped
    <2> HIDE DEF one
    <2>3. two \in [Register -> Contents]
      BY <1>3, <2>2, AfterTyped
    <2> HIDE DEF two
    <2>4. three \in [Register -> Contents]
      BY <1>3, <2>3, AfterTyped
    <2> HIDE DEF three
    <2>5. After(three, multiplier[2]) \in [Register -> Contents]
      <3>1. \A w \in multiplier[2] : w[2] \in Contents
        BY <1>4
      <3> QED
        BY <2>4, <3>1, AfterTyped
    <2> QED
      BY <1>2, <2>5 DEF one, two, three
  <1>6. \A k \in 1 .. 2 : \A w \in multiplier'[k] : w[2] \in Contents
    BY <1>2, <1>3, <1>4
  <1>7. BaseInRange' => predicates' \subseteq FirstRotating .. LastRotating
    BY PredicatesTyped
  <1>8. ran' \subseteq (DOMAIN program.code) \X (0 .. MaxLaps)
    <2>1. ran' = ran \cup {<<a, lap>> : a \in On}
      BY <1>1, TickIs
    <2>2. On \subseteq DOMAIN program.code /\ lap \in 0 .. MaxLaps
      BY <1>1 DEF On, AtPc, MachineInv
    <2>3. ran \subseteq (DOMAIN program.code) \X (0 .. MaxLaps)
      BY <1>1 DEF FileTypes
    <2> QED
      BY <2>1, <2>2, <2>3
  <1> QED
    BY <1>1, <1>5, <1>6, <1>7, <1>8 DEF FileTypes

\* What every register holds at first is of the type.
LEMMA ZeroTyped ==
    ASSUME PlacementsOK
    PROVE  [r \in Register |-> Zero] \in [Register -> Contents]
  <1>1. Len(program.code) \in Nat
    BY DEF PlacementsOK, Program
  <1>2. Zero \in Contents
    BY <1>1, FileIs DEF Zero, Contents
  <1> QED
    BY <1>2

\* The types hold in every state.
LEMMA TypesKept == Spec => []FileTypes
  <1>1. Init => FileTypes
    BY DEF Init, SchedulerInit, RegistersInit, FileTypes
  <1>2. /\ Compacted /\ MachineInv /\ PlacementsOK /\ FileTypes /\ [Next]_vars
           => FileTypes'
    <2> SUFFICES ASSUME Compacted, MachineInv, PlacementsOK, FileTypes, [Next]_vars
                 PROVE  FileTypes'
      OBVIOUS
    <2>1. CASE Schedule
      <3>1. /\ phase' \in {"source", "BB0", "BB1", "BB2", "done", "failed", "rejected"}
            /\ phase \in {"source", "BB0", "BB1", "BB2"}
        BY <2>1 DEF Schedule, ScheduleNext, Parse, ParseError, PlaceInCycle, NoCycleLeft,
                    FinishBB0, FinishBB2, PlaceModulo, NoPlaceInBody, BodyTooSlow, AcceptBody,
                    NextInterval, FileTypes
      <3>2. UNCHANGED <<dst, src>>
        BY <2>1 DEF Schedule, registerVars
      <3> QED
        BY <3>1, <3>2 DEF FileTypes
    <2>2. CASE AllocateRegisters
      <3>1. \/ phase' = "allocated"
            \/ phase' = "unallocated" /\ phase = "done" /\ UNCHANGED <<dst, src>>
        BY <2>2 DEF AllocateRegisters, AllocateNext, Allocate, OutOfRegisters, registerVars
      <3> QED
        BY <3>1 DEF FileTypes
    <2>3. CASE Prepare
      <3>1. /\ phase' = "running" /\ phase = "allocated"
            /\ UNCHANGED <<registers, predicates, multiplier, ran>>
        BY <2>3 DEF Prepare
      <3>2. /\ registers = [r \in Register |-> Zero] /\ predicates = {}
            /\ multiplier = <<{}, {}>> /\ ran = {}
        BY <3>1 DEF MachineInv, MachineInit
      <3>3. Contents' = Contents
        BY <2>3 DEF Prepare, Contents
      <3>4. registers' \in [Register -> Contents']
        BY <3>1, <3>2, <3>3, ZeroTyped
      <3> QED
        BY <3>1, <3>2, <3>4 DEF FileTypes
    <2>4. CASE Run
      BY <2>4, RunTypes
    <2>5. CASE UNCHANGED vars
      <3>1. UNCHANGED <<program, phase, dst, src, rrb, registers, predicates, multiplier, ran>>
        BY <2>5 DEF vars, schedulerVars, registerVars, machineVars
      <3> QED
        BY <3>1 DEF FileTypes, Contents, BaseInRange, Rotating
    <2> QED
      BY <2>1, <2>2, <2>3, <2>4, <2>5 DEF Next
  <1>3. Spec => []PlacementsOK
    BY Placements
  <1> QED
    BY <1>1, <1>2, <1>3, BackendIs, PTL DEF Spec, BackendInv

\* The invariants are the types.
LEMMA TypesAre ==
    ASSUME PlacementsOK, BackendInv, Exact, Named, FileTypes, BaseInRange
    PROVE  TypeOK
  <1>1. Compacted /\ MachineInv
    BY DEF BackendInv
  <1>2. /\ \A a \in DOMAIN dst : dst[a] \subseteq Register \ {0}
        /\ \A a \in DOMAIN src : \A k \in DOMAIN src[a] : src[a][k] \in Register \ {0}
    <2>1. CASE phase \notin {"allocated", "running"}
      BY <2>1 DEF FileTypes
    <2>2. CASE phase \in {"allocated", "running"}
      <3>1. /\ Scheduled /\ RotatingFit /\ StaticFit
            /\ dst = [a \in DOMAIN program.code |->
                         IF Code(a).dst = {} THEN {} ELSE {ResultName(a)}]
            /\ src = [a \in DOMAIN program.code |->
                         [k \in DOMAIN Code(a).src |-> OperandName(a, Code(a).src[k])]]
        BY <2>2 DEF Named, Scheduled
      <3>2. \A a \in DOMAIN program.code :
               Code(a).dst # {} => ResultName(a) \in Register \ {0}
        BY <1>1, <3>1, ResultInFile
      <3>3. \A a \in DOMAIN program.code : \A k \in DOMAIN Code(a).src :
               OperandName(a, Code(a).src[k]) \in Register \ {0}
        <4>1. ASSUME NEW a \in DOMAIN program.code, NEW k \in DOMAIN Code(a).src
              PROVE  Code(a).src[k] \in Reads(Code(a))
          BY DEF Reads
        <4> QED
          BY <1>1, <3>1, <4>1, OperandInFile
      <3> QED
        BY <3>1, <3>2, <3>3
    <2> QED
      BY <2>1, <2>2
  <1>3. /\ pc \in 0 .. Len(code) /\ lc \in Nat /\ ec \in Nat /\ rrb \in Nat
        /\ rest \in 0 .. 2 /\ lap \in 0 .. MaxLaps
    <2>1. CASE phase # "running"
      BY <1>1, <2>1, FileIs DEF MachineInv, MachineInit
    <2>2. CASE phase = "running"
      BY <1>1, <2>2, FileIs DEF MachineInv
    <2> QED
      BY <2>1, <2>2
  <1>4. /\ registers \in [Register -> (0 .. Len(program.code)) \X (0 .. MaxLaps)]
        /\ predicates \subseteq FirstRotating .. LastRotating
        /\ ran \subseteq (DOMAIN program.code) \X (0 .. MaxLaps)
    <2>1. CASE phase # "running"
      BY <1>1, <2>1, ZeroTyped DEF MachineInv, MachineInit, Contents
    <2>2. CASE phase = "running"
      BY <2>2 DEF FileTypes, Contents
    <2> QED
      BY <2>1, <2>2
  <1> QED
    BY <1>2, <1>3, <1>4 DEF TypeOK, FileTypes

\* Tables and machine of the loop.pip path have their types: every result and operand has
\* a register of the machine that is not x0, whatever windows and stages the allocator had
\* to count with, and as long as the base of the rotating registers is in its range
\* (BaseStays), no rotation makes a predicate true outside the rotating ones.
THEOREM PathTypes == Spec => [](BaseInRange => TypeOK)
  <1>1. PlacementsOK /\ BackendInv /\ Exact /\ Named /\ FileTypes => (BaseInRange => TypeOK)
    BY TypesAre
  <1>2. Spec => []PlacementsOK
    BY Placements
  <1> QED
    BY <1>1, <1>2, BackendIs, TablesAre, TypesKept, PTL

=============================================================================
