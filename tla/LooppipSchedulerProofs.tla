----------------------- MODULE LooppipSchedulerProofs -----------------------
(***************************************************************************)
(* What the software pipelining of LooppipScheduler promises, and what the *)
(* machine then executes, for every set of programs, every search range,   *)
(* every number of attempts and any number of iterations.                  *)
(***************************************************************************)
EXTENDS LooppipBackend, VLIWProgramProofs

-----------------------------------------------------------------------------
(* The inductive invariant *)

\* A program is being scheduled or has been.
Working == phase \in {"BB0", "BB1", "BB2", "done"}

\* The loop has its place.
LoopPlaced == phase \in {"BB2", "done"}

\* The blocks are placed one after the other.
Progress ==
    /\ Working => Splittable(program) /\ ii \in Nat \ {0}
    /\ phase = "BB0" => /\ todo \subseteq InBlock(program, "BB0")
                        /\ Placed = InBlock(program, "BB0") \ todo
                        /\ PlacedInBody = {}
    /\ phase = "BB1" => /\ todo \subseteq Body
                        /\ Placed = InBlock(program, "BB0")
                        /\ PlacedInBody = Body \ todo
    /\ LoopPlaced => /\ todo \subseteq InBlock(program, "BB2")
                     /\ Placed = DOMAIN program.code \ todo
                     /\ PlacedInBody = InBlock(program, "BB1")
    /\ phase = "done" => todo = {}

\* No slot is given away twice: a slot of a cycle outside the loop, a slot of an offset
\* in it.  The branch slot is the loop instruction's.
SlotsApart ==
    Working =>
        /\ \A a \in Placed \cup PlacedInBody : a # Control => slot[a] # "Branch"
        /\ LoopPlaced => slot[Control] = "Branch"
        /\ \A a, b \in Placed \ InBlock(program, "BB1") :
              a # b /\ cycle[a] = cycle[b] => slot[a] # slot[b]
        /\ \A a, b \in PlacedInBody :
              a # b /\ relative[a] % ii = relative[b] % ii => slot[a] # slot[b]

\* The length of an iteration.
Span == stages * ii

\* The blocks do not overlap.
Layout ==
    /\ phase = "BB0" => stages = 0
    /\ phase = "BB1" => \A a \in PlacedInBody : relative[a] < Span
    /\ LoopPlaced =>
          /\ stages >= 1
          /\ relative[Control] = Span - 1
          /\ \A a \in InBlock(program, "BB1") :
                relative[a] < Span /\ cycle[a] = start + relative[a]
          /\ \A a \in InBlock(program, "BB0") : cycle[a] < start
          /\ \A a \in Placed \cap InBlock(program, "BB2") : cycle[a] >= start + Span

\* What is placed has its operands in time, as far as the analysis found them.
OperandsTimed ==
    Working =>
        /\ \A a \in Placed \ InBlock(program, "BB1") : \A d \in TimedDependencies(a) :
              d.producer \in Placed /\ Ready(d.producer, cycle[d.producer]) <= cycle[a]
        /\ \A a \in PlacedInBody \ {Control} : \A d \in LocalDependencies(program, a) :
              /\ d.producer \in PlacedInBody \ {Control}
              /\ Ready(d.producer, relative[d.producer]) <= relative[a]

\* The loop waits for BB0, and carried values are in time.
LoopTimed ==
    LoopPlaced =>
        /\ CarriedInTime
        /\ \A a \in Body :
              \A d \in InvariantDependencies(program, a) \cup InterloopDependencies(program, a) :
                 d.producer # 0 => Ready(d.producer, cycle[d.producer]) <= cycle[a]

\* What all steps of the scheduler keep.
ScheduleInv ==
    PlacementsOK /\ Progress /\ SlotsApart /\ Layout /\ OperandsTimed /\ LoopTimed

-----------------------------------------------------------------------------
(* The state while a program is being scheduled *)

\* What the invariant says of the program and the tables.
LEMMA StateIs ==
    ASSUME ScheduleInv, Working
    PROVE  /\ Splittable(program) /\ program \in Program
           /\ ii \in Nat /\ ii # 0 /\ stages \in Nat /\ start \in Nat
           /\ todo \subseteq DOMAIN program.code
           /\ DOMAIN cycle = DOMAIN program.code /\ DOMAIN relative = DOMAIN program.code
           /\ DOMAIN slot = DOMAIN program.code
           /\ cycle \in [DOMAIN program.code -> Nat \cup {None}]
           /\ relative \in [DOMAIN program.code -> Nat \cup {None}]
           /\ slot \in [DOMAIN program.code -> Slot]
           /\ \A a \in Placed : a \in DOMAIN program.code /\ cycle[a] \in Nat
           /\ \A a \in PlacedInBody : a \in DOMAIN program.code /\ relative[a] \in Nat
           /\ None \in Int
  <1>1. /\ Splittable(program) /\ ii \in Nat \ {0}
    BY DEF ScheduleInv, Progress
  <1>2. PlacementsOK
    BY DEF ScheduleInv
  <1>3. /\ DOMAIN cycle = DOMAIN program.code /\ DOMAIN relative = DOMAIN program.code
        /\ DOMAIN slot = DOMAIN program.code
    BY <1>2 DEF PlacementsOK
  <1>4. \A a \in Placed : a \in DOMAIN program.code /\ cycle[a] \in Nat
    BY <1>2, <1>3 DEF PlacementsOK, Placed
  <1>5. \A a \in PlacedInBody : a \in DOMAIN program.code /\ relative[a] \in Nat
    BY <1>2, <1>3 DEF PlacementsOK, PlacedInBody
  <1> QED
    BY <1>1, <1>2, <1>3, <1>4, <1>5 DEF PlacementsOK, None

\* The blocks of the program being scheduled.
LEMMA AddressesAre ==
    ASSUME ScheduleInv, Working
    PROVE  /\ DOMAIN program.code \subseteq Nat
           /\ Control \in DOMAIN program.code /\ Control \in InBlock(program, "BB1")
           /\ Code(Control) = Loop
           /\ \A a \in DOMAIN program.code \ {Control} : Code(a).unit \in {"ALU", "Mult", "Mem"}
           /\ \A a \in DOMAIN program.code : Code(a).src \in Seq(Reg)
           /\ \A b : InBlock(program, b) \subseteq DOMAIN program.code
           /\ \A a \in DOMAIN program.code :
                 \/ a \in InBlock(program, "BB0") /\ Block(program, a) = "BB0"
                 \/ a \in InBlock(program, "BB1") /\ Block(program, a) = "BB1"
                 \/ a \in InBlock(program, "BB2") /\ Block(program, a) = "BB2"
           /\ \A a : /\ a \in InBlock(program, "BB0") => a \notin InBlock(program, "BB1")
                     /\ a \in InBlock(program, "BB0") => a \notin InBlock(program, "BB2")
                     /\ a \in InBlock(program, "BB1") => a \notin InBlock(program, "BB2")
           /\ \A a \in Body : a \in DOMAIN program.code /\ a # Control /\ a < Control
           /\ Body = InBlock(program, "BB1") \ {Control}
  <1>1. Splittable(program)
    BY StateIs
  <1>2. /\ Len(program.code) \in Nat /\ DOMAIN program.code = 1 .. Len(program.code)
        /\ LoopAddress(program) \in DOMAIN program.code
        /\ program.start \in 1 .. LoopAddress(program)
        /\ program.code[LoopAddress(program)] = Loop
        /\ \A a \in DOMAIN program.code \ {LoopAddress(program)} :
              program.code[a] \in Operations
        /\ InBlock(program, "BB1") = program.start .. LoopAddress(program)
    BY <1>1, BlocksAre
  <1>3. DOMAIN program.code \subseteq Nat /\ Control \in InBlock(program, "BB1")
    BY <1>2 DEF Control
  <1>4. \A a \in DOMAIN program.code \ {Control} :
           Code(a).unit \in {"ALU", "Mult", "Mem"} /\ Code(a).src \in Seq(Reg)
    BY <1>2 DEF Control, Code, Operations
  <1>5. \A a \in DOMAIN program.code : Code(a).src \in Seq(Reg)
    <2>1. Code(Control).src \in Seq(Reg)
      BY <1>2 DEF Control, Code, Loop
    <2> QED
      BY <1>4, <2>1
  <1>6. \A b : InBlock(program, b) \subseteq DOMAIN program.code
    BY DEF InBlock
  <1>7. \A a \in DOMAIN program.code :
           \/ a \in InBlock(program, "BB0") /\ Block(program, a) = "BB0"
           \/ a \in InBlock(program, "BB1") /\ Block(program, a) = "BB1"
           \/ a \in InBlock(program, "BB2") /\ Block(program, a) = "BB2"
    BY <1>1, BlockIs DEF InBlock
  <1>8. \A a : /\ a \in InBlock(program, "BB0") => a \notin InBlock(program, "BB1")
               /\ a \in InBlock(program, "BB0") => a \notin InBlock(program, "BB2")
               /\ a \in InBlock(program, "BB1") => a \notin InBlock(program, "BB2")
    BY DEF InBlock
  <1>9. \A a \in Body : a \in DOMAIN program.code /\ a # Control /\ a < Control
    BY <1>2, <1>6 DEF Body, Control
  <1> QED
    BY <1>2, <1>3, <1>4, <1>5, <1>6, <1>7, <1>8, <1>9 DEF Control, Body, Code

\* Instructions take a cycle or three.
LEMMA ReadyIs ==
    ASSUME NEW a, NEW c \in Int
    PROVE  Ready(a, c) \in Int /\ c + 1 <= Ready(a, c)
  BY DEF Ready, Latency

\* The producer of a dependency is not the loop instruction, which writes nothing.
LEMMA ProducersAre ==
    ASSUME ScheduleInv, Working, NEW a \in DOMAIN program.code
    PROVE  /\ \A d \in LocalDependencies(program, a) :
                 /\ d.producer \in DOMAIN program.code \ {Control} /\ d.producer < a
                 /\ Block(program, d.producer) = Block(program, a)
           /\ \A d \in InterloopDependencies(program, a) :
                 /\ d.producer \in InBlock(program, "BB0") \cup {0}
                 /\ d.previous \in Body /\ Block(program, a) = "BB1"
           /\ \A d \in InvariantDependencies(program, a) :
                 /\ d.producer \in InBlock(program, "BB0")
                 /\ Block(program, a) \in {"BB1", "BB2"}
           /\ \A d \in PostLoopDependencies(program, a) :
                 d.producer \in Body /\ Block(program, a) = "BB2"
  <1>1. Splittable(program)
    BY StateIs
  <1>2. Code(Control).dst = {}
    BY AddressesAre DEF Loop
  <1>3. ASSUME NEW d \in LocalDependencies(program, a)
        PROVE  /\ d.producer \in DOMAIN program.code \ {Control} /\ d.producer < a
               /\ Block(program, d.producer) = Block(program, a)
    <2>1. PICK r \in Reads(program.code[a]) \ Incoming(program, a) :
             d = Dependency(r, LocalProducer(program, a, r), 0)
      BY DEF LocalDependencies
    <2>2. d.producer = LocalProducer(program, a, r) /\ LocalProducer(program, a, r) # 0
      BY <2>1 DEF Dependency, Incoming
    <2>3. r \in program.code[LocalProducer(program, a, r)].dst
      BY <1>1, <2>2, SplittableIs, LocalProducerIs
    <2>4. LocalProducer(program, a, r) # Control
      BY <1>2, <2>3 DEF Code
    <2> QED
      BY <1>1, <2>2, <2>4, SplittableIs, DependenciesAre
  <1>4. \A r : BlockProducer(program, "BB1", r) # 0 => BlockProducer(program, "BB1", r) \in Body
    BY <1>1, <1>2, SplittableIs, BlockProducerIs DEF Body, Code
  <1>5. ASSUME NEW d \in InterloopDependencies(program, a)
        PROVE  d.previous \in Body
    <2>1. PICK r : /\ BlockProducer(program, "BB1", r) # 0
                   /\ d = Dependency(r, BlockProducer(program, "BB0", r),
                                        BlockProducer(program, "BB1", r))
      BY DEF InterloopDependencies
    <2> QED
      BY <1>4, <2>1 DEF Dependency
  <1>6. ASSUME NEW d \in PostLoopDependencies(program, a)
        PROVE  d.producer \in Body
    <2>1. PICK r : /\ BlockProducer(program, "BB1", r) # 0
                   /\ d = Dependency(r, BlockProducer(program, "BB1", r), 0)
      BY DEF PostLoopDependencies
    <2> QED
      BY <1>4, <2>1 DEF Dependency
  <1> QED
    BY <1>1, <1>3, <1>5, <1>6, SplittableIs, DependenciesAre

-----------------------------------------------------------------------------
(* Where an instruction may be placed *)

\* Outside the loop an instruction waits for its operands and for its block.
LEMMA EarliestCycleIs ==
    ASSUME ScheduleInv, phase \in {"BB0", "BB2"}, NEW a \in todo
    PROVE  /\ EarliestCycle(a) \in Nat /\ MinimumCycle <= EarliestCycle(a)
           /\ \A d \in TimedDependencies(a) :
                 Ready(d.producer, cycle[d.producer]) <= EarliestCycle(a)
           /\ \/ EarliestCycle(a) = MinimumCycle
              \/ \E d \in TimedDependencies(a) :
                    EarliestCycle(a) = Ready(d.producer, cycle[d.producer])
  <1>1. Working
    BY DEF Working
  <1>2. /\ Splittable(program) /\ a \in DOMAIN program.code
        /\ ii \in Nat /\ stages \in Nat /\ start \in Nat
        /\ cycle \in [DOMAIN program.code -> Nat \cup {None}]
        /\ \A c \in Nat \cup {None} : c \in Int
    BY <1>1, StateIs DEF None
  <1> DEFINE D == TimedDependencies(a)
             f == [d \in D |-> Ready(d.producer, cycle[d.producer])]
             S == {f[d] : d \in D}
  <1>3. IsFiniteSet(D)
    <2>1. /\ IsFiniteSet(LocalDependencies(program, a))
          /\ IsFiniteSet(InvariantDependencies(program, a))
          /\ IsFiniteSet(PostLoopDependencies(program, a))
      BY <1>2, SplittableIs, FiniteDependencies
    <2>2. IsFiniteSet(LocalDependencies(program, a) \cup InvariantDependencies(program, a))
      BY <2>1, FS_Union
    <2>3. IsFiniteSet((LocalDependencies(program, a) \cup InvariantDependencies(program, a))
                         \cup PostLoopDependencies(program, a))
      BY <2>1, <2>2, FS_Union
    <2> QED
      BY <2>3 DEF TimedDependencies
  <1>4. \A d \in D : d.producer \in DOMAIN program.code
    BY <1>2, SplittableIs, DependenciesAre DEF TimedDependencies
  <1>5. \A d \in D : f[d] \in Int
    BY <1>2, <1>4, ReadyIs
  <1>6. IsFiniteSet(S) /\ S \in SUBSET Int
    <2>1. S \in SUBSET Int
      BY <1>5
    <2> HIDE DEF D, f
    <2> QED
      BY <1>3, <2>1, FiniteImage
  <1>7. MinimumCycle \in Nat
    <2>1. stages * ii \in Nat
      BY <1>2
    <2> QED
      BY <1>2, <2>1 DEF MinimumCycle
  <1>8. EarliestCycle(a) = Greatest(S, MinimumCycle)
    BY DEF EarliestCycle
  <1>9. /\ \A d \in D : Ready(d.producer, cycle[d.producer]) \in S
        /\ \A y \in S : \E d \in D : y = Ready(d.producer, cycle[d.producer])
    OBVIOUS
  <1> HIDE DEF S, D, f
  <1>10. /\ Greatest(S, MinimumCycle) \in Int /\ MinimumCycle <= Greatest(S, MinimumCycle)
         /\ Greatest(S, MinimumCycle) \in S \cup {MinimumCycle}
         /\ \A y \in S : y <= Greatest(S, MinimumCycle)
    BY <1>6, <1>7, GreatestIs
  <1> QED
    BY <1>7, <1>8, <1>9, <1>10 DEF D

\* In the loop an instruction waits for its local operands.
LEMMA EarliestInBodyIs ==
    ASSUME ScheduleInv, phase = "BB1", NEW a \in todo
    PROVE  /\ EarliestInBody(a) \in Nat
           /\ \A d \in LocalDependencies(program, a) :
                 Ready(d.producer, relative[d.producer]) <= EarliestInBody(a)
           /\ \/ EarliestInBody(a) = 0
              \/ \E d \in LocalDependencies(program, a) :
                    EarliestInBody(a) = Ready(d.producer, relative[d.producer])
              \/ \E d \in InterloopDependencies(program, a) :
                    /\ d.previous \in PlacedInBody
                    /\ EarliestInBody(a) = Ready(d.previous, relative[d.previous]) - ii
  <1>1. Working
    BY DEF Working
  <1>2. /\ Splittable(program) /\ a \in DOMAIN program.code /\ ii \in Nat
        /\ relative \in [DOMAIN program.code -> Nat \cup {None}]
        /\ \A c \in Nat \cup {None} : c \in Int
    BY <1>1, StateIs DEF None
  <1> DEFINE L == LocalDependencies(program, a)
             f == [d \in L |-> Ready(d.producer, relative[d.producer])]
             E == {e \in InterloopDependencies(program, a) :
                      e.previous # a /\ e.previous \in PlacedInBody}
             g == [d \in E |-> Ready(d.previous, relative[d.previous]) - ii]
             S == {f[d] : d \in L}
             T == {g[d] : d \in E}
  <1>3. IsFiniteSet(L) /\ IsFiniteSet(E)
    <2>1. IsFiniteSet(InterloopDependencies(program, a)) /\ IsFiniteSet(L)
      BY <1>2, SplittableIs, FiniteDependencies
    <2>2. E \in SUBSET InterloopDependencies(program, a)
      OBVIOUS
    <2> HIDE DEF E, L
    <2> QED
      BY <2>1, <2>2, FS_Subset
  <1>4. S \in SUBSET Int
    <2>1. \A d \in L : d.producer \in DOMAIN program.code
      BY <1>2, SplittableIs, DependenciesAre
    <2>2. \A d \in L : f[d] \in Int
      BY <1>2, <2>1, ReadyIs
    <2> QED
      BY <2>2
  <1>5. T \in SUBSET Int
    <2>1. \A d \in E : d.previous \in DOMAIN program.code
      BY <1>2, SplittableIs, DependenciesAre
    <2>2. \A d \in E : Ready(d.previous, relative[d.previous]) \in Int
      BY <1>2, <2>1, ReadyIs
    <2>3. \A d \in E : g[d] \in Int
      BY <1>2, <2>2
    <2> QED
      BY <2>3
  <1>6. IsFiniteSet(S) /\ IsFiniteSet(T)
    <2> HIDE DEF E, L, f, g
    <2> QED
      BY <1>3, FiniteImage
  <1>7. EarliestInBody(a) = Greatest(S \cup T, 0)
    BY DEF EarliestInBody, BodyBounds
  <1>8. /\ \A d \in L : Ready(d.producer, relative[d.producer]) \in S
        /\ \A y \in S : \E d \in L : y = Ready(d.producer, relative[d.producer])
        /\ \A y \in T : \E d \in E : y = Ready(d.previous, relative[d.previous]) - ii
    OBVIOUS
  <1> HIDE DEF S, T, L, E, f, g
  <1>9. IsFiniteSet(S \cup T) /\ S \cup T \in SUBSET Int
    BY <1>4, <1>5, <1>6, FS_Union
  <1>10. /\ Greatest(S \cup T, 0) \in Int /\ 0 <= Greatest(S \cup T, 0)
         /\ Greatest(S \cup T, 0) \in S \cup T \cup {0}
         /\ \A y \in S \cup T : y <= Greatest(S \cup T, 0)
    BY <1>9, GreatestIs
  <1>11. \A d \in E : d \in InterloopDependencies(program, a) /\ d.previous \in PlacedInBody
    BY DEF E
  <1>12. EarliestInBody(a) \in Nat /\ EarliestInBody(a) \in S \cup T \cup {0}
    BY <1>7, <1>10
  <1>13. \A d \in L : Ready(d.producer, relative[d.producer]) <= EarliestInBody(a)
    BY <1>7, <1>8, <1>10
  <1>14. \/ EarliestInBody(a) = 0
         \/ \E d \in L : EarliestInBody(a) = Ready(d.producer, relative[d.producer])
         \/ \E d \in E : EarliestInBody(a) = Ready(d.previous, relative[d.previous]) - ii
    BY <1>8, <1>12, Zenon
  <1>15. \/ EarliestInBody(a) = 0
         \/ \E d \in L : EarliestInBody(a) = Ready(d.producer, relative[d.producer])
         \/ \E d \in InterloopDependencies(program, a) :
               /\ d.previous \in PlacedInBody
               /\ EarliestInBody(a) = Ready(d.previous, relative[d.previous]) - ii
    BY <1>11, <1>14, Zenon
  <1> QED
    BY <1>12, <1>13, <1>15 DEF L

\* A slot that an instruction of this unit can take.
SuitsUnit(u, s) == IF u = "ALU" THEN s \in {"ALU0", "ALU1"} ELSE s = u

\* PlaceInCycle puts the next instruction where nothing else is, in time.
Placing(a, c, s) ==
    /\ a \in todo /\ (\A b \in todo : a <= b)
    /\ c \in Nat /\ s \in Slot /\ s # "Branch" /\ SuitsUnit(Code(a).unit, s)
    /\ cycle' = [cycle EXCEPT ![a] = c]
    /\ slot' = [slot EXCEPT ![a] = s]
    /\ todo' = todo \ {a}
    /\ MinimumCycle <= c
    /\ \A d \in TimedDependencies(a) : Ready(d.producer, cycle[d.producer]) <= c
    /\ \A b \in Placed : cycle[b] = c => slot[b] # s

\* A place outside the loop is free and late enough.
LEMMA PlaceInCycleIs ==
    ASSUME ScheduleInv, PlaceInCycle
    PROVE  \E a, c, s : Placing(a, c, s)
  <1>1. phase \in {"BB0", "BB2"} /\ todo # {} /\ Working
    BY DEF PlaceInCycle, Working
  <1> DEFINE a == Smallest(todo)
             e == EarliestCycle(a)
             cycles == Window(e)
  <1>2. a \in todo /\ \A b \in todo : a <= b
    <2>1. todo \in SUBSET Nat
      BY <1>1, StateIs, AddressesAre
    <2> QED
      BY <1>1, <2>1, SmallestIs
  <1>3. PICK at \in AbsolutePlaces(a) :
           cycle' = [cycle EXCEPT ![a] = at.cycle] /\ slot' = [slot EXCEPT ![a] = at.slot]
    BY DEF PlaceInCycle
  <1>4. todo' = todo \ {a}
    BY DEF PlaceInCycle
  <1>5. Code(a).unit \in {"ALU", "Mult", "Mem"}
    <2>1. todo \subseteq InBlock(program, "BB0") \/ todo \subseteq InBlock(program, "BB2")
      BY <1>1 DEF ScheduleInv, Progress, LoopPlaced
    <2>2. a \in DOMAIN program.code \ {Control}
      BY <1>1, <1>2, <2>1, AddressesAre
    <2> QED
      BY <1>1, <2>2, AddressesAre
  <1> HIDE DEF a
  <1>6. /\ e \in Nat /\ MinimumCycle <= e
        /\ \A d \in TimedDependencies(a) : Ready(d.producer, cycle[d.producer]) <= e
    BY <1>1, <1>2, EarliestCycleIs
  <1>7. cycles \in SUBSET Nat /\ \A c \in cycles : c \in Nat /\ e <= c
    <2>1. SearchLimit \in Nat
      BY LooppipAssumption
    <2> HIDE DEF e
    <2> QED
      BY <1>6, <2>1 DEF Window
  <1>8. /\ at.cycle \in cycles /\ at.slot \in Slot \ {"Branch"}
        /\ SuitsUnit(Code(a).unit, at.slot)
        /\ <<at.cycle, at.slot>> \notin Occupied(cycles)
    <2>1. at \in Places(Code(a).unit, cycles, Occupied(cycles))
      BY DEF AbsolutePlaces
    <2>2. Code(a).unit \in {"ALU", "Mult", "Mem"} /\ cycles \in SUBSET Nat
      BY <1>5, <1>7
    <2> HIDE DEF cycles
    <2>3. /\ at.cycle \in cycles /\ at.slot \in Slot \ {"Branch"}
          /\ <<at.cycle, at.slot>> \notin Occupied(cycles)
          /\ IF Code(a).unit = "ALU" THEN at.slot \in {"ALU0", "ALU1"}
             ELSE at.slot = Code(a).unit
      BY <2>1, <2>2, PlacesIs
    <2> QED
      BY <2>3 DEF SuitsUnit
  <1> DEFINE c == at.cycle
             s == at.slot
  <1>9. \A b \in Placed : cycle[b] = c => slot[b] # s
    <2>1. <<c, s>> \in cycles \X Slot
      BY <1>8
    <2> QED
      BY <1>8, <2>1 DEF Occupied
  <1>10. c \in Nat /\ e <= c
    BY <1>7, <1>8
  <1>11. MinimumCycle <= c /\ \A d \in TimedDependencies(a) :
            Ready(d.producer, cycle[d.producer]) <= c
    <2>1. MinimumCycle \in Int
      <3>1. stages \in Nat /\ ii \in Nat /\ start \in Nat
        BY <1>1, StateIs
      <3>2. stages * ii \in Nat
        BY <3>1
      <3> QED
        BY <3>1, <3>2 DEF MinimumCycle
    <2>2. \A d \in TimedDependencies(a) : Ready(d.producer, cycle[d.producer]) \in Int
      <3>1. \A d \in TimedDependencies(a) : d.producer \in DOMAIN program.code
        BY <1>1, <1>2, StateIs, SplittableIs, DependenciesAre DEF TimedDependencies
      <3>2. \A x \in DOMAIN program.code : cycle[x] \in Int
        BY <1>1, StateIs
      <3> QED
        BY <3>1, <3>2, ReadyIs
    <2> HIDE DEF e, c
    <2> QED
      BY <1>6, <1>10, <2>1, <2>2
  <1>12. cycle' = [cycle EXCEPT ![a] = c] /\ slot' = [slot EXCEPT ![a] = s]
    BY <1>3
  <1>13. c \in Nat /\ s \in Slot /\ s # "Branch" /\ SuitsUnit(Code(a).unit, s)
    BY <1>8, <1>10
  <1> HIDE DEF c, s, e, cycles
  <1>14. Placing(a, c, s)
    BY <1>2, <1>4, <1>9, <1>11, <1>12, <1>13 DEF Placing
  <1> QED
    BY <1>14

\* PlaceModulo does so modulo the interval.
PlacingModulo(a, c, s) ==
    /\ a \in todo /\ (\A b \in todo : a <= b)
    /\ c \in Nat /\ s \in Slot /\ s # "Branch" /\ SuitsUnit(Code(a).unit, s)
    /\ relative' = [relative EXCEPT ![a] = c]
    /\ slot' = [slot EXCEPT ![a] = s]
    /\ todo' = todo \ {a}
    /\ stages' = Greatest({c \div ii + 1}, stages)
    /\ \A d \in LocalDependencies(program, a) :
          Ready(d.producer, relative[d.producer]) <= c
    /\ \A b \in PlacedInBody : relative[b] % ii = c % ii => slot[b] # s

\* A place in the loop is free in every iteration and late enough.
LEMMA PlaceModuloIs ==
    ASSUME ScheduleInv, PlaceModulo
    PROVE  \E a, c, s : PlacingModulo(a, c, s)
  <1>1. phase = "BB1" /\ todo # {} /\ Working
    BY DEF PlaceModulo, Working
  <1> DEFINE a == Smallest(todo)
             e == EarliestInBody(a)
             cycles == Window(e)
  <1>2. a \in todo /\ \A b \in todo : a <= b
    <2>1. todo \in SUBSET Nat
      BY <1>1, StateIs, AddressesAre
    <2> QED
      BY <1>1, <2>1, SmallestIs
  <1>3. PICK at \in RelativePlaces(a) :
           /\ relative' = [relative EXCEPT ![a] = at.cycle]
           /\ slot' = [slot EXCEPT ![a] = at.slot]
           /\ stages' = Greatest({at.cycle \div ii + 1}, stages)
    BY DEF PlaceModulo
  <1>4. todo' = todo \ {a}
    BY DEF PlaceModulo
  <1>5. Code(a).unit \in {"ALU", "Mult", "Mem"}
    <2>1. todo \subseteq Body
      BY <1>1 DEF ScheduleInv, Progress
    <2>2. a \in DOMAIN program.code \ {Control}
      BY <1>1, <1>2, <2>1, AddressesAre
    <2> QED
      BY <1>1, <2>2, AddressesAre
  <1> HIDE DEF a
  <1>6. /\ e \in Nat
        /\ \A d \in LocalDependencies(program, a) :
              Ready(d.producer, relative[d.producer]) <= e
    BY <1>1, <1>2, EarliestInBodyIs
  <1>7. cycles \in SUBSET Nat /\ \A c \in cycles : c \in Nat /\ e <= c
    <2>1. SearchLimit \in Nat
      BY LooppipAssumption
    <2> HIDE DEF e
    <2> QED
      BY <1>6, <2>1 DEF Window
  <1>8. /\ at.cycle \in cycles /\ at.slot \in Slot \ {"Branch"}
        /\ SuitsUnit(Code(a).unit, at.slot)
        /\ <<at.cycle, at.slot>> \notin Reserved(cycles)
    <2>1. at \in Places(Code(a).unit, cycles, Reserved(cycles))
      BY DEF RelativePlaces
    <2>2. Code(a).unit \in {"ALU", "Mult", "Mem"} /\ cycles \in SUBSET Nat
      BY <1>5, <1>7
    <2> HIDE DEF cycles
    <2>3. /\ at.cycle \in cycles /\ at.slot \in Slot \ {"Branch"}
          /\ <<at.cycle, at.slot>> \notin Reserved(cycles)
          /\ IF Code(a).unit = "ALU" THEN at.slot \in {"ALU0", "ALU1"}
             ELSE at.slot = Code(a).unit
      BY <2>1, <2>2, PlacesIs
    <2> QED
      BY <2>3 DEF SuitsUnit
  <1> DEFINE c == at.cycle
             s == at.slot
  <1>9. \A b \in PlacedInBody : relative[b] % ii = c % ii => slot[b] # s
    <2>1. <<c, s>> \in cycles \X Slot
      BY <1>8
    <2> QED
      BY <1>8, <2>1 DEF Reserved
  <1>10. c \in Nat /\ e <= c
    BY <1>7, <1>8
  <1>11. \A d \in LocalDependencies(program, a) :
            Ready(d.producer, relative[d.producer]) <= c
    <2>1. \A d \in LocalDependencies(program, a) :
             Ready(d.producer, relative[d.producer]) \in Int
      <3>1. \A d \in LocalDependencies(program, a) : d.producer \in DOMAIN program.code
        BY <1>1, <1>2, StateIs, SplittableIs, DependenciesAre
      <3>2. \A x \in DOMAIN program.code : relative[x] \in Int
        BY <1>1, StateIs
      <3> QED
        BY <3>1, <3>2, ReadyIs
    <2> HIDE DEF e, c
    <2> QED
      BY <1>6, <1>10, <2>1
  <1>12. /\ relative' = [relative EXCEPT ![a] = c]
         /\ slot' = [slot EXCEPT ![a] = s]
         /\ stages' = Greatest({c \div ii + 1}, stages)
    BY <1>3
  <1>13. c \in Nat /\ s \in Slot /\ s # "Branch" /\ SuitsUnit(Code(a).unit, s)
    BY <1>8, <1>10
  <1> HIDE DEF c, s, e, cycles
  <1>14. PlacingModulo(a, c, s)
    BY <1>2, <1>4, <1>9, <1>11, <1>12, <1>13 DEF PlacingModulo
  <1> QED
    BY <1>14

-----------------------------------------------------------------------------
(* The steps that start over, and those that give up *)

\* While the program stays what it is, so do its blocks and its dependencies.
LEMMA ProgramKept ==
    ASSUME program' = program
    PROVE  /\ Body' = Body /\ Control' = Control
           /\ \A a : Code(a)' = Code(a)
           /\ \A a : TimedDependencies(a)' = TimedDependencies(a)
  BY DEF Body, Control, Code, TimedDependencies

\* A new attempt has nothing placed.
LEMMA RestartInv ==
    ASSUME ScheduleInv, source' = source, phase' = "BB0", Splittable(program'),
           ii' \in Nat \ {0}, Restart(program')
    PROVE  ScheduleInv'
  <1>1. /\ todo' = InBlock(program', "BB0") /\ stages' = 0 /\ start' = 0
        /\ cycle' = [a \in DOMAIN program'.code |-> None]
        /\ relative' = [a \in DOMAIN program'.code |-> None]
        /\ slot' = [a \in DOMAIN program'.code |-> "ALU0"]
    BY DEF Restart
  <1>2. Placed' = {} /\ PlacedInBody' = {}
    BY <1>1 DEF Placed, PlacedInBody
  <1>3. PlacementsOK'
    <2>1. program' \in Program /\ InBlock(program', "BB0") \subseteq DOMAIN program'.code
      BY DEF Splittable, InBlock
    <2>2. source.code \in Seq(Instruction \cup {Nop}) /\ source.target \in Int
      BY DEF ScheduleInv, PlacementsOK
    <2>3. "ALU0" \in Slot /\ None \in Nat \cup {None}
      BY DEF Slot
    <2>4. /\ cycle' \in [DOMAIN program'.code -> Nat \cup {None}]
          /\ relative' \in [DOMAIN program'.code -> Nat \cup {None}]
          /\ slot' \in [DOMAIN program'.code -> Slot]
      BY <1>1, <2>3
    <2> QED
      BY <1>1, <2>1, <2>2, <2>4 DEF PlacementsOK
  <1>4. Progress'
    BY <1>1, <1>2 DEF Progress, Working, LoopPlaced
  <1>5. SlotsApart'
    BY <1>2 DEF SlotsApart, LoopPlaced
  <1>6. Layout'
    BY <1>1 DEF Layout, LoopPlaced
  <1>7. OperandsTimed'
    BY <1>2 DEF OperandsTimed
  <1>8. LoopTimed'
    BY DEF LoopTimed, LoopPlaced
  <1> QED
    BY <1>3, <1>4, <1>5, <1>6, <1>7, <1>8 DEF ScheduleInv

\* The scheduler that has given up, or handed its schedule on, promises no more.
LEMMA GivenUpInv ==
    ASSUME ScheduleInv, phase' \notin {"BB0", "BB1", "BB2", "done"},
           UNCHANGED <<source, program, ii, todo, cycle, relative, slot, stages, start>>
    PROVE  ScheduleInv'
  <1>1. ~Working' /\ ~LoopPlaced' /\ phase' \notin {"BB0", "BB1", "BB2", "done"}
    BY DEF Working, LoopPlaced
  <1>2. PlacementsOK'
    BY <1>1 DEF ScheduleInv, PlacementsOK
  <1>3. Progress' /\ SlotsApart' /\ Layout' /\ OperandsTimed' /\ LoopTimed'
    BY <1>1 DEF Progress, SlotsApart, Layout, OperandsTimed, LoopTimed
  <1> QED
    BY <1>2, <1>3 DEF ScheduleInv

\* What the parser accepts can be scheduled.
LEMMA ParseInv ==
    ASSUME ScheduleInv, Parse
    PROVE  ScheduleInv'
  <1>1. Splittable(program')
    <2>1. source.code \in Seq(Instruction \cup {Nop}) /\ source.target \in Int
      BY DEF ScheduleInv, PlacementsOK
    <2> QED
      BY <2>1, ParsedIs DEF Parse
  <1>2. ii' \in Nat \ {0}
    BY <1>1, ResourceIntervalIs DEF Parse
  <1> QED
    BY <1>1, <1>2, RestartInv DEF Parse

\* The next interval starts over.
LEMMA NextIntervalInv ==
    ASSUME ScheduleInv, phase = "BB1", NextInterval
    PROVE  ScheduleInv'
  <1>1. Splittable(program) /\ ii \in Nat
    BY StateIs DEF Working
  <1>2. CASE ii' = ii + 1 /\ phase' = "BB0" /\ Restart(program) /\ UNCHANGED <<source, program>>
    <2>1. ii' \in Nat \ {0} /\ program' = program
      BY <1>1, <1>2
    <2>2. Splittable(program') /\ Restart(program')
      BY <1>1, <1>2, <2>1
    <2> QED
      BY <1>2, <2>1, <2>2, RestartInv
  <1>3. CASE phase' = "failed"
              /\ UNCHANGED <<source, program, ii, todo, cycle, relative, slot, stages, start>>
    BY <1>3, GivenUpInv
  <1> QED
    BY <1>2, <1>3 DEF NextInterval

-----------------------------------------------------------------------------
(* The steps that place an instruction outside the loop *)

\* The operands of the instruction that is placed next are placed.
LEMMA OperandsPlaced ==
    ASSUME ScheduleInv, phase \in {"BB0", "BB2"}, NEW a \in todo, \A b \in todo : a <= b
    PROVE  \A d \in TimedDependencies(a) : d.producer \in Placed
  <1>1. Working
    BY DEF Working
  <1>2. a \in DOMAIN program.code
    BY <1>1, StateIs
  <1>3. \A x \in DOMAIN program.code : x < a => x \notin todo
    <2>1. \A x \in DOMAIN program.code : x \in Nat
      BY <1>1, AddressesAre
    <2> QED
      BY <1>2, <2>1
  <1>4. CASE phase = "BB0"
    <2>1. Placed = InBlock(program, "BB0") \ todo /\ todo \subseteq InBlock(program, "BB0")
      BY <1>4 DEF ScheduleInv, Progress
    <2>2. Block(program, a) = "BB0"
      BY <2>1 DEF InBlock
    <2>3. TimedDependencies(a) = LocalDependencies(program, a)
      BY <1>1, <1>2, <2>2, ProducersAre DEF TimedDependencies
    <2>4. \A d \in LocalDependencies(program, a) :
             d.producer \in InBlock(program, "BB0") /\ d.producer \notin todo
      BY <1>1, <1>2, <1>3, <2>2, ProducersAre DEF InBlock
    <2> QED
      BY <2>1, <2>3, <2>4
  <1>5. CASE phase = "BB2"
    <2>1. Placed = DOMAIN program.code \ todo /\ todo \subseteq InBlock(program, "BB2")
      BY <1>5 DEF ScheduleInv, Progress, LoopPlaced
    <2>2. \A d \in LocalDependencies(program, a) :
             d.producer \in DOMAIN program.code /\ d.producer \notin todo
      BY <1>1, <1>2, <1>3, ProducersAre
    <2>3. \A d \in InvariantDependencies(program, a) :
             d.producer \in DOMAIN program.code /\ d.producer \notin todo
      BY <1>1, <1>2, <2>1, ProducersAre, AddressesAre
    <2>4. \A d \in PostLoopDependencies(program, a) :
             d.producer \in DOMAIN program.code /\ d.producer \notin todo
      BY <1>1, <1>2, <2>1, ProducersAre, AddressesAre
    <2> QED
      BY <2>1, <2>2, <2>3, <2>4 DEF TimedDependencies
  <1> QED
    BY <1>4, <1>5

\* An instruction of BB0 or BB2 gets its cycle and its slot.
LEMMA PlaceInCycleInv ==
    ASSUME ScheduleInv, PlaceInCycle
    PROVE  ScheduleInv'
  <1>1. /\ phase \in {"BB0", "BB2"} /\ Working
        /\ UNCHANGED <<source, program, phase, ii, relative, stages, start>>
    BY DEF PlaceInCycle, Working
  <1>2. PICK a, c, s : Placing(a, c, s)
    BY PlaceInCycleIs
  <1>3. /\ a \in todo /\ (\A b \in todo : a <= b)
        /\ c \in Nat /\ s \in Slot /\ s # "Branch"
        /\ cycle' = [cycle EXCEPT ![a] = c]
        /\ slot' = [slot EXCEPT ![a] = s]
        /\ todo' = todo \ {a}
        /\ MinimumCycle <= c
        /\ \A d \in TimedDependencies(a) : Ready(d.producer, cycle[d.producer]) <= c
        /\ \A b \in Placed : cycle[b] = c => slot[b] # s
    BY <1>2 DEF Placing
  <1>4. /\ a \in DOMAIN program.code /\ DOMAIN cycle = DOMAIN program.code
        /\ DOMAIN slot = DOMAIN program.code /\ DOMAIN relative = DOMAIN program.code
        /\ todo \subseteq DOMAIN program.code
        /\ cycle \in [DOMAIN program.code -> Nat \cup {None}]
        /\ slot \in [DOMAIN program.code -> Slot]
    BY <1>1, <1>3, StateIs
  <1>5. a \notin InBlock(program, "BB1") /\ a # Control /\ a \notin Placed /\ a \notin PlacedInBody
    <2>1. CASE phase = "BB0"
      <3>1. /\ todo \subseteq InBlock(program, "BB0") /\ PlacedInBody = {}
            /\ Placed = InBlock(program, "BB0") \ todo
        BY <2>1 DEF ScheduleInv, Progress
      <3> QED
        BY <1>1, <1>3, <3>1, AddressesAre
    <2>2. CASE phase = "BB2"
      <3>1. /\ todo \subseteq InBlock(program, "BB2") /\ PlacedInBody = InBlock(program, "BB1")
            /\ Placed = DOMAIN program.code \ todo
        BY <2>2 DEF ScheduleInv, Progress, LoopPlaced
      <3> QED
        BY <1>1, <1>3, <3>1, AddressesAre
    <2> QED
      BY <1>1, <2>1, <2>2
  <1>6. PlacedInBody' = PlacedInBody
    BY <1>1 DEF PlacedInBody
  <1>7. /\ cycle'[a] = c /\ slot'[a] = s
        /\ \A b \in DOMAIN program.code : b # a => cycle'[b] = cycle[b] /\ slot'[b] = slot[b]
        /\ DOMAIN cycle' = DOMAIN program.code
    BY <1>3, <1>4
  <1>8. Placed' = Placed \cup {a}
    <2>1. c # None
      BY <1>3 DEF None
    <2> QED
      BY <1>4, <1>7, <2>1 DEF Placed
  <1>9. /\ Placed \subseteq DOMAIN program.code /\ PlacedInBody \subseteq DOMAIN program.code
    BY <1>4 DEF Placed, PlacedInBody
  <1>10. /\ Body' = Body /\ Control' = Control
         /\ \A x : TimedDependencies(x)' = TimedDependencies(x)
    BY <1>1, ProgramKept
  <1>11. PlacementsOK'
    <2>1. PlacementsOK
      BY DEF ScheduleInv
    <2>2. /\ cycle' \in [DOMAIN program.code -> Nat \cup {None}]
          /\ slot' \in [DOMAIN program.code -> Slot]
          /\ todo' \subseteq DOMAIN program.code
      BY <1>3, <1>4
    <2>3. phase' # "BB1" /\ (phase' \in {"BB2", "done"} => PlacedInBody = InBlock(program, "BB1"))
      BY <1>1, <2>1 DEF PlacementsOK
    <2> QED
      BY <1>1, <1>6, <2>1, <2>2, <2>3 DEF PlacementsOK
  <1>12. Progress'
    <2>1. Progress
      BY DEF ScheduleInv
    <2>2. CASE phase = "BB0"
      BY <1>1, <1>3, <1>6, <1>8, <2>1, <2>2 DEF Progress, Working, LoopPlaced
    <2>3. CASE phase = "BB2"
      BY <1>1, <1>3, <1>4, <1>6, <1>8, <2>1, <2>3 DEF Progress, Working, LoopPlaced
    <2> QED
      BY <1>1, <2>2, <2>3
  <1>13. SlotsApart'
    <2>1. SlotsApart
      BY DEF ScheduleInv
    <2>2. \A x \in Placed \cup PlacedInBody : x # a /\ slot'[x] = slot[x]
      BY <1>5, <1>7, <1>9
    <2>3. \A x \in Placed : cycle'[x] = cycle[x]
      BY <1>5, <1>7, <1>9
    <2>4. \A x \in Placed' \cup PlacedInBody' : x # Control => slot'[x] # "Branch"
      BY <1>1, <1>3, <1>6, <1>7, <1>8, <2>1, <2>2 DEF SlotsApart
    <2>5. LoopPlaced => slot'[Control] = "Branch"
      BY <1>1, <1>5, <1>7, <2>1, AddressesAre DEF SlotsApart
    <2>6. \A x, y \in Placed' \ InBlock(program, "BB1") :
             x # y /\ cycle'[x] = cycle'[y] => slot'[x] # slot'[y]
      BY <1>1, <1>3, <1>7, <1>8, <2>1, <2>2, <2>3 DEF SlotsApart
    <2>7. \A x, y \in PlacedInBody :
             x # y /\ relative[x] % ii = relative[y] % ii => slot'[x] # slot'[y]
      BY <1>1, <2>1, <2>2 DEF SlotsApart
    <2> QED
      BY <1>1, <1>6, <1>10, <2>4, <2>5, <2>6, <2>7 DEF SlotsApart, LoopPlaced
  <1>14. Layout'
    <2>1. Layout
      BY DEF ScheduleInv
    <2>2. CASE phase = "BB0"
      BY <1>1, <2>1, <2>2 DEF Layout, LoopPlaced
    <2>3. CASE phase = "BB2"
      <3>1. todo \subseteq InBlock(program, "BB2")
        BY <2>3 DEF ScheduleInv, Progress, LoopPlaced
      <3>2. \A x : x \in InBlock(program, "BB1") \/ x \in InBlock(program, "BB0") =>
               cycle'[x] = cycle[x]
        BY <1>1, <1>3, <1>7, <3>1, AddressesAre
      <3>3. c >= start + Span
        BY <1>3, <2>3 DEF MinimumCycle, Span
      <3>4. \A x \in Placed' \cap InBlock(program, "BB2") : cycle'[x] >= start + Span
        BY <1>7, <1>8, <1>9, <2>1, <2>3, <3>3 DEF Layout, LoopPlaced
      <3>5. Span' = Span
        BY <1>1 DEF Span
      <3> QED
        BY <1>1, <1>10, <2>1, <2>3, <3>2, <3>4, <3>5 DEF Layout, LoopPlaced
    <2> QED
      BY <1>1, <2>2, <2>3
  <1>15. OperandsTimed'
    <2>1. OperandsTimed
      BY DEF ScheduleInv
    <2>2. \A d \in TimedDependencies(a) : d.producer \in Placed
      BY <1>1, <1>3, OperandsPlaced
    <2>3. \A x \in Placed : cycle'[x] = cycle[x] /\ x \in Placed'
      BY <1>5, <1>7, <1>8, <1>9
    <2>4. \A x \in Placed : Ready(x, cycle[x])' = Ready(x, cycle[x])
      BY <1>1, <2>3 DEF Ready, Code
    <2>5. \A x \in Placed' \ InBlock(program, "BB1") : \A d \in TimedDependencies(x) :
             d.producer \in Placed /\ Ready(d.producer, cycle[d.producer]) <= cycle'[x]
      <3>1. \A x \in Placed \ InBlock(program, "BB1") : \A d \in TimedDependencies(x) :
               d.producer \in Placed /\ Ready(d.producer, cycle[d.producer]) <= cycle'[x]
        BY <1>1, <2>1, <2>3 DEF OperandsTimed
      <3>2. \A d \in TimedDependencies(a) :
               d.producer \in Placed /\ Ready(d.producer, cycle[d.producer]) <= cycle'[a]
        BY <1>3, <1>7, <2>2
      <3> QED
        BY <1>8, <3>1, <3>2
    <2>6. \A x \in Placed' \ InBlock(program, "BB1") : \A d \in TimedDependencies(x) :
             d.producer \in Placed' /\ Ready(d.producer, cycle[d.producer])' <= cycle'[x]
      BY <2>3, <2>4, <2>5
    <2>7. \A x \in PlacedInBody \ {Control} : \A d \in LocalDependencies(program, x) :
             /\ d.producer \in PlacedInBody \ {Control}
             /\ Ready(d.producer, relative[d.producer])' <= relative[x]
      BY <1>1, <2>1 DEF OperandsTimed, Ready, Code
    <2> QED
      BY <1>1, <1>6, <1>10, <2>6, <2>7 DEF OperandsTimed
  <1>16. LoopTimed'
    <2>1. CASE phase = "BB0"
      BY <1>1, <2>1 DEF LoopTimed, LoopPlaced
    <2>2. CASE phase = "BB2"
      <3>1. LoopTimed /\ LoopPlaced /\ todo \subseteq InBlock(program, "BB2")
        BY <2>2 DEF ScheduleInv, Progress, LoopPlaced
      <3>2. CarriedInTime'
        BY <1>1, <1>10, <3>1 DEF LoopTimed, CarriedInTime, Ready, Code
      <3>3. \A x \in Body \cup InBlock(program, "BB0") : cycle'[x] = cycle[x]
        BY <1>1, <1>3, <1>7, <3>1, AddressesAre
      <3>4. ASSUME NEW x \in Body,
                   NEW d \in InvariantDependencies(program, x)
                                \cup InterloopDependencies(program, x),
                   d.producer # 0
            PROVE  Ready(d.producer, cycle[d.producer])' <= cycle'[x]
        <4>1. d.producer \in InBlock(program, "BB0")
          BY <1>1, <3>4, AddressesAre, ProducersAre
        <4>2. Ready(d.producer, cycle[d.producer]) <= cycle[x]
          BY <3>1, <3>4 DEF LoopTimed
        <4>3. Ready(d.producer, cycle[d.producer])' = Ready(d.producer, cycle[d.producer])
          BY <1>1, <3>3, <4>1 DEF Ready, Code
        <4> QED
          BY <3>3, <4>2, <4>3
      <3> QED
        BY <1>1, <1>10, <3>2, <3>4 DEF LoopTimed
    <2> QED
      BY <1>1, <2>1, <2>2
  <1> QED
    BY <1>11, <1>12, <1>13, <1>14, <1>15, <1>16 DEF ScheduleInv

-----------------------------------------------------------------------------
(* The steps from block to block *)

\* The body follows BB0.
LEMMA FinishBB0Inv ==
    ASSUME ScheduleInv, FinishBB0
    PROVE  ScheduleInv'
  <1>1. /\ phase = "BB0" /\ todo = {} /\ phase' = "BB1" /\ todo' = Body /\ Working
        /\ UNCHANGED <<source, program, ii, cycle, relative, slot, stages, start>>
    BY DEF FinishBB0, Working
  <1>2. Placed' = Placed /\ PlacedInBody' = PlacedInBody
    BY <1>1 DEF Placed, PlacedInBody
  <1>3. PlacedInBody = {} /\ Placed = InBlock(program, "BB0")
    BY <1>1 DEF ScheduleInv, Progress
  <1>4. Body' = Body /\ Control' = Control /\ \A x : TimedDependencies(x)' = TimedDependencies(x)
    BY <1>1, ProgramKept
  <1>5. PlacementsOK'
    <2>1. PlacementsOK
      BY DEF ScheduleInv
    <2>2. Body \subseteq DOMAIN program.code
      BY <1>1, AddressesAre
    <2> QED
      BY <1>1, <1>2, <1>3, <1>4, <2>1, <2>2 DEF PlacementsOK
  <1>6. Progress'
    BY <1>1, <1>2, <1>3, <1>4 DEF ScheduleInv, Progress, Working, LoopPlaced
  <1>7. SlotsApart'
    BY <1>1, <1>2, <1>3, <1>4 DEF ScheduleInv, SlotsApart, LoopPlaced
  <1>8. Layout'
    BY <1>1, <1>2, <1>3 DEF Layout, LoopPlaced
  <1>9. OperandsTimed'
    BY <1>1, <1>2, <1>3, <1>4 DEF ScheduleInv, OperandsTimed, Ready, Code
  <1>10. LoopTimed'
    BY <1>1 DEF LoopTimed, LoopPlaced
  <1> QED
    BY <1>5, <1>6, <1>7, <1>8, <1>9, <1>10 DEF ScheduleInv

\* The schedule is done.
LEMMA FinishBB2Inv ==
    ASSUME ScheduleInv, FinishBB2
    PROVE  ScheduleInv'
  <1>1. /\ phase = "BB2" /\ todo = {} /\ phase' = "done" /\ todo' = {} /\ Working
        /\ UNCHANGED <<source, program, ii, cycle, relative, slot, stages, start>>
        /\ LoopPlaced /\ LoopPlaced' /\ Working'
    BY DEF FinishBB2, Working, LoopPlaced
  <1>2. Placed' = Placed /\ PlacedInBody' = PlacedInBody
    BY <1>1 DEF Placed, PlacedInBody
  <1>3. Body' = Body /\ Control' = Control /\ \A x : TimedDependencies(x)' = TimedDependencies(x)
    BY <1>1, ProgramKept
  <1>4. PlacementsOK'
    BY <1>1, <1>2, <1>3 DEF ScheduleInv, PlacementsOK
  <1>5. Progress'
    BY <1>1, <1>2, <1>3 DEF ScheduleInv, Progress
  <1>6. SlotsApart'
    BY <1>1, <1>2, <1>3 DEF ScheduleInv, SlotsApart
  <1>7. Layout'
    BY <1>1, <1>2, <1>3 DEF ScheduleInv, Layout, Span
  <1>8. OperandsTimed'
    BY <1>1, <1>2, <1>3 DEF ScheduleInv, OperandsTimed, Ready, Code
  <1>9. LoopTimed'
    BY <1>1, <1>2, <1>3 DEF ScheduleInv, LoopTimed, CarriedInTime, Ready, Code
  <1> QED
    BY <1>4, <1>5, <1>6, <1>7, <1>8, <1>9 DEF ScheduleInv

-----------------------------------------------------------------------------
(* The step that places an instruction of the body *)

\* More stages take longer.
LEMMA LongerSpan ==
    ASSUME NEW i \in Nat, NEW u \in Nat, NEW v \in Nat, u <= v
    PROVE  u * i \in Nat /\ v * i \in Nat /\ u * i <= v * i
  <1>1. PICK k \in Nat : v = u + k
    <2>1. v - u \in Nat /\ v = u + (v - u)
      OBVIOUS
    <2> QED
      BY <2>1
  <1>2. v * i = (u * i) + (k * i) /\ k * i \in Nat /\ u * i \in Nat /\ v * i \in Nat
    BY <1>1
  <1> HIDE <1>1
  <1> QED
    BY <1>2

\* A cycle lies within the stages up to its own.
LEMMA WithinStages ==
    ASSUME NEW i \in Nat \ {0}, NEW c \in Nat
    PROVE  c \div i + 1 \in Nat /\ c < (c \div i + 1) * i
  <1>1. PICK q \in Nat, m \in 0 .. i - 1 : c = (i * q) + m /\ c \div i = q
    BY DivMod
  <1>2. (q + 1) * i = (i * q) + i
    OBVIOUS
  <1>3. PICK x \in Nat : x = i * q
    OBVIOUS
  <1>4. c = x + m /\ (q + 1) * i = x + i
    BY <1>1, <1>2, <1>3
  <1>5. c < (q + 1) * i
    BY <1>4
  <1> QED
    BY <1>1, <1>5

\* An instruction of the body gets its relative cycle and its slot.
LEMMA PlaceModuloInv ==
    ASSUME ScheduleInv, PlaceModulo
    PROVE  ScheduleInv'
  <1>1. /\ phase = "BB1" /\ Working /\ ~LoopPlaced
        /\ UNCHANGED <<source, program, phase, ii, cycle, start>>
    BY DEF PlaceModulo, Working, LoopPlaced
  <1>2. PICK a, c, s : PlacingModulo(a, c, s)
    BY PlaceModuloIs
  <1>3. /\ a \in todo /\ (\A b \in todo : a <= b)
        /\ c \in Nat /\ s \in Slot /\ s # "Branch"
        /\ relative' = [relative EXCEPT ![a] = c]
        /\ slot' = [slot EXCEPT ![a] = s]
        /\ todo' = todo \ {a}
        /\ stages' = Greatest({c \div ii + 1}, stages)
        /\ \A d \in LocalDependencies(program, a) :
              Ready(d.producer, relative[d.producer]) <= c
        /\ \A b \in PlacedInBody : relative[b] % ii = c % ii => slot[b] # s
    BY <1>2 DEF PlacingModulo
  <1>4. /\ a \in DOMAIN program.code /\ DOMAIN cycle = DOMAIN program.code
        /\ DOMAIN slot = DOMAIN program.code /\ DOMAIN relative = DOMAIN program.code
        /\ todo \subseteq DOMAIN program.code
        /\ relative \in [DOMAIN program.code -> Nat \cup {None}]
        /\ slot \in [DOMAIN program.code -> Slot]
        /\ ii \in Nat /\ ii # 0 /\ stages \in Nat
    BY <1>1, <1>3, StateIs
  <1>5. /\ todo \subseteq Body /\ PlacedInBody = Body \ todo
        /\ Placed = InBlock(program, "BB0")
    BY <1>1 DEF ScheduleInv, Progress
  <1>6. /\ a \in Body /\ a # Control /\ a \notin Placed /\ a \notin PlacedInBody
        /\ a \in InBlock(program, "BB1")
    BY <1>1, <1>3, <1>5, AddressesAre
  <1>7. Placed' = Placed
    BY <1>1 DEF Placed
  <1>8. /\ relative'[a] = c /\ slot'[a] = s
        /\ \A b \in DOMAIN program.code :
              b # a => relative'[b] = relative[b] /\ slot'[b] = slot[b]
        /\ DOMAIN relative' = DOMAIN program.code
    BY <1>3, <1>4
  <1>9. PlacedInBody' = PlacedInBody \cup {a}
    <2>1. c # None
      BY <1>3 DEF None
    <2> QED
      BY <1>4, <1>8, <2>1 DEF PlacedInBody
  <1>10. Placed \subseteq DOMAIN program.code /\ PlacedInBody \subseteq DOMAIN program.code
    BY <1>4 DEF Placed, PlacedInBody
  <1>11. /\ Body' = Body /\ Control' = Control
         /\ \A x : TimedDependencies(x)' = TimedDependencies(x)
    BY <1>1, ProgramKept
  <1>12. stages' \in Nat /\ stages <= stages' /\ c < stages' * ii
    <2>1. c \div ii + 1 \in Nat /\ c < (c \div ii + 1) * ii
      BY <1>3, <1>4, WithinStages
    <2> DEFINE n == c \div ii + 1
    <2>2. stages' = Greatest({n}, stages) /\ n \in Nat /\ c < n * ii
      BY <1>3, <2>1
    <2> HIDE DEF n
    <2>3. IsFiniteSet({n}) /\ {n} \in SUBSET Int
      <3>1. IsFiniteSet({n})
        BY FS_Singleton
      <3> QED
        BY <2>2, <3>1
    <2>4. stages' \in Int /\ stages <= stages' /\ n <= stages'
      BY <1>4, <2>2, <2>3, GreatestIs
    <2>5. stages' \in Nat
      BY <1>4, <2>4
    <2>6. n * ii \in Nat /\ stages' * ii \in Nat /\ n * ii <= stages' * ii
      BY <1>4, <2>2, <2>4, <2>5, LongerSpan
    <2> QED
      BY <1>3, <2>2, <2>4, <2>5, <2>6
  <1>13. PlacementsOK'
    <2>1. PlacementsOK
      BY DEF ScheduleInv
    <2>2. /\ relative' \in [DOMAIN program.code -> Nat \cup {None}]
          /\ slot' \in [DOMAIN program.code -> Slot]
          /\ todo' \subseteq DOMAIN program.code
      BY <1>3, <1>4
    <2>3. PlacedInBody' = Body \ todo'
      BY <1>3, <1>5, <1>6, <1>9
    <2> QED
      BY <1>1, <1>11, <1>12, <2>1, <2>2, <2>3 DEF PlacementsOK
  <1>14. Progress'
    <2>1. Progress
      BY DEF ScheduleInv
    <2> QED
      BY <1>1, <1>3, <1>5, <1>6, <1>7, <1>9, <1>11, <2>1 DEF Progress, Working, LoopPlaced
  <1>15. SlotsApart'
    <2>1. SlotsApart
      BY DEF ScheduleInv
    <2>2. \A x \in Placed \cup PlacedInBody : x # a /\ slot'[x] = slot[x]
      BY <1>6, <1>8, <1>10
    <2>3. \A x \in PlacedInBody : relative'[x] = relative[x]
      BY <1>6, <1>8, <1>10
    <2>4. \A x \in Placed' \cup PlacedInBody' : x # Control => slot'[x] # "Branch"
      BY <1>1, <1>3, <1>7, <1>8, <1>9, <2>1, <2>2 DEF SlotsApart
    <2>5. \A x, y \in Placed \ InBlock(program, "BB1") :
             x # y /\ cycle[x] = cycle[y] => slot'[x] # slot'[y]
      BY <1>1, <2>1, <2>2 DEF SlotsApart
    <2>6. \A x, y \in PlacedInBody :
             x # y /\ relative'[x] % ii = relative'[y] % ii => slot'[x] # slot'[y]
      BY <1>1, <2>1, <2>2, <2>3 DEF SlotsApart
    <2>7. \A x \in PlacedInBody : relative'[x] % ii = c % ii => slot'[x] # s
      BY <1>3, <2>2, <2>3
    <2>8. \A x, y \in PlacedInBody' :
             x # y /\ relative'[x] % ii = relative'[y] % ii => slot'[x] # slot'[y]
      BY <1>8, <1>9, <2>6, <2>7
    <2> QED
      BY <1>1, <1>7, <1>11, <2>4, <2>5, <2>8 DEF SlotsApart, LoopPlaced
  <1>16. Layout'
    <2>1. \A x \in PlacedInBody : relative[x] < stages * ii
      BY <1>1 DEF ScheduleInv, Layout, Span
    <2>2. stages * ii \in Nat /\ stages' * ii \in Nat /\ stages * ii <= stages' * ii
      BY <1>4, <1>12, LongerSpan
    <2>3. \A x \in PlacedInBody : relative'[x] = relative[x] /\ relative[x] \in Nat
      BY <1>1, <1>6, <1>8, <1>10, StateIs
    <2>4. \A x \in PlacedInBody' : relative'[x] < stages' * ii
      <3>1. \A x \in PlacedInBody : relative'[x] < stages' * ii
        BY <2>1, <2>2, <2>3
      <3> QED
        BY <1>8, <1>9, <1>12, <3>1
    <2> QED
      BY <1>1, <2>4 DEF Layout, Span, LoopPlaced
  <1>17. OperandsTimed'
    <2>1. OperandsTimed
      BY DEF ScheduleInv
    <2>2. \A d \in LocalDependencies(program, a) : d.producer \in PlacedInBody
      <3>1. \A d \in LocalDependencies(program, a) :
               /\ d.producer \in DOMAIN program.code \ {Control} /\ d.producer < a
               /\ Block(program, d.producer) = Block(program, a)
        BY <1>1, <1>4, ProducersAre
      <3>2. Block(program, a) = "BB1"
        BY <1>6 DEF InBlock
      <3>3. \A d \in LocalDependencies(program, a) : d.producer \in Body
        BY <3>1, <3>2 DEF Body, InBlock
      <3>4. \A x \in Body : x < a => x \notin todo
        BY <1>1, <1>3, <1>4, AddressesAre
      <3> QED
        BY <1>5, <3>1, <3>3, <3>4
    <2>3. \A x \in PlacedInBody : relative'[x] = relative[x] /\ x \in PlacedInBody' /\ x # a
      BY <1>6, <1>8, <1>9, <1>10
    <2>4. \A x \in PlacedInBody : Ready(x, relative[x])' = Ready(x, relative[x])
      BY <1>1, <2>3 DEF Ready, Code
    <2>5. \A x \in PlacedInBody' \ {Control} : \A d \in LocalDependencies(program, x) :
             /\ d.producer \in PlacedInBody \ {Control}
             /\ Ready(d.producer, relative[d.producer]) <= relative'[x]
      <3>1. \A x \in PlacedInBody \ {Control} : \A d \in LocalDependencies(program, x) :
               /\ d.producer \in PlacedInBody \ {Control}
               /\ Ready(d.producer, relative[d.producer]) <= relative'[x]
        BY <1>1, <2>1, <2>3 DEF OperandsTimed
      <3>2. \A d \in LocalDependencies(program, a) :
               /\ d.producer \in PlacedInBody \ {Control}
               /\ Ready(d.producer, relative[d.producer]) <= relative'[a]
        <4>1. Control \notin PlacedInBody
          BY <1>5 DEF Body
        <4> QED
          BY <1>3, <1>8, <2>2, <4>1
      <3> QED
        BY <1>9, <3>1, <3>2
    <2>6. \A x \in PlacedInBody' \ {Control} : \A d \in LocalDependencies(program, x) :
             /\ d.producer \in PlacedInBody' \ {Control}
             /\ Ready(d.producer, relative[d.producer])' <= relative'[x]
      BY <2>3, <2>4, <2>5
    <2>7. \A x \in Placed \ InBlock(program, "BB1") : \A d \in TimedDependencies(x) :
             d.producer \in Placed /\ Ready(d.producer, cycle[d.producer])' <= cycle[x]
      BY <1>1, <2>1 DEF OperandsTimed, Ready, Code
    <2> QED
      BY <1>1, <1>7, <1>11, <2>6, <2>7 DEF OperandsTimed
  <1>18. LoopTimed'
    BY <1>1 DEF LoopTimed, LoopPlaced
  <1> QED
    BY <1>13, <1>14, <1>15, <1>16, <1>17, <1>18 DEF ScheduleInv

-----------------------------------------------------------------------------
(* The step that accepts a body *)

\* The loop starts behind BB0, and late enough for what the body reads from it.
LEMMA StartCycleIs ==
    ASSUME ScheduleInv, phase = "BB1", todo = {}
    PROVE  /\ StartCycle \in Nat
           /\ \A a \in Placed : cycle[a] < StartCycle
           /\ \A a \in Body :
                 \A d \in InvariantDependencies(program, a) \cup InterloopDependencies(program, a) :
                    d.producer # 0 =>
                       Ready(d.producer, cycle[d.producer]) <= StartCycle + relative[a]
  <1>1. Working
    BY DEF Working
  <1>2. /\ Splittable(program) /\ cycle \in [DOMAIN program.code -> Nat \cup {None}]
        /\ \A a \in Placed : a \in DOMAIN program.code /\ cycle[a] \in Nat
        /\ \A a \in PlacedInBody : a \in DOMAIN program.code /\ relative[a] \in Nat
    BY <1>1, StateIs
  <1>3. PlacedInBody = Body /\ Placed = InBlock(program, "BB0")
    BY DEF ScheduleInv, Progress
  <1>4. IsFiniteSet(DOMAIN program.code)
    <2>1. Len(program.code) \in Nat /\ DOMAIN program.code = 1 .. Len(program.code)
      BY <1>2, BlocksAre
    <2>2. 1 \in Int /\ Len(program.code) \in Int
      BY <2>1
    <2> QED
      BY <2>1, <2>2, FS_Interval
  <1> DEFINE f == [a \in Placed |-> cycle[a]]
             F == {f[a] : a \in Placed}
             last == Greatest(F, None)
  <1>5. last \in Int /\ None <= last /\ \A a \in Placed : cycle[a] <= last
    <2>1. IsFiniteSet(Placed)
      BY <1>2, <1>4, FS_Subset
    <2>2. F \in SUBSET Int
      BY <1>2
    <2>3. \A a \in Placed : cycle[a] \in F
      OBVIOUS
    <2> HIDE DEF f
    <2>4. IsFiniteSet(F)
      BY <2>1, FiniteImage
    <2> HIDE DEF F
    <2>5. None \in Int
      BY DEF None
    <2> QED
      BY <2>2, <2>3, <2>4, <2>5, GreatestIs
  <1>6. last + 1 \in Nat
    <2> HIDE DEF last
    <2> QED
      BY <1>5 DEF None
  <1> DEFINE D(a) == InvariantDependencies(program, a) \cup InterloopDependencies(program, a)
             B == [a \in Body |-> {d.producer : d \in D(a)} \ {0}]
             W(a) == {Ready(b, cycle[b]) - relative[a] : b \in B[a]}
             waits == UNION {W(a) : a \in Body}
  <1>7. \A a \in Body : a \in DOMAIN program.code /\ relative[a] \in Nat
    BY <1>2, <1>3
  <1>8. ASSUME NEW a \in Body PROVE B[a] \subseteq DOMAIN program.code /\ IsFiniteSet(B[a])
    <2>1. \A d \in D(a) : d.producer \in InBlock(program, "BB0") \cup {0}
      BY <1>1, <1>7, ProducersAre
    <2>2. {d.producer : d \in D(a)} \ {0} \subseteq InBlock(program, "BB0")
      BY <2>1
    <2>3. B[a] \subseteq DOMAIN program.code
      BY <2>2 DEF InBlock
    <2> HIDE DEF B
    <2> QED
      BY <1>4, <2>3, FS_Subset
  <1>9. ASSUME NEW a \in Body PROVE W(a) \in SUBSET Int /\ IsFiniteSet(W(a))
    <2> DEFINE g == [b \in B[a] |-> Ready(b, cycle[b]) - relative[a]]
    <2> HIDE DEF B
    <2>1. \A b \in B[a] : Ready(b, cycle[b]) \in Int
      <3>1. \A b \in B[a] : cycle[b] \in Int
        BY <1>2, <1>8 DEF None
      <3> QED
        BY <3>1, ReadyIs
    <2>2. W(a) = {g[b] : b \in B[a]}
      OBVIOUS
    <2>3. W(a) \in SUBSET Int
      BY <1>7, <2>1
    <2> HIDE DEF g, W
    <2>4. IsFiniteSet({g[b] : b \in B[a]})
      BY <1>8, FiniteImage
    <2> QED
      BY <2>2, <2>3, <2>4
  <1>10. waits \in SUBSET Int /\ IsFiniteSet(waits)
    <2> DEFINE h == [a \in Body |-> W(a)]
    <2>1. \A a \in Body : h[a] = W(a)
      OBVIOUS
    <2>2. waits = UNION {h[a] : a \in Body}
      OBVIOUS
    <2> HIDE DEF h, W, B, waits
    <2>3. IsFiniteSet(Body)
      BY <1>4, <1>7, FS_Subset
    <2>4. IsFiniteSet({h[a] : a \in Body})
      BY <2>3, FiniteImage
    <2>5. \A T \in {h[a] : a \in Body} : IsFiniteSet(T) /\ T \in SUBSET Int
      BY <1>9, <2>1
    <2>6. IsFiniteSet(UNION {h[a] : a \in Body})
      BY <2>4, <2>5, FS_UNION
    <2> QED
      BY <2>2, <2>5, <2>6
  <1>11. StartCycle = Greatest(waits, last + 1)
    BY DEF StartCycle
  <1>12. ASSUME NEW a \in Body, NEW d \in D(a), d.producer # 0
         PROVE  Ready(d.producer, cycle[d.producer]) - relative[a] \in waits
    <2>1. d.producer \in B[a]
      BY <1>12
    <2>2. Ready(d.producer, cycle[d.producer]) - relative[a] \in W(a)
      BY <2>1
    <2> QED
      BY <2>2
  <1>13. ASSUME NEW a \in Body, NEW d \in D(a), d.producer # 0
         PROVE  Ready(d.producer, cycle[d.producer]) \in Int
    <2>1. d.producer \in DOMAIN program.code
      <3>1. d.producer \in B[a]
        BY <1>13
      <3> QED
        BY <1>8, <3>1
    <2>2. cycle[d.producer] \in Int
      BY <1>2, <2>1 DEF None
    <2> QED
      BY <2>2, ReadyIs
  <1> HIDE DEF waits, last, W, B
  <1>14. /\ StartCycle \in Int /\ last + 1 <= StartCycle
         /\ \A y \in waits : y <= StartCycle
    <2>1. last + 1 \in Int
      BY <1>6
    <2> QED
      BY <1>10, <1>11, <2>1, GreatestIs
  <1>15. StartCycle \in Nat
    BY <1>6, <1>14
  <1>16. \A a \in Placed : cycle[a] < StartCycle
    <2>1. \A a \in Placed : cycle[a] \in Int /\ cycle[a] <= last
      BY <1>2, <1>5
    <2> QED
      BY <1>5, <1>14, <2>1
  <1>17. ASSUME NEW a \in Body, NEW d \in D(a), d.producer # 0
         PROVE  Ready(d.producer, cycle[d.producer]) <= StartCycle + relative[a]
    <2>1. Ready(d.producer, cycle[d.producer]) - relative[a] <= StartCycle
      BY <1>12, <1>14, <1>17
    <2>2. Ready(d.producer, cycle[d.producer]) \in Int /\ relative[a] \in Int
      BY <1>7, <1>13, <1>17
    <2> QED
      BY <1>14, <2>1, <2>2
  <1> QED
    BY <1>15, <1>16, <1>17

\* The body gets its absolute cycles.
LEMMA AcceptBodyInv ==
    ASSUME ScheduleInv, AcceptBody
    PROVE  ScheduleInv'
  <1>1. /\ phase = "BB1" /\ todo = {} /\ phase' = "BB2" /\ todo' = InBlock(program, "BB2")
        /\ CarriedInTime /\ start' = StartCycle
        /\ UNCHANGED <<source, program, ii>>
        /\ Working /\ Working' /\ LoopPlaced'
    BY DEF AcceptBody, Working, LoopPlaced
  <1>2. /\ DOMAIN cycle = DOMAIN program.code /\ DOMAIN slot = DOMAIN program.code
        /\ DOMAIN relative = DOMAIN program.code
        /\ cycle \in [DOMAIN program.code -> Nat \cup {None}]
        /\ relative \in [DOMAIN program.code -> Nat \cup {None}]
        /\ slot \in [DOMAIN program.code -> Slot]
        /\ ii \in Nat /\ ii # 0 /\ stages \in Nat
    BY <1>1, StateIs
  <1>3. PlacedInBody = Body /\ Placed = InBlock(program, "BB0")
    BY <1>1 DEF ScheduleInv, Progress
  <1>4. /\ Control \in DOMAIN program.code /\ Control \in InBlock(program, "BB1")
        /\ Body = InBlock(program, "BB1") \ {Control}
        /\ \A b : InBlock(program, b) \subseteq DOMAIN program.code
    BY <1>1, AddressesAre
  <1>5. Body' = Body /\ Control' = Control /\ \A x : TimedDependencies(x)' = TimedDependencies(x)
    BY <1>1, ProgramKept
  <1>6. stages' \in Nat /\ stages' >= 1 /\ stages <= stages'
    <2>1. stages' = Greatest({stages}, 1)
      BY DEF AcceptBody, StageCount
    <2>2. IsFiniteSet({stages})
      BY FS_Singleton
    <2>3. {stages} \in SUBSET Int
      BY <1>2
    <2> QED
      BY <1>2, <2>1, <2>2, <2>3, GreatestIs
  <1> DEFINE span == stages' * ii
  <1>7. span \in Nat /\ span >= 1 /\ stages * ii \in Nat /\ stages * ii <= span
    <2>1. stages * ii \in Nat /\ span \in Nat /\ stages * ii <= span
      BY <1>2, <1>6, LongerSpan
    <2>2. 1 * ii <= span /\ 1 * ii = ii
      <3>1. 1 \in Nat /\ 1 <= stages' /\ stages' \in Nat
        BY <1>6
      <3>2. 1 * ii <= stages' * ii
        BY <1>2, <3>1, LongerSpan
      <3> QED
        BY <1>2, <3>2
    <2> HIDE DEF span
    <2> QED
      BY <1>2, <2>1, <2>2
  <1>8. /\ relative' = [relative EXCEPT ![Control] = span - 1]
        /\ slot' = [slot EXCEPT ![Control] = "Branch"]
    BY DEF AcceptBody
  <1>9. cycle' = [x \in DOMAIN cycle |->
                     IF x \in InBlock(program, "BB1") THEN start' + relative'[x] ELSE cycle[x]]
    BY DEF AcceptBody
  <1>10. span = Span'
    BY <1>1 DEF Span
  <1> HIDE DEF span
  <1>11. /\ start' \in Nat
         /\ \A a \in Placed : cycle[a] < start'
         /\ \A a \in Body :
               \A d \in InvariantDependencies(program, a) \cup InterloopDependencies(program, a) :
                  d.producer # 0 => Ready(d.producer, cycle[d.producer]) <= start' + relative[a]
    BY <1>1, StartCycleIs
  <1>12. /\ relative'[Control] = span - 1 /\ slot'[Control] = "Branch"
         /\ \A x \in DOMAIN program.code :
               x # Control => relative'[x] = relative[x] /\ slot'[x] = slot[x]
         /\ DOMAIN relative' = DOMAIN program.code
    BY <1>2, <1>4, <1>8
  <1>13. \A x \in Body : x \in DOMAIN program.code /\ x # Control /\ relative[x] \in Nat
                           /\ relative[x] < span
    <2>1. \A x \in Body : relative[x] \in Nat
      BY <1>1, <1>3, StateIs
    <2>2. \A x \in Body : relative[x] < stages * ii
      BY <1>1, <1>3 DEF ScheduleInv, Layout, Span
    <2> QED
      BY <1>4, <1>7, <2>1, <2>2
  <1>14. \A x \in InBlock(program, "BB1") : relative'[x] \in Nat /\ relative'[x] < span
    <2>1. span - 1 \in Nat /\ span - 1 < span
      BY <1>7
    <2> QED
      BY <1>4, <1>12, <1>13, <2>1
  <1>15. /\ \A x \in InBlock(program, "BB1") : cycle'[x] = start' + relative'[x]
         /\ \A x \in DOMAIN program.code : x \notin InBlock(program, "BB1") => cycle'[x] = cycle[x]
         /\ DOMAIN cycle' = DOMAIN program.code
    BY <1>2, <1>4, <1>9
  <1>16. \A x \in InBlock(program, "BB1") : cycle'[x] \in Nat
    BY <1>11, <1>14, <1>15
  <1>17. PlacedInBody' = InBlock(program, "BB1")
    <2>1. \A x \in DOMAIN program.code :
             relative'[x] # None <=> x \in PlacedInBody \cup {Control}
      BY <1>2, <1>4, <1>12, <1>14 DEF PlacedInBody, None
    <2>2. PlacedInBody' = PlacedInBody \cup {Control}
      BY <1>3, <1>4, <1>12, <2>1 DEF PlacedInBody
    <2> QED
      BY <1>3, <1>4, <2>2
  <1>18. Placed' = InBlock(program, "BB0") \cup InBlock(program, "BB1")
    <2>1. \A x \in DOMAIN program.code :
             cycle'[x] # None <=> x \in InBlock(program, "BB0") \cup InBlock(program, "BB1")
      <3>1. \A x \in InBlock(program, "BB1") : cycle'[x] # None
        BY <1>16 DEF None
      <3>2. \A x \in DOMAIN program.code :
               cycle[x] # None <=> x \in InBlock(program, "BB0")
        BY <1>2, <1>3 DEF Placed
      <3> QED
        BY <1>15, <3>1, <3>2
    <2> QED
      BY <1>4, <1>15, <2>1 DEF Placed
  <1>19. /\ \A x : x \in InBlock(program, "BB0") => x \notin InBlock(program, "BB1") /\ x # Control
         /\ DOMAIN program.code \ InBlock(program, "BB2")
               = InBlock(program, "BB0") \cup InBlock(program, "BB1")
    BY <1>1, AddressesAre
  <1>20. \A x \in InBlock(program, "BB0") : cycle'[x] = cycle[x] /\ slot'[x] = slot[x]
    BY <1>4, <1>12, <1>15, <1>19
  <1>21. PlacementsOK'
    <2>1. PlacementsOK
      BY DEF ScheduleInv
    <2>2. /\ relative' \in [DOMAIN program.code -> Nat \cup {None}]
          /\ slot' \in [DOMAIN program.code -> Slot]
      BY <1>2, <1>4, <1>8, <1>12, <1>14 DEF Slot
    <2>3. cycle' \in [DOMAIN program.code -> Nat \cup {None}]
      BY <1>2, <1>9, <1>15, <1>16
    <2> QED
      BY <1>1, <1>4, <1>6, <1>11, <1>17, <2>1, <2>2, <2>3 DEF PlacementsOK
  <1>22. Progress'
    BY <1>1, <1>4, <1>17, <1>18, <1>19 DEF ScheduleInv, Progress
  <1>23. SlotsApart'
    <2>1. SlotsApart
      BY DEF ScheduleInv
    <2>2. \A x \in Body \cup InBlock(program, "BB0") : slot'[x] = slot[x] /\ slot[x] # "Branch"
      BY <1>1, <1>3, <1>12, <1>13, <1>19, <1>20, <2>1 DEF SlotsApart
    <2>3. \A x \in Placed' \cup PlacedInBody' : x # Control => slot'[x] # "Branch"
      BY <1>4, <1>17, <1>18, <2>2
    <2>4. \A x, y \in InBlock(program, "BB0") :
             x # y /\ cycle'[x] = cycle'[y] => slot'[x] # slot'[y]
      BY <1>1, <1>3, <1>19, <1>20, <2>1 DEF SlotsApart
    <2>5. \A x, y \in Body :
             x # y /\ relative'[x] % ii = relative'[y] % ii => slot'[x] # slot'[y]
      BY <1>1, <1>3, <1>12, <1>13, <2>1 DEF SlotsApart
    <2>6. \A x, y \in InBlock(program, "BB1") :
             x # y /\ relative'[x] % ii = relative'[y] % ii => slot'[x] # slot'[y]
      BY <1>4, <1>12, <2>2, <2>5
    <2>7. Placed' \ InBlock(program, "BB1") = InBlock(program, "BB0")
      BY <1>18, <1>19
    <2> QED
      BY <1>1, <1>5, <1>12, <1>17, <2>3, <2>4, <2>6, <2>7 DEF SlotsApart
  <1>24. Layout'
    <2>1. \A x \in InBlock(program, "BB0") : cycle'[x] < start'
      BY <1>3, <1>11, <1>20
    <2>2. Placed' \cap InBlock(program, "BB2") = {}
      BY <1>1, <1>18, AddressesAre
    <2> QED
      BY <1>1, <1>5, <1>6, <1>10, <1>12, <1>14, <1>15, <2>1, <2>2 DEF Layout
  <1>25. OperandsTimed'
    <2>1. OperandsTimed
      BY DEF ScheduleInv
    <2>2. \A x \in InBlock(program, "BB0") : Ready(x, cycle[x])' = Ready(x, cycle[x])
      BY <1>1, <1>20 DEF Ready, Code
    <2>3. \A x \in Body : Ready(x, relative[x])' = Ready(x, relative[x])
      BY <1>1, <1>12, <1>13 DEF Ready, Code
    <2>4. \A x \in InBlock(program, "BB0") : \A d \in TimedDependencies(x) :
             /\ d.producer \in InBlock(program, "BB0")
             /\ Ready(d.producer, cycle[d.producer])' <= cycle'[x]
      BY <1>1, <1>3, <1>19, <1>20, <2>1, <2>2 DEF OperandsTimed
    <2>5. \A x \in Body : \A d \in LocalDependencies(program, x) :
             /\ d.producer \in Body
             /\ Ready(d.producer, relative[d.producer])' <= relative'[x]
      BY <1>1, <1>3, <1>12, <1>13, <2>1, <2>3 DEF OperandsTimed
    <2>6. Placed' \ InBlock(program, "BB1") = InBlock(program, "BB0")
      BY <1>18, <1>19
    <2>7. PlacedInBody' \ {Control} = Body
      BY <1>4, <1>17
    <2>8. \A x \in Placed' \ InBlock(program, "BB1") : \A d \in TimedDependencies(x) :
             d.producer \in Placed' /\ Ready(d.producer, cycle[d.producer])' <= cycle'[x]
      BY <1>18, <2>4, <2>6
    <2>9. \A x \in PlacedInBody' \ {Control} : \A d \in LocalDependencies(program, x) :
             /\ d.producer \in PlacedInBody' \ {Control}
             /\ Ready(d.producer, relative[d.producer])' <= relative'[x]
      BY <2>5, <2>7
    <2> QED
      BY <1>1, <1>5, <2>8, <2>9 DEF OperandsTimed
  <1>26. LoopTimed'
    <2>1. ASSUME NEW x \in Body, NEW d \in InterloopDependencies(program, x)
          PROVE  Ready(d.previous, relative[d.previous])' <= relative'[x] + ii
      <3>1. d.previous \in Body
        BY <1>1, <1>13, ProducersAre
      <3>2. Ready(d.previous, relative[d.previous])' = Ready(d.previous, relative[d.previous])
        BY <1>1, <1>12, <1>13, <3>1 DEF Ready, Code
      <3> QED
        BY <1>1, <1>12, <1>13, <3>2 DEF CarriedInTime
    <2>2. CarriedInTime'
      BY <1>1, <1>5, <2>1 DEF CarriedInTime
    <2>3. ASSUME NEW x \in Body,
                 NEW d \in InvariantDependencies(program, x) \cup InterloopDependencies(program, x),
                 d.producer # 0
          PROVE  Ready(d.producer, cycle[d.producer])' <= cycle'[x]
      <3>1. d.producer \in InBlock(program, "BB0")
        BY <1>1, <1>13, <2>3, ProducersAre
      <3>2. Ready(d.producer, cycle[d.producer])' = Ready(d.producer, cycle[d.producer])
        BY <1>1, <1>20, <3>1 DEF Ready, Code
      <3>3. Ready(d.producer, cycle[d.producer]) <= start' + relative[x]
        BY <1>11, <2>3
      <3>4. cycle'[x] = start' + relative[x]
        BY <1>4, <1>12, <1>13, <1>15
      <3> QED
        BY <3>2, <3>3, <3>4
    <2> QED
      BY <1>1, <1>5, <2>2, <2>3 DEF LoopTimed
  <1> QED
    BY <1>21, <1>22, <1>23, <1>24, <1>25, <1>26 DEF ScheduleInv

-----------------------------------------------------------------------------
(* The inductive invariant of the scheduler *)

\* It holds before a program is read.
LEMMA ScheduleStart ==
    ASSUME SchedulerInit
    PROVE  ScheduleInv
  <1>1. /\ phase = "source" /\ source \in Sources /\ ii = 0 /\ todo = {}
        /\ program = [code |-> <<>>, start |-> 0]
        /\ cycle = <<>> /\ relative = <<>> /\ slot = <<>>
        /\ stages = 0 /\ start = 0
    BY DEF SchedulerInit
  <1>2. ~Working /\ ~LoopPlaced
    BY <1>1 DEF Working, LoopPlaced
  <1>3. PlacementsOK
    <2>1. source.code \in Seq(Instruction \cup {Nop}) /\ source.target \in Int
      BY <1>1, SourceAssumption
    <2>2. program \in Program
      BY <1>1 DEF Program
    <2>3. DOMAIN program.code = {}
      BY <1>1
    <2>4. /\ cycle \in [{} -> Nat \cup {None}] /\ relative \in [{} -> Nat \cup {None}]
          /\ slot \in [{} -> Slot]
      BY <1>1
    <2> QED
      BY <1>1, <2>1, <2>2, <2>3, <2>4 DEF PlacementsOK
  <1> QED
    BY <1>1, <1>2, <1>3
       DEF ScheduleInv, Progress, SlotsApart, Layout, OperandsTimed, LoopTimed

\* Every step keeps it.
LEMMA ScheduleStep ==
    ASSUME ScheduleInv, [ScheduleNext]_schedulerVars
    PROVE  ScheduleInv'
  <1>1. CASE Parse
    BY <1>1, ParseInv
  <1>2. CASE ParseError
    BY <1>2, GivenUpInv DEF ParseError
  <1>3. CASE PlaceInCycle
    BY <1>3, PlaceInCycleInv
  <1>4. CASE NoCycleLeft
    BY <1>4, GivenUpInv DEF NoCycleLeft
  <1>5. CASE FinishBB0
    BY <1>5, FinishBB0Inv
  <1>6. CASE FinishBB2
    BY <1>6, FinishBB2Inv
  <1>7. CASE PlaceModulo
    BY <1>7, PlaceModuloInv
  <1>8. CASE NoPlaceInBody
    BY <1>8, NextIntervalInv DEF NoPlaceInBody
  <1>9. CASE BodyTooSlow
    BY <1>9, NextIntervalInv DEF BodyTooSlow
  <1>10. CASE AcceptBody
    BY <1>10, AcceptBodyInv
  <1>11. CASE UNCHANGED schedulerVars
    <2>1. UNCHANGED <<source, program, phase, ii, todo, cycle, relative, slot, stages, start>>
      BY <1>11 DEF schedulerVars
    <2>2. Placed' = Placed /\ PlacedInBody' = PlacedInBody
      BY <2>1 DEF Placed, PlacedInBody
    <2>3. /\ Body' = Body /\ Control' = Control
          /\ \A x : TimedDependencies(x)' = TimedDependencies(x)
      BY <2>1, ProgramKept
    <2>4. PlacementsOK' /\ Progress'
      BY <2>1, <2>2, <2>3 DEF ScheduleInv, PlacementsOK, Progress, Working, LoopPlaced
    <2>5. SlotsApart' /\ Layout'
      BY <2>1, <2>2, <2>3
         DEF ScheduleInv, SlotsApart, Layout, Span, Working, LoopPlaced
    <2>6. OperandsTimed' /\ LoopTimed'
      BY <2>1, <2>2, <2>3
         DEF ScheduleInv, OperandsTimed, LoopTimed, CarriedInTime, Ready, Code, Working, LoopPlaced
    <2> QED
      BY <2>4, <2>5, <2>6 DEF ScheduleInv
  <1> QED
    BY <1>1, <1>2, <1>3, <1>4, <1>5, <1>6, <1>7, <1>8, <1>9, <1>10, <1>11 DEF ScheduleNext

-----------------------------------------------------------------------------
(* What a finished schedule means *)

\* A finished schedule has everything in its place.
LEMMA DoneIs ==
    ASSUME ScheduleInv, phase = "done"
    PROVE  /\ Working /\ LoopPlaced /\ Splittable(program)
           /\ Placed = DOMAIN program.code
           /\ PlacedInBody = InBlock(program, "BB1")
           /\ ii \in Nat /\ ii # 0 /\ stages \in Nat /\ stages >= 1 /\ start \in Nat
           /\ Span \in Nat
           /\ \A a \in DOMAIN program.code : cycle[a] \in Nat
           /\ \A a \in InBlock(program, "BB0") : cycle[a] < start
           /\ \A a \in InBlock(program, "BB1") :
                 relative[a] \in Nat /\ relative[a] < Span /\ cycle[a] = start + relative[a]
           /\ \A a \in InBlock(program, "BB2") : cycle[a] >= start + Span
           /\ relative[Control] = Span - 1
  <1>1. Working /\ LoopPlaced
    BY DEF Working, LoopPlaced
  <1>2. Placed = DOMAIN program.code /\ PlacedInBody = InBlock(program, "BB1")
    BY <1>1 DEF ScheduleInv, Progress
  <1>3. /\ Splittable(program) /\ ii \in Nat /\ ii # 0 /\ stages \in Nat /\ start \in Nat
        /\ \A a \in Placed : cycle[a] \in Nat
        /\ \A a \in PlacedInBody : relative[a] \in Nat
    BY <1>1, StateIs
  <1>4. Span \in Nat
    BY <1>3 DEF Span
  <1>5. Layout /\ InBlock(program, "BB2") \subseteq DOMAIN program.code
    BY DEF ScheduleInv, InBlock
  <1> QED
    BY <1>1, <1>2, <1>3, <1>4, <1>5 DEF Layout

\* A finished schedule can be compacted.
LEMMA InvCompactable ==
    ASSUME ScheduleInv
    PROVE  Compactable
  <1> SUFFICES ASSUME phase = "done" PROVE Compactable
    BY DEF Compactable
  <1>1. /\ Placed = DOMAIN program.code
        /\ ii \in Nat /\ ii # 0 /\ stages \in Nat /\ stages >= 1 /\ start \in Nat
        /\ Span \in Nat
        /\ \A a \in DOMAIN program.code : cycle[a] \in Nat
        /\ \A a \in InBlock(program, "BB0") : cycle[a] < start
        /\ \A a \in InBlock(program, "BB1") :
              relative[a] \in Nat /\ relative[a] < Span /\ cycle[a] = start + relative[a]
        /\ \A a \in InBlock(program, "BB2") : cycle[a] >= start + Span
        /\ relative[Control] = Span - 1
    BY DoneIs
  <1>2. Control \in InBlock(program, "BB1")
    BY AddressesAre DEF Working
  <1>3. stages * ii = Span /\ (stages - 1) * ii = Span - ii
    BY <1>1 DEF Span
  <1>4. \A a \in InBlock(program, "BB1") : cycle[a] \in start .. start + Span - 1
    BY <1>1
  <1>5. cycle[Control] = start + Span - 1 /\ cycle[Control] >= start + (Span - ii)
    BY <1>1, <1>2
  <1> HIDE DEF Span
  <1> QED
    BY <1>1, <1>2, <1>3, <1>4, <1>5 DEF Compactable

\* When the instances of each block execute.
LEMMA TimeIs ==
    ASSUME ScheduleInv, phase = "done", NEW x \in Instances(program, Iterations)
    PROVE  /\ x[1] \in DOMAIN program.code /\ x[2] \in Nat /\ Iterations - 1 \in Nat
           /\ x[2] <= Iterations - 1
           /\ ii * x[2] \in Nat /\ ii * (Iterations - 1) \in Nat
           /\ ii * x[2] <= ii * (Iterations - 1)
           /\ x[1] \in InBlock(program, "BB0") => x[2] = 0 /\ Time(x) = cycle[x[1]]
           /\ x[1] \in InBlock(program, "BB1") => Time(x) = start + relative[x[1]] + ii * x[2]
           /\ x[1] \in InBlock(program, "BB2") =>
                 x[2] = 0 /\ Time(x) = cycle[x[1]] + ii * (Iterations - 1)
  <1>1. Iterations \in Nat \ {0}
    BY LooppipAssumption
  <1>2. /\ x[1] \in DOMAIN program.code /\ x[2] \in Nat /\ x[2] <= Iterations - 1
        /\ (Block(program, x[1]) # "BB1" => x[2] = 0)
    BY <1>1, DoneIs, InstanceIs
  <1>3. Iterations - 1 \in Nat
    BY <1>1
  <1>4. ii \in Nat /\ \A a \in DOMAIN program.code : cycle[a] \in Nat
    BY DoneIs
  <1>5. /\ x[2] * ii \in Nat /\ (Iterations - 1) * ii \in Nat
        /\ x[2] * ii <= (Iterations - 1) * ii
    BY <1>2, <1>3, <1>4, LongerSpan
  <1>6. ii * x[2] = x[2] * ii /\ ii * (Iterations - 1) = (Iterations - 1) * ii
    BY <1>2, <1>3, <1>4
  <1>7. ASSUME x[1] \in InBlock(program, "BB0")
        PROVE  x[2] = 0 /\ Time(x) = cycle[x[1]]
    <2>1. Block(program, x[1]) = "BB0"
      BY <1>7 DEF InBlock
    <2>2. x[2] = 0 /\ Time(x) = cycle[x[1]] + ii * 0
      BY <1>2, <2>1 DEF Time
    <2> QED
      BY <1>2, <1>4, <2>2
  <1>8. ASSUME x[1] \in InBlock(program, "BB1")
        PROVE  Time(x) = start + relative[x[1]] + ii * x[2]
    <2>1. Block(program, x[1]) = "BB1"
      BY <1>8 DEF InBlock
    <2>2. Time(x) = cycle[x[1]] + ii * x[2]
      BY <2>1 DEF Time
    <2>3. cycle[x[1]] = start + relative[x[1]]
      BY <1>8, DoneIs
    <2> QED
      BY <2>2, <2>3
  <1>9. ASSUME x[1] \in InBlock(program, "BB2")
        PROVE  x[2] = 0 /\ Time(x) = cycle[x[1]] + ii * (Iterations - 1)
    <2>1. Block(program, x[1]) = "BB2"
      BY <1>9 DEF InBlock
    <2> QED
      BY <1>2, <2>1 DEF Time
  <1> QED
    BY <1>2, <1>3, <1>5, <1>6, <1>7, <1>8, <1>9

\* One instance of a block executes before what follows the block.
LEMMA TimesApart ==
    ASSUME ScheduleInv, phase = "done",
           NEW x \in Instances(program, Iterations), NEW y \in Instances(program, Iterations),
           \/ x[1] \in InBlock(program, "BB0") /\ y[1] \in InBlock(program, "BB1")
           \/ x[1] \in InBlock(program, "BB0") /\ y[1] \in InBlock(program, "BB2")
           \/ x[1] \in InBlock(program, "BB1") /\ y[1] \in InBlock(program, "BB2")
    PROVE  Time(x) # Time(y)
  <1>1. /\ start \in Nat /\ Span \in Nat
        /\ \A a \in DOMAIN program.code : cycle[a] \in Nat
        /\ \A a \in InBlock(program, "BB0") : cycle[a] < start
        /\ \A a \in InBlock(program, "BB1") : relative[a] \in Nat /\ relative[a] < Span
        /\ \A a \in InBlock(program, "BB2") : cycle[a] >= start + Span
    BY DoneIs
  <1> DEFINE m == ii * x[2]
             n == ii * y[2]
             l == ii * (Iterations - 1)
  <1>2. /\ m \in Nat /\ l \in Nat /\ m <= l /\ x[1] \in DOMAIN program.code
        /\ (x[1] \in InBlock(program, "BB0") => Time(x) = cycle[x[1]])
        /\ (x[1] \in InBlock(program, "BB1") => Time(x) = start + relative[x[1]] + m)
    BY TimeIs
  <1>3. /\ n \in Nat /\ n <= l /\ y[1] \in DOMAIN program.code
        /\ (y[1] \in InBlock(program, "BB1") => Time(y) = start + relative[y[1]] + n)
        /\ (y[1] \in InBlock(program, "BB2") => Time(y) = cycle[y[1]] + l)
    BY TimeIs
  <1> HIDE DEF m, n, l, Span
  <1>4. CASE x[1] \in InBlock(program, "BB0") /\ y[1] \in InBlock(program, "BB1")
    BY <1>1, <1>2, <1>3, <1>4
  <1>5. CASE x[1] \in InBlock(program, "BB0") /\ y[1] \in InBlock(program, "BB2")
    BY <1>1, <1>2, <1>3, <1>5
  <1>6. CASE x[1] \in InBlock(program, "BB1") /\ y[1] \in InBlock(program, "BB2")
    BY <1>1, <1>2, <1>3, <1>6
  <1> QED
    BY <1>4, <1>5, <1>6

\* Two instances at the same time have different slots.
LEMMA SlotsDiffer ==
    ASSUME ScheduleInv, phase = "done",
           NEW x \in Instances(program, Iterations), NEW y \in Instances(program, Iterations),
           Time(x) = Time(y), slot[x[1]] = slot[y[1]]
    PROVE  x = y
  <1>1. /\ x[1] \in DOMAIN program.code /\ y[1] \in DOMAIN program.code
        /\ x[2] \in Nat /\ y[2] \in Nat
    BY TimeIs
  <1>2. /\ Working /\ LoopPlaced
        /\ Placed = DOMAIN program.code /\ PlacedInBody = InBlock(program, "BB1")
        /\ ii \in Nat \ {0} /\ start \in Nat
        /\ \A a \in DOMAIN program.code : cycle[a] \in Nat
        /\ \A a \in InBlock(program, "BB1") : relative[a] \in Nat
    BY DoneIs
  <1>3. x = <<x[1], x[2]>> /\ y = <<y[1], y[2]>>
    BY LooppipAssumption, DoneIs, InstanceIs
  <1>4. \A b, c : x[1] \in InBlock(program, b) /\ y[1] \in InBlock(program, c)
                    /\ b \in {"BB0", "BB1", "BB2"} /\ c \in {"BB0", "BB1", "BB2"} => b = c
    BY TimesApart
  <1>5. \A a \in DOMAIN program.code : \/ a \in InBlock(program, "BB0")
                                       \/ a \in InBlock(program, "BB1")
                                       \/ a \in InBlock(program, "BB2")
    BY <1>2, AddressesAre
  <1>6. \A a, b \in DOMAIN program.code \ InBlock(program, "BB1") :
           cycle[a] = cycle[b] /\ slot[a] = slot[b] => a = b
    BY <1>2 DEF ScheduleInv, SlotsApart
  <1>7. \A a, b \in InBlock(program, "BB1") :
           relative[a] % ii = relative[b] % ii /\ slot[a] = slot[b] => a = b
    BY <1>2 DEF ScheduleInv, SlotsApart
  <1>8. CASE x[1] \in InBlock(program, "BB0") /\ y[1] \in InBlock(program, "BB0")
    <2>1. cycle[x[1]] = cycle[y[1]] /\ x[2] = 0 /\ y[2] = 0
      BY <1>8, TimeIs
    <2>2. x[1] = y[1]
      BY <1>1, <1>2, <1>6, <1>8, <2>1, AddressesAre
    <2> QED
      BY <1>3, <2>1, <2>2
  <1>9. CASE x[1] \in InBlock(program, "BB2") /\ y[1] \in InBlock(program, "BB2")
    <2>1. /\ cycle[x[1]] + ii * (Iterations - 1) = cycle[y[1]] + ii * (Iterations - 1)
          /\ ii * (Iterations - 1) \in Nat /\ x[2] = 0 /\ y[2] = 0
      BY <1>9, TimeIs
    <2>2. cycle[x[1]] = cycle[y[1]]
      <3> DEFINE l == ii * (Iterations - 1)
      <3>1. cycle[x[1]] + l = cycle[y[1]] + l /\ l \in Nat
        BY <2>1
      <3> HIDE DEF l
      <3> QED
        BY <1>1, <1>2, <3>1
    <2>3. x[1] = y[1]
      BY <1>1, <1>2, <1>6, <1>9, <2>2, AddressesAre
    <2> QED
      BY <1>3, <2>1, <2>3
  <1>10. CASE x[1] \in InBlock(program, "BB1") /\ y[1] \in InBlock(program, "BB1")
    <2> DEFINE r == relative[x[1]]
               s == relative[y[1]]
               j == x[2]
               k == y[2]
    <2>1. r \in Nat /\ s \in Nat /\ j \in Nat /\ k \in Nat
      BY <1>1, <1>2, <1>10
    <2>2. start + r + ii * j = start + s + ii * k
      BY <1>10, TimeIs
    <2> HIDE DEF r, s, j, k
    <2>3. PICK u \in Nat : u = ii * j
      BY <1>2, <2>1
    <2>4. PICK v \in Nat : v = ii * k
      BY <1>2, <2>1
    <2>5. r + u = s + v
      <3>1. start + r + u = start + s + v
        BY <2>2, <2>3, <2>4
      <3> QED
        BY <1>2, <2>1, <2>3, <2>4, <3>1
    <2>6. r + (ii * j) = s + (ii * k)
      BY <2>3, <2>4, <2>5
    <2>7. r % ii = s % ii
      BY <1>2, <2>1, <2>6, SameOffset
    <2>8. x[1] = y[1]
      BY <1>7, <1>10, <2>7 DEF r, s
    <2>9. r = s
      BY <2>8 DEF r, s
    <2>10. (ii * j) + 0 = (ii * k) + 0 /\ 0 \in 0 .. ii - 1
      BY <1>2, <2>1, <2>3, <2>4, <2>5, <2>9
    <2>11. j = k
      BY <1>2, <2>1, <2>10, QuotientUnique
    <2> QED
      BY <1>3, <2>8, <2>11 DEF j, k
  <1> QED
    BY <1>1, <1>4, <1>5, <1>8, <1>9, <1>10

\* In the pipelined run no two instances share a slot.
LEMMA InvSlotsNeverShared ==
    ASSUME ScheduleInv
    PROVE  SlotsNeverShared
  <1> SUFFICES ASSUME phase = "done" PROVE SlotsNeverShared
    BY DEF SlotsNeverShared
  <1> DEFINE all == Instances(program, Iterations)
             f == [x \in all |-> <<Time(x), slot[x[1]]>>]
             T == {f[x] : x \in all}
  <1>1. IsFiniteSet(all)
    <2>1. /\ Len(program.code) \in Nat /\ DOMAIN program.code = 1 .. Len(program.code)
          /\ Iterations \in Nat \ {0}
      BY DoneIs, BlocksAre, LooppipAssumption
    <2>2. IsFiniteSet(1 .. Len(program.code)) /\ IsFiniteSet(0 .. Iterations - 1)
      <3>1. 1 \in Int /\ Len(program.code) \in Int /\ 0 \in Int /\ Iterations - 1 \in Int
        BY <2>1
      <3> QED
        BY <3>1, FS_Interval
    <2>3. IsFiniteSet((1 .. Len(program.code)) \X (0 .. Iterations - 1))
      BY <2>2, FS_Product
    <2>4. all \subseteq (1 .. Len(program.code)) \X (0 .. Iterations - 1)
      BY <2>1 DEF Instances, InBlock
    <2> QED
      BY <2>3, <2>4, FS_Subset
  <1>2. \A x, y \in all : f[x] = f[y] => x = y
    <2> SUFFICES ASSUME NEW x \in all, NEW y \in all, f[x] = f[y] PROVE x = y
      OBVIOUS
    <2>1. Time(x) = Time(y) /\ slot[x[1]] = slot[y[1]]
      OBVIOUS
    <2> QED
      BY <2>1, SlotsDiffer
  <1>3. f \in Surjection(all, T)
    BY DEF Surjection
  <1>4. f \in [all -> T]
    OBVIOUS
  <1>5. T = {<<Time(x), slot[x[1]]>> : x \in all}
    OBVIOUS
  <1> HIDE DEF f, T, all
  <1>6. f \in Injection(all, T)
    BY <1>2, <1>4 DEF Injection, IsInjective
  <1>7. Cardinality(T) = Cardinality(all)
    BY <1>1, <1>3, <1>6, FS_Surjection
  <1> QED
    BY <1>5, <1>7 DEF SlotsNeverShared, all

\* A result is there when it is read: the dependency it is read through was respected.
LEMMA InvResultsInTime ==
    ASSUME ScheduleInv
    PROVE  ResultsInTime
  <1> SUFFICES ASSUME phase = "done", NEW x \in Instances(program, Iterations),
                      NEW r \in Reads(Code(x[1])),
                      NEW y \in Reaching(program, Iterations, x, r)
               PROVE  Time(y) + Latency(Code(y[1])) <= Time(x)
    BY DEF ResultsInTime
  <1> DEFINE a == x[1]
             i == x[2]
             b == y[1]
             inner == BlockProducer(program, "BB1", r)
             outer == BlockProducer(program, "BB0", r)
             local == LocalProducer(program, a, r)
             lat == Latency(Code(b))
  <1>1. /\ Working /\ LoopPlaced /\ Splittable(program)
        /\ Placed = DOMAIN program.code /\ PlacedInBody = InBlock(program, "BB1")
        /\ ii \in Nat /\ ii # 0 /\ start \in Nat
        /\ \A z \in DOMAIN program.code : cycle[z] \in Nat
        /\ \A z \in InBlock(program, "BB1") :
              relative[z] \in Nat /\ cycle[z] = start + relative[z]
    BY DoneIs
  <1>2. Iterations \in Nat \ {0}
    BY LooppipAssumption
  <1>3. y \in Instances(program, Iterations)
    BY DEF Reaching
  <1>4. /\ a \in DOMAIN program.code /\ i \in Nat /\ ii * i \in Nat
        /\ ii * (Iterations - 1) \in Nat
        /\ (a \in InBlock(program, "BB0") => i = 0 /\ Time(x) = cycle[a])
        /\ (a \in InBlock(program, "BB1") => Time(x) = start + relative[a] + ii * i)
        /\ (a \in InBlock(program, "BB2") =>
               i = 0 /\ Time(x) = cycle[a] + ii * (Iterations - 1))
    BY TimeIs
  <1>5. /\ b \in DOMAIN program.code
        /\ (b \in InBlock(program, "BB0") => Time(y) = cycle[b])
        /\ (b \in InBlock(program, "BB1") => Time(y) = start + relative[b] + ii * y[2])
        /\ (b \in InBlock(program, "BB2") => Time(y) = cycle[b] + ii * (Iterations - 1))
    BY <1>3, TimeIs
  <1>6. a # Control
    BY <1>1, AddressesAre DEF Reads, Loop
  <1>7. y \in PredictedCase(program, Iterations, x, r)
    <2>1. r \in Reads(program.code[x[1]])
      BY DEF Code
    <2>2. Predicted(program, Iterations, x, r) = PredictedCase(program, Iterations, x, r)
      BY <2>1, PredictedIs
    <2>3. Predicted(program, Iterations, x, r) = Reaching(program, Iterations, x, r)
      BY <1>1, <1>2, <2>1, AnalysisReaches
    <2> QED
      BY <2>2, <2>3
  <1>8. r \in Reads(program.code[a])
    BY DEF Code
  <1>9. lat \in Nat /\ \A c : Ready(b, c) = c + lat
    BY DEF Latency, Ready
  <1>10. \A z \in DOMAIN program.code :
           \/ z \in InBlock(program, "BB0") /\ Block(program, z) = "BB0"
           \/ z \in InBlock(program, "BB1") /\ Block(program, z) = "BB1"
           \/ z \in InBlock(program, "BB2") /\ Block(program, z) = "BB2"
    BY <1>1, AddressesAre
  <1>11. /\ \A d \in TimedDependencies(a) :
               a \notin InBlock(program, "BB1") => Ready(d.producer, cycle[d.producer]) <= cycle[a]
         /\ \A d \in LocalDependencies(program, a) :
               a \in InBlock(program, "BB1") =>
                  Ready(d.producer, relative[d.producer]) <= relative[a]
    BY <1>1, <1>4, <1>6 DEF ScheduleInv, OperandsTimed
  <1>12. /\ a \in InBlock(program, "BB1") =>
               \A d \in InvariantDependencies(program, a) \cup InterloopDependencies(program, a) :
                  d.producer # 0 => Ready(d.producer, cycle[d.producer]) <= cycle[a]
         /\ a \in InBlock(program, "BB1") =>
               \A d \in InterloopDependencies(program, a) :
                  Ready(d.previous, relative[d.previous]) <= relative[a] + ii
    BY <1>1, <1>6 DEF ScheduleInv, LoopTimed, CarriedInTime, Body
  <1>13. CASE r \notin Incoming(program, a)
    <2>1. y = <<local, i>>
      BY <1>7, <1>13 DEF PredictedCase
    <2> DEFINE d == Dependency(r, local, 0)
    <2>2. d \in LocalDependencies(program, a) /\ d.producer = b
      BY <1>8, <1>13, <2>1 DEF LocalDependencies, Dependency
    <2>3. Block(program, b) = Block(program, a) /\ y[2] = i
      BY <1>1, <1>4, <2>1, <2>2, ProducersAre
    <2>4. CASE a \in InBlock(program, "BB1")
      <3>1. b \in InBlock(program, "BB1")
        BY <1>5, <2>3, <2>4 DEF InBlock
      <3>2. relative[b] + lat <= relative[a]
        BY <1>9, <1>11, <2>2, <2>4
      <3>3. Time(x) = start + relative[a] + ii * i /\ Time(y) = start + relative[b] + ii * i
        BY <1>4, <1>5, <2>3, <2>4, <3>1
      <3> DEFINE m == ii * i
      <3>4. m \in Nat /\ Time(x) = start + relative[a] + m /\ Time(y) = start + relative[b] + m
        BY <1>4, <3>3
      <3> HIDE DEF m, lat, a, b
      <3>5. Time(y) + lat <= Time(x)
        BY <1>1, <1>9, <2>4, <3>1, <3>2, <3>4
      <3> QED
        BY <3>5 DEF lat, b
    <2>5. CASE a \notin InBlock(program, "BB1")
      <3>1. \/ b \in InBlock(program, "BB0") /\ a \in InBlock(program, "BB0")
            \/ b \in InBlock(program, "BB2") /\ a \in InBlock(program, "BB2")
        <4>1. Block(program, a) = "BB0" \/ Block(program, a) = "BB2"
          BY <1>4, <1>10, <2>5
        <4>2. /\ b \in InBlock(program, Block(program, a))
              /\ a \in InBlock(program, Block(program, a))
          BY <1>4, <1>5, <2>3 DEF InBlock
        <4> QED
          BY <4>1, <4>2
      <3>2. d \in TimedDependencies(a)
        BY <2>2 DEF TimedDependencies
      <3>3. cycle[b] + lat <= cycle[a]
        BY <1>9, <1>11, <2>2, <2>5, <3>2
      <3> DEFINE l == ii * (Iterations - 1)
      <3>4. \/ Time(x) = cycle[a] /\ Time(y) = cycle[b]
            \/ Time(x) = cycle[a] + l /\ Time(y) = cycle[b] + l
        BY <1>4, <1>5, <3>1
      <3>5. l \in Nat
        BY <1>4
      <3> HIDE DEF l, lat, a, b
      <3>6. Time(y) + lat <= Time(x)
        BY <1>1, <1>4, <1>5, <1>9, <3>3, <3>4, <3>5
      <3> QED
        BY <3>6 DEF lat, b
    <2> QED
      BY <2>4, <2>5
  <1>14. CASE r \in Incoming(program, a) /\ a \in InBlock(program, "BB1") /\ inner # 0
    <2>1. Block(program, a) = "BB1"
      BY <1>14 DEF InBlock
    <2> DEFINE d == Dependency(r, outer, inner)
    <2>2. d \in InterloopDependencies(program, a) /\ d.producer = outer /\ d.previous = inner
      BY <1>14, <2>1 DEF InterloopDependencies, Dependency
    <2>3. y \in (IF i = 0 THEN Producing(outer, 0) ELSE {<<inner, i - 1>>})
      BY <1>7, <1>14, <2>1 DEF PredictedCase
    <2>4. CASE i = 0
      <3>1. outer # 0 /\ b = outer
        BY <2>3, <2>4 DEF Producing
      <3>2. b \in InBlock(program, "BB0")
        BY <1>1, <1>4, <2>2, <3>1, ProducersAre
      <3>3. cycle[b] + lat <= cycle[a]
        BY <1>9, <1>12, <1>14, <2>2, <3>1
      <3>4. Time(y) = cycle[b] /\ Time(x) = start + relative[a] + ii * i
              /\ cycle[a] = start + relative[a]
        BY <1>1, <1>4, <1>5, <1>14, <3>2
      <3> DEFINE m == ii * i
      <3>5. m \in Nat /\ Time(x) = cycle[a] + m /\ cycle[a] \in Nat /\ cycle[b] \in Nat
        BY <1>1, <1>4, <1>5, <1>14, <3>4
      <3> HIDE DEF m, lat, a, b
      <3>6. Time(y) + lat <= Time(x)
        BY <1>9, <3>3, <3>4, <3>5
      <3> QED
        BY <3>6 DEF lat, b
    <2>5. CASE i # 0
      <3>1. b = inner /\ y[2] = i - 1
        BY <2>3, <2>5
      <3>2. b \in InBlock(program, "BB1")
        BY <1>1, <1>4, <2>2, <3>1, ProducersAre DEF Body
      <3>3. relative[b] + lat <= relative[a] + ii
        BY <1>9, <1>12, <1>14, <2>2, <3>1
      <3>4. Time(y) = start + relative[b] + ii * (i - 1) /\ Time(x) = start + relative[a] + ii * i
        BY <1>4, <1>5, <1>14, <3>1, <3>2
      <3>5. ii * i = (ii * (i - 1)) + ii /\ ii * (i - 1) \in Nat
        <4>1. i - 1 \in Nat /\ i = (i - 1) + 1
          BY <1>4, <2>5
        <4> QED
          BY <1>1, <4>1
      <3> DEFINE m == ii * (i - 1)
      <3>6. m \in Nat /\ Time(y) = start + relative[b] + m /\ Time(x) = start + relative[a] + (m + ii)
        BY <3>4, <3>5
      <3>7. relative[a] \in Nat /\ relative[b] \in Nat
        BY <1>1, <1>14, <3>2
      <3> HIDE DEF m, lat, a, b
      <3>8. Time(y) + lat <= Time(x)
        BY <1>1, <1>9, <3>3, <3>6, <3>7
      <3> QED
        BY <3>8 DEF lat, b
    <2> QED
      BY <2>4, <2>5
  <1>15. CASE /\ r \in Incoming(program, a) /\ inner = 0
              /\ a \in InBlock(program, "BB1") \cup InBlock(program, "BB2")
    <2>1. Block(program, a) \in {"BB1", "BB2"}
      BY <1>15 DEF InBlock
    <2>2. y \in Producing(outer, 0)
      BY <1>7, <1>15, <2>1 DEF PredictedCase
    <2>3. outer # 0 /\ b = outer
      BY <2>2 DEF Producing
    <2> DEFINE d == Dependency(r, outer, 0)
    <2>4. d \in InvariantDependencies(program, a) /\ d.producer = outer
      BY <1>15, <2>1, <2>3 DEF InvariantDependencies, Dependency
    <2>5. b \in InBlock(program, "BB0")
      BY <1>1, <1>4, <2>3, <2>4, ProducersAre
    <2>6. cycle[b] + lat <= cycle[a]
      <3>1. CASE a \in InBlock(program, "BB1")
        BY <1>9, <1>12, <2>3, <2>4, <3>1
      <3>2. CASE a \notin InBlock(program, "BB1")
        <4>1. d \in TimedDependencies(a)
          BY <2>4 DEF TimedDependencies
        <4> QED
          BY <1>9, <1>11, <2>3, <2>4, <3>2, <4>1
      <3> QED
        BY <3>1, <3>2
    <2>7. \E m \in Nat : Time(x) = cycle[a] + m
      <3>1. CASE a \in InBlock(program, "BB1")
        BY <1>1, <1>4, <3>1
      <3>2. CASE a \in InBlock(program, "BB2")
        BY <1>4, <3>2
      <3> QED
        BY <1>15, <3>1, <3>2
    <2>8. Time(y) = cycle[b] /\ cycle[b] \in Nat /\ cycle[a] \in Nat
      BY <1>1, <1>4, <1>5, <2>5
    <2> HIDE DEF lat, a, b
    <2>9. Time(y) + lat <= Time(x)
      BY <1>9, <2>6, <2>7, <2>8
    <2> QED
      BY <2>9 DEF lat, b
  <1>16. CASE r \in Incoming(program, a) /\ inner # 0 /\ a \in InBlock(program, "BB2")
    <2>1. Block(program, a) = "BB2"
      BY <1>16 DEF InBlock
    <2>2. y = <<inner, Iterations - 1>>
      BY <1>7, <1>16, <2>1 DEF PredictedCase
    <2> DEFINE d == Dependency(r, inner, 0)
    <2>3. d \in PostLoopDependencies(program, a) /\ d.producer = b /\ y[2] = Iterations - 1
      BY <1>16, <2>1, <2>2 DEF PostLoopDependencies, Dependency
    <2>4. b \in InBlock(program, "BB1")
      BY <1>1, <1>4, <2>3, ProducersAre DEF Body
    <2>5. d \in TimedDependencies(a) /\ a \notin InBlock(program, "BB1")
      BY <2>1, <2>3 DEF TimedDependencies, InBlock
    <2>6. cycle[b] + lat <= cycle[a]
      BY <1>9, <1>11, <2>3, <2>5
    <2>7. Time(y) = start + relative[b] + ii * (Iterations - 1)
            /\ Time(x) = cycle[a] + ii * (Iterations - 1)
      BY <1>4, <1>5, <1>16, <2>3, <2>4
    <2> DEFINE l == ii * (Iterations - 1)
    <2>8. l \in Nat /\ Time(y) = cycle[b] + l /\ Time(x) = cycle[a] + l
      BY <1>1, <1>4, <2>4, <2>7
    <2>9. cycle[a] \in Nat /\ cycle[b] \in Nat
      BY <1>1, <1>4, <1>5
    <2> HIDE DEF l, lat, a, b
    <2>10. Time(y) + lat <= Time(x)
      BY <1>9, <2>6, <2>8, <2>9
    <2> QED
      BY <2>10 DEF lat, b
  <1>17. CASE r \in Incoming(program, a) /\ a \in InBlock(program, "BB0")
    <2>1. Block(program, a) = "BB0"
      BY <1>17 DEF InBlock
    <2>2. y \in {}
      BY <1>7, <1>17, <2>1 DEF PredictedCase
    <2> QED
      BY <2>2
  <1> QED
    BY <1>4, <1>10, <1>13, <1>14, <1>15, <1>16, <1>17

\* The dependency analysis is right about every operand of every instance.
LEMMA InvDependenciesReach ==
    ASSUME ScheduleInv
    PROVE  DependenciesReach
  <1> SUFFICES ASSUME Parsing, NEW x \in Instances(program, Iterations),
                      NEW r \in Reads(Code(x[1]))
               PROVE  Predicted(program, Iterations, x, r) = Reaching(program, Iterations, x, r)
    BY DEF DependenciesReach
  <1>1. Splittable(program)
    BY StateIs DEF Parsing, Working
  <1>2. Iterations \in Nat \ {0} /\ r \in Reads(program.code[x[1]])
    BY LooppipAssumption DEF Code
  <1> QED
    BY <1>1, <1>2, AnalysisReaches

-----------------------------------------------------------------------------
(* The theorems, of the scheduler by itself and of the path it is part of *)

\* The scheduler keeps its invariant.
LEMMA ScheduleKept == SchedulerSpec => []ScheduleInv
  <1>1. SchedulerInit => ScheduleInv
    BY ScheduleStart
  <1>2. ScheduleInv /\ [ScheduleNext \/ (ScheduleEnded /\ UNCHANGED schedulerVars)]_schedulerVars
          => ScheduleInv'
    <2> SUFFICES ASSUME ScheduleInv,
                        [ScheduleNext \/ (ScheduleEnded /\ UNCHANGED schedulerVars)]_schedulerVars
                 PROVE  ScheduleInv'
      OBVIOUS
    <2>1. [ScheduleNext]_schedulerVars
      OBVIOUS
    <2> QED
      BY <2>1, ScheduleStep
  <1> QED
    BY <1>1, <1>2, PTL DEF SchedulerSpec

\* The passes behind the scheduler leave the schedule alone.
LEMMA PathKept == Spec => []ScheduleInv
  <1>1. Init => ScheduleInv
    BY ScheduleStart DEF Init
  <1>2. ScheduleInv /\ [Next]_vars => ScheduleInv'
    <2> SUFFICES ASSUME ScheduleInv, [Next]_vars PROVE ScheduleInv'
      OBVIOUS
    <2>1. CASE Schedule
      BY <2>1, ScheduleStep DEF Schedule
    <2>2. CASE AllocateRegisters
      <3>1. phase' \in {"allocated", "unallocated"}
        BY <2>2 DEF AllocateRegisters, AllocateNext, Allocate, OutOfRegisters
      <3>2. UNCHANGED <<source, program, ii, todo, cycle, relative, slot, stages, start>>
        BY <2>2 DEF AllocateRegisters, AllocateNext
      <3> QED
        BY <3>1, <3>2, GivenUpInv
    <2>3. CASE Prepare
      BY <2>3, GivenUpInv DEF Prepare
    <2>4. CASE Run
      BY <2>4, ScheduleStep DEF Run
    <2>5. CASE UNCHANGED vars
      BY <2>5, ScheduleStep DEF vars
    <2> QED
      BY <2>1, <2>2, <2>3, <2>4, <2>5 DEF Next
  <1> QED
    BY <1>1, <1>2, PTL DEF Spec

\* The tables of the scheduler have the shape that the passes after it rely on.
THEOREM Placements == SchedulerSpec \/ Spec => []PlacementsOK
  <1>1. ScheduleInv => PlacementsOK
    BY DEF ScheduleInv
  <1> QED
    BY <1>1, ScheduleKept, PathKept, PTL

\* Whatever program is parsed, the dependency analysis names for every register that an
\* instruction reads, in every iteration, the instruction whose value it really gets.
THEOREM AnalysisRight == SchedulerSpec \/ Spec => []DependenciesReach
  <1>1. ScheduleInv => DependenciesReach
    BY InvDependenciesReach
  <1> QED
    BY <1>1, ScheduleKept, PathKept, PTL

\* In the pipelined run of a finished schedule no two instructions, of the same or of
\* overlapping iterations, want the same slot of the same cycle.
THEOREM SlotsExclusive == SchedulerSpec \/ Spec => []SlotsNeverShared
  <1>1. ScheduleInv => SlotsNeverShared
    BY InvSlotsNeverShared
  <1> QED
    BY <1>1, ScheduleKept, PathKept, PTL

\* In the pipelined run of a finished schedule every instruction executes after the
\* results that it would read in a sequential run are there.
THEOREM OperandsInTime == SchedulerSpec \/ Spec => []ResultsInTime
  <1>1. ScheduleInv => ResultsInTime
    BY InvResultsInTime
  <1> QED
    BY <1>1, ScheduleKept, PathKept, PTL

\* A finished schedule has its blocks one behind the other, and loop.pip closes the last
\* stage of the loop.
THEOREM BlocksInOrder == SchedulerSpec \/ Spec => []Compactable
  <1>1. ScheduleInv => Compactable
    BY InvCompactable
  <1> QED
    BY <1>1, ScheduleKept, PathKept, PTL

-----------------------------------------------------------------------------
(* The search ends with a schedule *)

\* The search goes no further than a cycle in which nothing is placed.
LEMMA PlacesFirst ==
    ASSUME NEW u \in {"ALU", "Mult", "Mem"}, NEW e \in Nat, NEW l \in Nat, NEW taken,
           NEW c \in Nat, e <= c, \A s \in Slot : <<c, s>> \notin taken
    PROVE  /\ \A at \in Places(u, e .. e + l, taken) : at.cycle <= c
           /\ c <= e + l => Places(u, e .. e + l, taken) # {}
  <1> DEFINE slots == PossibleSlots(u)
             cycles == e .. e + l
             free == {x \in cycles \X DOMAIN slots : <<x[1], slots[x[2]]>> \notin taken}
             Earlier(x, y) == x[1] < y[1] \/ (x[1] = y[1] /\ x[2] <= y[2])
             first == CHOOSE x \in free : \A other \in free : Earlier(x, other)
  <1>1. 1 \in DOMAIN slots /\ slots[1] \in Slot /\ DOMAIN slots \in SUBSET Nat
    BY DEF PossibleSlots, Slot
  <1>2. CASE c > e + l
    <2>1. cycles \in SUBSET Nat
      OBVIOUS
    <2>2. \A at \in Places(u, cycles, taken) : at.cycle \in cycles
      BY <2>1, PlacesIs
    <2> QED
      BY <1>2, <2>2
  <1>3. CASE c <= e + l
    <2>1. <<c, 1>> \in free
      BY <1>1, <1>3
    <2>2. \E x \in free : \A other \in free : Earlier(x, other)
      <3>1. \A x \in free : x[1] \in Nat /\ x[2] \in Nat
        BY <1>1
      <3> DEFINE firsts == {x[1] : x \in free}
      <3>2. firsts \in SUBSET Nat /\ firsts # {}
        BY <2>1, <3>1
      <3>3. PICK b \in firsts : \A d \in firsts : b <= d
        BY <3>2, MinExists
      <3> DEFINE seconds == {x[2] : x \in {y \in free : y[1] = b}}
      <3>4. seconds \in SUBSET Nat /\ seconds # {}
        <4>1. PICK y \in free : y[1] = b
          BY <3>3
        <4>2. y[2] \in seconds
          BY <4>1
        <4> QED
          BY <3>1, <4>2
      <3>5. PICK s \in seconds : \A d \in seconds : s <= d
        BY <3>4, MinExists
      <3>6. PICK x \in free : x[1] = b /\ x[2] = s
        BY <3>5
      <3>7. ASSUME NEW y \in free PROVE Earlier(x, y)
        <4>1. y[1] \in Nat /\ b \in Nat /\ b <= y[1]
          BY <3>1, <3>2, <3>3
        <4>2. y[1] = b => s <= y[2]
          BY <3>5
        <4> HIDE DEF free, firsts, seconds
        <4> QED
          BY <3>6, <4>1, <4>2
      <3> QED
        BY <3>6, <3>7
    <2>3. first \in free /\ Earlier(first, <<c, 1>>)
      BY <2>1, <2>2
    <2>4. Places(u, cycles, taken) = {[cycle |-> first[1], slot |-> slots[first[2]]]}
      BY <2>1 DEF Places
    <2>5. first[1] \in Nat
      <3>1. \A x \in free : x[1] \in Nat
        OBVIOUS
      <3> HIDE DEF first, free
      <3> QED
        BY <2>3, <3>1
    <2>6. first[1] <= c
      <3>1. <<c, 1>>[1] = c
        OBVIOUS
      <3> HIDE DEF first
      <3> QED
        BY <2>3, <2>5, <3>1
    <2> HIDE DEF first, slots, cycles
    <2>7. \A at \in Places(u, cycles, taken) : at.cycle <= c
      BY <2>4, <2>6
    <2>8. Places(u, cycles, taken) # {}
      BY <2>4
    <2> QED
      BY <2>7, <2>8 DEF cycles
  <1> QED
    BY <1>2, <1>3

\* Instructions of a block are placed in the order of their addresses, each at most one
\* product later than the last one.  In the loop this is so once the interval is longer
\* than all of it, when cycles of different offsets do not meet.
Soon ==
    Working =>
        /\ phase \in {"BB0", "BB2"} => \A x \in todo : \A y \in Placed : y < x
        /\ phase = "BB1" => \A x \in todo : \A y \in PlacedInBody : y < x
        /\ \A a \in Placed : Block(program, a) = "BB0" => cycle[a] <= 3 * (a - 1)
        /\ \A a \in Placed : Block(program, a) = "BB2" =>
              cycle[a] <= start + Span + 3 * (a - Control)
        /\ phase = "BB1" /\ ii >= 3 * (Control - program.start) =>
              \A a \in PlacedInBody : relative[a] <= 3 * (a - program.start)

\* The compiler searches as many cycles as products for all instructions take, and its
\* last interval is long enough for the loop's.
RoomToSearch ==
    /\ SearchLimit >= 3 * Len(program.code)
    /\ ResourceInterval(program) + MaxAttempts > 3 * (Control - program.start)

\* The longest that an instruction takes.
LEMMA ReadyBy ==
    ASSUME NEW a, NEW c \in Int
    PROVE  Ready(a, c) \in Int /\ Ready(a, c) <= c + 3
  BY DEF Ready, Latency

\* The addresses of the blocks.
LEMMA BlockAddresses ==
    ASSUME ScheduleInv, Working
    PROVE  /\ Len(program.code) \in Nat /\ DOMAIN program.code = 1 .. Len(program.code)
           /\ program.start \in Nat \ {0} /\ Control \in Nat /\ program.start <= Control
           /\ Control <= Len(program.code)
           /\ InBlock(program, "BB0") = 1 .. program.start - 1
           /\ InBlock(program, "BB1") = program.start .. Control
           /\ InBlock(program, "BB2") = Control + 1 .. Len(program.code)
           /\ Body = program.start .. Control - 1
           /\ \A a \in DOMAIN program.code : \A b : Block(program, a) = b <=> a \in InBlock(program, b)
  <1>1. Splittable(program)
    BY StateIs
  <1>2. /\ Len(program.code) \in Nat /\ DOMAIN program.code = 1 .. Len(program.code)
        /\ Control \in DOMAIN program.code /\ program.start \in 1 .. Control
        /\ InBlock(program, "BB0") = 1 .. program.start - 1
        /\ InBlock(program, "BB1") = program.start .. Control
        /\ InBlock(program, "BB2") = Control + 1 .. Len(program.code)
    BY <1>1, BlocksAre DEF Control
  <1>3. Body = program.start .. Control - 1
    BY <1>2 DEF Body
  <1> QED
    BY <1>2, <1>3 DEF InBlock

\* The cycle by which an instruction outside the loop is placed.
LatestCycle(a) == IF phase = "BB0" THEN 3 * (a - 1) ELSE start + Span + 3 * (a - Control)

\* Its operands are there by then, and nothing else has this cycle.
LEMMA FreeCycle ==
    ASSUME ScheduleInv, Soon, phase \in {"BB0", "BB2"}, NEW a \in todo, \A b \in todo : a <= b
    PROVE  /\ LatestCycle(a) \in Nat /\ EarliestCycle(a) \in Nat
           /\ EarliestCycle(a) <= LatestCycle(a)
           /\ LatestCycle(a) <= EarliestCycle(a) + 3 * Len(program.code)
           /\ \A b \in Placed : cycle[b] < LatestCycle(a)
  <1>1. Working
    BY DEF Working
  <1>2. /\ a \in DOMAIN program.code /\ ii \in Nat \ {0} /\ stages \in Nat /\ start \in Nat
        /\ Span \in Nat
        /\ \A b \in Placed : b \in DOMAIN program.code /\ cycle[b] \in Nat
    <2>1. stages \in Nat /\ ii \in Nat
      BY <1>1, StateIs
    <2> QED
      BY <1>1, <2>1, StateIs DEF Span
  <1>3. /\ Len(program.code) \in Nat /\ DOMAIN program.code = 1 .. Len(program.code)
        /\ program.start \in Nat \ {0} /\ Control \in Nat /\ program.start <= Control
        /\ Control <= Len(program.code)
        /\ InBlock(program, "BB0") = 1 .. program.start - 1
        /\ InBlock(program, "BB1") = program.start .. Control
        /\ InBlock(program, "BB2") = Control + 1 .. Len(program.code)
        /\ \A x \in DOMAIN program.code : \A b : Block(program, x) = b <=> x \in InBlock(program, b)
    BY <1>1, BlockAddresses
  <1>4. \A b \in Placed : b < a
    BY <1>1 DEF Soon
  <1>5. /\ phase = "BB0" => /\ a \in InBlock(program, "BB0")
                            /\ \A b \in Placed : cycle[b] <= 3 * (b - 1)
        /\ phase = "BB2" =>
              /\ a \in InBlock(program, "BB2") /\ Span >= 1
              /\ \A b \in Placed : \/ cycle[b] < start + Span
                                   \/ b > Control /\ cycle[b] <= start + Span + 3 * (b - Control)
    <2>1. CASE phase = "BB0"
      <3>1. todo \subseteq InBlock(program, "BB0") /\ Placed = InBlock(program, "BB0") \ todo
        BY <2>1 DEF ScheduleInv, Progress
      <3> QED
        BY <1>1, <1>2, <1>3, <2>1, <3>1 DEF Soon
    <2>2. CASE phase = "BB2"
      <3>1. todo \subseteq InBlock(program, "BB2") /\ LoopPlaced
        BY <2>2 DEF ScheduleInv, Progress, LoopPlaced
      <3>2. /\ stages >= 1
            /\ \A x \in InBlock(program, "BB1") :
                  relative[x] < Span /\ cycle[x] = start + relative[x]
            /\ \A x \in InBlock(program, "BB0") : cycle[x] < start
        BY <3>1 DEF ScheduleInv, Layout
      <3>3. Span >= 1
        <4>1. \A m, n \in Nat : m >= 1 /\ n >= 1 => m * n >= 1
          OBVIOUS
        <4> QED
          BY <1>2, <3>2, <4>1 DEF Span
      <3>4. \A x \in InBlock(program, "BB1") : relative[x] \in Nat
        <4>1. PlacedInBody = InBlock(program, "BB1")
          BY <3>1 DEF ScheduleInv, Progress
        <4> QED
          BY <1>1, <4>1, StateIs
      <3>5. ASSUME NEW b \in Placed
            PROVE  \/ cycle[b] < start + Span
                   \/ b > Control /\ cycle[b] <= start + Span + 3 * (b - Control)
        <4>1. CASE b \in InBlock(program, "BB0")
          BY <1>2, <3>2, <4>1
        <4>2. CASE b \in InBlock(program, "BB1")
          BY <1>2, <3>2, <3>4, <4>2
        <4>3. CASE b \in InBlock(program, "BB2")
          BY <1>1, <1>2, <1>3, <4>3 DEF Soon
        <4> QED
          BY <1>2, <1>3, <4>1, <4>2, <4>3
      <3> QED
        BY <2>2, <3>1, <3>3, <3>5
    <2> QED
      BY <2>1, <2>2
  <1>6. /\ LatestCycle(a) \in Nat
        /\ \A b \in Placed : cycle[b] + 3 <= LatestCycle(a)
        /\ MinimumCycle \in Nat /\ MinimumCycle <= LatestCycle(a)
        /\ LatestCycle(a) <= MinimumCycle + 3 * Len(program.code)
    <2>1. CASE phase = "BB0"
      <3>1. LatestCycle(a) = 3 * (a - 1) /\ MinimumCycle = 0
        BY <2>1 DEF LatestCycle, MinimumCycle
      <3>2. a \in Nat /\ 1 <= a /\ a <= Len(program.code)
        BY <1>2, <1>3
      <3>3. \A b \in Placed : cycle[b] <= 3 * (b - 1) /\ b < a /\ b \in Nat /\ cycle[b] \in Nat
        BY <1>2, <1>3, <1>4, <1>5, <2>1
      <3> QED
        BY <1>3, <3>1, <3>2, <3>3
    <2>2. CASE phase = "BB2"
      <3>1. LatestCycle(a) = start + Span + 3 * (a - Control) /\ MinimumCycle = start + Span
        BY <2>2 DEF LatestCycle, MinimumCycle, Span
      <3>2. a \in Nat /\ Control < a /\ a <= Len(program.code)
        BY <1>2, <1>3, <1>5, <2>2
      <3>3. \A b \in Placed : /\ b < a /\ b \in Nat /\ cycle[b] \in Nat
                              /\ \/ cycle[b] < start + Span
                                 \/ b > Control /\ cycle[b] <= start + Span + 3 * (b - Control)
        BY <1>2, <1>3, <1>4, <1>5, <2>2
      <3>4. start + Span \in Nat
        BY <1>2
      <3> DEFINE m == start + Span
      <3> HIDE DEF m
      <3>5. m \in Nat /\ LatestCycle(a) = m + 3 * (a - Control) /\ MinimumCycle = m
        BY <3>1, <3>4 DEF m
      <3>6. ASSUME NEW b \in Placed PROVE cycle[b] + 3 <= LatestCycle(a)
        <4>1. /\ b < a /\ b \in Nat /\ cycle[b] \in Nat
              /\ cycle[b] < m \/ (b > Control /\ cycle[b] <= m + 3 * (b - Control))
          BY <3>3 DEF m
        <4>2. a - Control >= 1
          BY <1>3, <3>2
        <4>3. CASE cycle[b] < m
          BY <1>3, <3>2, <3>5, <4>1, <4>2, <4>3
        <4>4. CASE b > Control /\ cycle[b] <= m + 3 * (b - Control)
          BY <1>3, <3>2, <3>5, <4>1, <4>4
        <4> QED
          BY <4>1, <4>3, <4>4
      <3>7. /\ LatestCycle(a) \in Nat /\ MinimumCycle <= LatestCycle(a)
            /\ LatestCycle(a) <= MinimumCycle + 3 * Len(program.code)
        BY <1>3, <3>2, <3>5
      <3> QED
        BY <3>5, <3>6, <3>7
    <2> QED
      BY <2>1, <2>2
  <1>7. EarliestCycle(a) \in Nat /\ MinimumCycle <= EarliestCycle(a)
    BY EarliestCycleIs
  <1>8. EarliestCycle(a) <= LatestCycle(a)
    <2>1. CASE EarliestCycle(a) = MinimumCycle
      BY <1>6, <2>1
    <2>2. CASE \E d \in TimedDependencies(a) :
                  EarliestCycle(a) = Ready(d.producer, cycle[d.producer])
      <3>1. PICK d \in TimedDependencies(a) :
               EarliestCycle(a) = Ready(d.producer, cycle[d.producer])
        BY <2>2
      <3>2. d.producer \in Placed
        BY OperandsPlaced
      <3>3. cycle[d.producer] \in Nat
        BY <1>2, <3>2
      <3>4. Ready(d.producer, cycle[d.producer]) <= cycle[d.producer] + 3
        BY <3>3, ReadyBy
      <3> QED
        BY <1>6, <1>7, <3>1, <3>2, <3>3, <3>4
    <2> QED
      BY <2>1, <2>2, EarliestCycleIs
  <1> QED
    BY <1>2, <1>3, <1>6, <1>7, <1>8

\* So an instruction outside the loop is placed by then, and no search fails if there is
\* room for it.
LEMMA PlacedByThen ==
    ASSUME ScheduleInv, Soon, phase \in {"BB0", "BB2"}, todo # {}, NEW a, a = Smallest(todo)
    PROVE  /\ a \in todo /\ \A b \in todo : a <= b
           /\ \A at \in AbsolutePlaces(a) : at.cycle <= LatestCycle(a)
           /\ RoomToSearch => AbsolutePlaces(a) # {}
  <1>1. Working
    BY DEF Working
  <1>2. a \in todo /\ \A b \in todo : a <= b
    <2>1. todo \in SUBSET Nat
      BY <1>1, StateIs, AddressesAre
    <2> QED
      BY <2>1, SmallestIs
  <1>3. Code(a).unit \in {"ALU", "Mult", "Mem"}
    <2>1. todo \subseteq InBlock(program, "BB0") \/ todo \subseteq InBlock(program, "BB2")
      BY <1>1 DEF ScheduleInv, Progress, LoopPlaced
    <2>2. a \in DOMAIN program.code \ {Control}
      BY <1>1, <1>2, <2>1, AddressesAre
    <2> QED
      BY <1>1, <2>2, AddressesAre
  <1> DEFINE c == LatestCycle(a)
             e == EarliestCycle(a)
  <1>4. /\ c \in Nat /\ e \in Nat /\ e <= c /\ c <= e + 3 * Len(program.code)
        /\ \A b \in Placed : cycle[b] < c
    BY <1>2, FreeCycle
  <1>5. SearchLimit \in Nat /\ Len(program.code) \in Nat
    BY <1>1, BlockAddresses, LooppipAssumption
  <1>6. \A s \in Slot : <<c, s>> \notin Occupied(e .. e + SearchLimit)
    <2>1. \A b \in Placed : cycle[b] # c
      <3>1. \A b \in Placed : cycle[b] \in Nat
        BY <1>1, StateIs
      <3> HIDE DEF c
      <3> QED
        BY <1>4, <3>1
    <2> HIDE DEF c, e
    <2> QED
      BY <2>1 DEF Occupied
  <1>7. AbsolutePlaces(a) = Places(Code(a).unit, e .. e + SearchLimit,
                                   Occupied(e .. e + SearchLimit))
    BY DEF AbsolutePlaces, Window
  <1> HIDE DEF c, e
  <1>8. /\ \A at \in AbsolutePlaces(a) : at.cycle <= c
        /\ c <= e + SearchLimit => AbsolutePlaces(a) # {}
    <2> DEFINE u == Code(a).unit
               taken == Occupied(e .. e + SearchLimit)
    <2>1. /\ u \in {"ALU", "Mult", "Mem"} /\ e \in Nat /\ SearchLimit \in Nat /\ c \in Nat
          /\ e <= c /\ \A s \in Slot : <<c, s>> \notin taken
      BY <1>3, <1>4, <1>5, <1>6
    <2>2. AbsolutePlaces(a) = Places(u, e .. e + SearchLimit, taken)
      BY <1>7
    <2> HIDE DEF u, taken
    <2>3. /\ \A at \in Places(u, e .. e + SearchLimit, taken) : at.cycle <= c
          /\ c <= e + SearchLimit => Places(u, e .. e + SearchLimit, taken) # {}
      BY <2>1, PlacesFirst, Zenon
    <2> QED
      BY <2>2, <2>3
  <1>9. RoomToSearch => c <= e + SearchLimit
    BY <1>4, <1>5 DEF RoomToSearch
  <1> QED
    BY <1>2, <1>8, <1>9 DEF c

\* In the loop, with a long interval, operands are there by this cycle of the iteration, and
\* no other instruction has its offset.
LEMMA FreeOffset ==
    ASSUME ScheduleInv, Soon, phase = "BB1", ii >= 3 * (Control - program.start),
           NEW a \in todo, \A b \in todo : a <= b, NEW c, c = 3 * (a - program.start)
    PROVE  /\ c \in Nat /\ EarliestInBody(a) \in Nat /\ EarliestInBody(a) <= c
           /\ c <= 3 * Len(program.code) /\ c < ii
           /\ \A b \in PlacedInBody : relative[b] % ii # c % ii
           /\ ~SelfTooLong(a)
  <1>1. Working
    BY DEF Working
  <1>2. /\ a \in DOMAIN program.code /\ ii \in Nat \ {0}
        /\ \A b \in PlacedInBody : b \in DOMAIN program.code /\ relative[b] \in Nat
    BY <1>1, StateIs
  <1>3. /\ Len(program.code) \in Nat /\ DOMAIN program.code = 1 .. Len(program.code)
        /\ program.start \in Nat \ {0} /\ Control \in Nat /\ program.start <= Control
        /\ Control <= Len(program.code)
        /\ Body = program.start .. Control - 1
        /\ InBlock(program, "BB1") = program.start .. Control
        /\ \A x \in DOMAIN program.code : \A b : Block(program, x) = b <=> x \in InBlock(program, b)
    BY <1>1, BlockAddresses
  <1>4. todo \subseteq Body /\ PlacedInBody = Body \ todo
    BY DEF ScheduleInv, Progress
  <1>5. a \in Nat /\ program.start <= a /\ a < Control
    BY <1>3, <1>4
  <1>6. /\ c \in Nat /\ c <= 3 * Len(program.code) /\ c + 3 <= ii
        /\ c + 3 <= 3 * (Control - program.start)
    <2>1. c + 3 <= 3 * (Control - program.start)
      BY <1>3, <1>5
    <2>2. c \in Nat /\ c <= 3 * Len(program.code)
      BY <1>3, <1>5
    <2>3. Control - program.start \in Int
      BY <1>3
    <2> QED
      BY <1>2, <2>1, <2>2, <2>3
  <1>7. \A b \in PlacedInBody :
           b \in Nat /\ b < a /\ b < Control /\ relative[b] <= 3 * (b - program.start)
    BY <1>1, <1>3, <1>4 DEF Soon
  <1>8. ASSUME NEW b \in PlacedInBody PROVE relative[b] + 3 <= c
    <2>1. b \in Nat /\ b < a /\ relative[b] \in Nat /\ relative[b] <= 3 * (b - program.start)
      BY <1>2, <1>7
    <2> QED
      BY <1>3, <1>5, <2>1
  <1>9. EarliestInBody(a) \in Nat
    BY EarliestInBodyIs
  <1>10. EarliestInBody(a) <= c
    <2>1. CASE EarliestInBody(a) = 0
      BY <1>6, <2>1
    <2>2. CASE \E d \in LocalDependencies(program, a) :
                  EarliestInBody(a) = Ready(d.producer, relative[d.producer])
      <3>1. PICK d \in LocalDependencies(program, a) :
               EarliestInBody(a) = Ready(d.producer, relative[d.producer])
        BY <2>2
      <3>2. /\ d.producer \in DOMAIN program.code \ {Control} /\ d.producer < a
            /\ Block(program, d.producer) = Block(program, a)
        BY <1>1, <1>2, ProducersAre
      <3>3. d.producer \in PlacedInBody
        <4>1. d.producer \in Body
          <5>1. a \in InBlock(program, "BB1")
            BY <1>3, <1>5
          <5>2. Block(program, a) = "BB1"
            BY <5>1 DEF InBlock
          <5>3. d.producer \in InBlock(program, "BB1") /\ d.producer # Control
            BY <3>2, <5>2 DEF InBlock
          <5> QED
            BY <1>3, <5>3
        <4>2. d.producer \notin todo
          BY <1>3, <1>5, <3>2
        <4> QED
          BY <1>4, <4>1, <4>2
      <3>4. Ready(d.producer, relative[d.producer]) <= relative[d.producer] + 3
        BY <1>2, <3>3, ReadyBy
      <3> QED
        BY <1>2, <1>6, <1>8, <1>9, <3>1, <3>3, <3>4
    <2>3. CASE \E d \in InterloopDependencies(program, a) :
                  /\ d.previous \in PlacedInBody
                  /\ EarliestInBody(a) = Ready(d.previous, relative[d.previous]) - ii
      <3>1. PICK d \in InterloopDependencies(program, a) :
               /\ d.previous \in PlacedInBody
               /\ EarliestInBody(a) = Ready(d.previous, relative[d.previous]) - ii
        BY <2>3
      <3>2. relative[d.previous] \in Nat /\ relative[d.previous] + 3 <= c
        BY <1>2, <1>8, <3>1
      <3>3. /\ Ready(d.previous, relative[d.previous]) \in Int
            /\ Ready(d.previous, relative[d.previous]) <= relative[d.previous] + 3
        BY <3>2, ReadyBy
      <3>4. EarliestInBody(a) = Ready(d.previous, relative[d.previous]) - ii
        BY <3>1
      <3> DEFINE r == Ready(d.previous, relative[d.previous])
                 p == relative[d.previous]
      <3> HIDE DEF r, p
      <3>5. r \in Int /\ r <= p + 3 /\ EarliestInBody(a) = r - ii /\ p \in Nat /\ p + 3 <= c
        BY <3>2, <3>3, <3>4 DEF r, p
      <3> QED
        BY <1>2, <1>6, <3>5
    <2> QED
      BY <2>1, <2>2, <2>3, EarliestInBodyIs
  <1>11. ASSUME NEW b \in PlacedInBody PROVE relative[b] % ii # c % ii
    <2>1. relative[b] \in Nat /\ relative[b] < c /\ c < ii /\ c \in Nat /\ ii \in Nat \ {0}
      BY <1>2, <1>6, <1>8
    <2>2. relative[b] % ii = relative[b] /\ c % ii = c
      BY <2>1
    <2> QED
      BY <2>1, <2>2
  <1>12. ~SelfTooLong(a)
    <2>1. Latency(Code(a)) <= 3
      BY DEF Latency
    <2>2. ii >= 3 /\ Latency(Code(a)) \in Nat
      BY <1>2, <1>6 DEF Latency
    <2> QED
      BY <1>2, <2>1, <2>2 DEF SelfTooLong
  <1> QED
    BY <1>2, <1>6, <1>9, <1>10, <1>11, <1>12

\* So it is placed by then.
LEMMA PlacedInLoopByThen ==
    ASSUME ScheduleInv, Soon, phase = "BB1", todo # {}, NEW a, a = Smallest(todo),
           ii >= 3 * (Control - program.start)
    PROVE  /\ \A at \in RelativePlaces(a) : at.cycle <= 3 * (a - program.start)
           /\ RoomToSearch => RelativePlaces(a) # {} /\ ~SelfTooLong(a)
  <1>1. Working
    BY DEF Working
  <1>2. a \in todo /\ \A b \in todo : a <= b
    <2>1. todo \in SUBSET Nat
      BY <1>1, StateIs, AddressesAre
    <2> QED
      BY <2>1, SmallestIs
  <1>3. Code(a).unit \in {"ALU", "Mult", "Mem"}
    <2>1. todo \subseteq Body
      BY DEF ScheduleInv, Progress
    <2>2. a \in DOMAIN program.code \ {Control}
      BY <1>1, <1>2, <2>1, AddressesAre
    <2> QED
      BY <1>1, <2>2, AddressesAre
  <1> DEFINE c == 3 * (a - program.start)
             e == EarliestInBody(a)
  <1>4. /\ c \in Nat /\ e \in Nat /\ e <= c /\ c <= 3 * Len(program.code)
        /\ \A b \in PlacedInBody : relative[b] % ii # c % ii
        /\ ~SelfTooLong(a)
    BY <1>2, FreeOffset
  <1>5. SearchLimit \in Nat /\ Len(program.code) \in Nat
    BY <1>1, BlockAddresses, LooppipAssumption
  <1>6. RelativePlaces(a) = Places(Code(a).unit, e .. e + SearchLimit,
                                   Reserved(e .. e + SearchLimit))
    BY DEF RelativePlaces, Window
  <1> HIDE DEF c, e
  <1>7. \A s \in Slot : <<c, s>> \notin Reserved(e .. e + SearchLimit)
    BY <1>4 DEF Reserved
  <1>8. /\ \A at \in RelativePlaces(a) : at.cycle <= c
        /\ c <= e + SearchLimit => RelativePlaces(a) # {}
    <2> DEFINE u == Code(a).unit
               taken == Reserved(e .. e + SearchLimit)
    <2>1. /\ u \in {"ALU", "Mult", "Mem"} /\ e \in Nat /\ SearchLimit \in Nat /\ c \in Nat
          /\ e <= c /\ \A s \in Slot : <<c, s>> \notin taken
      BY <1>3, <1>4, <1>5, <1>7
    <2>2. RelativePlaces(a) = Places(u, e .. e + SearchLimit, taken)
      BY <1>6
    <2> HIDE DEF u, taken
    <2>3. /\ \A at \in Places(u, e .. e + SearchLimit, taken) : at.cycle <= c
          /\ c <= e + SearchLimit => Places(u, e .. e + SearchLimit, taken) # {}
      BY <2>1, PlacesFirst, Zenon
    <2> QED
      BY <2>2, <2>3
  <1>9. RoomToSearch => c <= e + SearchLimit
    BY <1>4, <1>5 DEF RoomToSearch
  <1> QED
    BY <1>4, <1>8, <1>9 DEF c

\* Then every carried value is in time.
LEMMA CarriedByThen ==
    ASSUME ScheduleInv, Soon, phase = "BB1", todo = {}, ii >= 3 * (Control - program.start)
    PROVE  CarriedInTime
  <1>1. Working
    BY DEF Working
  <1>2. /\ ii \in Nat
        /\ \A b \in PlacedInBody : b \in DOMAIN program.code /\ relative[b] \in Nat
    BY <1>1, StateIs
  <1>3. /\ program.start \in Nat /\ Control \in Nat /\ Body = program.start .. Control - 1
    BY <1>1, BlockAddresses
  <1>4. PlacedInBody = Body
    BY DEF ScheduleInv, Progress
  <1>5. SUFFICES ASSUME NEW a \in Body, NEW d \in InterloopDependencies(program, a)
                 PROVE  Ready(d.previous, relative[d.previous]) <= relative[a] + ii
    BY DEF CarriedInTime
  <1>6. d.previous \in Body
    BY <1>1, <1>2, <1>4, ProducersAre
  <1>7. /\ relative[d.previous] \in Nat /\ relative[a] \in Nat
        /\ relative[d.previous] <= 3 * (d.previous - program.start)
    BY <1>1, <1>2, <1>4, <1>6 DEF Soon
  <1>8. /\ Ready(d.previous, relative[d.previous]) \in Int
        /\ Ready(d.previous, relative[d.previous]) <= relative[d.previous] + 3
    BY <1>7, ReadyBy
  <1>9. relative[d.previous] + 3 <= ii
    <2>1. d.previous \in Nat /\ d.previous <= Control - 1
      BY <1>3, <1>6
    <2> DEFINE p == d.previous
               r == relative[d.previous]
               k == Control
               s == program.start
    <2>2. /\ p \in Nat /\ p <= k - 1 /\ r \in Nat /\ r <= 3 * (p - s) /\ k \in Nat /\ s \in Nat
          /\ ii \in Nat /\ ii >= 3 * (k - s)
      BY <1>2, <1>3, <1>7, <2>1
    <2> HIDE DEF p, r, k, s
    <2>3. r + 3 <= ii
      BY <2>2
    <2> QED
      BY <2>3 DEF r
  <1> QED
    BY <1>2, <1>7, <1>8, <1>9

\* The last interval is long.
LEMMA LastInterval ==
    ASSUME ScheduleInv, Working, RoomToSearch, ii + 1 >= ResourceInterval(program) + MaxAttempts
    PROVE  ii >= 3 * (Control - program.start)
  <1>1. ii \in Nat /\ Splittable(program)
    BY StateIs
  <1>2. program.start \in Nat /\ Control \in Nat
    BY BlockAddresses
  <1>3. ResourceInterval(program) \in Nat /\ MaxAttempts \in Nat
    BY <1>1, ResourceIntervalIs, LooppipAssumption
  <1> DEFINE r == ResourceInterval(program)
             m == 3 * (Control - program.start)
  <1>4. m \in Int /\ r \in Nat /\ r + MaxAttempts > m /\ ii + 1 >= r + MaxAttempts
    BY <1>2, <1>3 DEF RoomToSearch
  <1> HIDE DEF r, m
  <1>5. ii >= m
    BY <1>1, <1>3, <1>4
  <1> QED
    BY <1>5 DEF m

\* What a step does to the bounds, and that no search fails with room.
LEMMA SoonStep ==
    ASSUME ScheduleInv, Soon, [ScheduleNext]_schedulerVars
    PROVE  Soon' /\ (RoomToSearch /\ phase # "failed" => phase' # "failed")
  <1>1. ASSUME NEW p, Restart(p), phase' = "BB0", p = program', Splittable(p) PROVE Soon'
    <2>1. Placed' = {} /\ PlacedInBody' = {}
      BY <1>1 DEF Restart, Placed, PlacedInBody
    <2> QED
      BY <1>1, <2>1 DEF Soon
  <1>2. CASE Parse
    <2>1. Splittable(program') /\ phase' = "BB0" /\ Restart(program')
      <3>1. source.code \in Seq(Instruction \cup {Nop}) /\ source.target \in Int
        BY DEF ScheduleInv, PlacementsOK
      <3> QED
        BY <1>2, <3>1, ParsedIs DEF Parse
    <2> QED
      BY <1>1, <2>1
  <1>3. CASE ParseError
    BY <1>3 DEF ParseError, Soon, Working
  <1>4. CASE PlaceInCycle
    <2>1. /\ phase \in {"BB0", "BB2"} /\ todo # {} /\ Working
          /\ UNCHANGED <<source, program, phase, ii, relative, stages, start>>
      BY <1>4 DEF PlaceInCycle, Working
    <2> DEFINE a == Smallest(todo)
    <2>2. PICK at \in AbsolutePlaces(a) : cycle' = [cycle EXCEPT ![a] = at.cycle]
      BY <1>4 DEF PlaceInCycle
    <2>3. todo' = todo \ {a}
      BY <1>4 DEF PlaceInCycle
    <2> HIDE DEF a
    <2>4. /\ a \in todo /\ (\A b \in todo : a <= b) /\ at.cycle <= LatestCycle(a)
      BY <2>1, <2>2, PlacedByThen DEF a
    <2>5. a \in DOMAIN program.code /\ DOMAIN cycle = DOMAIN program.code
      BY <2>1, <2>4, StateIs
    <2>6. /\ cycle'[a] = at.cycle /\ DOMAIN cycle' = DOMAIN cycle
          /\ \A b \in DOMAIN program.code : b # a => cycle'[b] = cycle[b]
      BY <2>2, <2>5
    <2>7. Placed' \subseteq Placed \cup {a} /\ a \notin Placed
      <3>1. Placed' \subseteq Placed \cup {a}
        BY <2>5, <2>6 DEF Placed
      <3>2. todo \cap Placed = {}
        BY <2>1 DEF ScheduleInv, Progress, LoopPlaced
      <3> QED
        BY <2>4, <3>1, <3>2
    <2>8. Control' = Control /\ Span' = Span
      BY <2>1, ProgramKept DEF Span
    <2>9. \A x \in todo' : \A y \in Placed' : y < x
      <3>1. \A x \in todo : \A y \in Placed : y < x
        BY <2>1 DEF Soon
      <3>2. \A x \in todo : x \in Nat
        BY <2>1, StateIs, AddressesAre
      <3>3. \A x \in todo \ {a} : a < x
        BY <2>4, <3>2
      <3> QED
        BY <2>3, <2>7, <3>1, <3>3
    <2>10. a \in InBlock(program, phase)
      BY <2>1, <2>4 DEF ScheduleInv, Progress, LoopPlaced
    <2>11. Block(program, a) = phase
      BY <2>10 DEF InBlock
    <2>12. \A b \in Placed' : b # a => b \in Placed /\ cycle'[b] = cycle[b]
      BY <2>5, <2>6, <2>7 DEF Placed
    <2>13. \A b \in Placed' : Block(program, b) = "BB0" => cycle'[b] <= 3 * (b - 1)
      BY <2>1, <2>4, <2>6, <2>11, <2>12 DEF Soon, LatestCycle
    <2>14. \A b \in Placed' : Block(program, b) = "BB2" =>
              cycle'[b] <= start + Span + 3 * (b - Control)
      BY <2>1, <2>4, <2>6, <2>11, <2>12 DEF Soon, LatestCycle
    <2> QED
      BY <2>1, <2>8, <2>9, <2>13, <2>14 DEF Soon
  <1>5. CASE NoCycleLeft
    <2>1. /\ phase \in {"BB0", "BB2"} /\ todo # {} /\ phase' = "failed"
          /\ AbsolutePlaces(Smallest(todo)) = {}
      BY <1>5 DEF NoCycleLeft
    <2>2. ~RoomToSearch
      BY <2>1, PlacedByThen
    <2> QED
      BY <2>1, <2>2 DEF Soon, Working
  <1>6. CASE FinishBB0
    <2>1. /\ phase = "BB0" /\ phase' = "BB1" /\ Working
          /\ UNCHANGED <<source, program, ii, cycle, relative, slot, stages, start>>
      BY <1>6 DEF FinishBB0, Working
    <2>2. PlacedInBody = {}
      BY <2>1 DEF ScheduleInv, Progress
    <2>3. Placed' = Placed /\ PlacedInBody' = {} /\ Control' = Control /\ Span' = Span
      BY <2>1, <2>2, ProgramKept DEF Placed, PlacedInBody, Span
    <2> QED
      BY <2>1, <2>3 DEF Soon
  <1>7. CASE FinishBB2
    <2>1. /\ phase = "BB2" /\ phase' = "done" /\ Working
          /\ UNCHANGED <<source, program, ii, cycle, relative, slot, stages, start>>
      BY <1>7 DEF FinishBB2, Working
    <2>2. Placed' = Placed /\ PlacedInBody' = PlacedInBody /\ Control' = Control /\ Span' = Span
      BY <2>1, ProgramKept DEF Placed, PlacedInBody, Span
    <2> QED
      BY <2>1, <2>2 DEF Soon
  <1>8. CASE PlaceModulo
    <2>1. /\ phase = "BB1" /\ todo # {} /\ Working
          /\ UNCHANGED <<source, program, phase, ii, cycle, start>>
      BY <1>8 DEF PlaceModulo, Working
    <2> DEFINE a == Smallest(todo)
    <2>2. PICK at \in RelativePlaces(a) : relative' = [relative EXCEPT ![a] = at.cycle]
      BY <1>8 DEF PlaceModulo
    <2>3. todo' = todo \ {a}
      BY <1>8 DEF PlaceModulo
    <2>4. a \in todo /\ \A b \in todo : a <= b
      <3>1. todo \in SUBSET Nat
        BY <2>1, StateIs, AddressesAre
      <3> QED
        BY <2>1, <3>1, SmallestIs
    <2>5. ii >= 3 * (Control - program.start) => at.cycle <= 3 * (a - program.start)
      BY <2>1, <2>2, PlacedInLoopByThen
    <2> HIDE DEF a
    <2>6. a \in DOMAIN program.code /\ DOMAIN relative = DOMAIN program.code
      BY <2>1, <2>4, StateIs
    <2>7. /\ relative'[a] = at.cycle /\ DOMAIN relative' = DOMAIN relative
          /\ \A b \in DOMAIN program.code : b # a => relative'[b] = relative[b]
      BY <2>2, <2>6
    <2>8. /\ PlacedInBody' \subseteq PlacedInBody \cup {a}
          /\ \A b \in PlacedInBody' : b # a => b \in PlacedInBody /\ relative'[b] = relative[b]
      BY <2>6, <2>7 DEF PlacedInBody
    <2>9. Placed' = Placed /\ Control' = Control
      BY <2>1, ProgramKept DEF Placed
    <2>10. \A x \in todo' : \A y \in PlacedInBody' : y < x
      <3>1. \A x \in todo : \A y \in PlacedInBody : y < x
        BY <2>1 DEF Soon
      <3>2. \A x \in todo : x \in Nat
        BY <2>1, StateIs, AddressesAre
      <3>3. \A x \in todo \ {a} : a < x
        BY <2>4, <3>2
      <3> QED
        BY <2>3, <2>8, <3>1, <3>3
    <2>11. \A b \in Placed : Block(program, b) # "BB2"
      <3>1. Placed = InBlock(program, "BB0")
        BY <2>1 DEF ScheduleInv, Progress
      <3> QED
        BY <3>1 DEF InBlock
    <2>12. ii >= 3 * (Control - program.start) =>
              \A b \in PlacedInBody' : relative'[b] <= 3 * (b - program.start)
      BY <2>1, <2>5, <2>7, <2>8 DEF Soon
    <2> QED
      BY <2>1, <2>9, <2>10, <2>11, <2>12 DEF Soon
  <1>9. ASSUME NextInterval, phase = "BB1",
               RoomToSearch /\ ii >= 3 * (Control - program.start) => FALSE
        PROVE  Soon' /\ (RoomToSearch => phase' # "failed")
    <2>1. Working /\ Splittable(program)
      BY <1>9, StateIs DEF Working
    <2>2. CASE phase' = "BB0" /\ Restart(program) /\ UNCHANGED <<source, program>>
      <3>1. Restart(program') /\ Splittable(program')
        BY <2>1, <2>2
      <3> QED
        BY <1>1, <2>2, <3>1
    <2>3. CASE phase' = "failed" /\ ii + 1 >= ResourceInterval(program) + MaxAttempts
      <3>1. ~RoomToSearch
        BY <1>9, <2>1, <2>3, LastInterval
      <3> QED
        BY <2>3, <3>1 DEF Soon, Working
    <2> QED
      BY <1>9, <2>2, <2>3 DEF NextInterval
  <1>10. CASE NoPlaceInBody
    <2>1. /\ phase = "BB1" /\ todo # {} /\ NextInterval
          /\ SelfTooLong(Smallest(todo)) \/ RelativePlaces(Smallest(todo)) = {}
      BY <1>10 DEF NoPlaceInBody
    <2>2. RoomToSearch /\ ii >= 3 * (Control - program.start) => FALSE
      BY <2>1, PlacedInLoopByThen
    <2> QED
      BY <1>9, <2>1, <2>2
  <1>11. CASE BodyTooSlow
    <2>1. phase = "BB1" /\ todo = {} /\ ~CarriedInTime /\ NextInterval
      BY <1>11 DEF BodyTooSlow
    <2>2. RoomToSearch /\ ii >= 3 * (Control - program.start) => FALSE
      BY <2>1, CarriedByThen
    <2> QED
      BY <1>9, <2>1, <2>2
  <1>12. CASE AcceptBody
    <2>1. /\ phase = "BB1" /\ phase' = "BB2" /\ todo' = InBlock(program, "BB2") /\ Working
          /\ UNCHANGED <<source, program, ii>>
      BY <1>12 DEF AcceptBody, Working
    <2>2. /\ DOMAIN cycle' = DOMAIN cycle
          /\ \A b \in DOMAIN cycle : b \notin InBlock(program, "BB1") => cycle'[b] = cycle[b]
      BY <1>12 DEF AcceptBody
    <2>3. Placed = InBlock(program, "BB0")
      BY <2>1 DEF ScheduleInv, Progress
    <2>4. DOMAIN cycle = DOMAIN program.code
      BY <2>1, StateIs
    <2>5. \A b \in Placed' : b \notin InBlock(program, "BB1") => b \in Placed /\ cycle'[b] = cycle[b]
      BY <2>2 DEF Placed
    <2>6. \A b \in Placed' : b \in InBlock(program, "BB0") \/ b \in InBlock(program, "BB1")
      BY <2>3, <2>5
    <2>7. /\ Len(program.code) \in Nat /\ DOMAIN program.code = 1 .. Len(program.code)
          /\ program.start \in Nat \ {0} /\ Control \in Nat /\ program.start <= Control
          /\ InBlock(program, "BB0") = 1 .. program.start - 1
          /\ InBlock(program, "BB1") = program.start .. Control
          /\ InBlock(program, "BB2") = Control + 1 .. Len(program.code)
      BY <2>1, BlockAddresses
    <2>8. \A x \in todo' : \A y \in Placed' : y < x
      BY <2>1, <2>6, <2>7
    <2>9. \A b \in Placed' : /\ Block(program, b) # "BB2"
                             /\ Block(program, b) = "BB0" => b \in Placed /\ cycle'[b] = cycle[b]
      BY <2>5, <2>6 DEF InBlock
    <2>10. \A b \in Placed' : Block(program, b) = "BB0" => cycle'[b] <= 3 * (b - 1)
      BY <2>1, <2>9 DEF Soon
    <2> QED
      BY <2>1, <2>8, <2>9, <2>10 DEF Soon
  <1>13. CASE UNCHANGED schedulerVars
    <2>1. UNCHANGED <<source, program, phase, ii, todo, cycle, relative, slot, stages, start>>
      BY <1>13 DEF schedulerVars
    <2>2. Placed' = Placed /\ PlacedInBody' = PlacedInBody /\ Control' = Control /\ Span' = Span
      BY <2>1, ProgramKept DEF Placed, PlacedInBody, Span
    <2> QED
      BY <2>1, <2>2 DEF Soon, Working
  <1> QED
    BY <1>2, <1>3, <1>4, <1>5, <1>6, <1>7, <1>8, <1>10, <1>11, <1>12, <1>13
       DEF ScheduleNext, Parse, ParseError, PlaceInCycle, FinishBB0, FinishBB2, PlaceModulo,
           AcceptBody, schedulerVars

\* With room to search, the scheduler has not given up.
Searching == RoomToSearch => ScheduleFound

\* A step does not make it give up.
LEMMA SearchStep ==
    ASSUME ScheduleInv, Soon, Searching, [ScheduleNext]_schedulerVars
    PROVE  Soon' /\ Searching'
  <1>1. Soon' /\ (RoomToSearch /\ phase # "failed" => phase' # "failed")
    BY SoonStep
  <1>2. CASE program' = program
    <2>1. RoomToSearch' = RoomToSearch
      BY <1>2, ProgramKept DEF RoomToSearch
    <2> QED
      BY <1>1, <2>1 DEF Searching, ScheduleFound
  <1>3. CASE program' # program
    <2>1. Parse
      BY <1>3 DEF ScheduleNext, ParseError, PlaceInCycle, NoCycleLeft, FinishBB0, FinishBB2,
                  PlaceModulo, NoPlaceInBody, BodyTooSlow, AcceptBody, NextInterval, schedulerVars
    <2> QED
      BY <1>1, <2>1 DEF Parse, Searching, ScheduleFound
  <1> QED
    BY <1>2, <1>3

\* The limits of the scheduler (max_ii_attempts, the cycles it searches) do no harm to a program
\* that leaves it room: every program that is parsed gets a schedule, whatever its
\* dependencies, if the last interval tried is three cycles for each instruction of the loop
\* body, and the search goes three cycles for each instruction of the program.
THEOREM SearchSucceeds == SchedulerSpec \/ Spec => [](RoomToSearch => ScheduleFound)
  <1>1. SchedulerInit => Soon /\ Searching
    BY DEF SchedulerInit, Soon, Working, Searching, ScheduleFound
  <1>2. ScheduleInv /\ Soon /\ Searching
            /\ [ScheduleNext \/ (ScheduleEnded /\ UNCHANGED schedulerVars)]_schedulerVars
          => Soon' /\ Searching'
    <2> SUFFICES ASSUME ScheduleInv, Soon, Searching,
                        [ScheduleNext \/ (ScheduleEnded /\ UNCHANGED schedulerVars)]_schedulerVars
                 PROVE  Soon' /\ Searching'
      OBVIOUS
    <2>1. [ScheduleNext]_schedulerVars
      OBVIOUS
    <2> QED
      BY <2>1, SearchStep
  <1>3. Init => Soon /\ Searching
    BY <1>1 DEF Init
  <1>4. ScheduleInv /\ Soon /\ Searching /\ [Next]_vars => Soon' /\ Searching'
    <2> SUFFICES ASSUME ScheduleInv, Soon, Searching, [Next]_vars PROVE Soon' /\ Searching'
      OBVIOUS
    <2>1. CASE Schedule
      BY <2>1, SearchStep DEF Schedule
    <2>2. ASSUME phase' \in {"allocated", "unallocated", "running"} PROVE Soon' /\ Searching'
      BY <2>2 DEF Soon, Working, Searching, ScheduleFound
    <2>3. CASE AllocateRegisters
      BY <2>2, <2>3 DEF AllocateRegisters, AllocateNext, Allocate, OutOfRegisters
    <2>4. CASE Prepare
      BY <2>2, <2>4 DEF Prepare
    <2>5. CASE Run
      BY <2>5, SearchStep DEF Run
    <2>6. CASE UNCHANGED vars
      BY <2>6, SearchStep DEF vars
    <2> QED
      BY <2>1, <2>3, <2>4, <2>5, <2>6 DEF Next
  <1>5. Searching => (RoomToSearch => ScheduleFound)
    BY DEF Searching
  <1>6. SchedulerSpec => [](RoomToSearch => ScheduleFound)
    BY <1>1, <1>2, <1>5, ScheduleKept, PTL DEF SchedulerSpec
  <1>7. Spec => [](RoomToSearch => ScheduleFound)
    BY <1>3, <1>4, <1>5, PathKept, PTL DEF Spec
  <1> QED
    BY <1>6, <1>7

-----------------------------------------------------------------------------
(* Behind the scheduler: what the passes that follow are given *)

\* The schedule is finished and not given up.
Scheduled == phase \in {"done", "allocated", "running"}

\* A finished schedule: where everything is, and that each instruction of a block or an
\* iteration is behind those it reads from.
Compacted ==
    Scheduled =>
        /\ Splittable(program)
        /\ ii \in Nat \ {0} /\ stages \in Nat \ {0} /\ start \in Nat
        /\ DOMAIN cycle = DOMAIN program.code /\ DOMAIN slot = DOMAIN program.code
        /\ \A a \in DOMAIN program.code : cycle[a] \in Nat
        /\ \A a \in InBlock(program, "BB0") : cycle[a] < start
        /\ \A a \in InBlock(program, "BB1") :
              relative[a] \in Nat /\ relative[a] < Span /\ cycle[a] = start + relative[a]
        /\ \A a \in InBlock(program, "BB2") : cycle[a] >= start + Span
        /\ relative[Control] = Span - 1
        /\ \A a \in DOMAIN program.code \ InBlock(program, "BB1") :
              \A d \in LocalDependencies(program, a) : cycle[d.producer] < cycle[a]
        /\ \A a \in Body :
              /\ \A d \in LocalDependencies(program, a) : relative[d.producer] < relative[a]
              /\ \A d \in InterloopDependencies(program, a) :
                    relative[d.previous] < relative[a] + ii

-----------------------------------------------------------------------------
(* The machine *)

\* The machine has its initial state until it loads the bundles.  The base of the
\* rotating registers counts the laps.
MachineInv ==
    /\ phase # "running" => MachineInit(<<>>)
    /\ phase = "running" =>
          /\ code = FinalSchedule
          /\ pc \in 0 .. Len(code) /\ lc \in Nat /\ ec \in Nat
          /\ lap \in 0 .. MaxLaps /\ rrb = lap /\ rest \in 0 .. 2

-----------------------------------------------------------------------------
(* Laps, predicates, and what has been executed *)

\* An instruction of the loop that sets the loop count does so again in every
\* iteration: the loop is not meant to end.
Endless == Iterations > 1 /\ \E a \in InBlock(program, "BB1") : Code(a) = MovSpecial

\* The laps of the whole loop, with the drain, that the predicates and the model tell
\* apart.
LapsFit == phase = "running" => Times + stages - 1 <= Rotating /\ Times + stages - 2 <= MaxLaps

\* The end of the loop.
LoopEnd == LoopBundle + ii

\* BB0 has set the loop count.
CountSet == \E a \in InBlock(program, "BB0") : Code(a) = MovSpecial /\ cycle[a] < pc

\* The first predicate of the lap in which iteration i starts.
FirstOf(i) == RegisterBehind(FirstRotating, i)

\* The predicates of a lap are those of the iterations that have started.
StartedBy(n) == {FirstOf(i) : i \in {j \in 0 .. n : j < Times}}

\* Where the machine stands, and what that says of the laps to come: the loop count first
\* goes down while iterations start, then the epilogue count while they drain, and the
\* predicates that are true are those of the iterations that have started.
Lapping ==
    phase = "running" /\ ~Endless /\ LapsFit =>
        /\ pc < LoopBundle =>
              /\ lap = 0
              /\ lc = IF CountSet THEN Iterations - 1 ELSE 0
              /\ ec = IF EpiloguePlace[1] < pc THEN stages - 1 ELSE 0
              /\ predicates = IF PredicatePlace[1] < pc THEN {FirstOf(0)} ELSE {}
        /\ LoopBundle <= pc /\ pc < LoopEnd =>
              /\ lap < Times => lc = Times - 1 - lap /\ ec = stages - 1
              /\ lap >= Times => lc = 0 /\ ec = (Times + stages - 2) - lap
              /\ predicates = StartedBy(lap)
        /\ LoopEnd <= pc => lap = Times + stages - 2

\* The machine has executed instruction a when the loop had gone back n times.
HasRun(a, n) ==
    /\ Block(program, a) = "BB0" => n = 0 /\ BundleOf(a) < pc
    /\ Block(program, a) = "BB1" => n < lap \/ (n = lap /\ BundleOf(a) < pc)
    /\ Block(program, a) = "BB2" => n = lap /\ BundleOf(a) < pc
    /\ a \in Body => Stage(a) <= n /\ n - Stage(a) < Times

\* The record of what has been executed is right.
Ran ==
    phase = "running" /\ ~Endless /\ LapsFit =>
        ran = {x \in (DOMAIN program.code) \X (0 .. lap) : HasRun(x[1], x[2])}

-----------------------------------------------------------------------------
(* The schedule in the passes that follow *)

\* A finished schedule has what the passes that follow need.
LEMMA DoneCompacted ==
    ASSUME ScheduleInv, phase = "done"
    PROVE  Compacted
  <1>1. /\ Working /\ LoopPlaced /\ Splittable(program)
        /\ Placed = DOMAIN program.code /\ PlacedInBody = InBlock(program, "BB1")
        /\ ii \in Nat \ {0} /\ stages \in Nat \ {0} /\ start \in Nat
        /\ \A a \in DOMAIN program.code : cycle[a] \in Nat
        /\ \A a \in InBlock(program, "BB0") : cycle[a] < start
        /\ \A a \in InBlock(program, "BB1") :
              relative[a] \in Nat /\ relative[a] < Span /\ cycle[a] = start + relative[a]
        /\ \A a \in InBlock(program, "BB2") : cycle[a] >= start + Span
        /\ relative[Control] = Span - 1
    BY DoneIs
  <1>2. DOMAIN cycle = DOMAIN program.code /\ DOMAIN slot = DOMAIN program.code
    BY <1>1, StateIs
  <1>3. OperandsTimed /\ LoopTimed
    BY DEF ScheduleInv
  <1>4. ASSUME NEW a \in DOMAIN program.code \ InBlock(program, "BB1"),
               NEW d \in LocalDependencies(program, a)
        PROVE  cycle[d.producer] < cycle[a]
    <2>1. d.producer \in Placed /\ Ready(d.producer, cycle[d.producer]) <= cycle[a]
      BY <1>1, <1>3, <1>4 DEF OperandsTimed, TimedDependencies
    <2>2. cycle[d.producer] \in Nat /\ cycle[a] \in Nat
      BY <1>1, <2>1
    <2>3. /\ Ready(d.producer, cycle[d.producer]) \in Int
          /\ cycle[d.producer] + 1 <= Ready(d.producer, cycle[d.producer])
      BY <2>2, ReadyIs
    <2> QED
      BY <2>1, <2>2, <2>3
  <1>5. \A a \in Body : a \in PlacedInBody \ {Control} /\ relative[a] \in Nat
    BY <1>1 DEF Body
  <1>6. ASSUME NEW a \in Body, NEW d \in LocalDependencies(program, a)
        PROVE  relative[d.producer] < relative[a]
    <2>1. /\ d.producer \in PlacedInBody
          /\ Ready(d.producer, relative[d.producer]) <= relative[a]
      BY <1>1, <1>3, <1>5 DEF OperandsTimed
    <2>2. relative[d.producer] \in Nat /\ relative[a] \in Nat
      BY <1>1, <1>5, <2>1
    <2>3. /\ Ready(d.producer, relative[d.producer]) \in Int
          /\ relative[d.producer] + 1 <= Ready(d.producer, relative[d.producer])
      BY <2>2, ReadyIs
    <2> QED
      BY <2>1, <2>2, <2>3
  <1>7. ASSUME NEW a \in Body, NEW d \in InterloopDependencies(program, a)
        PROVE  relative[d.previous] < relative[a] + ii
    <2>1. Ready(d.previous, relative[d.previous]) <= relative[a] + ii
      BY <1>1, <1>3 DEF LoopTimed, CarriedInTime
    <2>2. a \in DOMAIN program.code
      BY <1>1 DEF Body, InBlock
    <2>3. d.previous \in Body
      BY <1>1, <2>2, ProducersAre
    <2>4. relative[d.previous] \in Nat /\ relative[a] \in Nat
      BY <1>5, <2>3
    <2>5. /\ Ready(d.previous, relative[d.previous]) \in Int
          /\ relative[d.previous] + 1 <= Ready(d.previous, relative[d.previous])
      BY <2>4, ReadyIs
    <2> QED
      BY <1>1, <2>1, <2>4, <2>5
  <1> QED
    BY <1>1, <1>2, <1>4, <1>6, <1>7 DEF Compacted

\* The tables stay as they are.
LEMMA CompactedKept ==
    ASSUME Compacted, UNCHANGED <<program, ii, cycle, relative, slot, stages, start>>,
           Scheduled' => Scheduled
    PROVE  Compacted'
  <1>1. /\ Body' = Body /\ Control' = Control
        /\ \A x : LocalDependencies(program, x)' = LocalDependencies(program, x)
        /\ \A x : InterloopDependencies(program, x)' = InterloopDependencies(program, x)
        /\ \A b : InBlock(program, b)' = InBlock(program, b)
    BY DEF Body, Control
  <1>2. Splittable(program)' = Splittable(program) /\ Span' = Span
    BY DEF Span
  <1> QED
    BY <1>1, <1>2 DEF Compacted

\* What the program's blocks are, once more.
LEMMA BlocksOf ==
    ASSUME Splittable(program)
    PROVE  /\ DOMAIN program.code \subseteq Nat \ {0}
           /\ DOMAIN program.code = 1 .. Len(program.code) /\ Len(program.code) \in Nat
           /\ IsFiniteSet(DOMAIN program.code)
           /\ Control \in DOMAIN program.code /\ Code(Control) = Loop
           /\ \A a \in DOMAIN program.code :
                 /\ Block(program, a) \in {"BB0", "BB1", "BB2"}
                 /\ \A b : a \in InBlock(program, b) <=> Block(program, a) = b
                 /\ a \in Body <=> Block(program, a) = "BB1" /\ a # Control
                 /\ Code(a).dst = {} \/ \E r \in Reg : Code(a).dst = {r}
                 /\ Code(a).src \in Seq(Reg)
           /\ Block(program, Control) = "BB1"
           /\ \A a \in Body : a \in DOMAIN program.code
           /\ \A b : InBlock(program, b) \subseteq DOMAIN program.code
  <1>1. /\ Len(program.code) \in Nat /\ DOMAIN program.code = 1 .. Len(program.code)
        /\ Control \in DOMAIN program.code /\ program.code[Control] = Loop
        /\ program.start \in 1 .. Control
        /\ InBlock(program, "BB1") = program.start .. Control
    BY BlocksAre DEF Control
  <1>2. \A a \in DOMAIN program.code : Block(program, a) \in {"BB0", "BB1", "BB2"}
    BY BlockIs
  <1>3. \A a, b : a \in InBlock(program, b) <=>
                     a \in DOMAIN program.code /\ Block(program, a) = b
    BY DEF InBlock
  <1>4. Control \in InBlock(program, "BB1")
    BY <1>1
  <1>5. /\ IsFiniteSet(DOMAIN program.code)
        /\ \A a \in DOMAIN program.code :
              /\ Code(a).dst = {} \/ \E r \in Reg : Code(a).dst = {r}
              /\ Code(a).src \in Seq(Reg)
    BY SplittableIs, ProgramIs DEF Code
  <1> QED
    BY <1>1, <1>2, <1>3, <1>4, <1>5 DEF Body, Code

-----------------------------------------------------------------------------
(* The bundles *)

\* The latest place before the loop.
LEMMA LatestIs ==
    ASSUME NEW size \in Nat, NEW taken
    PROVE  LatestPlace(size, taken)[1] \in 0 .. size
  <1> DEFINE free == ((0 .. size - 1) \X {"ALU0", "ALU1"}) \ taken
             rows == {at[1] : at \in free}
             row == Greatest(rows, None)
  <1>1. LatestPlace(size, taken) =
           IF free = {} THEN <<size, "ALU0">>
           ELSE <<row, IF <<row, "ALU0">> \in free THEN "ALU0" ELSE "ALU1">>
    BY DEF LatestPlace
  <1>2. rows \subseteq 0 .. size - 1
    OBVIOUS
  <1>3. IsFiniteSet(0 .. size - 1)
    BY FS_Interval
  <1>4. IsFiniteSet(rows) /\ rows \in SUBSET Int
    BY <1>2, <1>3, FS_Subset
  <1>5. ASSUME free # {} PROVE row \in 0 .. size - 1
    <2>1. rows # {}
      BY <1>5
    <2> HIDE DEF rows
    <2>2. row \in rows \cup {None} /\ row \in Int /\ \A y \in rows : y <= row
      BY <1>4, GreatestIs DEF None
    <2>3. PICK y \in rows : y \in 0 .. size - 1
      BY <1>2, <2>1
    <2>4. row # None
      <3>1. y <= row /\ y >= 0 /\ y \in Int /\ row \in Int
        BY <2>2, <2>3
      <3> HIDE DEF row
      <3> QED
        BY <3>1 DEF None
    <2> QED
      BY <1>2, <2>2, <2>4
  <1> HIDE DEF free, row
  <1>6. CASE free = {}
    BY <1>1, <1>6
  <1>7. CASE free # {}
    BY <1>1, <1>5, <1>7
  <1> QED
    BY <1>6, <1>7

\* The loop begins behind BB0 and the two instructions that are added.
LEMMA LoopBundleIs ==
    ASSUME start \in Nat
    PROVE  /\ LoopBundle \in Nat /\ start <= LoopBundle
           /\ EpiloguePlace[1] \in Nat /\ EpiloguePlace[1] < LoopBundle
           /\ PredicatePlace[1] \in Nat /\ PredicatePlace[1] < LoopBundle
  <1>1. EpiloguePlace[1] \in Nat
    BY LatestIs DEF EpiloguePlace
  <1>2. ASSUME NEW n \in Nat, NEW place, place[1] \in Nat
        PROVE  /\ Including(n, place) \in Nat /\ n <= Including(n, place)
               /\ place[1] < Including(n, place)
    <2> DEFINE x == place[1] + 1
               g == Greatest({x}, n)
    <2>1. x \in Int
      BY <1>2
    <2>2. g \in Int /\ n <= g /\ x <= g
      <3> HIDE DEF x
      <3>1. {x} \in SUBSET Int /\ IsFiniteSet({x})
        BY <2>1, FS_Singleton
      <3> QED
        BY <3>1, GreatestIs
    <2>3. Including(n, place) = g
      BY DEF Including
    <2> HIDE DEF g
    <2> QED
      BY <1>2, <2>2, <2>3
  <1> DEFINE size == Including(start, EpiloguePlace)
  <1>3. size \in Nat /\ start <= size /\ EpiloguePlace[1] < size
    BY <1>1, <1>2
  <1> HIDE DEF size
  <1>4. PredicatePlace[1] \in Nat
    BY <1>3, LatestIs DEF PredicatePlace, size
  <1>5. /\ Including(size, PredicatePlace) \in Nat /\ size <= Including(size, PredicatePlace)
        /\ PredicatePlace[1] < Including(size, PredicatePlace)
    BY <1>2, <1>3, <1>4
  <1>6. LoopBundle = Including(size, PredicatePlace)
    BY DEF LoopBundle, size
  <1> QED
    BY <1>1, <1>3, <1>4, <1>5, <1>6

\* Where the instructions of the blocks come to stand.
LEMMA BundlesAre ==
    ASSUME Compacted, Scheduled
    PROVE  /\ Splittable(program) /\ ii \in Nat \ {0} /\ stages \in Nat \ {0} /\ start \in Nat
           /\ LoopBundle \in Nat /\ LoopEnd = LoopBundle + ii /\ LoopEnd \in Nat
           /\ \A a \in DOMAIN program.code :
                 /\ BundleOf(a) \in Nat
                 /\ Block(program, a) \in {"BB0", "BB1", "BB2"}
                 /\ Block(program, a) = "BB0" => BundleOf(a) = cycle[a] /\ BundleOf(a) < LoopBundle
                 /\ Block(program, a) = "BB1" =>
                       /\ LoopBundle <= BundleOf(a) /\ BundleOf(a) < LoopEnd
                       /\ relative[a] \in Nat
                       /\ relative[a] = ii * Stage(a) + (BundleOf(a) - LoopBundle)
                       /\ Stage(a) \in Nat /\ Stage(a) < stages
                 /\ Block(program, a) = "BB2" => LoopEnd <= BundleOf(a)
           /\ Control \in DOMAIN program.code /\ Block(program, Control) = "BB1"
           /\ BundleOf(Control) = LoopEnd - 1
  <1>1. /\ Splittable(program)
        /\ ii \in Nat \ {0} /\ stages \in Nat \ {0} /\ start \in Nat
        /\ \A a \in DOMAIN program.code : cycle[a] \in Nat
        /\ \A a \in InBlock(program, "BB0") : cycle[a] < start
        /\ \A a \in InBlock(program, "BB1") :
              relative[a] \in Nat /\ relative[a] < Span /\ cycle[a] = start + relative[a]
        /\ \A a \in InBlock(program, "BB2") : cycle[a] >= start + Span
        /\ relative[Control] = Span - 1
    BY DEF Compacted
  <1>2. LoopBundle \in Nat /\ start <= LoopBundle
    BY <1>1, LoopBundleIs
  <1>3. /\ \A a \in DOMAIN program.code :
              /\ Block(program, a) \in {"BB0", "BB1", "BB2"}
              /\ \A b : a \in InBlock(program, b) <=> Block(program, a) = b
        /\ Control \in DOMAIN program.code /\ Block(program, Control) = "BB1"
    BY <1>1, BlocksOf
  <1>4. LoopEnd = LoopBundle + ii /\ LoopEnd \in Nat
    BY <1>1, <1>2 DEF LoopEnd
  <1>5. Span \in Nat /\ Span = stages * ii /\ Span = ii * stages
    BY <1>1 DEF Span
  <1>6. ASSUME NEW a \in DOMAIN program.code, Block(program, a) = "BB0"
        PROVE  BundleOf(a) = cycle[a] /\ BundleOf(a) < LoopBundle /\ BundleOf(a) \in Nat
    <2>1. BundleOf(a) = cycle[a]
      BY <1>6 DEF BundleOf
    <2>2. cycle[a] < start /\ cycle[a] \in Nat
      BY <1>1, <1>3, <1>6
    <2> QED
      BY <1>1, <1>2, <2>1, <2>2
  <1>7. ASSUME NEW a \in DOMAIN program.code, Block(program, a) = "BB1"
        PROVE  /\ LoopBundle <= BundleOf(a) /\ BundleOf(a) < LoopEnd /\ BundleOf(a) \in Nat
               /\ relative[a] \in Nat
               /\ relative[a] = ii * Stage(a) + (BundleOf(a) - LoopBundle)
               /\ Stage(a) \in Nat /\ Stage(a) < stages
    <2>1. relative[a] \in Nat /\ relative[a] < Span /\ cycle[a] = start + relative[a]
      BY <1>1, <1>3, <1>7
    <2>2. PICK q \in Nat, m \in 0 .. ii - 1 :
             relative[a] = (ii * q) + m /\ relative[a] % ii = m /\ relative[a] \div ii = q
      BY <1>1, <2>1, DivMod
    <2>3. BundleOf(a) = LoopBundle + m
      <3>1. cycle[a] - start = relative[a]
        BY <1>1, <2>1
      <3> QED
        BY <1>7, <2>2, <3>1 DEF BundleOf
    <2>4. Stage(a) = q
      BY <2>2 DEF Stage
    <2>5. q < stages
      <3> SUFFICES ASSUME stages <= q PROVE FALSE
        BY <1>1, <2>2
      <3>1. PICK x \in Int : x = ii * q
        BY <1>1, <2>2
      <3>2. stages < q \/ stages = q
        BY <1>1, <2>2
      <3>3. stages < q => ii * stages + ii <= ii * q
        BY <1>1, <2>2, StepUp
      <3>4. Span <= x
        BY <1>1, <1>5, <3>1, <3>2, <3>3
      <3> QED
        BY <1>5, <2>1, <2>2, <3>1, <3>4
    <2>6. BundleOf(a) - LoopBundle = m
      BY <1>2, <2>2, <2>3
    <2> QED
      BY <1>1, <1>2, <1>4, <2>1, <2>2, <2>3, <2>4, <2>5, <2>6
  <1>8. ASSUME NEW a \in DOMAIN program.code, Block(program, a) = "BB2"
        PROVE  LoopEnd <= BundleOf(a) /\ BundleOf(a) \in Nat
    <2>1. cycle[a] >= start + Span /\ cycle[a] \in Nat
      BY <1>1, <1>3, <1>8
    <2>2. BundleOf(a) = LoopBundle + ii + (cycle[a] - start - Span)
      BY <1>5, <1>8 DEF BundleOf
    <2> HIDE DEF Span
    <2> QED
      BY <1>1, <1>2, <1>4, <1>5, <2>1, <2>2
  <1>9. BundleOf(Control) = LoopEnd - 1
    <2>1. Control \in InBlock(program, "BB1")
      BY <1>3
    <2>2. /\ relative[Control] = ii * Stage(Control) + (BundleOf(Control) - LoopBundle)
          /\ LoopBundle <= BundleOf(Control) /\ BundleOf(Control) < LoopEnd
          /\ BundleOf(Control) \in Nat /\ Stage(Control) \in Nat
      BY <1>3, <1>7
    <2> DEFINE m == BundleOf(Control) - LoopBundle
    <2>3. m \in 0 .. ii - 1
      BY <1>1, <1>2, <1>4, <2>2
    <2>4. relative[Control] = ii * (stages - 1) + (ii - 1)
      <3>1. ii * (stages - 1) = ii * stages - ii
        BY <1>1
      <3> QED
        BY <1>1, <1>5, <3>1
    <2>5. ii * Stage(Control) + m = ii * (stages - 1) + (ii - 1)
      BY <2>2, <2>4
    <2>6. ii - 1 \in 0 .. ii - 1 /\ stages - 1 \in Int /\ Stage(Control) \in Int
      BY <1>1, <2>2
    <2> HIDE DEF m
    <2>7. m = ii - 1
      <3> DEFINE s == Stage(Control)
                 u == stages - 1
                 o == ii - 1
      <3>1. (ii * s) + m = (ii * u) + o /\ s \in Int /\ u \in Int /\ o \in 0 .. ii - 1
        BY <2>5, <2>6
      <3>2. ii \in Nat \ {0} /\ m \in 0 .. ii - 1
        BY <1>1, <2>3
      <3> HIDE DEF s, u, o
      <3>3. m = o
        BY <3>1, <3>2, QuotientUnique
      <3> QED
        BY <3>3 DEF o
    <2> QED
      BY <1>1, <1>2, <1>4, <2>2, <2>7 DEF m
  <1> QED
    BY <1>1, <1>2, <1>3, <1>4, <1>6, <1>7, <1>8, <1>9

-----------------------------------------------------------------------------
(* A cycle of the machine *)

\* The two instructions that the preparer adds.
SetEpilogue ==
    Operation(NoName, EpiloguePlace[2], {}, {}, <<>>, {<<"EC", stages - 1>>}, {}, FALSE)
SetPredicate ==
    Operation(NoName, PredicatePlace[2], {}, {}, <<>>, {<<"p", FirstRotating>>}, {}, FALSE)

\* The instructions that are read, and those of them that execute.
AtPc == {a \in DOMAIN program.code : BundleOf(a) = pc}
On == {a \in AtPc : \A p \in StagePredicate(a) : Physical(p) \in predicates}

\* What stands in the bundles.
LEMMA FinalIs ==
    ASSUME Compacted, Scheduled
    PROVE  /\ Len(FinalSchedule) \in Nat /\ LoopEnd <= Len(FinalSchedule)
           /\ \A a \in DOMAIN program.code : BundleOf(a) < Len(FinalSchedule)
           /\ \A n \in 1 .. Len(FinalSchedule) : \A op : op \in FinalSchedule[n] <=>
                 \/ \E a \in DOMAIN program.code :
                       BundleOf(a) = n - 1 /\ op = PreparedOperation(a)
                 \/ EpiloguePlace[1] = n - 1 /\ op = SetEpilogue
                 \/ PredicatePlace[1] = n - 1 /\ op = SetPredicate
  <1>1. /\ Splittable(program) /\ start \in Nat /\ LoopBundle \in Nat /\ LoopEnd \in Nat
        /\ \A a \in DOMAIN program.code : BundleOf(a) \in Nat
        /\ Control \in DOMAIN program.code /\ BundleOf(Control) = LoopEnd - 1
    BY BundlesAre
  <1>2. EpiloguePlace[1] \in Nat /\ PredicatePlace[1] \in Nat
    BY <1>1, LoopBundleIs
  <1>3. IsFiniteSet(DOMAIN program.code)
    BY <1>1, BlocksOf
  <1> DEFINE rows == {x[1] : x \in Positioned}
             last == Greatest(rows, None)
             own == {BundleOf(a) : a \in DOMAIN program.code}
  <1>4. Positioned = {<<BundleOf(a), PreparedOperation(a)>> : a \in DOMAIN program.code}
                        \cup {<<EpiloguePlace[1], SetEpilogue>>, <<PredicatePlace[1], SetPredicate>>}
    BY DEF Positioned, Initializations, SetEpilogue, SetPredicate
  <1>5. rows = (own \cup {EpiloguePlace[1]}) \cup {PredicatePlace[1]}
    <2>1. \A x, y : <<x, y>>[1] = x
      OBVIOUS
    <2>2. ASSUME NEW n \in rows PROVE n \in (own \cup {EpiloguePlace[1]}) \cup {PredicatePlace[1]}
      BY <1>4
    <2>3. ASSUME NEW a \in DOMAIN program.code PROVE BundleOf(a) \in rows
      <3>1. <<BundleOf(a), PreparedOperation(a)>> \in Positioned
        BY <1>4
      <3> QED
        BY <2>1, <3>1
    <2>4. EpiloguePlace[1] \in rows
      <3>1. <<EpiloguePlace[1], SetEpilogue>> \in Positioned
        BY <1>4
      <3> QED
        BY <2>1, <3>1
    <2>5. PredicatePlace[1] \in rows
      <3>1. <<PredicatePlace[1], SetPredicate>> \in Positioned
        BY <1>4
      <3> QED
        BY <2>1, <3>1
    <2> HIDE DEF rows
    <2> QED
      BY <2>2, <2>3, <2>4, <2>5
  <1>6. IsFiniteSet(rows)
    <2> DEFINE f == [a \in DOMAIN program.code |-> BundleOf(a)]
    <2>1. own = {f[a] : a \in DOMAIN program.code}
      OBVIOUS
    <2>2. IsFiniteSet(own)
      <3> HIDE DEF f, own
      <3> QED
        BY <1>3, <2>1, FiniteImage
    <2> HIDE DEF rows, own
    <2>3. IsFiniteSet(own \cup {EpiloguePlace[1]})
      BY <2>2, FS_AddElement
    <2> QED
      BY <1>5, <2>3, FS_AddElement
  <1>7. rows \in SUBSET Nat
    <2> HIDE DEF rows
    <2> QED
      BY <1>1, <1>2, <1>5
  <1>8. last \in Int /\ \A n \in rows : n <= last
    <2> HIDE DEF rows
    <2> QED
      BY <1>6, <1>7, GreatestIs DEF None
  <1>9. \A a \in DOMAIN program.code : BundleOf(a) \in rows
    <2> HIDE DEF rows
    <2> QED
      BY <1>5
  <1>10. FinalSchedule = [n \in 1 .. last + 1 |-> {x[2] : x \in {y \in Positioned : y[1] = n - 1}}]
    BY DEF FinalSchedule
  <1>11. LoopEnd - 1 <= last
    BY <1>1, <1>8, <1>9
  <1> HIDE DEF rows, last, own
  <1>12. last + 1 \in Nat /\ Len(FinalSchedule) = last + 1
    BY <1>1, <1>8, <1>10, <1>11
  <1>13. \A a \in DOMAIN program.code : BundleOf(a) < last + 1
    BY <1>1, <1>8, <1>9
  <1>14. ASSUME NEW n \in 1 .. last + 1, NEW op
         PROVE  op \in FinalSchedule[n] <=>
                   \/ \E a \in DOMAIN program.code :
                         BundleOf(a) = n - 1 /\ op = PreparedOperation(a)
                   \/ EpiloguePlace[1] = n - 1 /\ op = SetEpilogue
                   \/ PredicatePlace[1] = n - 1 /\ op = SetPredicate
    <2>1. op \in FinalSchedule[n] <=> \E y \in Positioned : y[1] = n - 1 /\ op = y[2]
      BY <1>10
    <2>2. \A x, y : <<x, y>>[1] = x /\ <<x, y>>[2] = y
      OBVIOUS
    <2>3. ASSUME op \in FinalSchedule[n]
          PROVE  \/ \E a \in DOMAIN program.code :
                       BundleOf(a) = n - 1 /\ op = PreparedOperation(a)
                 \/ EpiloguePlace[1] = n - 1 /\ op = SetEpilogue
                 \/ PredicatePlace[1] = n - 1 /\ op = SetPredicate
      <3>1. PICK y \in Positioned : y[1] = n - 1 /\ op = y[2]
        BY <2>1, <2>3
      <3> QED
        BY <1>4, <2>2, <3>1
    <2>4. ASSUME NEW a \in DOMAIN program.code, BundleOf(a) = n - 1, op = PreparedOperation(a)
          PROVE  op \in FinalSchedule[n]
      <3>1. <<BundleOf(a), PreparedOperation(a)>> \in Positioned
        BY <1>4
      <3> QED
        BY <2>1, <2>2, <2>4, <3>1
    <2>5. ASSUME EpiloguePlace[1] = n - 1, op = SetEpilogue PROVE op \in FinalSchedule[n]
      <3>1. <<EpiloguePlace[1], SetEpilogue>> \in Positioned
        BY <1>4
      <3> QED
        BY <2>1, <2>2, <2>5, <3>1
    <2>6. ASSUME PredicatePlace[1] = n - 1, op = SetPredicate PROVE op \in FinalSchedule[n]
      <3>1. <<PredicatePlace[1], SetPredicate>> \in Positioned
        BY <1>4
      <3> QED
        BY <2>1, <2>2, <2>6, <3>1
    <2> QED
      BY <2>3, <2>4, <2>5, <2>6
  <1> QED
    BY <1>1, <1>11, <1>12, <1>13, <1>14

\* What a cycle reads and executes.
LEMMA ActiveIs ==
    ASSUME Compacted, MachineInv, phase = "running"
    PROVE  /\ Len(code) \in Nat /\ LoopEnd <= Len(code) /\ pc \in Nat /\ pc <= Len(code)
           /\ \A a \in DOMAIN program.code : BundleOf(a) < Len(code)
           /\ \A op : op \in Active <=> \/ \E a \in On : op = PreparedOperation(a)
                                        \/ pc = EpiloguePlace[1] /\ op = SetEpilogue
                                        \/ pc = PredicatePlace[1] /\ op = SetPredicate
  <1>1. /\ Len(code) \in Nat /\ LoopEnd <= Len(code)
        /\ \A a \in DOMAIN program.code : BundleOf(a) < Len(code)
        /\ \A n \in 1 .. Len(code) : \A op : op \in code[n] <=>
                 \/ \E a \in DOMAIN program.code :
                       BundleOf(a) = n - 1 /\ op = PreparedOperation(a)
                 \/ EpiloguePlace[1] = n - 1 /\ op = SetEpilogue
                 \/ PredicatePlace[1] = n - 1 /\ op = SetPredicate
    BY FinalIs DEF MachineInv, Scheduled
  <1>2. pc \in 0 .. Len(code)
    BY DEF MachineInv
  <1>3. /\ LoopBundle \in Nat /\ LoopBundle <= LoopEnd /\ LoopEnd \in Nat
        /\ EpiloguePlace[1] \in Nat /\ EpiloguePlace[1] < LoopBundle
        /\ PredicatePlace[1] \in Nat /\ PredicatePlace[1] < LoopBundle
        /\ \A a \in DOMAIN program.code : BundleOf(a) \in Nat
    <2>1. start \in Nat
      BY BundlesAre DEF Scheduled
    <2>2. /\ LoopBundle \in Nat /\ LoopEnd = LoopBundle + ii /\ ii \in Nat
          /\ \A a \in DOMAIN program.code : BundleOf(a) \in Nat
      BY BundlesAre DEF Scheduled
    <2> QED
      BY <2>1, <2>2, LoopBundleIs
  <1>4. \A op : op \in Bundle <=> \/ \E a \in AtPc : op = PreparedOperation(a)
                                  \/ pc = EpiloguePlace[1] /\ op = SetEpilogue
                                  \/ pc = PredicatePlace[1] /\ op = SetPredicate
    <2>1. CASE pc < Len(code)
      <3>1. pc + 1 \in 1 .. Len(code) /\ (pc + 1) - 1 = pc
        BY <1>1, <1>2, <2>1
      <3>2. Bundle = code[pc + 1]
        BY <2>1 DEF Bundle
      <3>3. \A op : op \in code[pc + 1] <=>
                 \/ \E a \in DOMAIN program.code : BundleOf(a) = pc /\ op = PreparedOperation(a)
                 \/ EpiloguePlace[1] = pc /\ op = SetEpilogue
                 \/ PredicatePlace[1] = pc /\ op = SetPredicate
        BY <1>1, <3>1
      <3> QED
        BY <3>2, <3>3 DEF AtPc
    <2>2. CASE ~(pc < Len(code))
      <3>1. Bundle = {}
        BY <2>2 DEF Bundle
      <3>2. AtPc = {}
        BY <1>1, <2>2 DEF AtPc
      <3>3. pc # EpiloguePlace[1] /\ pc # PredicatePlace[1]
        BY <1>1, <1>2, <1>3, <2>2
      <3> QED
        BY <3>1, <3>2, <3>3
    <2> QED
      BY <2>1, <2>2
  <1>5. /\ SetEpilogue.guard = {} /\ SetPredicate.guard = {}
        /\ \A a : PreparedOperation(a).guard = StagePredicate(a)
    BY DEF SetEpilogue, SetPredicate, PreparedOperation, Operation
  <1>6. ASSUME NEW op
        PROVE  op \in Active <=> \/ \E a \in On : op = PreparedOperation(a)
                                 \/ pc = EpiloguePlace[1] /\ op = SetEpilogue
                                 \/ pc = PredicatePlace[1] /\ op = SetPredicate
    <2>1. op \in Active <=> op \in Bundle /\ \A p \in op.guard : Physical(p) \in predicates
      BY DEF Active
    <2>2. \A a : a \in On <=> a \in AtPc /\ \A p \in StagePredicate(a) : Physical(p) \in predicates
      BY DEF On
    <2> QED
      BY <1>4, <1>5, <2>1, <2>2
  <1>7. pc \in Nat /\ pc <= Len(code)
    BY <1>1, <1>2
  <1> QED
    BY <1>1, <1>6, <1>7
\* What the special registers and the branch do in a cycle.
LEMMA CycleIs ==
    ASSUME Compacted, MachineInv, phase = "running"
    PROVE  /\ LoopCount = IF \E a \in On : Code(a) = MovSpecial THEN Iterations - 1 ELSE lc
           /\ LoopCount \in Nat
           /\ EpilogueCount = IF pc = EpiloguePlace[1] THEN stages - 1 ELSE ec
           /\ EpilogueCount \in Nat
           /\ Predicated = predicates \cup (IF pc = PredicatePlace[1]
                                            THEN {Physical(FirstRotating)} ELSE {})
           /\ Branches # {} <=> pc = LoopEnd - 1
           /\ Pipelined <=> pc = LoopEnd - 1
           /\ Branches # {} => UNION {op.target : op \in Branches} = {LoopBundle}
  <1>1. \A op : op \in Active <=> \/ \E a \in On : op = PreparedOperation(a)
                                  \/ pc = EpiloguePlace[1] /\ op = SetEpilogue
                                  \/ pc = PredicatePlace[1] /\ op = SetPredicate
    BY ActiveIs
  <1>2. lc \in Nat /\ ec \in Nat
    BY DEF MachineInv
  <1>3. Iterations - 1 \in Nat
    BY LooppipAssumption
  <1>4. /\ stages - 1 \in Nat /\ Control \in DOMAIN program.code /\ BundleOf(Control) = LoopEnd - 1
    BY BundlesAre DEF Scheduled
  <1>5. /\ \A a : /\ PreparedOperation(a).loads
                        = IF Code(a) = MovSpecial THEN {<<"LC", Iterations - 1>>} ELSE {}
                  /\ PreparedOperation(a).target = IF a = Control THEN {LoopTarget} ELSE {}
                  /\ PreparedOperation(a).pipelined = (a = Control)
        /\ SetEpilogue.loads = {<<"EC", stages - 1>>} /\ SetEpilogue.target = {}
        /\ SetPredicate.loads = {<<"p", FirstRotating>>} /\ SetPredicate.target = {}
    BY DEF PreparedOperation, SetEpilogue, SetPredicate, Operation
  <1> DEFINE loads == UNION {op.loads : op \in Active}
             counted == \E a \in On : Code(a) = MovSpecial
  <1>6. \A l : l \in loads <=> \/ counted /\ l = <<"LC", Iterations - 1>>
                               \/ pc = EpiloguePlace[1] /\ l = <<"EC", stages - 1>>
                               \/ pc = PredicatePlace[1] /\ l = <<"p", FirstRotating>>
    <2>1. \A l : l \in loads <=> \E op \in Active : l \in op.loads
      OBVIOUS
    <2>2. ASSUME NEW l \in loads
          PROVE  \/ counted /\ l = <<"LC", Iterations - 1>>
                 \/ pc = EpiloguePlace[1] /\ l = <<"EC", stages - 1>>
                 \/ pc = PredicatePlace[1] /\ l = <<"p", FirstRotating>>
      <3>1. PICK op \in Active : l \in op.loads
        BY <2>1
      <3>2. CASE \E a \in On : op = PreparedOperation(a)
        BY <1>5, <3>1, <3>2
      <3>3. CASE pc = EpiloguePlace[1] /\ op = SetEpilogue
        BY <1>5, <3>1, <3>3
      <3>4. CASE pc = PredicatePlace[1] /\ op = SetPredicate
        BY <1>5, <3>1, <3>4
      <3> QED
        BY <1>1, <3>2, <3>3, <3>4
    <2>3. ASSUME counted PROVE <<"LC", Iterations - 1>> \in loads
      <3>1. PICK a \in On : Code(a) = MovSpecial
        BY <2>3
      <3>2. PreparedOperation(a) \in Active
        BY <1>1
      <3>3. <<"LC", Iterations - 1>> \in PreparedOperation(a).loads
        BY <1>5, <3>1
      <3> QED
        BY <2>1, <3>2, <3>3
    <2>4. ASSUME pc = EpiloguePlace[1] PROVE <<"EC", stages - 1>> \in loads
      BY <1>1, <1>5, <2>1, <2>4
    <2>5. ASSUME pc = PredicatePlace[1] PROVE <<"p", FirstRotating>> \in loads
      BY <1>1, <1>5, <2>1, <2>5
    <2> HIDE DEF loads, counted
    <2> QED
      BY <2>2, <2>3, <2>4, <2>5
  <1>7. ASSUME NEW special, NEW old, NEW value, NEW set \in BOOLEAN,
               {l \in loads : l[1] = special} = IF set THEN {<<special, value>>} ELSE {}
        PROVE  Loaded(special, old) = IF set THEN value ELSE old
    <2>1. Loaded(special, old) = IF {l \in loads : l[1] = special} = {} THEN old
                                 ELSE (CHOOSE l \in {k \in loads : k[1] = special} : TRUE)[2]
      BY DEF Loaded
    <2> HIDE DEF loads
    <2>2. CASE set
      <3>1. {l \in loads : l[1] = special} = {<<special, value>>}
        BY <1>7, <2>2
      <3> DEFINE chosen == CHOOSE l \in {<<special, value>>} : TRUE
      <3>2. chosen = <<special, value>>
        OBVIOUS
      <3>3. Loaded(special, old) = chosen[2]
        BY <2>1, <3>1
      <3> HIDE DEF chosen
      <3> QED
        BY <2>2, <3>2, <3>3
    <2>3. CASE ~set
      BY <1>7, <2>1, <2>3
    <2> QED
      BY <2>2, <2>3
  <1>8. \A x, y : <<x, y>>[1] = x /\ <<x, y>>[2] = y
    OBVIOUS
  <1>9. "LC" # "EC" /\ "LC" # "p" /\ "EC" # "p"
    OBVIOUS
  <1>10. LoopCount = IF counted THEN Iterations - 1 ELSE lc
    <2>1. {l \in loads : l[1] = "LC"} = IF counted THEN {<<"LC", Iterations - 1>>} ELSE {}
      <3> HIDE DEF loads, counted
      <3> QED
        BY <1>6, <1>8, <1>9
    <2>2. counted \in BOOLEAN
      OBVIOUS
    <2> HIDE DEF loads, counted
    <2> QED
      BY <1>7, <2>1, <2>2 DEF LoopCount
  <1>11. EpilogueCount = IF pc = EpiloguePlace[1] THEN stages - 1 ELSE ec
    <2> DEFINE set == pc = EpiloguePlace[1]
    <2>1. {l \in loads : l[1] = "EC"} = IF set THEN {<<"EC", stages - 1>>} ELSE {}
      <3> HIDE DEF loads, counted
      <3> QED
        BY <1>6, <1>8, <1>9
    <2>2. set \in BOOLEAN
      OBVIOUS
    <2>3. EpilogueCount = IF set THEN stages - 1 ELSE ec
      <3> HIDE DEF loads, set
      <3> QED
        BY <1>7, <2>1, <2>2 DEF EpilogueCount
    <2> QED
      BY <2>3
  <1>12. Predicated = predicates \cup (IF pc = PredicatePlace[1]
                                       THEN {Physical(FirstRotating)} ELSE {})
    <2>1. Predicated = predicates \cup {Physical(l[2]) : l \in {k \in loads : k[1] = "p"}}
      BY DEF Predicated
    <2>2. {k \in loads : k[1] = "p"}
             = IF pc = PredicatePlace[1] THEN {<<"p", FirstRotating>>} ELSE {}
      <3> HIDE DEF loads, counted
      <3> QED
        BY <1>6, <1>8, <1>9
    <2> HIDE DEF loads
    <2>3. CASE pc = PredicatePlace[1]
      <3>1. {Physical(l[2]) : l \in {<<"p", FirstRotating>>}} = {Physical(FirstRotating)}
        BY <1>8
      <3> QED
        BY <2>1, <2>2, <2>3, <3>1
    <2>4. CASE pc # PredicatePlace[1]
      BY <2>1, <2>2, <2>4
    <2> QED
      BY <2>3, <2>4
  <1>13. Control \in On <=> pc = LoopEnd - 1
    <2>1. Control \notin Body
      BY DEF Body
    <2>2. StagePredicate(Control) = {}
      BY <2>1 DEF StagePredicate
    <2> QED
      BY <1>4, <2>2 DEF On, AtPc
  <1>14. Branches = IF pc = LoopEnd - 1 THEN {PreparedOperation(Control)} ELSE {}
    <2>1. ASSUME NEW op \in Branches PROVE Control \in On /\ op = PreparedOperation(Control)
      <3>1. op \in Active /\ op.target # {}
        BY DEF Branches
      <3>2. CASE \E a \in On : op = PreparedOperation(a)
        BY <1>5, <3>1, <3>2
      <3>3. CASE op = SetEpilogue \/ op = SetPredicate
        BY <1>5, <3>1, <3>3
      <3> QED
        BY <1>1, <3>1, <3>2, <3>3
    <2>2. ASSUME Control \in On PROVE PreparedOperation(Control) \in Branches
      <3>1. PreparedOperation(Control) \in Active
        BY <1>1, <2>2
      <3>2. PreparedOperation(Control).target # {}
        BY <1>5
      <3> QED
        BY <3>1, <3>2 DEF Branches
    <2> QED
      BY <1>13, <2>1, <2>2
  <1>15. Branches # {} <=> pc = LoopEnd - 1
    BY <1>14
  <1>16. Pipelined <=> pc = LoopEnd - 1
    <2>1. PreparedOperation(Control).pipelined
      BY <1>5
    <2> QED
      BY <1>14, <2>1 DEF Pipelined
  <1>17. ASSUME Branches # {} PROVE UNION {op.target : op \in Branches} = {LoopBundle}
    <2>1. PreparedOperation(Control).target = {LoopBundle}
      BY <1>5 DEF LoopTarget
    <2> QED
      BY <1>14, <1>17, <2>1
  <1>18. LoopCount \in Nat /\ EpilogueCount \in Nat
    <2> HIDE DEF counted
    <2> QED
      BY <1>2, <1>3, <1>4, <1>10, <1>11
  <1> HIDE DEF loads
  <1> QED
    BY <1>10, <1>11, <1>12, <1>15, <1>16, <1>17, <1>18

\* The loop goes back for another iteration, or to drain the pipeline.
Starts == pc = LoopEnd - 1 /\ LoopCount > 0
Drains == pc = LoopEnd - 1 /\ LoopCount = 0 /\ EpilogueCount > 0

\* What a cycle does beside writing registers.
LEMMA TickIs ==
    ASSUME Compacted, MachineInv, phase = "running", Tick
    PROVE  /\ code' = code
           /\ multiplier' = <<Writes("Mult"), multiplier[1]>>
           /\ rest' = IF pc < Len(code) THEN rest ELSE rest - 1
           /\ Starts \/ Drains =>
                 /\ pc' = LoopBundle
                 /\ lap' = IF lap < MaxLaps THEN lap + 1 ELSE lap
                 /\ rrb' = lap'
           /\ Starts => /\ lc' = LoopCount - 1 /\ ec' = EpilogueCount
                        /\ predicates' = Predicated \cup {FirstOf(lap')}
           /\ Drains => /\ lc' = 0 /\ ec' = EpilogueCount - 1
                        /\ predicates' = Predicated \ {FirstOf(lap')}
           /\ ~(Starts \/ Drains) =>
                 /\ pc' = IF pc < Len(code) THEN pc + 1 ELSE pc
                 /\ lc' = LoopCount /\ ec' = EpilogueCount
                 /\ lap' = lap /\ rrb' = rrb
                 /\ predicates' = IF pc = LoopEnd - 1 THEN Predicated \ {FirstOf(lap)}
                                  ELSE Predicated
           /\ ran' = ran \cup {<<a, lap>> : a \in On}
  <1>1. /\ LoopCount \in Nat /\ EpilogueCount \in Nat
        /\ Branches # {} <=> pc = LoopEnd - 1
        /\ Pipelined <=> pc = LoopEnd - 1
        /\ Branches # {} => UNION {op.target : op \in Branches} = {LoopBundle}
    BY CycleIs
  <1>2. \A op : op \in Active <=> \/ \E a \in On : op = PreparedOperation(a)
                                  \/ pc = EpiloguePlace[1] /\ op = SetEpilogue
                                  \/ pc = PredicatePlace[1] /\ op = SetPredicate
    BY ActiveIs
  <1>3. rrb = lap
    BY DEF MachineInv
  <1>4. /\ Repeat \/ Drain \/ Proceed
        /\ code' = code /\ multiplier' = <<Writes("Mult"), multiplier[1]>>
        /\ rest' = IF pc < Len(code) THEN rest ELSE rest - 1
        /\ ran' = ran \cup {<<op.name, lap>> : op \in {o \in Active : o.name # 0}}
    BY DEF Tick
  <1>5. Repeat => Starts /\ ~Drains
    BY <1>1 DEF Repeat, Starts, Drains
  <1>6. Drain => Drains /\ ~Starts
    BY <1>1 DEF Drain, Starts, Drains
  <1>7. Proceed => ~Starts /\ ~Drains
    BY <1>1 DEF Proceed, Starts, Drains
  <1>8. ASSUME Branches # {}, Back
        PROVE  pc' = LoopBundle /\ lap' = (IF lap < MaxLaps THEN lap + 1 ELSE lap) /\ rrb' = lap'
    <2>1. pc' = CHOOSE t \in {LoopBundle} : TRUE
      BY <1>1, <1>8 DEF Back
    <2>2. pc' = LoopBundle
      BY <2>1
    <2> QED
      BY <1>1, <1>3, <1>8, <2>2 DEF Back
  <1>9. \A b : RegisterBehind(FirstRotating, b) = FirstOf(b)
    BY DEF FirstOf
  <1>10. ASSUME Repeat
         PROVE  /\ pc' = LoopBundle /\ lap' = (IF lap < MaxLaps THEN lap + 1 ELSE lap)
                /\ rrb' = lap' /\ lc' = LoopCount - 1 /\ ec' = EpilogueCount
                /\ predicates' = Predicated \cup {FirstOf(lap')}
    <2>1. Branches # {} /\ Back /\ Pipelined /\ lc' = LoopCount - 1 /\ ec' = EpilogueCount
      BY <1>1, <1>10 DEF Repeat
    <2>2. predicates' = Starting(TRUE, rrb')
      BY <1>10, <2>1 DEF Repeat
    <2> QED
      BY <1>8, <1>9, <2>1, <2>2 DEF Starting
  <1>11. ASSUME Drain
         PROVE  /\ pc' = LoopBundle /\ lap' = (IF lap < MaxLaps THEN lap + 1 ELSE lap)
                /\ rrb' = lap' /\ lc' = 0 /\ ec' = EpilogueCount - 1
                /\ predicates' = Predicated \ {FirstOf(lap')}
    <2>1. Branches # {} /\ Back /\ lc' = 0 /\ ec' = EpilogueCount - 1
      BY <1>1, <1>11 DEF Drain
    <2>2. predicates' = Starting(FALSE, rrb')
      BY <1>11 DEF Drain
    <2> QED
      BY <1>8, <1>9, <2>1, <2>2 DEF Starting
  <1>12. ASSUME Proceed
         PROVE  /\ pc' = IF pc < Len(code) THEN pc + 1 ELSE pc
                /\ lc' = LoopCount /\ ec' = EpilogueCount
                /\ lap' = lap /\ rrb' = rrb
                /\ predicates' = IF pc = LoopEnd - 1 THEN Predicated \ {FirstOf(lap)}
                                 ELSE Predicated
    <2>1. /\ pc' = IF pc < Len(code) THEN pc + 1 ELSE pc
          /\ lc' = LoopCount /\ ec' = EpilogueCount /\ lap' = lap /\ rrb' = rrb
          /\ predicates' = IF Pipelined THEN Starting(FALSE, rrb) ELSE Predicated
      BY <1>12 DEF Proceed
    <2> QED
      BY <1>1, <1>3, <1>9, <2>1 DEF Starting
  <1>13. ran' = ran \cup {<<a, lap>> : a \in On}
    <2>1. /\ \A a : PreparedOperation(a).name = a
          /\ SetEpilogue.name = 0 /\ SetPredicate.name = 0
      BY DEF PreparedOperation, SetEpilogue, SetPredicate, Operation, NoName
    <2>2. \A a \in On : a # 0
      <3>1. DOMAIN program.code \subseteq Nat \ {0}
        BY BlocksOf, BundlesAre DEF Scheduled
      <3> QED
        BY <3>1 DEF On, AtPc
    <2>3. \A a \in On : PreparedOperation(a) \in {o \in Active : o.name # 0}
      BY <1>2, <2>1, <2>2
    <2>4. \A op \in {o \in Active : o.name # 0} : op.name \in On
      BY <1>2, <2>1
    <2>5. {<<op.name, lap>> : op \in {o \in Active : o.name # 0}} = {<<a, lap>> : a \in On}
      <3>1. ASSUME NEW x \in {<<op.name, lap>> : op \in {o \in Active : o.name # 0}}
            PROVE  x \in {<<a, lap>> : a \in On}
        BY <2>4
      <3>2. ASSUME NEW a \in On
            PROVE  <<a, lap>> \in {<<op.name, lap>> : op \in {o \in Active : o.name # 0}}
        <4>1. <<PreparedOperation(a).name, lap>> \in
                 {<<op.name, lap>> : op \in {o \in Active : o.name # 0}}
          BY <2>3
        <4> QED
          BY <2>1, <4>1
      <3> QED
        BY <3>1, <3>2
    <2> QED
      BY <1>4, <2>5
  <1>14. /\ Starts => Repeat
         /\ Drains => Drain
         /\ ~(Starts \/ Drains) => Proceed
    BY <1>4, <1>5, <1>6, <1>7
  <1> HIDE DEF Repeat, Drain, Proceed, Starts, Drains, Tick, FirstOf
  <1>15. Starts \/ Drains => /\ pc' = LoopBundle
                             /\ lap' = IF lap < MaxLaps THEN lap + 1 ELSE lap
                             /\ rrb' = lap'
    BY <1>10, <1>11, <1>14
  <1> QED
    BY <1>4, <1>10, <1>11, <1>12, <1>13, <1>14, <1>15

-----------------------------------------------------------------------------
(* Every step keeps where the machine is *)

\* The bundles stay what they are while the tables do.
LEMMA SameSchedule ==
    ASSUME UNCHANGED <<program, ii, cycle, relative, slot, stages, start, dst, src>>
    PROVE  /\ FinalSchedule' = FinalSchedule
           /\ LoopBundle' = LoopBundle /\ LoopEnd' = LoopEnd
           /\ EpiloguePlace' = EpiloguePlace /\ PredicatePlace' = PredicatePlace
           /\ Body' = Body /\ Control' = Control /\ Times' = Times /\ (Endless' <=> Endless)
           /\ \A a : /\ Code(a)' = Code(a) /\ Block(program, a)' = Block(program, a)
                     /\ BundleOf(a)' = BundleOf(a) /\ Stage(a)' = Stage(a)
                     /\ StagePredicate(a)' = StagePredicate(a)
           /\ \A b : InBlock(program, b)' = InBlock(program, b)
  <1>1. /\ Body' = Body /\ Control' = Control /\ Times' = Times
        /\ \A a : /\ Code(a)' = Code(a) /\ Block(program, a)' = Block(program, a)
                  /\ Stage(a)' = Stage(a)
        /\ \A b : InBlock(program, b)' = InBlock(program, b)
    BY ProgramKept DEF Times, Stage
  <1>2. Endless' <=> Endless
    BY <1>1 DEF Endless
  <1>3. BeforeLoop' = BeforeLoop
    BY DEF BeforeLoop, Occupied, Placed
  <1>4. EpiloguePlace' = EpiloguePlace
    BY <1>3 DEF EpiloguePlace, LatestPlace
  <1>5. PredicatePlace' = PredicatePlace
    BY <1>3, <1>4 DEF PredicatePlace, LatestPlace, Including
  <1>6. LoopBundle' = LoopBundle
    BY <1>4, <1>5 DEF LoopBundle, Including
  <1>7. LoopEnd' = LoopEnd
    BY <1>6 DEF LoopEnd
  <1>8. \A a : BundleOf(a)' = BundleOf(a)
    BY <1>1, <1>6 DEF BundleOf
  <1>9. \A a : StagePredicate(a)' = StagePredicate(a)
    BY <1>1 DEF StagePredicate
  <1>10. \A a : PreparedOperation(a)' = PreparedOperation(a)
    BY <1>1, <1>6, <1>9 DEF PreparedOperation, LoopTarget
  <1>11. Initializations' = Initializations
    BY <1>4, <1>5 DEF Initializations
  <1>12. Positioned' = Positioned
    BY <1>8, <1>10, <1>11 DEF Positioned
  <1>13. FinalSchedule' = FinalSchedule
    BY <1>12 DEF FinalSchedule
  <1> QED
    BY <1>1, <1>2, <1>4, <1>5, <1>6, <1>7, <1>8, <1>9, <1>13

\* What a cycle leaves alone.
LEMMA RunKeeps ==
    ASSUME Run
    PROVE  /\ UNCHANGED <<source, program, phase, ii, todo, cycle, relative, slot, stages, start>>
           /\ UNCHANGED <<dst, src>>
           /\ phase = "running" /\ Tick
  BY DEF Run, schedulerVars, registerVars

\* The bundles are loaded: the machine starts from its initial state.
LEMMA PrepareInv ==
    ASSUME Compacted, MachineInv, Prepare
    PROVE  MachineInv'
  <1>1. /\ phase = "allocated" /\ phase' = "running" /\ code' = FinalSchedule
        /\ UNCHANGED <<program, ii, cycle, relative, slot, stages, start, dst, src>>
        /\ UNCHANGED <<pc, lc, ec, rrb, rest, lap>>
    BY DEF Prepare, registerVars
  <1>2. /\ pc = 0 /\ lc = 0 /\ ec = 0 /\ rrb = 0 /\ rest = 2 /\ lap = 0
    BY <1>1 DEF MachineInv, MachineInit
  <1>3. FinalSchedule' = FinalSchedule
    BY <1>1, SameSchedule
  <1>4. Len(FinalSchedule) \in Nat
    BY <1>1, FinalIs DEF Scheduled
  <1>5. MaxLaps \in Nat
    BY LooppipBackendAssumption
  <1> QED
    BY <1>1, <1>2, <1>3, <1>4, <1>5 DEF MachineInv

\* A cycle.
LEMMA RunInv ==
    ASSUME Compacted, MachineInv, Run
    PROVE  MachineInv'
  <1>1. /\ UNCHANGED <<program, ii, cycle, relative, slot, stages, start, dst, src>>
        /\ phase = "running" /\ phase' = phase /\ Tick
    BY RunKeeps
  <1>2. FinalSchedule' = FinalSchedule
    BY <1>1, SameSchedule
  <1>3. /\ code' = code
        /\ rest' = IF pc < Len(code) THEN rest ELSE rest - 1
        /\ Starts \/ Drains => /\ pc' = LoopBundle
                               /\ lap' = IF lap < MaxLaps THEN lap + 1 ELSE lap
                               /\ rrb' = lap'
        /\ Starts => lc' = LoopCount - 1 /\ ec' = EpilogueCount
        /\ Drains => lc' = 0 /\ ec' = EpilogueCount - 1
        /\ ~(Starts \/ Drains) => /\ pc' = IF pc < Len(code) THEN pc + 1 ELSE pc
                                  /\ lc' = LoopCount /\ ec' = EpilogueCount
                                  /\ lap' = lap /\ rrb' = rrb
    BY <1>1, TickIs
  <1>4. LoopCount \in Nat /\ EpilogueCount \in Nat
    BY <1>1, CycleIs
  <1>5. /\ Len(code) \in Nat /\ LoopEnd <= Len(code) /\ pc \in Nat /\ pc <= Len(code)
        /\ LoopBundle \in Nat /\ LoopEnd = LoopBundle + ii /\ ii \in Nat
    BY <1>1, ActiveIs, BundlesAre DEF Scheduled
  <1>6. code = FinalSchedule /\ lap \in 0 .. MaxLaps /\ rrb = lap /\ rest \in 0 .. 2
    BY <1>1 DEF MachineInv
  <1>7. MaxLaps \in Nat
    BY LooppipBackendAssumption
  <1>8. pc' \in 0 .. Len(code)
    BY <1>3, <1>5
  <1>9. lc' \in Nat /\ ec' \in Nat
    <2>1. CASE Starts
      BY <1>3, <1>4, <2>1 DEF Starts
    <2>2. CASE Drains
      BY <1>3, <1>4, <2>2 DEF Drains
    <2>3. CASE ~(Starts \/ Drains)
      BY <1>3, <1>4, <2>3
    <2> QED
      BY <2>1, <2>2, <2>3
  <1>10. lap' \in 0 .. MaxLaps /\ rrb' = lap'
    BY <1>3, <1>6, <1>7
  <1>11. rest' \in 0 .. 2
    <2>1. pc < Len(code) \/ rest > 0
      BY <1>1 DEF Tick, Running
    <2> QED
      BY <1>3, <1>6, <2>1
  <1> QED
    BY <1>1, <1>2, <1>3, <1>6, <1>8, <1>9, <1>10, <1>11 DEF MachineInv

\* What the scheduler hands on, and the machine that runs it.
BackendInv == Compacted /\ MachineInv

\* The scheduler has finished.
Finished == phase = "done"

\* It holds in every state.
LEMMA BackendIs == Spec => []BackendInv
  <1>1. Init => BackendInv
    <2>1. Init => phase = "source" /\ MachineInit(<<>>)
      BY DEF Init, SchedulerInit
    <2> QED
      BY <2>1 DEF BackendInv, Compacted, Scheduled, MachineInv
  <1>2. Compacted /\ MachineInv /\ [Next]_vars => (Compacted' \/ Finished') /\ MachineInv'
    <2> SUFFICES ASSUME Compacted, MachineInv, [Next]_vars
                 PROVE  (Compacted' \/ phase' = "done") /\ MachineInv'
      BY DEF Finished
    <2>1. ASSUME UNCHANGED machineVars, phase # "running", phase' # "running"
          PROVE  MachineInv'
      BY <2>1 DEF MachineInv, MachineInit, machineVars
    <2>2. CASE Schedule
      <3>1. UNCHANGED machineVars /\ phase # "running" /\ phase' # "running"
        BY <2>2 DEF Schedule, ScheduleNext, Parse, ParseError, PlaceInCycle, NoCycleLeft,
                    FinishBB0, FinishBB2, PlaceModulo, NoPlaceInBody, BodyTooSlow, AcceptBody,
                    NextInterval
      <3>2. phase' \notin {"allocated", "running"}
        BY <2>2 DEF Schedule, ScheduleNext, Parse, ParseError, PlaceInCycle, NoCycleLeft,
                    FinishBB0, FinishBB2, PlaceModulo, NoPlaceInBody, BodyTooSlow, AcceptBody,
                    NextInterval
      <3>3. Compacted' \/ phase' = "done"
        BY <3>2 DEF Compacted, Scheduled
      <3> QED
        BY <2>1, <3>1, <3>3
    <2>3. CASE AllocateRegisters
      <3>1. /\ UNCHANGED <<program, ii, cycle, relative, slot, stages, start>>
            /\ UNCHANGED machineVars
            /\ phase = "done" /\ phase' \in {"allocated", "unallocated"}
        BY <2>3 DEF AllocateRegisters, AllocateNext, Allocate, OutOfRegisters
      <3> QED
        BY <2>1, <3>1, CompactedKept DEF Scheduled
    <2>4. CASE Prepare
      <3>1. /\ UNCHANGED <<program, ii, cycle, relative, slot, stages, start>>
            /\ phase = "allocated"
        BY <2>4 DEF Prepare
      <3> QED
        BY <2>4, <3>1, CompactedKept, PrepareInv DEF Scheduled
    <2>5. CASE Run
      <3>1. /\ UNCHANGED <<program, ii, cycle, relative, slot, stages, start>>
            /\ phase = "running"
        BY <2>5, RunKeeps
      <3> QED
        BY <2>5, <3>1, CompactedKept, RunInv DEF Scheduled
    <2>6. CASE UNCHANGED vars
      <3>1. /\ UNCHANGED <<program, phase, ii, cycle, relative, slot, stages, start, dst, src>>
            /\ UNCHANGED <<code, pc, lc, ec, rrb, registers, predicates, multiplier, rest, lap, ran>>
        BY <2>6 DEF vars, schedulerVars, registerVars, machineVars
      <3>2. FinalSchedule' = FinalSchedule
        BY <3>1, SameSchedule
      <3>3. MachineInv'
        BY <3>1, <3>2 DEF MachineInv, MachineInit
      <3> QED
        BY <3>1, <3>3, CompactedKept DEF Scheduled
    <2> QED
      BY <2>2, <2>3, <2>4, <2>5, <2>6 DEF Next
  <1>3. ScheduleInv /\ Finished => Compacted
    BY DoneCompacted DEF Finished
  <1> QED
    BY <1>1, <1>2, <1>3, PathKept, PTL DEF Spec, BackendInv

-----------------------------------------------------------------------------
(* Predicates *)

\* The registers.
LEMMA FileIs ==
    /\ LastStatic \in Nat \ {0} /\ LastRotating \in Nat /\ LastRotating > LastStatic
    /\ FirstRotating = LastStatic + 1 /\ Register = 0 .. LastRotating
    /\ Cardinality(Register) = LastRotating + 1
    /\ Rotating = LastRotating - LastStatic /\ Rotating \in Nat \ {0} /\ MaxLaps \in Nat
  <1>1. /\ LastStatic \in Nat \ {0} /\ LastRotating \in Nat /\ LastRotating > LastStatic
        /\ FirstRotating = LastStatic + 1 /\ Register = 0 .. LastRotating /\ MaxLaps \in Nat
    BY LooppipBackendAssumption
  <1>2. Cardinality(Register) = LastRotating + 1
    <2>1. 0 \in Int /\ LastRotating \in Int
      BY <1>1
    <2>2. Cardinality(0 .. LastRotating) = IF 0 > LastRotating THEN 0 ELSE (LastRotating - 0) + 1
      BY <2>1, FS_Interval
    <2> QED
      BY <1>1, <2>2
  <1>3. Rotating = LastRotating - LastStatic
    BY <1>1, <1>2 DEF Rotating
  <1> QED
    BY <1>1, <1>2, <1>3

\* A rotating name is behind the base, or as far from the end as it would be before the
\* first rotating register.
LEMMA BehindIs ==
    ASSUME NEW s \in Nat, s < Rotating, NEW base \in Nat, base - s < Rotating
    PROVE  RegisterBehind(FirstRotating + s, base) =
              IF base <= s THEN FirstRotating + (s - base)
              ELSE FirstRotating + Rotating - (base - s)
  <1>1. /\ FirstRotating \in Nat \ {0} /\ Rotating \in Nat \ {0}
        /\ Cardinality(Register) = FirstRotating + Rotating
    BY FileIs
  <1> DEFINE card == FirstRotating + Rotating
             potential == (FirstRotating + s) - base
             number == IF potential < FirstRotating THEN potential + Rotating ELSE potential
  <1>2. RegisterBehind(FirstRotating + s, base) = number % card
    BY <1>1 DEF RegisterBehind
  <1>3. number = IF base <= s THEN FirstRotating + (s - base)
                 ELSE FirstRotating + Rotating - (base - s)
    BY <1>1
  <1>4. number \in Nat /\ number < card
    BY <1>1, <1>3
  <1>5. card \in Nat \ {0}
    BY <1>1
  <1> HIDE DEF number, card
  <1>6. number % card = number
    BY <1>4, <1>5
  <1> QED
    BY <1>2, <1>3, <1>6

\* The first predicate of a lap.
LEMMA FirstIs ==
    ASSUME NEW i \in Nat, i < Rotating
    PROVE  FirstOf(i) = IF i = 0 THEN FirstRotating ELSE FirstRotating + Rotating - i
  <1>1. FirstRotating \in Nat /\ Rotating \in Nat \ {0}
    BY FileIs
  <1>2. RegisterBehind(FirstRotating + 0, i) =
           IF i <= 0 THEN FirstRotating + (0 - i) ELSE FirstRotating + Rotating - (i - 0)
    <2>1. 0 \in Nat /\ 0 < Rotating /\ i - 0 < Rotating
      BY <1>1
    <2> QED
      BY <2>1, BehindIs
  <1>3. FirstRotating + 0 = FirstRotating
    BY <1>1
  <1> QED
    BY <1>1, <1>2, <1>3 DEF FirstOf

\* The predicate of a stage is the first of the lap in which the iteration started that
\* has come to this stage; one that has not started has none.
LEMMA StageOfIteration ==
    ASSUME MachineInv, phase = "running", lap < Rotating, NEW s \in Nat, s < Rotating
    PROVE  /\ s <= lap => Physical(FirstRotating + s) = FirstOf(lap - s)
           /\ lap < s => \A i \in 0 .. lap : Physical(FirstRotating + s) # FirstOf(i)
  <1>1. rrb = lap /\ lap \in Nat /\ FirstRotating \in Nat /\ Rotating \in Nat \ {0}
    BY FileIs DEF MachineInv
  <1>2. Physical(FirstRotating + s) = IF lap <= s THEN FirstRotating + (s - lap)
                                      ELSE FirstRotating + Rotating - (lap - s)
    <2>1. lap - s < Rotating
      BY <1>1
    <2> QED
      BY <1>1, <2>1, BehindIs DEF Physical
  <1>3. ASSUME s <= lap PROVE Physical(FirstRotating + s) = FirstOf(lap - s)
    <2>1. lap - s \in Nat /\ lap - s < Rotating
      BY <1>1, <1>3
    <2>2. FirstOf(lap - s) = IF lap - s = 0 THEN FirstRotating
                             ELSE FirstRotating + Rotating - (lap - s)
      BY <2>1, FirstIs
    <2> QED
      BY <1>1, <1>2, <1>3, <2>2
  <1>4. ASSUME lap < s, NEW i \in 0 .. lap PROVE Physical(FirstRotating + s) # FirstOf(i)
    <2>1. i \in Nat /\ i < Rotating
      BY <1>1
    <2>2. FirstOf(i) = IF i = 0 THEN FirstRotating ELSE FirstRotating + Rotating - i
      BY <2>1, FirstIs
    <2> QED
      BY <1>1, <1>2, <1>4, <2>1, <2>2
  <1> QED
    BY <1>3, <1>4

\* Laps have their own first predicates.
LEMMA FirstsApart ==
    ASSUME NEW i \in Nat, i < Rotating, NEW j \in Nat, j < Rotating, FirstOf(i) = FirstOf(j)
    PROVE  i = j
  <1>1. FirstRotating \in Nat /\ Rotating \in Nat \ {0}
    BY FileIs
  <1>2. /\ FirstOf(i) = IF i = 0 THEN FirstRotating ELSE FirstRotating + Rotating - i
        /\ FirstOf(j) = IF j = 0 THEN FirstRotating ELSE FirstRotating + Rotating - j
    BY FirstIs
  <1>3. CASE i = 0
    <2>1. FirstOf(j) = FirstRotating
      BY <1>2, <1>3
    <2>2. ASSUME j # 0 PROVE FALSE
      <3>1. FirstRotating + Rotating - j = FirstRotating
        BY <1>2, <2>1, <2>2
      <3> QED
        BY <1>1, <3>1
    <2> QED
      BY <1>3, <2>2
  <1>4. CASE i # 0 /\ j = 0
    <2>1. FirstRotating + Rotating - i = FirstRotating
      BY <1>2, <1>4
    <2> QED
      BY <1>1, <1>4, <2>1
  <1>5. CASE i # 0 /\ j # 0
    <2>1. FirstRotating + Rotating - i = FirstRotating + Rotating - j
      BY <1>2, <1>5
    <2> QED
      BY <1>1, <2>1
  <1> QED
    BY <1>3, <1>4, <1>5

\* How often the loop runs.
LEMMA TimesIs ==
    /\ Times \in Nat \ {0} /\ Iterations \in Nat \ {0}
    /\ Times = IF \E a \in InBlock(program, "BB0") : Code(a) = MovSpecial THEN Iterations ELSE 1
  BY LooppipAssumption DEF Times, Laps, Code

\* The assumptions under which the loop is followed.
Following == Compacted /\ MachineInv /\ Lapping /\ phase = "running" /\ ~Endless /\ LapsFit

\* Where the machine is in the loop.
LEMMA LapIs ==
    ASSUME Following
    PROVE  /\ lap \in Nat /\ lap <= Times + stages - 2 /\ Times + stages - 2 \in Nat
           /\ Times + stages - 2 < Rotating /\ Times + stages - 2 <= MaxLaps
           /\ stages \in Nat \ {0} /\ ii \in Nat \ {0}
           /\ LoopBundle \in Nat /\ LoopEnd = LoopBundle + ii /\ LoopEnd \in Nat
           /\ pc \in Nat
           /\ pc < LoopBundle => lap = 0
           /\ LoopEnd <= pc => lap = Times + stages - 2
           /\ \A a \in DOMAIN program.code :
                 Block(program, a) = "BB1" => Stage(a) \in Nat /\ Stage(a) < stages
  <1>1. /\ stages \in Nat \ {0} /\ ii \in Nat \ {0}
        /\ LoopBundle \in Nat /\ LoopEnd = LoopBundle + ii /\ LoopEnd \in Nat
        /\ \A a \in DOMAIN program.code :
              Block(program, a) = "BB1" => Stage(a) \in Nat /\ Stage(a) < stages
    BY BundlesAre DEF Following, Scheduled
  <1>2. Times \in Nat \ {0} /\ Rotating \in Nat /\ MaxLaps \in Nat
    BY TimesIs, FileIs
  <1>3. Times + stages - 1 <= Rotating /\ Times + stages - 2 <= MaxLaps
    BY DEF Following, LapsFit
  <1>4. lap \in Nat /\ ec \in Nat /\ pc \in Nat
    BY ActiveIs DEF Following, MachineInv
  <1>5. /\ pc < LoopBundle => lap = 0
        /\ LoopBundle <= pc /\ pc < LoopEnd => (lap >= Times => ec = (Times + stages - 2) - lap)
        /\ LoopEnd <= pc => lap = Times + stages - 2
    BY DEF Following, Lapping
  <1>6. lap <= Times + stages - 2
    <2>1. CASE pc < LoopBundle
      BY <1>1, <1>2, <1>5, <2>1
    <2>2. CASE LoopBundle <= pc /\ pc < LoopEnd
      BY <1>1, <1>2, <1>4, <1>5, <2>2
    <2>3. CASE LoopEnd <= pc
      BY <1>1, <1>2, <1>5, <2>3
    <2> QED
      BY <1>1, <1>4, <2>1, <2>2, <2>3
  <1>7. Times + stages - 2 \in Nat /\ Times + stages - 2 < Rotating
    BY <1>1, <1>2, <1>3
  <1> QED
    BY <1>1, <1>3, <1>4, <1>5, <1>6, <1>7

\* Which instructions execute: outside the loop those that are read, in it those of the
\* iterations that have started and come to their stage.
LEMMA OnIs ==
    ASSUME Following, NEW a \in AtPc
    PROVE  /\ a \in DOMAIN program.code /\ BundleOf(a) = pc
           /\ pc < LoopBundle => Block(program, a) = "BB0"
           /\ LoopBundle <= pc /\ pc < LoopEnd => Block(program, a) = "BB1"
           /\ LoopEnd <= pc => Block(program, a) = "BB2"
           /\ a \in On <=> (a \in Body => Stage(a) <= lap /\ lap - Stage(a) < Times)
  <1>1. a \in DOMAIN program.code /\ BundleOf(a) = pc
    BY DEF AtPc
  <1>2. /\ Compacted /\ Scheduled /\ MachineInv /\ phase = "running"
        /\ Splittable(program)
        /\ Block(program, a) \in {"BB0", "BB1", "BB2"}
        /\ Block(program, a) = "BB0" => BundleOf(a) < LoopBundle
        /\ Block(program, a) = "BB1" => /\ LoopBundle <= BundleOf(a) /\ BundleOf(a) < LoopEnd
                                        /\ Stage(a) \in Nat /\ Stage(a) < stages
        /\ Block(program, a) = "BB2" => LoopEnd <= BundleOf(a)
    BY <1>1, BundlesAre DEF Following, Scheduled
  <1>3. /\ lap \in Nat /\ lap < Rotating /\ stages <= Rotating
        /\ LoopBundle \in Nat /\ LoopEnd \in Nat /\ LoopBundle <= LoopEnd /\ pc \in Nat
        /\ Times \in Nat \ {0} /\ Rotating \in Nat /\ stages \in Nat \ {0}
    <2>1. Times \in Nat \ {0} /\ Rotating \in Nat
      BY TimesIs, FileIs
    <2> QED
      BY <2>1, LapIs
  <1>4. /\ pc < LoopBundle => Block(program, a) = "BB0"
        /\ LoopBundle <= pc /\ pc < LoopEnd => Block(program, a) = "BB1"
        /\ LoopEnd <= pc => Block(program, a) = "BB2"
    BY <1>1, <1>2, <1>3
  <1>5. a \in On <=> (a \in Body => Physical(FirstRotating + Stage(a)) \in predicates)
    BY DEF On, StagePredicate
  <1>6. ASSUME a \in Body
        PROVE  Physical(FirstRotating + Stage(a)) \in predicates
                  <=> Stage(a) <= lap /\ lap - Stage(a) < Times
    <2>1. Block(program, a) = "BB1"
      BY <1>1, <1>2, <1>6, BlocksOf
    <2>2. /\ Stage(a) \in Nat /\ Stage(a) < Rotating
          /\ LoopBundle <= pc /\ pc < LoopEnd
      BY <1>1, <1>2, <1>3, <2>1
    <2>3. predicates = {FirstOf(i) : i \in {j \in 0 .. lap : j < Times}}
      BY <2>2 DEF Following, Lapping, StartedBy
    <2>4. /\ Stage(a) <= lap => Physical(FirstRotating + Stage(a)) = FirstOf(lap - Stage(a))
          /\ lap < Stage(a) =>
                \A i \in 0 .. lap : Physical(FirstRotating + Stage(a)) # FirstOf(i)
      BY <1>2, <1>3, <2>2, StageOfIteration
    <2>5. CASE Stage(a) <= lap
      <3>1. lap - Stage(a) \in 0 .. lap /\ lap - Stage(a) \in Nat /\ lap - Stage(a) < Rotating
        BY <1>3, <2>2, <2>5
      <3>2. \A i \in 0 .. lap : FirstOf(lap - Stage(a)) = FirstOf(i) => lap - Stage(a) = i
        <4>1. \A i \in 0 .. lap : i \in Nat /\ i < Rotating
          BY <1>3
        <4> QED
          BY <3>1, <4>1, FirstsApart
      <3> QED
        BY <2>3, <2>4, <2>5, <3>1, <3>2
    <2>6. CASE lap < Stage(a)
      BY <1>3, <2>2, <2>3, <2>4, <2>6
    <2> QED
      BY <1>3, <2>2, <2>5, <2>6
  <1> QED
    BY <1>1, <1>4, <1>5, <1>6

-----------------------------------------------------------------------------
(* Every step keeps where the machine is in the loop *)

\* While iterations start, each adds its own.
LEMMA StartedNext ==
    ASSUME NEW n \in Nat
    PROVE  /\ n + 1 < Times => StartedBy(n + 1) = StartedBy(n) \cup {FirstOf(n + 1)}
           /\ Times <= n + 1 => StartedBy(n + 1) = StartedBy(n)
           /\ StartedBy(0) = {FirstOf(0)}
  <1>1. Times \in Nat \ {0}
    BY TimesIs
  <1> DEFINE Begun(m) == {j \in 0 .. m : j < Times}
  <1>2. \A m : StartedBy(m) = {FirstOf(i) : i \in Begun(m)}
    BY DEF StartedBy
  <1>3. n + 1 < Times => Begun(n + 1) = Begun(n) \cup {n + 1}
    BY <1>1
  <1>4. Times <= n + 1 => Begun(n + 1) = Begun(n)
    BY <1>1
  <1>5. Begun(0) = {0}
    BY <1>1
  <1> HIDE DEF Begun
  <1> QED
    BY <1>2, <1>3, <1>4, <1>5

\* In the loop only the branch changes the counts.
LEMMA CountsInLoop ==
    ASSUME Following, LoopBundle <= pc, pc < LoopEnd
    PROVE  LoopCount = lc /\ EpilogueCount = ec /\ Predicated = predicates
  <1>1. /\ LoopCount = IF \E a \in On : Code(a) = MovSpecial THEN Iterations - 1 ELSE lc
        /\ EpilogueCount = IF pc = EpiloguePlace[1] THEN stages - 1 ELSE ec
        /\ Predicated = predicates \cup (IF pc = PredicatePlace[1]
                                         THEN {Physical(FirstRotating)} ELSE {})
    BY CycleIs DEF Following
  <1>2. pc # EpiloguePlace[1] /\ pc # PredicatePlace[1]
    <2>1. start \in Nat
      BY BundlesAre DEF Following, Scheduled
    <2> QED
      BY <2>1, LapIs, LoopBundleIs
  <1>3. ASSUME NEW a \in On, Code(a) = MovSpecial PROVE Iterations - 1 = lc
    <2>1. a \in AtPc
      BY DEF On
    <2>2. a \in DOMAIN program.code /\ Block(program, a) = "BB1"
      BY <2>1, OnIs
    <2>3. a \in InBlock(program, "BB1")
      BY <2>2 DEF InBlock
    <2>4. Iterations \in Nat \ {0} /\ ~(Iterations > 1)
      BY <1>3, <2>3, TimesIs DEF Following, Endless
    <2>5. Iterations = 1
      BY <2>4
    <2>6. Times = 1
      BY <2>5, TimesIs
    <2>7. /\ lap < Times => lc = Times - 1 - lap
          /\ lap >= Times => lc = 0
          /\ lap \in Nat
      BY LapIs DEF Following, Lapping
    <2> QED
      BY <2>5, <2>6, <2>7
  <1> QED
    BY <1>1, <1>2, <1>3

\* Before the loop.
LEMMA RunBefore ==
    ASSUME Following, Run, pc < LoopBundle
    PROVE  Lapping'
  <1>1. /\ UNCHANGED <<program, ii, cycle, relative, slot, stages, start, dst, src>>
        /\ phase = "running" /\ Tick /\ Compacted /\ MachineInv
    BY RunKeeps DEF Following
  <1>2. /\ LoopBundle' = LoopBundle /\ LoopEnd' = LoopEnd /\ Times' = Times
        /\ EpiloguePlace' = EpiloguePlace /\ PredicatePlace' = PredicatePlace
        /\ InBlock(program, "BB0")' = InBlock(program, "BB0")
        /\ \A a : Code(a)' = Code(a)
    BY <1>1, SameSchedule
  <1>3. /\ LoopBundle \in Nat /\ ii \in Nat \ {0} /\ LoopEnd = LoopBundle + ii
        /\ stages \in Nat \ {0} /\ pc \in Nat /\ lap = 0
    BY LapIs
  <1>4. /\ EpiloguePlace[1] \in Nat /\ EpiloguePlace[1] < LoopBundle
        /\ PredicatePlace[1] \in Nat /\ PredicatePlace[1] < LoopBundle
    <2>1. start \in Nat
      BY <1>1, BundlesAre DEF Scheduled
    <2> QED
      BY <2>1, LoopBundleIs
  <1>5. Times \in Nat \ {0}
    BY TimesIs
  <1>6. /\ lc = IF CountSet THEN Iterations - 1 ELSE 0
        /\ ec = IF EpiloguePlace[1] < pc THEN stages - 1 ELSE 0
        /\ predicates = IF PredicatePlace[1] < pc THEN {FirstOf(0)} ELSE {}
    BY DEF Following, Lapping
  <1>7. /\ pc' = pc + 1 /\ lc' = LoopCount /\ ec' = EpilogueCount
        /\ lap' = 0 /\ predicates' = Predicated
    <2>1. pc # LoopEnd - 1 /\ pc < LoopEnd
      BY <1>3
    <2>2. ~(Starts \/ Drains)
      BY <2>1 DEF Starts, Drains
    <2>3. LoopEnd <= Len(code) /\ Len(code) \in Nat
      BY <1>1, ActiveIs
    <2>4. pc < Len(code)
      BY <1>3, <2>1, <2>3
    <2> QED
      BY <1>1, <1>3, <2>1, <2>2, <2>4, TickIs
  <1>8. /\ LoopCount = IF \E a \in On : Code(a) = MovSpecial THEN Iterations - 1 ELSE lc
        /\ EpilogueCount = IF pc = EpiloguePlace[1] THEN stages - 1 ELSE ec
        /\ Predicated = predicates \cup (IF pc = PredicatePlace[1]
                                         THEN {Physical(FirstRotating)} ELSE {})
    BY <1>1, CycleIs
  <1>9. \A a : a \in On <=> a \in InBlock(program, "BB0") /\ cycle[a] = pc
    <2>1. ASSUME NEW a \in On PROVE a \in InBlock(program, "BB0") /\ cycle[a] = pc
      <3>1. a \in AtPc
        BY DEF On
      <3>2. a \in DOMAIN program.code /\ BundleOf(a) = pc /\ Block(program, a) = "BB0"
        BY <3>1, OnIs
      <3> QED
        BY <3>2 DEF InBlock, BundleOf
    <2>2. ASSUME NEW a \in InBlock(program, "BB0"), cycle[a] = pc PROVE a \in On
      <3>1. a \in DOMAIN program.code /\ Block(program, a) = "BB0"
        BY <2>2 DEF InBlock
      <3>2. BundleOf(a) = pc
        BY <2>2, <3>1 DEF BundleOf
      <3>3. a \notin Body
        BY <3>1 DEF Body, InBlock
      <3> QED
        BY <3>1, <3>2, <3>3 DEF On, AtPc, StagePredicate
    <2> QED
      BY <2>1, <2>2
  <1>10. \A a \in InBlock(program, "BB0") : cycle[a] \in Nat /\ cycle[a] < LoopBundle
    <2> SUFFICES ASSUME NEW a \in InBlock(program, "BB0")
                 PROVE  cycle[a] \in Nat /\ cycle[a] < LoopBundle
      OBVIOUS
    <2>1. a \in DOMAIN program.code /\ Block(program, a) = "BB0"
      BY DEF InBlock
    <2> QED
      BY <1>1, <2>1, BundlesAre DEF Scheduled
  <1>11. CountSet' <=> CountSet \/ \E a \in On : Code(a) = MovSpecial
    <2>1. CountSet' <=> \E a \in InBlock(program, "BB0") : Code(a) = MovSpecial /\ cycle[a] < pc + 1
      BY <1>1, <1>2, <1>7 DEF CountSet
    <2>2. \A a \in InBlock(program, "BB0") : cycle[a] < pc + 1 <=> cycle[a] < pc \/ cycle[a] = pc
      BY <1>3, <1>10
    <2> QED
      BY <1>9, <2>1, <2>2 DEF CountSet
  <1>12. lc' = IF CountSet' THEN Iterations - 1 ELSE 0
    BY <1>6, <1>7, <1>8, <1>11
  <1>13. ec' = IF EpiloguePlace[1] < pc' THEN stages - 1 ELSE 0
    <2>1. EpiloguePlace[1] < pc + 1 <=> EpiloguePlace[1] < pc \/ pc = EpiloguePlace[1]
      BY <1>3, <1>4
    <2> QED
      BY <1>6, <1>7, <1>8, <2>1
  <1>14. predicates' = IF PredicatePlace[1] < pc' THEN {FirstOf(0)} ELSE {}
    <2>1. PredicatePlace[1] < pc + 1 <=> PredicatePlace[1] < pc \/ pc = PredicatePlace[1]
      BY <1>3, <1>4
    <2>2. Physical(FirstRotating) = FirstOf(0)
      BY <1>1, <1>3 DEF Physical, FirstOf, MachineInv
    <2> QED
      BY <1>6, <1>7, <1>8, <2>1, <2>2
  <1>15. ASSUME LoopBundle <= pc'
         PROVE  /\ lap' < Times /\ lc' = Times - 1 - lap' /\ ec' = stages - 1
                /\ predicates' = StartedBy(lap')
    <2>1. pc' = LoopBundle
      BY <1>3, <1>7, <1>15
    <2>2. CountSet' <=> \E a \in InBlock(program, "BB0") : Code(a) = MovSpecial
      <3>1. CountSet' <=> \E a \in InBlock(program, "BB0") : Code(a) = MovSpecial /\ cycle[a] < pc'
        BY <1>1, <1>2 DEF CountSet
      <3> QED
        BY <1>10, <2>1, <3>1
    <2>3. Times = IF CountSet' THEN Iterations ELSE 1
      BY <2>2, TimesIs
    <2>4. lc' = Times - 1 - 0
      BY <1>12, <2>3, TimesIs
    <2>5. predicates' = {FirstOf(0)} /\ ec' = stages - 1
      BY <1>4, <1>13, <1>14, <2>1
    <2>6. StartedBy(0) = {FirstOf(0)}
      <3>1. 0 \in Nat
        OBVIOUS
      <3> QED
        BY <3>1, StartedNext
    <2> QED
      BY <1>5, <1>7, <2>4, <2>5, <2>6
  <1>16. ~(LoopEnd <= pc')
    BY <1>3, <1>7
  <1>17. FirstOf(0)' = FirstOf(0) /\ \A n : StartedBy(n)' = StartedBy(n)
    BY <1>2 DEF FirstOf, RegisterBehind, StartedBy
  <1>18. pc' < LoopBundle' =>
              /\ lap' = 0
              /\ lc' = IF CountSet' THEN Iterations - 1 ELSE 0
              /\ ec' = IF EpiloguePlace'[1] < pc' THEN stages' - 1 ELSE 0
              /\ predicates' = IF PredicatePlace'[1] < pc' THEN {FirstOf(0)'} ELSE {}
    BY <1>1, <1>2, <1>7, <1>12, <1>13, <1>14, <1>17
  <1>19. LoopBundle' <= pc' /\ pc' < LoopEnd' =>
              /\ lap' < Times' => lc' = Times' - 1 - lap' /\ ec' = stages' - 1
              /\ lap' >= Times' => lc' = 0 /\ ec' = (Times' + stages' - 2) - lap'
              /\ predicates' = StartedBy(lap')
    <2>1. lap' < Times /\ ~(lap' >= Times)
      BY <1>5, <1>7
    <2> QED
      BY <1>1, <1>2, <1>15, <2>1
  <1> QED
    BY <1>2, <1>16, <1>17, <1>18, <1>19 DEF Lapping, StartedBy

\* In the loop.
LEMMA RunInLoop ==
    ASSUME Following, Run, LoopBundle <= pc, pc < LoopEnd
    PROVE  Lapping' /\ (Starts \/ Drains => lap' = lap + 1)
  <1>1. /\ UNCHANGED <<program, ii, cycle, relative, slot, stages, start, dst, src>>
        /\ phase = "running" /\ Tick /\ Compacted /\ MachineInv
    BY RunKeeps DEF Following
  <1>2. LoopBundle' = LoopBundle /\ LoopEnd' = LoopEnd /\ Times' = Times
    BY <1>1, SameSchedule
  <1>3. /\ LoopBundle \in Nat /\ ii \in Nat \ {0} /\ LoopEnd = LoopBundle + ii /\ LoopEnd \in Nat
        /\ stages \in Nat \ {0} /\ pc \in Nat /\ lap \in Nat
        /\ Times + stages - 2 \in Nat /\ Times + stages - 2 < Rotating
        /\ Times + stages - 2 <= MaxLaps /\ lap <= Times + stages - 2
    BY LapIs
  <1>4. Times \in Nat \ {0} /\ Rotating \in Nat /\ MaxLaps \in Nat
    BY TimesIs, FileIs
  <1>5. LoopCount = lc /\ EpilogueCount = ec /\ Predicated = predicates
    BY CountsInLoop
  <1>6. /\ lap < Times => lc = Times - 1 - lap /\ ec = stages - 1
        /\ lap >= Times => lc = 0 /\ ec = (Times + stages - 2) - lap
        /\ predicates = StartedBy(lap)
    BY DEF Following, Lapping, StartedBy
  <1>7. /\ Starts \/ Drains =>
              pc' = LoopBundle /\ lap' = IF lap < MaxLaps THEN lap + 1 ELSE lap
        /\ Starts => lc' = LoopCount - 1 /\ ec' = EpilogueCount
                        /\ predicates' = Predicated \cup {FirstOf(lap')}
        /\ Drains => lc' = 0 /\ ec' = EpilogueCount - 1
                        /\ predicates' = Predicated \ {FirstOf(lap')}
        /\ ~(Starts \/ Drains) =>
              /\ pc' = IF pc < Len(code) THEN pc + 1 ELSE pc
              /\ lc' = LoopCount /\ ec' = EpilogueCount /\ lap' = lap
              /\ predicates' = IF pc = LoopEnd - 1 THEN Predicated \ {FirstOf(lap)}
                               ELSE Predicated
    BY <1>1, TickIs
  <1>8. Starts => pc = LoopEnd - 1 /\ LoopCount > 0
    BY DEF Starts
  <1>9. Drains => pc = LoopEnd - 1 /\ LoopCount = 0 /\ EpilogueCount > 0
    BY DEF Drains
  <1>10. pc = LoopEnd - 1 /\ ~Starts /\ ~Drains => ~(LoopCount > 0) /\ (LoopCount = 0 => ~(EpilogueCount > 0))
    BY DEF Starts, Drains
  <1>11. pc < Len(code)
    <2>1. LoopEnd <= Len(code) /\ Len(code) \in Nat
      BY <1>1, ActiveIs
    <2> QED
      BY <1>3, <2>1
  <1>12. /\ lap + 1 < Times => StartedBy(lap + 1) = StartedBy(lap) \cup {FirstOf(lap + 1)}
         /\ Times <= lap + 1 => StartedBy(lap + 1) = StartedBy(lap)
    BY <1>3, StartedNext
  <1> DEFINE Goal == /\ LoopBundle <= pc'
                     /\ pc' < LoopEnd =>
                           /\ lap' < Times => lc' = Times - 1 - lap' /\ ec' = stages - 1
                           /\ lap' >= Times => lc' = 0 /\ ec' = (Times + stages - 2) - lap'
                           /\ predicates' = StartedBy(lap')
                     /\ LoopEnd <= pc' => lap' = Times + stages - 2
                     /\ Starts \/ Drains => lap' = lap + 1
  <1>13. ASSUME Starts PROVE Goal
    <2>1. lc > 0
      BY <1>5, <1>8, <1>13
    <2>2. lap < Times /\ lap + 1 < Times /\ lc = Times - 1 - lap /\ ec = stages - 1
      BY <1>3, <1>4, <1>6, <2>1
    <2>3. lap' = lap + 1 /\ pc' = LoopBundle /\ lc' = lc - 1 /\ ec' = stages - 1
      BY <1>3, <1>4, <1>5, <1>7, <1>13, <2>2
    <2>4. predicates' = StartedBy(lap')
      BY <1>5, <1>6, <1>7, <1>12, <1>13, <2>2, <2>3
    <2> QED
      BY <1>3, <1>4, <2>2, <2>3, <2>4
  <1>14. ASSUME Drains PROVE Goal
    <2>1. pc = LoopEnd - 1 /\ lc = 0 /\ ec > 0
      BY <1>5, <1>9, <1>14
    <2>2. Times <= lap + 1 /\ ec = (Times + stages - 2) - lap
      BY <1>3, <1>4, <1>6, <2>1
    <2>3. lap + 1 <= Times + stages - 2
      BY <1>3, <1>4, <2>1, <2>2
    <2>4. lap' = lap + 1 /\ pc' = LoopBundle /\ lc' = 0 /\ ec' = ec - 1
      BY <1>3, <1>4, <1>5, <1>7, <1>14, <2>3
    <2>5. FirstOf(lap + 1) \notin StartedBy(lap)
      <3>1. ASSUME NEW i \in 0 .. lap PROVE FirstOf(lap + 1) # FirstOf(i)
        <4>1. i \in Nat /\ i < Rotating /\ lap + 1 \in Nat /\ lap + 1 < Rotating /\ lap + 1 # i
          BY <1>3, <1>4, <2>3
        <4> QED
          BY <4>1, FirstsApart
      <3> QED
        BY <3>1 DEF StartedBy
    <2>6. predicates' = StartedBy(lap')
      BY <1>5, <1>6, <1>7, <1>12, <1>14, <2>2, <2>4, <2>5
    <2>7. ec' = (Times + stages - 2) - lap' /\ ~(lap' < Times)
      BY <1>3, <1>4, <2>2, <2>4
    <2> QED
      BY <1>3, <1>4, <2>4, <2>6, <2>7
  <1>15. ASSUME ~(Starts \/ Drains) PROVE Goal
    <2>1. /\ pc' = pc + 1 /\ lc' = lc /\ ec' = ec /\ lap' = lap
          /\ pc # LoopEnd - 1 => predicates' = predicates
      BY <1>5, <1>7, <1>11, <1>15
    <2>2. LoopEnd <= pc' => pc = LoopEnd - 1
      BY <1>3, <2>1
    <2>3. ASSUME pc = LoopEnd - 1 PROVE lap = Times + stages - 2
      <3>1. ~(lc > 0) /\ (lc = 0 => ~(ec > 0))
        BY <1>5, <1>10, <1>15, <2>3
      <3>2. ec \in Nat /\ lc \in Nat
        BY <1>1 DEF MachineInv
      <3>3. lc = 0 /\ ec = 0
        BY <3>1, <3>2
      <3> QED
        BY <1>3, <1>4, <1>6, <3>3
    <2>4. pc' < LoopEnd => pc # LoopEnd - 1
      BY <1>3, <2>1
    <2>5. LoopBundle <= pc'
      BY <1>3, <2>1
    <2> QED
      BY <1>6, <1>15, <2>1, <2>2, <2>3, <2>4, <2>5
  <1>16. Goal
    BY <1>13, <1>14, <1>15
  <1>17. \A n : StartedBy(n)' = StartedBy(n)
    BY <1>2 DEF FirstOf, RegisterBehind, StartedBy
  <1>18. pc' \in Nat
    BY <1>3, <1>7
  <1>19. ~(pc' < LoopBundle)
    BY <1>3, <1>16, <1>18
  <1>20. Lapping'
    <2>1. ~(pc' < LoopBundle')
      BY <1>2, <1>19
    <2>2. LoopBundle' <= pc' /\ pc' < LoopEnd' =>
              /\ lap' < Times' => lc' = Times' - 1 - lap' /\ ec' = stages' - 1
              /\ lap' >= Times' => lc' = 0 /\ ec' = (Times' + stages' - 2) - lap'
              /\ predicates' = StartedBy(lap)'
      <3>1. StartedBy(lap)' = StartedBy(lap')
        BY <1>2 DEF FirstOf, RegisterBehind, StartedBy
      <3> QED
        BY <1>1, <1>2, <1>16, <3>1
    <2>3. LoopEnd' <= pc' => lap' = Times' + stages' - 2
      BY <1>1, <1>2, <1>16
    <2> QED
      BY <2>1, <2>2, <2>3 DEF Lapping, StartedBy
  <1> QED
    BY <1>16, <1>20

\* Behind the loop.
LEMMA RunBehind ==
    ASSUME Following, Run, LoopEnd <= pc
    PROVE  Lapping' /\ lap' = lap /\ ~(Starts \/ Drains) /\ LoopEnd <= pc'
  <1>1. /\ UNCHANGED <<program, ii, cycle, relative, slot, stages, start, dst, src>>
        /\ phase = "running" /\ Tick /\ Compacted /\ MachineInv
    BY RunKeeps DEF Following
  <1>2. LoopBundle' = LoopBundle /\ LoopEnd' = LoopEnd /\ Times' = Times
    BY <1>1, SameSchedule
  <1>3. /\ LoopBundle \in Nat /\ ii \in Nat \ {0} /\ LoopEnd = LoopBundle + ii /\ LoopEnd \in Nat
        /\ pc \in Nat /\ lap = Times + stages - 2
    BY LapIs
  <1>4. ~(Starts \/ Drains)
    <2>1. pc # LoopEnd - 1
      BY <1>3
    <2> QED
      BY <2>1 DEF Starts, Drains
  <1>5. lap' = lap /\ pc' = IF pc < Len(code) THEN pc + 1 ELSE pc
    BY <1>1, <1>4, TickIs
  <1>6. LoopEnd <= pc' /\ ~(pc' < LoopBundle) /\ ~(pc' < LoopEnd)
    BY <1>3, <1>5
  <1>7. lap' = Times' + stages' - 2 /\ ~(pc' < LoopBundle') /\ ~(pc' < LoopEnd')
    BY <1>1, <1>2, <1>3, <1>5, <1>6
  <1> QED
    BY <1>4, <1>5, <1>6, <1>7 DEF Lapping

\* A cycle keeps this.
LEMMA LappingInv ==
    ASSUME Compacted, MachineInv, Lapping, Run
    PROVE  Lapping'
  <1>1. /\ UNCHANGED <<program, ii, cycle, relative, slot, stages, start, dst, src, phase>>
        /\ phase = "running"
    BY RunKeeps
  <1>2. (Endless' <=> Endless) /\ (LapsFit' <=> LapsFit)
    BY <1>1, SameSchedule DEF LapsFit
  <1>3. ASSUME ~Endless, LapsFit PROVE Lapping'
    <2>1. Following
      BY <1>1, <1>3 DEF Following
    <2>2. pc < LoopBundle \/ (LoopBundle <= pc /\ pc < LoopEnd) \/ LoopEnd <= pc
      BY <2>1, LapIs
    <2> QED
      BY <2>1, <2>2, RunBefore, RunInLoop, RunBehind
  <1>4. ASSUME ~(~Endless /\ LapsFit) PROVE Lapping'
    BY <1>2, <1>4 DEF Lapping
  <1> QED
    BY <1>3, <1>4

\* The machine starts before the loop.
LEMMA PrepareLaps ==
    ASSUME Compacted, MachineInv, Prepare
    PROVE  Lapping' /\ Ran'
  <1>1. /\ phase = "allocated" /\ phase' = "running"
        /\ UNCHANGED <<program, ii, cycle, relative, slot, stages, start, dst, src>>
        /\ UNCHANGED <<pc, lc, ec, predicates, lap, ran>>
    BY DEF Prepare, registerVars
  <1>2. /\ pc = 0 /\ lc = 0 /\ ec = 0 /\ predicates = {} /\ lap = 0 /\ ran = {}
    BY <1>1 DEF MachineInv, MachineInit
  <1>3. /\ LoopBundle' = LoopBundle /\ LoopEnd' = LoopEnd
        /\ EpiloguePlace' = EpiloguePlace /\ PredicatePlace' = PredicatePlace
        /\ InBlock(program, "BB0")' = InBlock(program, "BB0")
        /\ \A a : Block(program, a)' = Block(program, a) /\ BundleOf(a)' = BundleOf(a)
    BY <1>1, SameSchedule
  <1>4. /\ start \in Nat /\ ii \in Nat /\ LoopBundle \in Nat /\ LoopEnd = LoopBundle + ii
        /\ \A a \in DOMAIN program.code :
              BundleOf(a) \in Nat /\ Block(program, a) \in {"BB0", "BB1", "BB2"}
        /\ \A a \in InBlock(program, "BB0") : cycle[a] \in Nat
    <2>1. \A a \in InBlock(program, "BB0") : a \in DOMAIN program.code
      BY DEF InBlock
    <2>2. \A a \in DOMAIN program.code : cycle[a] \in Nat
      BY <1>1 DEF Compacted, Scheduled
    <2> QED
      BY <1>1, <2>1, <2>2, BundlesAre DEF Scheduled
  <1>5. /\ EpiloguePlace[1] \in Nat /\ PredicatePlace[1] \in Nat /\ 0 < LoopBundle
    BY <1>4, LoopBundleIs
  <1>6. Lapping'
    <2>1. ~CountSet'
      <3>1. \A a \in InBlock(program, "BB0") : ~(cycle[a] < 0)
        BY <1>4
      <3> QED
        BY <1>1, <1>2, <1>3, <3>1 DEF CountSet
    <2>2. ~(LoopBundle' <= pc') /\ ~(LoopEnd' <= pc')
      BY <1>1, <1>2, <1>3, <1>4, <1>5
    <2>3. ~(EpiloguePlace'[1] < pc') /\ ~(PredicatePlace'[1] < pc')
      BY <1>1, <1>2, <1>3, <1>5
    <2> QED
      BY <1>1, <1>2, <2>1, <2>2, <2>3 DEF Lapping
  <1>7. Ran'
    <2>1. \A a \in DOMAIN program.code, n \in 0 .. 0 : ~HasRun(a, n)'
      <3> SUFFICES ASSUME NEW a \in DOMAIN program.code, NEW n \in 0 .. 0, HasRun(a, n)'
                   PROVE  FALSE
        OBVIOUS
      <3>1. /\ Block(program, a) = "BB0" => n = 0 /\ BundleOf(a) < 0
            /\ Block(program, a) = "BB1" => n < 0 \/ (n = 0 /\ BundleOf(a) < 0)
            /\ Block(program, a) = "BB2" => n = 0 /\ BundleOf(a) < 0
        BY <1>1, <1>2, <1>3 DEF HasRun
      <3> QED
        BY <1>4, <3>1
    <2>2. ran' = {x \in (DOMAIN program'.code) \X (0 .. lap') : HasRun(x[1], x[2])'}
      BY <1>1, <1>2, <2>1
    <2> QED
      BY <2>2 DEF Ran
  <1> QED
    BY <1>6, <1>7

-----------------------------------------------------------------------------
(* Every step keeps what has been executed *)

\* What a cycle adds to it.
LEMMA OnWhen ==
    ASSUME Following, NEW a \in DOMAIN program.code
    PROVE  a \in On <=> /\ BundleOf(a) = pc
                        /\ a \in Body => Stage(a) <= lap /\ lap - Stage(a) < Times
  <1>1. a \in AtPc <=> BundleOf(a) = pc
    BY DEF AtPc
  <1>2. a \in On => a \in AtPc
    BY DEF On
  <1> QED
    BY <1>1, <1>2, OnIs

\* A cycle keeps the record right.
LEMMA RanInv ==
    ASSUME Compacted, MachineInv, Lapping, Ran, Run
    PROVE  Ran'
  <1>1. /\ UNCHANGED <<program, ii, cycle, relative, slot, stages, start, dst, src, phase>>
        /\ phase = "running" /\ Tick
    BY RunKeeps
  <1>2. /\ (Endless' <=> Endless) /\ (LapsFit' <=> LapsFit) /\ Body' = Body /\ Times' = Times
        /\ \A a : /\ Block(program, a)' = Block(program, a) /\ BundleOf(a)' = BundleOf(a)
                  /\ Stage(a)' = Stage(a)
    BY <1>1, SameSchedule DEF LapsFit
  <1> SUFFICES ASSUME ~Endless, LapsFit
               PROVE  ran' = {x \in (DOMAIN program.code) \X (0 .. lap') : HasRun(x[1], x[2])'}
    BY <1>1, <1>2 DEF Ran
  <1>3. Following
    BY <1>1 DEF Following
  <1>4. /\ ran' = ran \cup {<<a, lap>> : a \in On}
        /\ ran = {x \in (DOMAIN program.code) \X (0 .. lap) : HasRun(x[1], x[2])}
    BY <1>1, TickIs DEF Ran
  <1>5. /\ LoopBundle \in Nat /\ ii \in Nat \ {0} /\ LoopEnd = LoopBundle + ii /\ LoopEnd \in Nat
        /\ pc \in Nat /\ lap \in Nat
        /\ pc < LoopBundle => lap = 0
    BY <1>3, LapIs
  <1>6. \A a \in DOMAIN program.code :
           /\ BundleOf(a) \in Nat /\ BundleOf(a) < Len(code)
           /\ Block(program, a) \in {"BB0", "BB1", "BB2"}
           /\ Block(program, a) = "BB0" => BundleOf(a) < LoopBundle
           /\ Block(program, a) = "BB1" => LoopBundle <= BundleOf(a) /\ BundleOf(a) < LoopEnd
           /\ Block(program, a) = "BB2" => LoopEnd <= BundleOf(a)
    BY <1>1, BundlesAre, ActiveIs DEF Scheduled
  <1>7. Len(code) \in Nat /\ LoopEnd <= Len(code) /\ pc <= Len(code)
    BY <1>1, ActiveIs
  <1>8. \A a, n : HasRun(a, n)' <=>
           /\ Block(program, a) = "BB0" => n = 0 /\ BundleOf(a) < pc'
           /\ Block(program, a) = "BB1" => n < lap' \/ (n = lap' /\ BundleOf(a) < pc')
           /\ Block(program, a) = "BB2" => n = lap' /\ BundleOf(a) < pc'
           /\ a \in Body => Stage(a) <= n /\ n - Stage(a) < Times
    BY <1>2 DEF HasRun
  <1>9. \A x : x \in ran' <=>
           /\ x \in (DOMAIN program.code) \X (0 .. lap)
           /\ HasRun(x[1], x[2]) \/ (x[2] = lap /\ x[1] \in On)
    <2>1. \A x : x \in {<<a, lap>> : a \in On} <=>
             x \in (DOMAIN program.code) \X (0 .. lap) /\ x[2] = lap /\ x[1] \in On
      <3>1. \A a \in On : a \in DOMAIN program.code
        BY DEF On, AtPc
      <3> QED
        BY <1>5, <3>1
    <2> QED
      BY <1>4, <2>1
  <1>10. \A a \in DOMAIN program.code : a \in On <=>
            BundleOf(a) = pc /\ (a \in Body => Stage(a) <= lap /\ lap - Stage(a) < Times)
    BY <1>3, OnWhen
  <1>11. /\ Starts \/ Drains => pc' = LoopBundle /\ lap' = lap + 1 /\ pc = LoopEnd - 1
         /\ ~(Starts \/ Drains) => pc' = (IF pc < Len(code) THEN pc + 1 ELSE pc) /\ lap' = lap
    <2>1. Starts \/ Drains => LoopBundle <= pc /\ pc < LoopEnd /\ pc = LoopEnd - 1
      BY <1>5 DEF Starts, Drains
    <2>2. Starts \/ Drains => pc' = LoopBundle /\ lap' = lap + 1
      <3>1. LoopBundle <= pc /\ pc < LoopEnd => (Starts \/ Drains => lap' = lap + 1)
        BY <1>3, RunInLoop
      <3> QED
        BY <1>1, <2>1, <3>1, TickIs
    <2>3. ~(Starts \/ Drains) => pc' = (IF pc < Len(code) THEN pc + 1 ELSE pc) /\ lap' = lap
      BY <1>1, TickIs
    <2> QED
      BY <2>1, <2>2, <2>3
  <1>12. ASSUME Starts \/ Drains, NEW a \in DOMAIN program.code, NEW n \in 0 .. lap + 1
         PROVE  HasRun(a, n)' <=> n <= lap /\ (HasRun(a, n) \/ (n = lap /\ a \in On))
    <2>1. lap' = lap + 1 /\ pc' = LoopBundle /\ pc = LoopEnd - 1 /\ n \in Nat /\ n <= lap + 1
      BY <1>5, <1>11, <1>12
    <2>2. CASE Block(program, a) = "BB0"
      <3>1. a \notin Body
        BY <2>2 DEF Body, InBlock
      <3>2. BundleOf(a) < LoopBundle /\ BundleOf(a) < pc /\ BundleOf(a) # pc
        BY <1>5, <1>6, <2>1, <2>2
      <3>3. HasRun(a, n)' <=> n = 0
        BY <1>8, <2>1, <2>2, <3>1, <3>2
      <3>4. HasRun(a, n) <=> n = 0
        BY <2>2, <3>1, <3>2 DEF HasRun
      <3>5. a \notin On
        BY <1>10, <3>2
      <3>6. n = 0 => n <= lap
        BY <1>5
      <3> QED
        BY <3>3, <3>4, <3>5, <3>6
    <2>3. CASE Block(program, a) = "BB1"
      <3>1. /\ LoopBundle <= BundleOf(a) /\ BundleOf(a) < LoopEnd /\ BundleOf(a) \in Nat
        BY <1>6, <2>3
      <3> DEFINE meant == a \in Body => Stage(a) <= n /\ n - Stage(a) < Times
      <3>2. HasRun(a, n)' <=> n < lap + 1 /\ meant
        <4>1. ~(BundleOf(a) < LoopBundle)
          BY <1>5, <3>1
        <4> QED
          BY <1>8, <2>1, <2>3, <4>1
      <3>3. HasRun(a, n) <=> (n < lap \/ (n = lap /\ BundleOf(a) < pc)) /\ meant
        BY <2>3 DEF HasRun
      <3>4. n = lap => (a \in On <=> BundleOf(a) = pc /\ meant)
        BY <1>10
      <3>5. BundleOf(a) < pc \/ BundleOf(a) = pc
        BY <1>5, <2>1, <3>1
      <3>6. (n < lap + 1 <=> n <= lap) /\ (n <= lap <=> n < lap \/ n = lap)
        BY <1>5, <2>1
      <3> HIDE DEF meant
      <3> QED
        BY <3>2, <3>3, <3>4, <3>5, <3>6
    <2>4. CASE Block(program, a) = "BB2"
      <3>1. ~(BundleOf(a) < LoopBundle) /\ ~(BundleOf(a) < pc) /\ BundleOf(a) # pc
        BY <1>5, <1>6, <2>1, <2>4
      <3>2. ~HasRun(a, n)' /\ ~HasRun(a, n)
        BY <1>8, <2>1, <2>4, <3>1 DEF HasRun
      <3> QED
        BY <1>10, <3>1, <3>2
    <2> QED
      BY <1>6, <2>2, <2>3, <2>4
  <1>13. ASSUME ~(Starts \/ Drains), NEW a \in DOMAIN program.code, NEW n \in 0 .. lap
         PROVE  HasRun(a, n)' <=> HasRun(a, n) \/ (n = lap /\ a \in On)
    <2>1. BundleOf(a) \in Nat /\ BundleOf(a) < Len(code) /\ n \in Nat /\ n <= lap
      BY <1>5, <1>6
    <2>2. BundleOf(a) < pc' <=> BundleOf(a) < pc \/ BundleOf(a) = pc
      BY <1>5, <1>7, <1>11, <1>13, <2>1
    <2>3. lap' = lap
      BY <1>11, <1>13
    <2> DEFINE meant == a \in Body => Stage(a) <= n /\ n - Stage(a) < Times
    <2>4. n = lap => (a \in On <=> BundleOf(a) = pc /\ meant)
      BY <1>10
    <2>5. CASE Block(program, a) = "BB0"
      <3>1. HasRun(a, n)' <=> n = 0 /\ BundleOf(a) < pc' /\ meant
        BY <1>8, <2>5
      <3>2. HasRun(a, n) <=> n = 0 /\ BundleOf(a) < pc /\ meant
        BY <2>5 DEF HasRun
      <3>3. BundleOf(a) = pc => lap = 0
        BY <1>5, <1>6, <2>5
      <3>4. BundleOf(a) = pc => (n = 0 <=> n = lap)
        BY <3>3
      <3> HIDE DEF meant
      <3> QED
        BY <2>2, <2>4, <3>1, <3>2, <3>4
    <2>6. CASE Block(program, a) = "BB1"
      <3>1. HasRun(a, n)' <=> (n < lap \/ (n = lap /\ BundleOf(a) < pc')) /\ meant
        BY <1>8, <2>3, <2>6
      <3>2. HasRun(a, n) <=> (n < lap \/ (n = lap /\ BundleOf(a) < pc)) /\ meant
        BY <2>6 DEF HasRun
      <3> HIDE DEF meant
      <3> QED
        BY <2>2, <2>4, <3>1, <3>2
    <2>7. CASE Block(program, a) = "BB2"
      <3>1. HasRun(a, n)' <=> n = lap /\ BundleOf(a) < pc' /\ meant
        BY <1>8, <2>3, <2>7
      <3>2. HasRun(a, n) <=> n = lap /\ BundleOf(a) < pc /\ meant
        BY <2>7 DEF HasRun
      <3> HIDE DEF meant
      <3> QED
        BY <2>2, <2>4, <3>1, <3>2
    <2> QED
      BY <1>6, <2>5, <2>6, <2>7
  <1>14. ASSUME NEW x
         PROVE  x \in ran' <=> x \in (DOMAIN program.code) \X (0 .. lap') /\ HasRun(x[1], x[2])'
    <2>1. CASE Starts \/ Drains
      <3>1. lap' = lap + 1
        BY <1>11, <2>1
      <3>2. x \in (DOMAIN program.code) \X (0 .. lap)
               <=> x \in (DOMAIN program.code) \X (0 .. lap + 1) /\ x[2] <= lap
        BY <1>5
      <3>3. x \in (DOMAIN program.code) \X (0 .. lap + 1) =>
               (HasRun(x[1], x[2])' <=> /\ x[2] <= lap
                                        /\ HasRun(x[1], x[2]) \/ (x[2] = lap /\ x[1] \in On))
        BY <1>12, <2>1
      <3> QED
        BY <1>9, <3>1, <3>2, <3>3
    <2>2. CASE ~(Starts \/ Drains)
      <3>1. lap' = lap
        BY <1>11, <2>2
      <3>2. x \in (DOMAIN program.code) \X (0 .. lap) =>
               (HasRun(x[1], x[2])' <=> HasRun(x[1], x[2]) \/ (x[2] = lap /\ x[1] \in On))
        BY <1>13, <2>2
      <3> QED
        BY <1>9, <3>1, <3>2
    <2> QED
      BY <2>1, <2>2
  <1> QED
    BY <1>14

\* What all steps keep, to the end of the run.
RunningInv == BackendInv /\ Lapping /\ Ran

\* It holds in every state.
LEMMA RunningInvIs == Spec => []RunningInv
  <1>1. Init => Lapping /\ Ran
    BY DEF Init, SchedulerInit, Lapping, Ran
  <1>2. BackendInv /\ Lapping /\ Ran /\ [Next]_vars => Lapping' /\ Ran'
    <2> SUFFICES ASSUME BackendInv, Lapping, Ran, [Next]_vars PROVE Lapping' /\ Ran'
      OBVIOUS
    <2>1. Compacted /\ MachineInv
      BY DEF BackendInv
    <2>2. CASE Schedule
      <3>1. phase' # "running"
        BY <2>2 DEF Schedule, ScheduleNext, Parse, ParseError, PlaceInCycle, NoCycleLeft,
                    FinishBB0, FinishBB2, PlaceModulo, NoPlaceInBody, BodyTooSlow, AcceptBody,
                    NextInterval
      <3> QED
        BY <3>1 DEF Lapping, Ran
    <2>3. CASE AllocateRegisters
      <3>1. phase' # "running"
        BY <2>3 DEF AllocateRegisters, AllocateNext, Allocate, OutOfRegisters
      <3> QED
        BY <3>1 DEF Lapping, Ran
    <2>4. CASE Prepare
      BY <2>1, <2>4, PrepareLaps
    <2>5. CASE Run
      BY <2>1, <2>5, LappingInv, RanInv
    <2>6. CASE UNCHANGED vars
      <3>1. /\ UNCHANGED <<program, phase, ii, cycle, relative, slot, stages, start, dst, src>>
            /\ UNCHANGED <<pc, lc, ec, predicates, lap, ran>>
        BY <2>6 DEF vars, schedulerVars, registerVars, machineVars
      <3>2. /\ LoopBundle' = LoopBundle /\ LoopEnd' = LoopEnd /\ Body' = Body /\ Times' = Times
            /\ EpiloguePlace' = EpiloguePlace /\ PredicatePlace' = PredicatePlace
            /\ (Endless' <=> Endless)
            /\ \A a : /\ Code(a)' = Code(a) /\ Block(program, a)' = Block(program, a)
                      /\ BundleOf(a)' = BundleOf(a) /\ Stage(a)' = Stage(a)
            /\ \A b : InBlock(program, b)' = InBlock(program, b)
        BY <3>1, SameSchedule
      <3>3. (LapsFit' <=> LapsFit) /\ (CountSet' <=> CountSet)
        BY <3>1, <3>2 DEF LapsFit, CountSet
      <3>4. FirstOf(0)' = FirstOf(0) /\ StartedBy(lap)' = StartedBy(lap)
        BY <3>1, <3>2 DEF FirstOf, RegisterBehind, StartedBy
      <3>5. Lapping'
        BY <3>1, <3>2, <3>3, <3>4 DEF Lapping, StartedBy
      <3>6. \A a, n : HasRun(a, n)' <=> HasRun(a, n)
        BY <3>1, <3>2 DEF HasRun
      <3>7. Ran'
        BY <3>1, <3>2, <3>3, <3>6 DEF Ran
      <3> QED
        BY <3>5, <3>7
    <2> QED
      BY <2>2, <2>3, <2>4, <2>5, <2>6 DEF Next
  <1>3. RunningInv <=> BackendInv /\ Lapping /\ Ran
    BY DEF RunningInv
  <1> QED
    BY <1>1, <1>2, <1>3, BackendIs, PTL DEF Spec

-----------------------------------------------------------------------------
(* What has been executed *)

\* The branch is in the last stage.
LEMMA ControlStage ==
    ASSUME Compacted, Scheduled
    PROVE  Stage(Control) = stages - 1
  <1>1. /\ ii \in Nat \ {0} /\ stages \in Nat \ {0} /\ LoopBundle \in Nat
        /\ LoopEnd = LoopBundle + ii /\ BundleOf(Control) = LoopEnd - 1
        /\ Control \in DOMAIN program.code /\ Block(program, Control) = "BB1"
    BY BundlesAre
  <1>2. /\ relative[Control] = ii * Stage(Control) + (BundleOf(Control) - LoopBundle)
        /\ Stage(Control) \in Nat
    BY <1>1, BundlesAre
  <1>3. relative[Control] = Span - 1 /\ Span = ii * stages
    BY <1>1 DEF Compacted, Span
  <1> DEFINE s == Stage(Control)
             u == stages - 1
             o == ii - 1
  <1>4. BundleOf(Control) - LoopBundle = o
    BY <1>1
  <1>5. ii * u = ii * stages - ii
    BY <1>1
  <1>6. s \in Int /\ u \in Int /\ o \in 0 .. ii - 1
    BY <1>1, <1>2
  <1>7. (ii * s) + o = (ii * u) + o
    <2>1. relative[Control] = (ii * s) + o
      BY <1>2, <1>4
    <2>2. PICK x \in Int, y \in Int, z \in Int : x = ii * stages /\ y = ii * u /\ z = ii * s
      BY <1>1, <1>6
    <2>3. y = x - ii /\ relative[Control] = x - 1 /\ relative[Control] = z + o
      BY <1>3, <1>5, <2>1, <2>2
    <2>4. z + o = y + o
      BY <1>1, <2>2, <2>3
    <2> QED
      BY <2>2, <2>4
  <1> HIDE DEF s, u, o
  <1>8. s = u
    BY <1>1, <1>6, <1>7, QuotientUnique
  <1> QED
    BY <1>8 DEF s, u

\* A cycle of an iteration that is before another is in an earlier stage, or in an earlier
\* bundle of the same.
LEMMA EarlierStage ==
    ASSUME NEW i \in Nat \ {0}, NEW p \in Nat, NEW q \in Nat,
           NEW m \in 0 .. i - 1, NEW o \in 0 .. i - 1, (i * p) + m < (i * q) + o
    PROVE  p < q \/ (p = q /\ m < o)
  <1>1. i \in Nat
    OBVIOUS
  <1>2. q < p => (i * q) + i <= i * p
    BY <1>1, StepUp
  <1>3. PICK x \in Int, y \in Int : x = i * p /\ y = i * q /\ (p = q => x = y)
    OBVIOUS
  <1>4. x + m < y + o /\ (q < p => y + i <= x)
    BY <1>2, <1>3
  <1> QED
    BY <1>3, <1>4

\* The loop is followed while what has been executed is known.
LEMMA FollowingIs ==
    ASSUME RunningInv, phase = "running", ~Endless, LapsFit
    PROVE  /\ Following /\ Compacted /\ Scheduled /\ MachineInv
           /\ ran = {x \in (DOMAIN program.code) \X (0 .. lap) : HasRun(x[1], x[2])}
  BY DEF RunningInv, BackendInv, Following, Scheduled, Ran

\* An instance has been executed when its iteration has come past its instruction.
LEMMA ExecutedIs ==
    ASSUME RunningInv, phase = "running", ~Endless, LapsFit
    PROVE  /\ \A x \in Executed470 :
                 /\ x = <<x[1], x[2]>> /\ x[1] \in DOMAIN program.code
                 /\ x[2] \in Nat /\ x[2] <= Times - 1
                 /\ Block(program, x[1]) # "BB1" => x[2] = 0
           /\ \A a \in DOMAIN program.code : \A n \in Nat :
                 /\ Block(program, a) = "BB1" =>
                       /\ n <= Times - 1
                       /\ n + Stage(a) < lap \/ (n + Stage(a) = lap /\ BundleOf(a) < pc)
                 /\ Block(program, a) # "BB1" => n = 0 /\ BundleOf(a) < pc
                 => <<a, n>> \in Executed470
  <1>1. /\ Following /\ Compacted /\ Scheduled
        /\ ran = {x \in (DOMAIN program.code) \X (0 .. lap) : HasRun(x[1], x[2])}
    BY FollowingIs
  <1>2. /\ lap \in Nat /\ lap <= Times + stages - 2 /\ stages \in Nat \ {0}
        /\ Times \in Nat \ {0}
    BY <1>1, LapIs, TimesIs
  <1>3. /\ Control \in DOMAIN program.code /\ Block(program, Control) = "BB1"
        /\ Stage(Control) = stages - 1
        /\ \A a \in DOMAIN program.code :
              /\ Block(program, a) \in {"BB0", "BB1", "BB2"}
              /\ Block(program, a) = "BB1" => Stage(a) \in Nat
              /\ a \in Body <=> Block(program, a) = "BB1" /\ a # Control
    BY <1>1, BundlesAre, ControlStage, BlocksOf
  <1>4. ASSUME NEW x \in Executed470
        PROVE  /\ x = <<x[1], x[2]>> /\ x[1] \in DOMAIN program.code
               /\ x[2] \in Nat /\ x[2] <= Times - 1
               /\ Block(program, x[1]) # "BB1" => x[2] = 0
    <2>1. PICK e \in ran : x = InstanceAt(e[1], e[2])
      BY <1>4 DEF Executed470
    <2>2. x[1] = Control => x[2] >= 0
      BY <1>4 DEF Executed470
    <2>3. e[1] \in DOMAIN program.code /\ e[2] \in Nat /\ e[2] <= lap /\ HasRun(e[1], e[2])
      BY <1>1, <1>2, <2>1
    <2>4. /\ x = <<x[1], x[2]>> /\ x[1] = e[1]
          /\ x[2] = IF Block(program, e[1]) = "BB1" THEN e[2] - Stage(e[1]) ELSE 0
      BY <2>1 DEF InstanceAt
    <2>5. CASE e[1] \in Body
      <3>1. Stage(e[1]) <= e[2] /\ e[2] - Stage(e[1]) < Times
        BY <2>3, <2>5 DEF HasRun
      <3> QED
        BY <1>2, <1>3, <2>3, <2>4, <2>5, <3>1
    <2>6. CASE e[1] = Control
      BY <1>2, <1>3, <2>2, <2>3, <2>4, <2>6
    <2>7. CASE Block(program, e[1]) # "BB1"
      BY <1>2, <2>3, <2>4, <2>7
    <2> QED
      BY <1>3, <2>3, <2>5, <2>6, <2>7
  <1>5. ASSUME NEW a \in DOMAIN program.code, NEW n \in Nat,
               Block(program, a) = "BB1" =>
                  /\ n <= Times - 1
                  /\ n + Stage(a) < lap \/ (n + Stage(a) = lap /\ BundleOf(a) < pc),
               Block(program, a) # "BB1" => n = 0 /\ BundleOf(a) < pc
        PROVE  <<a, n>> \in Executed470
    <2> DEFINE m == CASE Block(program, a) = "BB0" -> 0
                      [] Block(program, a) = "BB1" -> n + Stage(a)
                      [] Block(program, a) = "BB2" -> lap
    <2>1. m \in 0 .. lap /\ HasRun(a, m) /\ InstanceAt(a, m) = <<a, n>>
      <3>1. CASE Block(program, a) = "BB0"
        BY <1>2, <1>3, <1>5, <3>1 DEF HasRun, InstanceAt
      <3>2. CASE Block(program, a) = "BB1"
        <4>1. m = n + Stage(a) /\ Stage(a) \in Nat
          BY <1>3, <3>2
        <4>2. m - Stage(a) = n /\ Stage(a) <= m /\ m \in 0 .. lap /\ n < Times
          BY <1>2, <1>5, <3>2, <4>1
        <4>3. m < lap \/ (m = lap /\ BundleOf(a) < pc)
          BY <1>5, <3>2, <4>1
        <4> HIDE DEF m
        <4> QED
          BY <3>2, <4>2, <4>3 DEF HasRun, InstanceAt
      <3>3. CASE Block(program, a) = "BB2"
        BY <1>2, <1>3, <1>5, <3>3 DEF HasRun, InstanceAt
      <3> QED
        BY <1>3, <3>1, <3>2, <3>3
    <2> HIDE DEF m
    <2>2. <<a, m>> \in ran /\ <<a, m>>[1] = a /\ <<a, m>>[2] = m
      BY <1>1, <2>1
    <2>3. <<a, n>>[2] >= 0
      OBVIOUS
    <2> QED
      BY <2>1, <2>2, <2>3 DEF Executed470
  <1> QED
    BY <1>4, <1>5

\* Only instances of the sequential run are executed.
LEMMA OnlyInstances ==
    ASSUME RunningInv, phase = "running", ~Endless, LapsFit
    PROVE  Executed470 \subseteq Instances(program, Times)
  <1> SUFFICES ASSUME NEW x \in Executed470 PROVE x \in Instances(program, Times)
    OBVIOUS
  <1>1. /\ x = <<x[1], x[2]>> /\ x[1] \in DOMAIN program.code
        /\ x[2] \in Nat /\ x[2] <= Times - 1
        /\ Block(program, x[1]) # "BB1" => x[2] = 0
    BY ExecutedIs
  <1>2. Block(program, x[1]) \in {"BB0", "BB1", "BB2"}
    BY <1>1, FollowingIs, BundlesAre
  <1>3. <<x[1], x[2]>> \in Instances(program, Times)
    BY <1>1, <1>2, TimesIs, InstanceMade
  <1> QED
    BY <1>1, <1>3

\* When the machine halts, all of them have been.
LEMMA AllInstances ==
    ASSUME RunningInv, ~Endless, LapsFit
    PROVE  EveryInstanceRuns
  <1> SUFFICES ASSUME phase = "running", ~Running
               PROVE  Executed470 = Instances(program, Times)
    BY DEF EveryInstanceRuns, Halted
  <1>1. Following /\ Compacted /\ Scheduled /\ MachineInv
    BY FollowingIs
  <1>2. /\ Len(code) \in Nat /\ LoopEnd <= Len(code) /\ pc \in Nat /\ pc <= Len(code)
        /\ \A a \in DOMAIN program.code : BundleOf(a) < Len(code)
    BY <1>1, ActiveIs
  <1>3. pc = Len(code)
    BY <1>2 DEF Running
  <1>4. /\ lap = Times + stages - 2 /\ lap \in Nat /\ stages \in Nat \ {0}
        /\ Times \in Nat \ {0}
    <2>1. LoopEnd <= pc
      BY <1>2, <1>3
    <2> QED
      BY <1>1, <2>1, LapIs, TimesIs
  <1>5. ASSUME NEW x \in Instances(program, Times) PROVE x \in Executed470
    <2>1. /\ x = <<x[1], x[2]>> /\ x[1] \in DOMAIN program.code /\ x[2] \in Nat
          /\ x[2] <= Times - 1 /\ (Block(program, x[1]) # "BB1" => x[2] = 0)
      BY <1>1, <1>4, BundlesAre, InstanceIs
    <2>2. BundleOf(x[1]) < pc
      BY <1>2, <1>3, <2>1
    <2>3. ASSUME Block(program, x[1]) = "BB1"
          PROVE  x[2] + Stage(x[1]) < lap \/ x[2] + Stage(x[1]) = lap
      <3>1. Stage(x[1]) \in Nat /\ Stage(x[1]) < stages
        BY <1>1, <2>1, <2>3, BundlesAre
      <3> QED
        BY <1>4, <2>1, <3>1
    <2>4. <<x[1], x[2]>> \in Executed470
      BY <2>1, <2>2, <2>3, ExecutedIs
    <2> QED
      BY <2>1, <2>4
  <1> QED
    BY <1>5, OnlyInstances

\* A machine that halts has executed every instance of the sequential run, and no other, in
\* a loop that leaves its own count alone and does not go back more often than there are
\* rotating predicates.
THEOREM PipelineCompletes == Spec => [](~Endless /\ LapsFit => EveryInstanceRuns)
  <1>1. RunningInv => (~Endless /\ LapsFit => EveryInstanceRuns)
    BY AllInstances
  <1> QED
    BY <1>1, RunningInvIs, PTL

-----------------------------------------------------------------------------
(* The data flow *)

\* Behind the loop the order of the bundles is that of the cycles, and so it is before it.
LEMMA BundlesFollow ==
    ASSUME Compacted, Scheduled, NEW w \in DOMAIN program.code, NEW a \in DOMAIN program.code,
           Block(program, w) = Block(program, a), Block(program, a) # "BB1",
           cycle[w] < cycle[a]
    PROVE  BundleOf(w) < BundleOf(a)
  <1>1. /\ cycle[w] \in Nat /\ cycle[a] \in Nat /\ start \in Nat
        /\ stages \in Nat /\ ii \in Nat
    BY DEF Compacted
  <1>2. LoopBundle \in Nat /\ Block(program, a) \in {"BB0", "BB2"}
    BY BundlesAre
  <1>3. CASE Block(program, a) = "BB0"
    BY <1>3 DEF BundleOf
  <1>4. CASE Block(program, a) = "BB2"
    <2>1. PICK x \in Int : x = stages * ii
      BY <1>1
    <2>2. /\ BundleOf(w) = LoopBundle + ii + (cycle[w] - start - x)
          /\ BundleOf(a) = LoopBundle + ii + (cycle[a] - start - x)
      BY <1>4, <2>1 DEF BundleOf
    <2> QED
      BY <1>1, <1>2, <2>1, <2>2
  <1> QED
    BY <1>2, <1>3, <1>4

\* What an instruction that executes now needs has been executed.
LEMMA NeedsExecuted ==
    ASSUME RunningInv, phase = "running", ~Endless, LapsFit, NEW a \in On,
           NEW r \in Reads(Code(a)),
           InstanceAt(a, lap) \in Instances(program, Times)
    PROVE  Reaching(program, Times, InstanceAt(a, lap), r) \subseteq Executed470
  <1> DEFINE x == InstanceAt(a, lap)
             inner == BlockProducer(program, "BB1", r)
             outer == BlockProducer(program, "BB0", r)
  <1>1. /\ Following /\ Compacted /\ Scheduled
        /\ Splittable(program) /\ program \in Program
    BY FollowingIs, BundlesAre, SplittableIs
  <1>2. a \in DOMAIN program.code /\ BundleOf(a) = pc
    BY DEF On, AtPc
  <1>3. /\ ii \in Nat \ {0} /\ stages \in Nat \ {0}
        /\ LoopBundle \in Nat /\ LoopEnd = LoopBundle + ii /\ LoopEnd \in Nat
        /\ Control \in DOMAIN program.code /\ Block(program, Control) = "BB1"
        /\ \A b \in DOMAIN program.code :
              /\ BundleOf(b) \in Nat /\ Block(program, b) \in {"BB0", "BB1", "BB2"}
              /\ b \in Body <=> Block(program, b) = "BB1" /\ b # Control
              /\ Block(program, b) = "BB0" => BundleOf(b) < LoopBundle
              /\ Block(program, b) = "BB1" =>
                    /\ LoopBundle <= BundleOf(b) /\ BundleOf(b) < LoopEnd
                    /\ relative[b] = ii * Stage(b) + (BundleOf(b) - LoopBundle)
                    /\ Stage(b) \in Nat /\ Stage(b) < stages
              /\ Block(program, b) = "BB2" => LoopEnd <= BundleOf(b)
    BY <1>1, BundlesAre, BlocksOf
  <1>4. /\ x = <<x[1], x[2]>> /\ x[1] = a
        /\ x[2] = IF Block(program, a) = "BB1" THEN lap - Stage(a) ELSE 0
        /\ x[2] \in Nat /\ x[2] <= Times - 1
    <2>1. x[2] \in Nat /\ x[2] <= Times - 1
      BY <1>1, TimesIs, InstanceIs
    <2> HIDE DEF x
    <2>2. x = <<x[1], x[2]>> /\ x[1] = a
          /\ x[2] = IF Block(program, a) = "BB1" THEN lap - Stage(a) ELSE 0
      BY DEF InstanceAt, x
    <2> QED
      BY <2>1, <2>2
  <1>5. Reaching(program, Times, x, r) = PredictedCase(program, Times, x, r)
    <2>1. r \in Reads(program.code[x[1]])
      BY <1>4 DEF Code
    <2>2. /\ Predicted(program, Times, x, r) = Reaching(program, Times, x, r)
          /\ Predicted(program, Times, x, r) = PredictedCase(program, Times, x, r)
      BY <1>1, <2>1, TimesIs, AnalysisReaches, PredictedIs
    <2> QED
      BY <2>2
  <1>6. /\ lap \in Nat /\ pc \in Nat /\ Times \in Nat \ {0}
        /\ LoopEnd <= pc => lap = Times + stages - 2
    BY <1>1, LapIs, TimesIs
  <1>7. \A b \in DOMAIN program.code : \A n \in Nat :
           /\ Block(program, b) = "BB1" =>
                 /\ n <= Times - 1
                 /\ n + Stage(b) < lap \/ (n + Stage(b) = lap /\ BundleOf(b) < pc)
           /\ Block(program, b) # "BB1" => n = 0 /\ BundleOf(b) < pc
           => <<b, n>> \in Executed470
    BY ExecutedIs
  <1>8. /\ inner # 0 => inner \in DOMAIN program.code /\ Block(program, inner) = "BB1"
        /\ outer # 0 => outer \in DOMAIN program.code /\ Block(program, outer) = "BB0"
    BY <1>1, BlockProducerIs DEF InBlock
  <1>9. ASSUME Block(program, a) # "BB0" PROVE Producing(outer, 0) \subseteq Executed470
    <2>1. ASSUME outer # 0 PROVE <<outer, 0>> \in Executed470
      <3>1. BundleOf(outer) < LoopBundle /\ LoopBundle <= pc /\ BundleOf(outer) \in Nat
        BY <1>2, <1>3, <1>8, <1>9, <2>1
      <3>2. BundleOf(outer) < pc
        BY <1>3, <1>6, <3>1
      <3> QED
        BY <1>7, <1>8, <2>1, <3>2
    <2> QED
      BY <2>1 DEF Producing
  <1>10. ASSUME Block(program, a) = "BB1"
         PROVE  a \in Body /\ x[2] + Stage(a) = lap
    <2>1. a # Control
      <3>1. Reads(Code(Control)) = {}
        BY <1>1, BlocksOf DEF Reads, Loop
      <3> QED
        BY <3>1
    <2> QED
      BY <1>2, <1>3, <1>4, <1>6, <1>10, <2>1
  <1>11. CASE r \notin Incoming(program, a)
    <2> DEFINE w == LocalProducer(program, a, r)
               d == Dependency(r, w, 0)
    <2>1. d \in LocalDependencies(program, a) /\ d.producer = w
      BY <1>11 DEF LocalDependencies, Dependency, Code
    <2>2. w \in DOMAIN program.code /\ Block(program, w) = Block(program, a)
      BY <1>1, <1>2, <2>1, DependenciesAre
    <2>3. ASSUME Block(program, a) # "BB1" PROVE <<w, x[2]>> \in Executed470
      <3>1. a \in DOMAIN program.code \ InBlock(program, "BB1")
        BY <1>2, <2>3 DEF InBlock
      <3>2. cycle[w] < cycle[a]
        BY <1>1, <2>1, <3>1 DEF Compacted
      <3>3. BundleOf(w) < pc
        BY <1>1, <1>2, <2>2, <2>3, <3>2, BundlesFollow
      <3> QED
        BY <1>4, <1>7, <2>2, <2>3, <3>3
    <2>4. ASSUME Block(program, a) = "BB1" PROVE <<w, x[2]>> \in Executed470
      <3>1. a \in Body /\ x[2] + Stage(a) = lap
        BY <1>10, <2>4
      <3>2. relative[w] < relative[a]
        BY <1>1, <2>1, <3>1 DEF Compacted
      <3> DEFINE m == BundleOf(w) - LoopBundle
                 o == pc - LoopBundle
      <3>3. /\ Stage(w) \in Nat /\ Stage(a) \in Nat /\ m \in 0 .. ii - 1 /\ o \in 0 .. ii - 1
            /\ relative[w] = ii * Stage(w) + m /\ relative[a] = ii * Stage(a) + o
        BY <1>2, <1>3, <1>6, <2>2, <2>4
      <3>4. Stage(w) < Stage(a) \/ (Stage(w) = Stage(a) /\ m < o)
        <4> HIDE DEF m, o
        <4> QED
          BY <1>3, <3>2, <3>3, EarlierStage
      <3>5. m < o => BundleOf(w) < pc
        BY <1>3, <1>6, <2>2
      <3>6. x[2] + Stage(w) < lap \/ (x[2] + Stage(w) = lap /\ BundleOf(w) < pc)
        <4> HIDE DEF x, m, o
        <4> QED
          BY <1>4, <1>6, <3>1, <3>3, <3>4, <3>5
      <3> QED
        BY <1>4, <1>7, <2>2, <2>4, <3>6
    <2>5. <<w, x[2]>> \in Executed470
      BY <2>3, <2>4
    <2>6. PredictedCase(program, Times, x, r) = {<<w, x[2]>>}
      BY <1>4, <1>11 DEF PredictedCase
    <2> QED
      BY <1>5, <2>5, <2>6
  <1>12. CASE r \in Incoming(program, a) /\ Block(program, a) = "BB1" /\ inner # 0
    <2>1. PredictedCase(program, Times, x, r) =
             IF x[2] = 0 THEN Producing(outer, 0) ELSE {<<inner, x[2] - 1>>}
      BY <1>4, <1>12 DEF PredictedCase
    <2>2. ASSUME x[2] # 0 PROVE <<inner, x[2] - 1>> \in Executed470
      <3> DEFINE d == Dependency(r, outer, inner)
      <3>1. d \in InterloopDependencies(program, a) /\ d.previous = inner
        BY <1>12 DEF InterloopDependencies, Dependency
      <3>2. a \in Body /\ x[2] + Stage(a) = lap
        BY <1>10, <1>12
      <3>3. relative[inner] < relative[a] + ii
        BY <1>1, <3>1, <3>2 DEF Compacted
      <3> DEFINE m == BundleOf(inner) - LoopBundle
                 o == pc - LoopBundle
                 s == Stage(inner)
                 t == Stage(a)
      <3>4. /\ s \in Nat /\ t \in Nat /\ m \in 0 .. ii - 1 /\ o \in 0 .. ii - 1
            /\ relative[inner] = ii * s + m /\ relative[a] = ii * t + o
        BY <1>2, <1>3, <1>6, <1>8, <1>12
      <3>5. s < t + 1 \/ (s = t + 1 /\ m < o)
        <4> HIDE DEF m, o, s, t
        <4>1. ii * (t + 1) = ii * t + ii
          BY <1>3, <3>4
        <4>2. (ii * s) + m < (ii * (t + 1)) + o
          <5>1. PICK y \in Int, z \in Int : y = ii * s /\ z = ii * t
            BY <1>3, <3>4
          <5>2. y + m < (z + o) + ii /\ ii * (t + 1) = z + ii
            BY <3>3, <3>4, <4>1, <5>1
          <5> QED
            BY <1>3, <3>4, <5>1, <5>2
        <4>3. t + 1 \in Nat
          BY <3>4
        <4> QED
          BY <1>3, <3>4, <4>2, <4>3, EarlierStage
      <3>6. m < o => BundleOf(inner) < pc
        BY <1>3, <1>6, <1>8, <1>12
      <3>7. /\ x[2] - 1 \in Nat /\ x[2] - 1 <= Times - 1
            /\ (x[2] - 1) + s < lap \/ ((x[2] - 1) + s = lap /\ BundleOf(inner) < pc)
        <4> HIDE DEF x, m, o, s, t
        <4>1. x[2] \in Nat /\ x[2] # 0 /\ x[2] + t = lap
          BY <1>4, <2>2, <3>2 DEF t
        <4> QED
          BY <1>4, <1>6, <3>4, <3>5, <3>6, <4>1
      <3> QED
        BY <1>7, <1>8, <1>12, <3>7
    <2> QED
      BY <1>5, <1>9, <1>12, <2>1, <2>2
  <1>13. CASE r \in Incoming(program, a) /\ Block(program, a) # "BB0" /\ inner = 0
    <2>1. Block(program, a) \in {"BB1", "BB2"}
      BY <1>2, <1>3, <1>13
    <2>2. PredictedCase(program, Times, x, r) = Producing(outer, 0)
      BY <1>4, <1>13, <2>1 DEF PredictedCase
    <2> QED
      BY <1>5, <1>9, <1>13, <2>2
  <1>14. CASE r \in Incoming(program, a) /\ Block(program, a) = "BB2" /\ inner # 0
    <2>1. PredictedCase(program, Times, x, r) = {<<inner, Times - 1>>}
      BY <1>4, <1>14 DEF PredictedCase
    <2>2. LoopEnd <= pc
      BY <1>2, <1>3, <1>14
    <2>3. Stage(inner) \in Nat /\ Stage(inner) < stages /\ BundleOf(inner) < LoopEnd
      BY <1>3, <1>8, <1>14
    <2>4. /\ BundleOf(inner) < pc
          /\ (Times - 1) + Stage(inner) < lap \/ (Times - 1) + Stage(inner) = lap
      <3>1. BundleOf(inner) \in Nat
        BY <1>3, <1>8, <1>14
      <3>2. BundleOf(inner) < pc
        BY <1>3, <1>6, <2>2, <2>3, <3>1
      <3>3. lap = Times + stages - 2 /\ Stage(inner) <= stages - 1
        BY <1>3, <1>6, <2>2, <2>3
      <3>4. (Times - 1) + Stage(inner) <= lap
        BY <1>3, <1>6, <2>3, <3>3
      <3>5. (Times - 1) + Stage(inner) \in Int
        BY <1>6, <2>3
      <3> QED
        BY <1>6, <3>2, <3>4, <3>5
    <2>5. <<inner, Times - 1>> \in Executed470
      <3>1. Times - 1 \in Nat /\ Times - 1 <= Times - 1
        BY <1>6
      <3> QED
        BY <1>7, <1>8, <1>14, <2>4, <3>1
    <2> QED
      BY <1>5, <2>1, <2>5
  <1>15. CASE r \in Incoming(program, a) /\ Block(program, a) = "BB0"
    <2>1. PredictedCase(program, Times, x, r) = {}
      BY <1>4, <1>15 DEF PredictedCase
    <2> QED
      BY <1>5, <2>1
  <1> QED
    BY <1>2, <1>3, <1>11, <1>12, <1>13, <1>14, <1>15

\* The specification of the data flow has the program's analysis.
LEMMA SameAnalysis ==
    /\ \A p, k : DataflowSpec!Instances(p, k) = Instances(p, k)
    /\ \A p, n : DataflowSpec!Laps(p, n) = Laps(p, n)
    /\ \A i : DataflowSpec!Reads(i) = Reads(i)
    /\ \A p, k, x, r : DataflowSpec!Reaching(p, k, x, r) = Reaching(p, k, x, r)
  <1>1. \A p : DataflowSpec!LoopAddresses(p) = LoopAddresses(p)
    BY DEF DataflowSpec!LoopAddresses, LoopAddresses
  <1>2. \A p : DataflowSpec!LoopAddress(p) = LoopAddress(p)
    BY <1>1 DEF DataflowSpec!LoopAddress, LoopAddress
  <1>3. \A p : DataflowSpec!HasLoop(p) <=> HasLoop(p)
    BY <1>1 DEF DataflowSpec!HasLoop, HasLoop
  <1>4. \A p, a : DataflowSpec!Block(p, a) = Block(p, a)
    BY <1>2, <1>3 DEF DataflowSpec!Block, Block
  <1>5. \A p, b : DataflowSpec!InBlock(p, b) = InBlock(p, b)
    BY <1>4 DEF DataflowSpec!InBlock, InBlock
  <1>6. \A p, k : DataflowSpec!Instances(p, k) = Instances(p, k)
    BY <1>5 DEF DataflowSpec!Instances, Instances
  <1>7. \A p, n : DataflowSpec!Laps(p, n) = Laps(p, n)
    BY <1>5 DEF DataflowSpec!Laps, Laps, DataflowSpec!MovSpecial, MovSpecial
  <1>8. \A i : DataflowSpec!Reads(i) = Reads(i)
    BY DEF DataflowSpec!Reads, Reads
  <1>9. \A p, k, x : DataflowSpec!Position(p, k, x) = Position(p, k, x)
    <2>1. \A S : DataflowSpec!Cardinality(S) = Cardinality(S)
      BY DEF DataflowSpec!Cardinality, Cardinality
    <2> QED
      BY <1>4, <1>5, <2>1 DEF DataflowSpec!Position, Position
  <1>10. \A p, k, x, r : DataflowSpec!Reaching(p, k, x, r) = Reaching(p, k, x, r)
    BY <1>6, <1>9 DEF DataflowSpec!Reaching, Reaching
  <1> QED
    BY <1>6, <1>7, <1>8, <1>10

\* A cycle executes what the data flow allows.
LEMMA CycleFlows ==
    ASSUME RunningInv, RunningInv', ~Endless, LapsFit, Run
    PROVE  DataflowSpec!Execute
  <1>1. /\ UNCHANGED <<program, ii, cycle, relative, slot, stages, start, dst, src, phase>>
        /\ phase = "running" /\ Tick
    BY RunKeeps
  <1>2. /\ (Endless' <=> Endless) /\ (LapsFit' <=> LapsFit) /\ Times' = Times
        /\ Control' = Control
        /\ \A a : /\ Code(a)' = Code(a) /\ Block(program, a)' = Block(program, a)
                  /\ Stage(a)' = Stage(a)
    BY <1>1, SameSchedule DEF LapsFit
  <1>3. Following /\ Compacted /\ Scheduled /\ MachineInv
    BY <1>1, FollowingIs
  <1>4. ran' = ran \cup {<<a, lap>> : a \in On}
    BY <1>1, <1>3, TickIs
  <1>5. \A a, n : InstanceAt(a, n)' = InstanceAt(a, n)
    BY <1>1, <1>2 DEF InstanceAt
  <1>6. /\ Executed470 \subseteq Executed470'
        /\ \A x \in Executed470' : x \in Executed470 \/ \E a \in On : x = InstanceAt(a, lap)
    <2> DEFINE Of(S) == {InstanceAt(e[1], e[2]) : e \in S}
    <2>1. Executed470' = {x \in Of(ran') : x[1] = Control => x[2] >= 0}
      BY <1>2, <1>5 DEF Executed470
    <2>2. Executed470 = {x \in Of(ran) : x[1] = Control => x[2] >= 0}
      BY DEF Executed470
    <2>3. Of(ran) \subseteq Of(ran')
      BY <1>4
    <2>4. ASSUME NEW x \in Of(ran') PROVE x \in Of(ran) \/ \E a \in On : x = InstanceAt(a, lap)
      <3>1. PICK e \in ran' : x = InstanceAt(e[1], e[2])
        OBVIOUS
      <3>2. \A a : <<a, lap>>[1] = a /\ <<a, lap>>[2] = lap
        OBVIOUS
      <3>3. e \in ran \/ \E a \in On : e = <<a, lap>>
        BY <1>4, <3>1
      <3> QED
        BY <3>1, <3>2, <3>3
    <2> HIDE DEF Of
    <2> QED
      BY <2>1, <2>2, <2>3, <2>4
  <1>7. /\ Executed470 \subseteq Instances(program, Times)
        /\ Executed470' \subseteq Instances(program, Times)
    <2>1. Executed470 \subseteq Instances(program, Times)
      BY <1>1, OnlyInstances
    <2>2. RunningInv /\ phase = "running" /\ ~Endless /\ LapsFit
             => Executed470 \subseteq Instances(program, Times)
      BY OnlyInstances
    <2>3. (RunningInv /\ phase = "running" /\ ~Endless /\ LapsFit
             => Executed470 \subseteq Instances(program, Times))'
      BY OnlyInstances, PTL
    <2>4. Executed470' \subseteq Instances(program, Times)'
      BY <1>1, <1>2, <2>3
    <2>5. Instances(program, Times)' = Instances(program, Times)
      BY <1>1, <1>2
    <2> QED
      BY <2>1, <2>4, <2>5
  <1>8. DataflowSpec!Meant = Instances(program, Times)
    BY SameAnalysis DEF DataflowSpec!Meant, Times
  <1>9. ASSUME NEW x \in Executed470' \ Executed470
        PROVE  DataflowSpec!ReadFrom(x) \subseteq Executed470
    <2>1. PICK a \in On : x = InstanceAt(a, lap)
      BY <1>6
    <2>2. x[1] = a
      BY <2>1 DEF InstanceAt
    <2>3. x \in Instances(program, Times)
      BY <1>7
    <2>4. ASSUME NEW r \in Reads(Code(a))
          PROVE  Reaching(program, Times, x, r) \subseteq Executed470
      BY <1>1, <2>1, <2>3, NeedsExecuted
    <2>5. DataflowSpec!ReadFrom(x) = UNION {Reaching(program, Times, x, r) : r \in Reads(Code(a))}
      BY <2>2, SameAnalysis DEF DataflowSpec!ReadFrom, Times, Code
    <2> QED
      BY <2>4, <2>5
  <1> QED
    BY <1>1, <1>6, <1>7, <1>8, <1>9 DEF DataflowSpec!Execute

\* Every step of the compiler and of the machine is one that the data flow allows.
LEMMA DataflowStep ==
    ASSUME RunningInv, RunningInv', ~Endless, LapsFit, [Next]_vars
    PROVE  [DataflowSpec!Next]_<<program, Executed470>>
  <1>1. ASSUME ran = {} PROVE Executed470 = {}
    BY <1>1 DEF Executed470
  <1>2. ASSUME ran' = {} PROVE Executed470' = {}
    BY <1>2 DEF Executed470
  <1>3. ASSUME phase # "running" PROVE ran = {}
    BY <1>3 DEF RunningInv, BackendInv, MachineInv, MachineInit
  <1>4. ASSUME phase # "running", ran' = ran PROVE DataflowSpec!Next
    BY <1>1, <1>2, <1>3, <1>4 DEF DataflowSpec!Next, DataflowSpec!Choose
  <1>5. CASE Schedule
    <2>1. phase # "running" /\ ran' = ran
      BY <1>5 DEF Schedule, ScheduleNext, Parse, ParseError, PlaceInCycle, NoCycleLeft,
                  FinishBB0, FinishBB2, PlaceModulo, NoPlaceInBody, BodyTooSlow, AcceptBody,
                  NextInterval, machineVars
    <2> QED
      BY <1>4, <2>1
  <1>6. CASE AllocateRegisters
    <2>1. phase # "running" /\ ran' = ran
      BY <1>6 DEF AllocateRegisters, AllocateNext, Allocate, OutOfRegisters, machineVars
    <2> QED
      BY <1>4, <2>1
  <1>7. CASE Prepare
    <2>1. phase # "running" /\ ran' = ran
      BY <1>7 DEF Prepare
    <2> QED
      BY <1>4, <2>1
  <1>8. CASE Run
    BY <1>8, CycleFlows DEF DataflowSpec!Next
  <1>9. CASE UNCHANGED vars
    <2>1. /\ UNCHANGED <<program, ii, cycle, relative, slot, stages, start, dst, src>>
          /\ ran' = ran
      BY <1>9 DEF vars, schedulerVars, registerVars, machineVars
    <2>2. Control' = Control /\ \A a, n : InstanceAt(a, n)' = InstanceAt(a, n)
      BY <2>1, SameSchedule DEF InstanceAt
    <2>3. Executed470' = Executed470
      BY <2>1, <2>2 DEF Executed470
    <2> QED
      BY <2>1, <2>3
  <1> QED
    BY <1>5, <1>6, <1>7, <1>8, <1>9 DEF Next

\* The pipelined program implements the data flow of its source: whatever it executes, the
\* instances that it reads from have been executed before, however many iterations overlap.
THEOREM PipelineRefinement == Spec /\ [](~Endless /\ LapsFit) => FollowsDataflow
  <1>1. Init /\ RunningInv => Executed470 = {}
    BY DEF Init, SchedulerInit, RunningInv, BackendInv, MachineInv, MachineInit, Executed470
  <1>2. RunningInv /\ RunningInv' /\ (~Endless /\ LapsFit) /\ [Next]_vars
           => [DataflowSpec!Next]_<<program, Executed470>>
    BY DataflowStep
  <1> QED
    BY <1>1, <1>2, RunningInvIs, PTL DEF Spec, FollowsDataflow, DataflowSpec!Spec

\* The loop goes back no more often than it has iterations and stages to drain, so that the
\* base of the rotating registers leaves its range only when the program asks for too many.
THEOREM BaseStays == Spec => [](~Endless /\ LapsFit => BaseInRange)
  <1>1. RunningInv => (~Endless /\ LapsFit => BaseInRange)
    <2> SUFFICES ASSUME RunningInv, ~Endless, LapsFit PROVE BaseInRange
      OBVIOUS
    <2>1. CASE phase = "running"
      <3>1. rrb = lap /\ Following
        BY <2>1 DEF RunningInv, BackendInv, Following, MachineInv
      <3>2. lap \in Nat /\ lap <= Times + stages - 2 /\ Times + stages - 2 \in Nat
            /\ Times + stages - 2 < Rotating
        BY <3>1, LapIs
      <3> QED
        BY <3>1, <3>2, FileIs DEF BaseInRange
    <2>2. CASE phase # "running"
      <3>1. rrb = 0
        BY <2>2 DEF RunningInv, BackendInv, MachineInv, MachineInit
      <3> QED
        BY <3>1, FileIs DEF BaseInRange
    <2> QED
      BY <2>1, <2>2
  <1> QED
    BY <1>1, RunningInvIs, PTL

=============================================================================
