------------------------ MODULE LoopSchedulerProofs ------------------------
(***************************************************************************)
(* The schedule of the plain loop backend and its renaming, for every set  *)
(* of programs and any number of registers: every instruction has a place  *)
(* of its own behind its operands, and no register number, no operand and  *)
(* no move is lost on the way to the machine.                              *)
(***************************************************************************)
EXTENDS LoopBackend, VLIWProgramProofs

-----------------------------------------------------------------------------
(* The inductive invariant of the schedule *)

\* Instructions are being placed, or all of them have been.
Placing == phase \in {"BB0", "BB1", "BB2"}
Finished == phase \in {"scheduled", "operands", "starting", "moves", "renamed", "running"}
Working == Placing \/ Finished

\* The loop has its place.
LoopPlaced == HasLoop(program) /\ (phase = "BB2" \/ Finished)

AllPlaced == Placed(DOMAIN row)

\* The types of the schedule.
ScheduleTypes ==
    /\ source \in Sources
    /\ program \in Program
    /\ Working \/ phase \in {"source", "failed"}
    /\ todo \subseteq DOMAIN program.code
    /\ row \in [DOMAIN program.code -> Nat \cup {None}]
    /\ slot \in [DOMAIN program.code -> Slot]
    /\ size \in Nat /\ begin \in Nat

\* The blocks are placed one after the other, and a loop has something before it.
Progress ==
    /\ Working => Compilable(program)
    /\ phase = "BB0" => /\ todo \subseteq InBlock(program, "BB0")
                        /\ AllPlaced = InBlock(program, "BB0") \ todo
    /\ phase = "BB1" => /\ HasLoop(program) /\ todo \subseteq Body
                        /\ AllPlaced = InBlock(program, "BB0") \cup (Body \ todo)
                        /\ size > 0 => InBlock(program, "BB0") # {}
    /\ phase = "BB2" => /\ HasLoop(program) /\ todo \subseteq InBlock(program, "BB2")
                        /\ AllPlaced = (DOMAIN program.code) \ todo
    /\ Finished => todo = {} /\ AllPlaced = DOMAIN program.code
    /\ LoopPlaced => InBlock(program, "BB0") # {}

\* The slots of the units.
SlotFits(u, s) == IF u = "ALU" THEN s \in {"ALU0", "ALU1"} ELSE s = u

\* No slot of a cycle of a block is given away twice.
SlotsApart ==
    Working =>
        /\ \A a \in AllPlaced : SlotFits(Code(a).unit, slot[a])
        /\ \A a, b \in AllPlaced :
              a # b /\ Block(program, a) = Block(program, b) /\ row[a] = row[b] =>
                 slot[a] # slot[b]

\* The blocks do not overlap, the loop instruction ends the loop.
Layout ==
    /\ phase = "BB1" => \A a \in InBlock(program, "BB0") : row[a] < size
    /\ LoopPlaced =>
          /\ begin <= row[Control]
          /\ \A a \in InBlock(program, "BB0") : row[a] < begin
          /\ \A a \in Body : begin <= row[a] /\ row[a] <= row[Control]
    /\ phase = "BB2" => size = row[Control] + 1
    /\ Finished /\ HasLoop(program) =>
          /\ row[Control] < size
          /\ \A a \in InBlock(program, "BB2") : row[Control] < row[a] /\ row[a] < size
    /\ Finished /\ ~HasLoop(program) => \A a \in DOMAIN program.code : row[a] < size

\* What is placed has its operands in time: those of its own block, in the loop those of
\* BB0, behind it those of the loop.
OperandsTimed ==
    /\ Working =>
          \A a \in AllPlaced : \A d \in LocalDependencies(program, a) :
             d.producer \in AllPlaced /\ Ready(d.producer) <= row[a]
    /\ phase = "BB2" =>
          \A a \in AllPlaced \cap InBlock(program, "BB2") :
             \A d \in PostLoopDependencies(program, a) : Ready(d.producer) <= row[a] + size
    /\ LoopPlaced => \A b \in EnteringLoop : Ready(b) <= begin
    /\ Finished =>
          \A a \in InBlock(program, "BB2") :
             \A d \in PostLoopDependencies(program, a) : Ready(d.producer) <= row[a]

\* What all steps of the scheduler keep.
ScheduleInv == ScheduleTypes /\ Progress /\ SlotsApart /\ Layout /\ OperandsTimed

-----------------------------------------------------------------------------
(* The program being compiled *)

\* Its addresses, blocks and instructions.
LEMMA AddressesAre ==
    ASSUME Compilable(program)
    PROVE  /\ program \in Program
           /\ DOMAIN program.code \in SUBSET (Nat \ {0}) /\ IsFiniteSet(DOMAIN program.code)
           /\ \A a \in DOMAIN program.code :
                 /\ Block(program, a) \in {"BB0", "BB1", "BB2"}
                 /\ Code(a).unit \in {"ALU", "Mult", "Mem", "Branch"}
                 /\ Code(a).src \in Seq(Reg)
                 /\ Code(a).dst = {} \/ \E r \in Reg : Code(a).dst = {r}
                 /\ Code(a).unit = "Branch" <=> HasLoop(program) /\ a = Control
                 /\ Block(program, a) # "BB0" => HasLoop(program)
           /\ \A a, b : a \in InBlock(program, b) <=>
                           a \in DOMAIN program.code /\ Block(program, a) = b
           /\ HasLoop(program) =>
                 /\ Control \in DOMAIN program.code /\ Block(program, Control) = "BB1"
                 /\ Code(Control) = Loop /\ Code(Control).dst = {}
                 /\ \A a \in Body : a \in DOMAIN program.code /\ a # Control
                                      /\ a < Control /\ Block(program, a) = "BB1"
                 /\ \A a \in InBlock(program, "BB1") : a \in Body \/ a = Control
  <1>1. program \in Program /\ (HasLoop(program) => Splittable(program))
    BY DEF Compilable
  <1>2. \A a, b : a \in InBlock(program, b) <=>
                     a \in DOMAIN program.code /\ Block(program, a) = b
    BY DEF InBlock
  <1>3. /\ DOMAIN program.code \in SUBSET (Nat \ {0}) /\ IsFiniteSet(DOMAIN program.code)
        /\ \A a \in DOMAIN program.code :
              /\ program.code[a].unit \in {"ALU", "Mult", "Mem", "Branch"}
              /\ program.code[a].src \in Seq(Reg)
              /\ program.code[a].dst = {} \/ \E r \in Reg : program.code[a].dst = {r}
              /\ program.code[a].unit = "Branch" <=> program.code[a] = Loop
              /\ program.code[a].unit = "Branch" <=> a \in LoopAddresses(program)
    BY <1>1, ProgramIs
  <1>4. CASE HasLoop(program)
    <2>1. /\ Control \in DOMAIN program.code /\ Code(Control) = Loop
          /\ program.start \in 1 .. Control
          /\ InBlock(program, "BB1") = program.start .. Control
          /\ \A a \in (DOMAIN program.code) \ {Control} : Code(a) \in Operations
      BY <1>1, <1>4, BlocksAre DEF Control, Code
    <2>2. \A a \in DOMAIN program.code : Block(program, a) \in {"BB0", "BB1", "BB2"}
      BY <1>1, <1>4, BlockIs
    <2>3. Control \in InBlock(program, "BB1") /\ Block(program, Control) = "BB1"
      <3>1. Control \in Nat /\ program.start \in Nat /\ program.start <= Control
        BY <1>3, <2>1
      <3>2. Control \in program.start .. Control
        BY <3>1
      <3> QED
        BY <1>2, <2>1, <3>2
    <2>4. \A a \in DOMAIN program.code : Code(a).unit = "Branch" <=> a = Control
      BY <2>1 DEF Operations, Loop
    <2>5. \A a \in Body : a \in DOMAIN program.code /\ a # Control
                            /\ a < Control /\ Block(program, a) = "BB1"
      BY <1>2, <1>3, <2>1 DEF Body
    <2> QED
      BY <1>1, <1>2, <1>3, <1>4, <2>1, <2>2, <2>3, <2>4, <2>5 DEF Body, Code, Loop
  <1>5. CASE ~HasLoop(program)
    <2>1. \A a : Block(program, a) = "BB0"
      BY <1>5, StraightIs
    <2>2. LoopAddresses(program) = {}
      BY <1>5 DEF HasLoop
    <2> QED
      BY <1>1, <1>2, <1>3, <1>5, <2>1, <2>2 DEF Code
  <1> QED
    BY <1>4, <1>5

\* Instructions take a cycle or three.
LEMMA ReadyIs ==
    ASSUME NEW a, row[a] \in Int
    PROVE  Ready(a) \in Int /\ row[a] + 1 <= Ready(a) /\ Ready(a) <= row[a] + 3
  BY DEF Ready, Latency

\* What a dependency names, which is never the loop instruction.
LEMMA ProducersAre ==
    ASSUME Compilable(program), NEW a \in DOMAIN program.code
    PROVE  /\ \A d \in LocalDependencies(program, a) :
                 /\ d.producer \in DOMAIN program.code /\ d.producer < a
                 /\ Block(program, d.producer) = Block(program, a)
                 /\ d.reg \in Code(d.producer).dst
           /\ \A d \in InterloopDependencies(program, a) :
                 /\ HasLoop(program) /\ a \in Body
                 /\ d.producer # 0 => d.producer \in InBlock(program, "BB0")
                                        /\ d.reg \in Code(d.producer).dst
                 /\ d.previous \in Body /\ d.reg \in Code(d.previous).dst
           /\ \A d \in InvariantDependencies(program, a) :
                 /\ HasLoop(program) /\ (a \in Body \/ Block(program, a) = "BB2")
                 /\ d.producer \in InBlock(program, "BB0") /\ d.producer # 0
                 /\ d.reg \in Code(d.producer).dst
           /\ \A d \in PostLoopDependencies(program, a) :
                 /\ HasLoop(program) /\ Block(program, a) = "BB2"
                 /\ d.producer \in Body /\ d.reg \in Code(d.producer).dst
  <1>1. program \in Program
    BY DEF Compilable
  <1>2. \A b, r : BlockProducer(program, b, r) # 0 =>
                     /\ BlockProducer(program, b, r) \in InBlock(program, b)
                     /\ r \in Code(BlockProducer(program, b, r)).dst
    BY <1>1, BlockProducerIs DEF Code
  <1>3. \A r : BlockProducer(program, "BB1", r) # 0 =>
                  /\ HasLoop(program) /\ BlockProducer(program, "BB1", r) \in Body
                  /\ r \in Code(BlockProducer(program, "BB1", r)).dst
    BY <1>2, AddressesAre
  <1>4. a = Control /\ HasLoop(program) => Reads(program.code[a]) = {}
    BY AddressesAre DEF Reads, Loop, Code
  <1>5. \A r \in Incoming(program, a) : Block(program, a) = "BB1" => HasLoop(program) /\ a \in Body
    BY <1>4, AddressesAre DEF Incoming
  <1>6. ASSUME NEW d \in LocalDependencies(program, a)
        PROVE  /\ d.producer \in DOMAIN program.code /\ d.producer < a
               /\ Block(program, d.producer) = Block(program, a)
               /\ d.reg \in Code(d.producer).dst
    <2>1. PICK r \in Reads(program.code[a]) \ Incoming(program, a) :
             d = Dependency(r, LocalProducer(program, a, r), 0)
      BY DEF LocalDependencies
    <2>2. d.producer = LocalProducer(program, a, r) /\ d.reg = r
          /\ LocalProducer(program, a, r) # 0
      BY <2>1 DEF Dependency, Incoming
    <2> QED
      BY <1>1, <2>2, LocalProducerIs DEF Code
  <1>7. ASSUME NEW d \in InterloopDependencies(program, a)
        PROVE  /\ HasLoop(program) /\ a \in Body
               /\ d.producer # 0 => d.producer \in InBlock(program, "BB0")
                                      /\ d.reg \in Code(d.producer).dst
               /\ d.previous \in Body /\ d.reg \in Code(d.previous).dst
    <2>1. PICK r \in Incoming(program, a) :
             /\ Block(program, a) = "BB1" /\ BlockProducer(program, "BB1", r) # 0
             /\ d = Dependency(r, BlockProducer(program, "BB0", r),
                                  BlockProducer(program, "BB1", r))
      BY DEF InterloopDependencies
    <2>2. /\ d.reg = r /\ d.producer = BlockProducer(program, "BB0", r)
          /\ d.previous = BlockProducer(program, "BB1", r)
      BY <2>1 DEF Dependency
    <2> QED
      BY <1>2, <1>3, <1>5, <2>1, <2>2
  <1>8. ASSUME NEW d \in InvariantDependencies(program, a)
        PROVE  /\ HasLoop(program) /\ (a \in Body \/ Block(program, a) = "BB2")
               /\ d.producer \in InBlock(program, "BB0") /\ d.producer # 0
               /\ d.reg \in Code(d.producer).dst
    <2>1. PICK r \in Incoming(program, a) :
             /\ Block(program, a) \in {"BB1", "BB2"} /\ BlockProducer(program, "BB0", r) # 0
             /\ d = Dependency(r, BlockProducer(program, "BB0", r), 0)
      BY DEF InvariantDependencies
    <2>2. d.reg = r /\ d.producer = BlockProducer(program, "BB0", r)
      BY <2>1 DEF Dependency
    <2>3. HasLoop(program)
      BY <2>1, AddressesAre
    <2> QED
      BY <1>2, <1>5, <2>1, <2>2, <2>3
  <1>9. ASSUME NEW d \in PostLoopDependencies(program, a)
        PROVE  /\ HasLoop(program) /\ Block(program, a) = "BB2"
               /\ d.producer \in Body /\ d.reg \in Code(d.producer).dst
    <2>1. PICK r \in Incoming(program, a) :
             /\ Block(program, a) = "BB2" /\ BlockProducer(program, "BB1", r) # 0
             /\ d = Dependency(r, BlockProducer(program, "BB1", r), 0)
      BY DEF PostLoopDependencies
    <2>2. d.reg = r /\ d.producer = BlockProducer(program, "BB1", r)
      BY <2>1 DEF Dependency
    <2> QED
      BY <1>3, <2>1, <2>2
  <1> QED
    BY <1>6, <1>7, <1>8, <1>9

-----------------------------------------------------------------------------
(* The state while a program is being scheduled and afterwards *)

\* What the invariant says of the program and the tables.
LEMMA StateIs ==
    ASSUME ScheduleInv, Working
    PROVE  /\ Compilable(program) /\ size \in Nat /\ begin \in Nat
           /\ todo \subseteq DOMAIN program.code
           /\ DOMAIN row = DOMAIN program.code /\ DOMAIN slot = DOMAIN program.code
           /\ row \in [DOMAIN program.code -> Nat \cup {None}]
           /\ slot \in [DOMAIN program.code -> Slot]
           /\ \A a \in DOMAIN program.code : row[a] \in Int
           /\ \A a : a \in AllPlaced <=> a \in DOMAIN program.code /\ row[a] # None
           /\ \A a \in AllPlaced : a \in DOMAIN program.code /\ row[a] \in Nat
           /\ None \in Int
  <1>1. /\ DOMAIN row = DOMAIN program.code /\ DOMAIN slot = DOMAIN program.code
        /\ row \in [DOMAIN program.code -> Nat \cup {None}]
        /\ slot \in [DOMAIN program.code -> Slot]
        /\ todo \subseteq DOMAIN program.code /\ size \in Nat /\ begin \in Nat
    BY DEF ScheduleInv, ScheduleTypes
  <1>2. \A a : a \in AllPlaced <=> a \in DOMAIN program.code /\ row[a] # None
    BY <1>1 DEF AllPlaced, Placed
  <1>3. \A a \in AllPlaced : a \in DOMAIN program.code /\ row[a] \in Nat
    BY <1>1, <1>2
  <1>4. None \in Int /\ \A a \in DOMAIN program.code : row[a] \in Int
    BY <1>1 DEF None
  <1> QED
    BY <1>1, <1>2, <1>3, <1>4 DEF ScheduleInv, Progress

\* While the program stays what it is, so do its blocks and its dependencies.
LEMMA ProgramKept ==
    ASSUME program' = program
    PROVE  /\ Body' = Body /\ Control' = Control /\ EnteringLoop' = EnteringLoop
           /\ \A a : Code(a)' = Code(a)
           /\ HasLoop(program)' = HasLoop(program)
           /\ Compilable(program)' = Compilable(program)
           /\ \A a : Block(program, a)' = Block(program, a)
           /\ \A b : InBlock(program, b)' = InBlock(program, b)
           /\ \A a : LocalDependencies(program, a)' = LocalDependencies(program, a)
           /\ \A a : InterloopDependencies(program, a)' = InterloopDependencies(program, a)
           /\ \A a : PostLoopDependencies(program, a)' = PostLoopDependencies(program, a)
           /\ \A a : InvariantDependencies(program, a)' = InvariantDependencies(program, a)
  BY DEF Body, Control, Code, EnteringLoop

\* What the loop reads of BB0.
LEMMA EnteringAre ==
    ASSUME Compilable(program)
    PROVE  /\ \A b \in EnteringLoop : b \in InBlock(program, "BB0") /\ b \in DOMAIN program.code
           /\ \A a \in Body : \A d \in InvariantDependencies(program, a)
                                       \cup InterloopDependencies(program, a) :
                 d.producer # 0 => d.producer \in EnteringLoop
  <1>1. ASSUME NEW b \in EnteringLoop
        PROVE  b \in InBlock(program, "BB0") /\ b \in DOMAIN program.code
    <2>1. PICK a \in Body : \E d \in InvariantDependencies(program, a)
                                      \cup InterloopDependencies(program, a) : b = d.producer
      BY DEF EnteringLoop
    <2>2. b # 0
      BY DEF EnteringLoop
    <2>3. a \in DOMAIN program.code
      BY DEF Body, InBlock
    <2> QED
      BY <2>1, <2>2, <2>3, ProducersAre, AddressesAre
  <1>2. ASSUME NEW a \in Body,
               NEW d \in InvariantDependencies(program, a) \cup InterloopDependencies(program, a),
               d.producer # 0
        PROVE  d.producer \in EnteringLoop
    BY <1>2 DEF EnteringLoop
  <1> QED
    BY <1>1, <1>2

-----------------------------------------------------------------------------
(* Where an instruction may be placed *)

\* It waits for its operands.
LEMMA EarliestCycleIs ==
    ASSUME ScheduleInv, Placing, NEW a \in todo
    PROVE  /\ EarliestCycle(a) \in Nat
           /\ \A d \in LocalDependencies(program, a) : Ready(d.producer) <= EarliestCycle(a)
           /\ phase = "BB2" => \A d \in PostLoopDependencies(program, a) :
                                  Ready(d.producer) <= EarliestCycle(a) + size
  <1>1. /\ Compilable(program) /\ a \in DOMAIN program.code /\ size \in Nat
        /\ \A x \in DOMAIN program.code : row[x] \in Int
    BY StateIs DEF Working
  <1> DEFINE L == LocalDependencies(program, a)
             P == PostLoopDependencies(program, a)
             f == [d \in L |-> Ready(d.producer)]
             g == [d \in P |-> Ready(d.producer) - size]
             S == {f[d] : d \in L}
             T == {g[d] : d \in P}
             U == IF phase = "BB2" THEN T ELSE {}
  <1>2. IsFiniteSet(L) /\ IsFiniteSet(P)
    BY <1>1, FiniteDependencies DEF Compilable
  <1>3. \A d \in L \cup P : Ready(d.producer) \in Int
    <2>1. \A d \in L \cup P : d.producer \in DOMAIN program.code
      BY <1>1, ProducersAre, AddressesAre
    <2> HIDE DEF L, P
    <2> QED
      BY <1>1, <2>1, ReadyIs
  <1>4. S \in SUBSET Int /\ T \in SUBSET Int
    BY <1>1, <1>3
  <1>5. IsFiniteSet(S) /\ IsFiniteSet(T)
    <2> HIDE DEF L, P, f, g
    <2> QED
      BY <1>2, FiniteImage
  <1>6. EarliestCycle(a) = Greatest(S \cup U, 0)
    BY DEF EarliestCycle, Bounds
  <1>7. /\ \A d \in L : Ready(d.producer) \in S
        /\ \A d \in P : Ready(d.producer) - size \in T
    OBVIOUS
  <1>8. IsFiniteSet(S \cup U) /\ S \cup U \in SUBSET Int
    <2> HIDE DEF S, T
    <2>1. IsFiniteSet(U) /\ U \in SUBSET Int
      BY <1>4, <1>5, FS_EmptySet
    <2> HIDE DEF U
    <2> QED
      BY <1>4, <1>5, <2>1, FS_Union
  <1> DEFINE e == Greatest(S \cup U, 0)
  <1>9. e \in Int /\ 0 <= e /\ \A y \in S \cup U : y <= e
    <2> HIDE DEF S, U
    <2> QED
      BY <1>8, GreatestIs
  <1>10. \A d \in L : Ready(d.producer) <= e
    <2> HIDE DEF S, U, L, e
    <2> QED
      BY <1>7, <1>9
  <1>11. phase = "BB2" => \A d \in P : Ready(d.producer) <= e + size
    <2>1. phase = "BB2" => \A d \in P : Ready(d.producer) - size <= e
      <3> HIDE DEF S, T, P, e
      <3> QED
        BY <1>7, <1>9
    <2> HIDE DEF S, U, P, e
    <2> QED
      BY <1>1, <1>3, <1>9, <2>1
  <1> HIDE DEF e
  <1> QED
    BY <1>6, <1>9, <1>10, <1>11 DEF e

\* PlaceInstruction puts the next instruction where nothing else of its block is, in time.
Putting(a, c, s) ==
    /\ a \in todo /\ (\A b \in todo : a <= b)
    /\ c \in Nat /\ s \in Slot /\ SlotFits(Code(a).unit, s)
    /\ row' = [row EXCEPT ![a] = c]
    /\ slot' = [slot EXCEPT ![a] = s]
    /\ todo' = todo \ {a}
    /\ \A d \in LocalDependencies(program, a) : Ready(d.producer) <= c
    /\ phase = "BB2" => \A d \in PostLoopDependencies(program, a) : Ready(d.producer) <= c + size
    /\ \A b \in AllPlaced : Block(program, b) = phase /\ row[b] = c => slot[b] # s

\* The instructions still to place are those of the block, without the loop instruction.
LEMMA TodoIs ==
    ASSUME ScheduleInv, Placing, NEW a \in todo
    PROVE  /\ Working /\ a \in DOMAIN program.code /\ Block(program, a) = phase
           /\ Code(a).unit \in {"ALU", "Mult", "Mem"} /\ a \notin AllPlaced
  <1>1. Working /\ Compilable(program) /\ a \in DOMAIN program.code
    BY StateIs DEF Working
  <1>2. CASE phase = "BB0"
    <2>1. todo \subseteq InBlock(program, "BB0") /\ AllPlaced = InBlock(program, "BB0") \ todo
      BY <1>2 DEF ScheduleInv, Progress
    <2>2. Block(program, a) = "BB0"
      BY <1>1, <2>1, AddressesAre
    <2>3. Code(a).unit # "Branch" /\ Code(a).unit \in {"ALU", "Mult", "Mem", "Branch"}
      BY <1>1, <2>2, AddressesAre
    <2> QED
      BY <1>1, <1>2, <2>1, <2>2, <2>3
  <1>3. CASE phase = "BB1"
    <2>1. /\ HasLoop(program) /\ todo \subseteq Body
          /\ AllPlaced = InBlock(program, "BB0") \cup (Body \ todo)
      BY <1>3 DEF ScheduleInv, Progress
    <2>2. Block(program, a) = "BB1" /\ a # Control /\ a \notin InBlock(program, "BB0")
      BY <1>1, <2>1, AddressesAre
    <2>3. Code(a).unit # "Branch" /\ Code(a).unit \in {"ALU", "Mult", "Mem", "Branch"}
      BY <1>1, <2>2, AddressesAre
    <2> QED
      BY <1>1, <1>3, <2>1, <2>2, <2>3
  <1>4. CASE phase = "BB2"
    <2>1. /\ HasLoop(program) /\ todo \subseteq InBlock(program, "BB2")
          /\ AllPlaced = (DOMAIN program.code) \ todo
      BY <1>4 DEF ScheduleInv, Progress
    <2>2. Block(program, a) = "BB2" /\ a # Control
      BY <1>1, <2>1, AddressesAre
    <2>3. Code(a).unit # "Branch" /\ Code(a).unit \in {"ALU", "Mult", "Mem", "Branch"}
      BY <1>1, <2>2, AddressesAre
    <2> QED
      BY <1>1, <1>4, <2>1, <2>2, <2>3
  <1> QED
    BY <1>2, <1>3, <1>4 DEF Placing

\* The place found is free and late enough.
LEMMA PlaceInstructionIs ==
    ASSUME ScheduleInv, PlaceInstruction
    PROVE  \E a, c, s : Putting(a, c, s)
  <1>1. Placing /\ todo # {} /\ Working
    BY DEF PlaceInstruction, Placing, Working
  <1> DEFINE a == Smallest(todo)
             e == EarliestCycle(a)
             cycles == SearchedCycles(a)
  <1>2. a \in todo /\ \A b \in todo : a <= b
    <2>1. todo \in SUBSET Nat
      BY <1>1, StateIs, AddressesAre
    <2> QED
      BY <1>1, <2>1, SmallestIs
  <1>3. PICK at \in Places(Code(a).unit, cycles, Occupied(cycles)) :
           row' = [row EXCEPT ![a] = at.cycle] /\ slot' = [slot EXCEPT ![a] = at.slot]
    BY DEF PlaceInstruction
  <1>4. todo' = todo \ {a}
    BY DEF PlaceInstruction
  <1> HIDE DEF a
  <1>5. Code(a).unit \in {"ALU", "Mult", "Mem"} /\ Block(program, a) = phase
    BY <1>1, <1>2, TodoIs
  <1>6. /\ e \in Nat
        /\ \A d \in LocalDependencies(program, a) : Ready(d.producer) <= e
        /\ phase = "BB2" => \A d \in PostLoopDependencies(program, a) :
                               Ready(d.producer) <= e + size
    BY <1>1, <1>2, EarliestCycleIs
  <1>7. cycles \in SUBSET Nat /\ \A c \in cycles : c \in Nat /\ e <= c
    <2> HIDE DEF e
    <2>1. cycles = e .. e + Cardinality(Placed(InBlock(program, phase)))
      BY DEF SearchedCycles, e
    <2> QED
      BY <1>6, <2>1
  <1> DEFINE c == at.cycle
             s == at.slot
  <1>8. /\ c \in cycles /\ s \in Slot /\ SlotFits(Code(a).unit, s)
        /\ <<c, s>> \notin Occupied(cycles)
    <2> HIDE DEF cycles
    <2>1. /\ at.cycle \in cycles
          /\ at.slot \in Slot \ {"Branch"}
          /\ IF Code(a).unit = "ALU" THEN at.slot \in {"ALU0", "ALU1"} ELSE at.slot = Code(a).unit
          /\ <<at.cycle, at.slot>> \notin Occupied(cycles)
      BY <1>3, <1>5, <1>7, PlacesIs
    <2> QED
      BY <2>1 DEF SlotFits
  <1>9. ASSUME NEW b \in AllPlaced, Block(program, b) = phase, row[b] = c
        PROVE  slot[b] # s
    <2>1. <<c, s>> \in cycles \X Slot
      BY <1>8
    <2>2. b \in InBlock(program, phase) /\ row[b] # None
      BY <1>1, <1>9, StateIs, AddressesAre
    <2>3. b \in Placed(InBlock(program, phase))
      BY <2>2 DEF Placed
    <2>4. \A x \in Placed(InBlock(program, phase)) : <<c, s>> # <<row[x], slot[x]>>
      <3> HIDE DEF c, s, cycles
      <3> QED
        BY <1>8, <2>1 DEF Occupied
    <2> QED
      BY <1>9, <2>3, <2>4
  <1>10. c \in Nat /\ e <= c
    BY <1>7, <1>8
  <1>11. /\ \A d \in LocalDependencies(program, a) : Ready(d.producer) <= c
         /\ phase = "BB2" => \A d \in PostLoopDependencies(program, a) :
                                Ready(d.producer) <= c + size
    <2>1. \A d \in LocalDependencies(program, a) \cup PostLoopDependencies(program, a) :
             Ready(d.producer) \in Int
      <3>1. \A d \in LocalDependencies(program, a) \cup PostLoopDependencies(program, a) :
               d.producer \in DOMAIN program.code
        BY <1>1, <1>2, StateIs, ProducersAre, AddressesAre
      <3> QED
        BY <1>1, <3>1, StateIs, ReadyIs
    <2>2. size \in Nat
      BY <1>1, StateIs
    <2> HIDE DEF c, e
    <2> QED
      BY <1>6, <1>10, <2>1, <2>2
  <1> HIDE DEF c, s, cycles, e
  <1>12. row' = [row EXCEPT ![a] = c] /\ slot' = [slot EXCEPT ![a] = s]
    BY <1>3 DEF c, s
  <1>13. Putting(a, c, s)
    BY <1>2, <1>4, <1>8, <1>9, <1>10, <1>11, <1>12 DEF Putting
  <1> QED
    BY <1>13

-----------------------------------------------------------------------------
(* The steps of the scheduler keep the invariant *)

\* The operands of the instruction that is placed next are placed.
LEMMA OperandsPlaced ==
    ASSUME ScheduleInv, Placing, NEW a \in todo, \A b \in todo : a <= b
    PROVE  /\ \A d \in LocalDependencies(program, a) : d.producer \in AllPlaced
           /\ \A d \in PostLoopDependencies(program, a) :
                 phase = "BB2" => d.producer \in AllPlaced
  <1>1. /\ Working /\ a \in DOMAIN program.code /\ Block(program, a) = phase
        /\ Compilable(program)
    BY TodoIs, StateIs
  <1>2. \A x \in DOMAIN program.code : x < a => x \notin todo
    <2>1. \A x \in DOMAIN program.code : x \in Nat
      BY <1>1, AddressesAre
    <2> QED
      BY <1>1, <2>1
  <1>3. ASSUME NEW d \in LocalDependencies(program, a) PROVE d.producer \in AllPlaced
    <2> DEFINE b == d.producer
    <2>1. /\ b \in DOMAIN program.code /\ b \notin todo /\ Block(program, b) = phase
          /\ Code(b).dst # {}
      BY <1>1, <1>2, ProducersAre
    <2> SUFFICES b \in AllPlaced
      OBVIOUS
    <2> HIDE DEF b
    <2>2. /\ b \in InBlock(program, phase)
          /\ HasLoop(program) /\ phase = "BB1" => b \in Body
      BY <1>1, <2>1, AddressesAre
    <2>3. Progress
      BY DEF ScheduleInv
    <2>4. CASE phase = "BB0"
      BY <2>1, <2>2, <2>3, <2>4 DEF Progress
    <2>5. CASE phase = "BB1"
      BY <2>1, <2>2, <2>3, <2>5 DEF Progress
    <2>6. CASE phase = "BB2"
      BY <2>1, <2>2, <2>3, <2>6 DEF Progress
    <2> QED
      BY <2>4, <2>5, <2>6 DEF Placing
  <1>4. ASSUME NEW d \in PostLoopDependencies(program, a), phase = "BB2"
        PROVE  d.producer \in AllPlaced
    <2>1. d.producer \in Body
      BY <1>1, ProducersAre
    <2>2. /\ HasLoop(program) /\ todo \subseteq InBlock(program, "BB2")
          /\ AllPlaced = (DOMAIN program.code) \ todo
      BY <1>4 DEF ScheduleInv, Progress
    <2> QED
      BY <1>1, <2>1, <2>2, AddressesAre
  <1> QED
    BY <1>3, <1>4

\* An instruction gets its cycle and its slot.
LEMMA PlaceInstructionInv ==
    ASSUME ScheduleInv, PlaceInstruction
    PROVE  ScheduleInv'
  <1>1. /\ Placing /\ Working /\ UNCHANGED <<source, program, phase, size, begin>>
    BY DEF PlaceInstruction, Placing, Working
  <1>2. PICK a, c, s : Putting(a, c, s)
    BY PlaceInstructionIs
  <1>3. /\ a \in todo /\ (\A b \in todo : a <= b)
        /\ c \in Nat /\ s \in Slot /\ SlotFits(Code(a).unit, s)
        /\ row' = [row EXCEPT ![a] = c]
        /\ slot' = [slot EXCEPT ![a] = s]
        /\ todo' = todo \ {a}
        /\ \A d \in LocalDependencies(program, a) : Ready(d.producer) <= c
        /\ phase = "BB2" => \A d \in PostLoopDependencies(program, a) :
                               Ready(d.producer) <= c + size
        /\ \A b \in AllPlaced : Block(program, b) = phase /\ row[b] = c => slot[b] # s
    BY <1>2 DEF Putting
  <1>4. /\ Compilable(program) /\ a \in DOMAIN program.code
        /\ Block(program, a) = phase /\ a \notin AllPlaced
        /\ Code(a).unit \in {"ALU", "Mult", "Mem"}
    BY <1>1, <1>3, TodoIs, StateIs
  <1>5. /\ DOMAIN row = DOMAIN program.code /\ DOMAIN slot = DOMAIN program.code
        /\ row \in [DOMAIN program.code -> Nat \cup {None}]
        /\ slot \in [DOMAIN program.code -> Slot]
        /\ todo \subseteq DOMAIN program.code /\ size \in Nat /\ begin \in Nat
        /\ \A x \in AllPlaced : x \in DOMAIN program.code /\ row[x] \in Nat
        /\ \A x : x \in AllPlaced <=> x \in DOMAIN program.code /\ row[x] # None
    BY <1>1, StateIs
  <1>6. /\ row'[a] = c /\ slot'[a] = s
        /\ DOMAIN row' = DOMAIN program.code
        /\ \A b \in DOMAIN program.code : b # a => row'[b] = row[b] /\ slot'[b] = slot[b]
    BY <1>3, <1>4, <1>5
  <1>7. AllPlaced' = AllPlaced \cup {a}
    <2>1. c # None
      BY <1>3 DEF None
    <2>2. \A x : x \in AllPlaced' <=> x \in DOMAIN program.code /\ row'[x] # None
      BY <1>6 DEF AllPlaced, Placed
    <2> QED
      BY <1>4, <1>5, <1>6, <2>1, <2>2
  <1>8. \A x \in AllPlaced : x # a /\ row'[x] = row[x] /\ slot'[x] = slot[x]
    BY <1>4, <1>5, <1>6
  <1>9. /\ Working' = Working /\ LoopPlaced' = LoopPlaced /\ Finished' = Finished /\ ~Finished
        /\ \A x : Code(x)' = Code(x)
        /\ Body' = Body /\ Control' = Control /\ EnteringLoop' = EnteringLoop
    <2>1. Finished' = Finished /\ Working' = Working /\ LoopPlaced' = LoopPlaced
      BY <1>1 DEF Finished, Working, LoopPlaced, Placing
    <2>2. ~Finished
      BY <1>1 DEF Finished, Placing
    <2> QED
      BY <1>1, <2>1, <2>2, ProgramKept
  <1>10. \A x \in AllPlaced : Ready(x)' = Ready(x)
    BY <1>8, <1>9 DEF Ready
  <1>11. ScheduleTypes'
    <2>1. row' \in [DOMAIN program.code -> Nat \cup {None}] /\ slot' \in [DOMAIN program.code -> Slot]
      BY <1>3, <1>5
    <2>2. ScheduleTypes
      BY DEF ScheduleInv
    <2>3. todo' \subseteq DOMAIN program.code
      BY <1>3, <1>5
    <2> QED
      BY <1>1, <1>9, <2>1, <2>2, <2>3 DEF ScheduleTypes
  <1>12. Progress'
    <2>1. Progress
      BY DEF ScheduleInv
    <2>2. CASE phase = "BB0"
      <3>1. todo \subseteq InBlock(program, "BB0") /\ AllPlaced = InBlock(program, "BB0") \ todo
        BY <2>1, <2>2 DEF Progress
      <3>2. /\ todo' \subseteq InBlock(program, "BB0")
            /\ AllPlaced' = InBlock(program, "BB0") \ todo'
        BY <1>3, <1>7, <3>1
      <3> QED
        BY <1>1, <1>4, <1>9, <2>1, <2>2, <3>2 DEF Progress
    <2>3. CASE phase = "BB1"
      <3>1. /\ HasLoop(program) /\ todo \subseteq Body
            /\ AllPlaced = InBlock(program, "BB0") \cup (Body \ todo)
            /\ size > 0 => InBlock(program, "BB0") # {}
        BY <2>1, <2>3 DEF Progress
      <3>2. /\ todo' \subseteq Body
            /\ AllPlaced' = InBlock(program, "BB0") \cup (Body \ todo')
        BY <1>3, <1>7, <3>1
      <3> QED
        BY <1>1, <1>4, <1>9, <2>1, <2>3, <3>1, <3>2 DEF Progress
    <2>4. CASE phase = "BB2"
      <3>1. /\ HasLoop(program) /\ todo \subseteq InBlock(program, "BB2")
            /\ AllPlaced = (DOMAIN program.code) \ todo
        BY <2>1, <2>4 DEF Progress
      <3>2. /\ todo' \subseteq InBlock(program, "BB2")
            /\ AllPlaced' = (DOMAIN program.code) \ todo'
        BY <1>3, <1>4, <1>7, <3>1
      <3> QED
        BY <1>1, <1>4, <1>9, <2>1, <2>4, <3>1, <3>2 DEF Progress
    <2> QED
      BY <1>1, <2>2, <2>3, <2>4 DEF Placing
  <1>13. SlotsApart'
    <2>1. /\ \A x \in AllPlaced : SlotFits(Code(x).unit, slot[x])
          /\ \A x, y \in AllPlaced :
                x # y /\ Block(program, x) = Block(program, y) /\ row[x] = row[y] =>
                   slot[x] # slot[y]
      BY <1>1 DEF ScheduleInv, SlotsApart
    <2>2. \A x \in AllPlaced' : SlotFits(Code(x).unit, slot'[x])
      BY <1>3, <1>6, <1>7, <1>8, <2>1
    <2>3. ASSUME NEW x \in AllPlaced', NEW y \in AllPlaced', x # y,
                 Block(program, x) = Block(program, y), row'[x] = row'[y]
          PROVE  slot'[x] # slot'[y]
      <3>1. CASE x = a
        BY <1>3, <1>4, <1>6, <1>7, <1>8, <2>3, <3>1
      <3>2. CASE y = a
        BY <1>3, <1>4, <1>6, <1>7, <1>8, <2>3, <3>2
      <3>3. CASE x # a /\ y # a
        BY <1>7, <1>8, <2>1, <2>3, <3>3
      <3> QED
        BY <3>1, <3>2, <3>3
    <2> QED
      BY <1>1, <1>9, <2>2, <2>3 DEF SlotsApart
  <1>14. Layout'
    <2>1. Layout
      BY DEF ScheduleInv
    <2>2. CASE phase = "BB0"
      BY <1>1, <1>9, <2>2 DEF Layout, LoopPlaced
    <2>3. CASE phase = "BB1"
      <3>1. \A x \in InBlock(program, "BB0") : x \in AllPlaced /\ row[x] < size
        BY <2>1, <2>3 DEF Layout, ScheduleInv, Progress
      <3>2. \A x \in InBlock(program, "BB0") : row'[x] < size
        BY <1>8, <3>1
      <3> QED
        BY <1>1, <1>9, <2>3, <3>2 DEF Layout, LoopPlaced
    <2>4. CASE phase = "BB2"
      <3>1. /\ HasLoop(program) /\ todo \subseteq InBlock(program, "BB2")
            /\ AllPlaced = (DOMAIN program.code) \ todo
        BY <2>4 DEF ScheduleInv, Progress
      <3>2. LoopPlaced
        BY <2>4, <3>1 DEF LoopPlaced
      <3>3. /\ Control \in AllPlaced
            /\ \A x \in InBlock(program, "BB0") : x \in AllPlaced
            /\ \A x \in Body : x \in AllPlaced
        BY <1>4, <3>1, AddressesAre
      <3>4. /\ row'[Control] = row[Control]
            /\ \A x \in InBlock(program, "BB0") : row'[x] = row[x]
            /\ \A x \in Body : row'[x] = row[x]
        BY <1>8, <3>3
      <3> QED
        BY <1>1, <1>9, <2>1, <2>4, <3>2, <3>4 DEF Layout
    <2> QED
      BY <1>1, <2>2, <2>3, <2>4 DEF Placing
  <1>15. OperandsTimed'
    <2>1. OperandsTimed
      BY DEF ScheduleInv
    <2>2. \A x \in AllPlaced' : \A d \in LocalDependencies(program, x) :
             d.producer \in AllPlaced' /\ Ready(d.producer)' <= row'[x]
      <3>1. ASSUME NEW x \in AllPlaced, NEW d \in LocalDependencies(program, x)
            PROVE  d.producer \in AllPlaced' /\ Ready(d.producer)' <= row'[x]
        <4>1. d.producer \in AllPlaced /\ Ready(d.producer) <= row[x]
          BY <1>1, <2>1, <3>1 DEF OperandsTimed
        <4> QED
          BY <1>7, <1>8, <1>10, <4>1
      <3>2. ASSUME NEW d \in LocalDependencies(program, a)
            PROVE  d.producer \in AllPlaced' /\ Ready(d.producer)' <= row'[a]
        <4>1. d.producer \in AllPlaced
          BY <1>1, <1>3, OperandsPlaced
        <4> QED
          BY <1>3, <1>6, <1>7, <1>10, <4>1
      <3> QED
        BY <1>7, <3>1, <3>2
    <2>3. ASSUME phase = "BB2", NEW x \in AllPlaced' \cap InBlock(program, "BB2"),
                 NEW d \in PostLoopDependencies(program, x)
          PROVE  Ready(d.producer)' <= row'[x] + size
      <3>1. CASE x = a
        <4>1. d.producer \in AllPlaced
          BY <1>1, <1>3, <2>3, <3>1, OperandsPlaced
        <4> QED
          BY <1>3, <1>6, <1>10, <2>3, <3>1, <4>1
      <3>2. CASE x # a
        <4>1. x \in AllPlaced /\ Ready(d.producer) <= row[x] + size
          BY <1>7, <2>1, <2>3, <3>2 DEF OperandsTimed
        <4>2. d.producer \in Body
          BY <1>4, <1>5, <4>1, ProducersAre
        <4>3. /\ HasLoop(program) /\ todo \subseteq InBlock(program, "BB2")
              /\ AllPlaced = (DOMAIN program.code) \ todo
          BY <2>3 DEF ScheduleInv, Progress
        <4>4. d.producer \in AllPlaced
          BY <1>4, <4>2, <4>3, AddressesAre
        <4> QED
          BY <1>8, <1>10, <4>1, <4>4
      <3> QED
        BY <3>1, <3>2
    <2>4. ASSUME LoopPlaced, NEW b \in EnteringLoop
          PROVE  Ready(b)' <= begin
      <3>1. Ready(b) <= begin /\ b \in InBlock(program, "BB0")
        BY <1>4, <2>1, <2>4, EnteringAre DEF OperandsTimed
      <3>2. phase = "BB2"
        BY <1>9, <2>4 DEF LoopPlaced
      <3>3. /\ HasLoop(program) /\ todo \subseteq InBlock(program, "BB2")
            /\ AllPlaced = (DOMAIN program.code) \ todo
        BY <3>2 DEF ScheduleInv, Progress
      <3>4. b \in AllPlaced
        BY <1>4, <3>1, <3>3, AddressesAre
      <3> QED
        BY <1>10, <3>1, <3>4
    <2> QED
      BY <1>1, <1>9, <2>2, <2>3, <2>4 DEF OperandsTimed
  <1> QED
    BY <1>11, <1>12, <1>13, <1>14, <1>15 DEF ScheduleInv

\* What has stopped promises no more of its schedule than its types.
LEMMA FailedInv ==
    ASSUME ScheduleInv, phase' = "failed",
           UNCHANGED <<source, program, todo, row, slot, size, begin>>
    PROVE  ScheduleInv'
  <1>1. ~Working' /\ ~LoopPlaced' /\ ~Finished' /\ ~Placing'
    BY DEF Working, LoopPlaced, Finished, Placing
  <1>2. ScheduleTypes'
    BY <1>1 DEF ScheduleInv, ScheduleTypes
  <1>3. Progress' /\ SlotsApart' /\ Layout' /\ OperandsTimed'
    BY <1>1 DEF Progress, SlotsApart, Layout, OperandsTimed
  <1> QED
    BY <1>2, <1>3 DEF ScheduleInv

\* What the parser accepts can be scheduled; nothing is placed yet.
LEMMA ParseInv ==
    ASSUME ScheduleInv, Parse
    PROVE  ScheduleInv'
  <1>1. /\ Accepted(source) /\ program' = Parsed(source.code, source.target)
        /\ phase' = "BB0" /\ todo' = InBlock(program', "BB0")
        /\ row' = [a \in DOMAIN program'.code |-> None]
        /\ slot' = [a \in DOMAIN program'.code |-> "ALU0"]
        /\ UNCHANGED <<source, size, begin>>
    BY DEF Parse
  <1>2. /\ source \in Sources /\ size \in Nat /\ begin \in Nat
        /\ source.code \in Seq(Instruction \cup {Nop}) /\ source.target \in Int
    BY SourceAssumption DEF ScheduleInv, ScheduleTypes
  <1>3. program' \in Program
    BY <1>1, <1>2, ParsedProgram
  <1>4. Compilable(program')
    <2>1. CASE LoopAccepted(source)
      BY <1>1, <1>2, <1>3, <2>1, ParsedIs DEF Compilable
    <2>2. CASE ~HasLoop(source)
      <3> SUFFICES ASSUME HasLoop(program') PROVE FALSE
        BY <1>3 DEF Compilable
      <3>1. PICK a \in DOMAIN program'.code : program'.code[a].unit = "Branch"
        BY DEF HasLoop, LoopAddresses
      <3>2. \A i \in DOMAIN source.code : source.code[i].unit # "Branch"
        BY <2>2 DEF HasLoop, LoopAddresses
      <3>3. program'.code = Kept(source.code)
        BY <1>1 DEF Parsed
      <3>4. \E i \in DOMAIN source.code : program'.code[a] = source.code[i]
        BY <1>2, <3>1, <3>3, KeptIs
      <3> QED
        BY <3>1, <3>2, <3>4
    <2> QED
      BY <1>1, <2>1, <2>2 DEF Accepted
  <1>5. InBlock(program', "BB0") \subseteq DOMAIN program'.code
    BY DEF InBlock
  <1>6. Working' /\ ~Finished' /\ ~LoopPlaced'
    BY <1>1 DEF Working, Placing, Finished, LoopPlaced
  <1>7. AllPlaced' = {}
    BY <1>1 DEF AllPlaced, Placed
  <1>8. ScheduleTypes'
    <2>1. /\ row' \in [DOMAIN program'.code -> Nat \cup {None}]
          /\ slot' \in [DOMAIN program'.code -> Slot]
      BY <1>1 DEF Slot
    <2> QED
      BY <1>1, <1>2, <1>3, <1>5, <1>6, <2>1 DEF ScheduleTypes
  <1>9. Progress'
    BY <1>1, <1>4, <1>6, <1>7 DEF Progress
  <1>10. SlotsApart'
    BY <1>7 DEF SlotsApart
  <1>11. Layout'
    BY <1>1, <1>6 DEF Layout
  <1>12. OperandsTimed'
    BY <1>1, <1>6, <1>7 DEF OperandsTimed
  <1> QED
    BY <1>8, <1>9, <1>10, <1>11, <1>12 DEF ScheduleInv

\* The size of a schedule is behind all that is in it.
LEMMA SizeIs ==
    ASSUME NEW A, IsFiniteSet(A), \A a \in A : row[a] \in Nat
    PROVE  /\ SizeOf(A) \in Nat /\ \A a \in A : row[a] < SizeOf(A)
           /\ A = {} => SizeOf(A) = 0
  <1> DEFINE f == [a \in A |-> row[a] + 1]
             F == {f[a] : a \in A}
  <1>1. F \in SUBSET Int /\ \A a \in A : row[a] + 1 \in F
    OBVIOUS
  <1>2. IsFiniteSet(F)
    <2> HIDE DEF f
    <2> QED
      BY FiniteImage
  <1>3. SizeOf(A) = Greatest(F, 0)
    BY DEF SizeOf
  <1>4. A = {} => F = {}
    OBVIOUS
  <1> HIDE DEF F
  <1>5. /\ Greatest(F, 0) \in F \cup {0} /\ Greatest(F, 0) \in Int /\ 0 <= Greatest(F, 0)
        /\ \A y \in F : y <= Greatest(F, 0)
    BY <1>1, <1>2, GreatestIs
  <1>6. \A a \in A : row[a] + 1 <= Greatest(F, 0)
    BY <1>1, <1>5
  <1>7. \A a \in A : row[a] < Greatest(F, 0)
    BY <1>5, <1>6
  <1> QED
    BY <1>3, <1>4, <1>5, <1>7

\* The body follows BB0.
LEMMA FinishBB0Inv ==
    ASSUME ScheduleInv, FinishBB0
    PROVE  ScheduleInv'
  <1>1. /\ phase = "BB0" /\ todo = {} /\ phase' = "BB1" /\ todo' = Body /\ HasLoop(program)
        /\ size' = SizeOf(InBlock(program, "BB0")) /\ Working
        /\ UNCHANGED <<source, program, row, slot, begin>>
    BY DEF FinishBB0, Working, Placing
  <1>2. /\ Compilable(program) /\ \A a \in AllPlaced : row[a] \in Nat
        /\ AllPlaced' = AllPlaced
    BY <1>1, StateIs DEF AllPlaced, Placed
  <1>3. AllPlaced = InBlock(program, "BB0")
    BY <1>1 DEF ScheduleInv, Progress
  <1>4. /\ size' \in Nat /\ \A a \in InBlock(program, "BB0") : row[a] < size'
        /\ InBlock(program, "BB0") = {} => size' = 0
    <2>1. IsFiniteSet(InBlock(program, "BB0"))
      <3>1. InBlock(program, "BB0") \in SUBSET (DOMAIN program.code)
        BY DEF InBlock
      <3> QED
        BY <1>2, <3>1, AddressesAre, FS_Subset
    <2> QED
      BY <1>1, <1>2, <1>3, <2>1, SizeIs
  <1>5. /\ Working' /\ ~Finished' /\ ~LoopPlaced' /\ Body' = Body
        /\ \A x : Code(x)' = Code(x)
    BY <1>1, ProgramKept DEF Working, Placing, Finished, LoopPlaced
  <1>6. ScheduleTypes'
    <2>1. Body \subseteq DOMAIN program.code
      BY DEF Body, InBlock
    <2> QED
      BY <1>1, <1>4, <1>5, <2>1 DEF ScheduleInv, ScheduleTypes
  <1>7. Progress'
    BY <1>1, <1>2, <1>3, <1>4, <1>5 DEF Progress
  <1>8. SlotsApart'
    BY <1>1, <1>2, <1>5 DEF ScheduleInv, SlotsApart
  <1>9. Layout'
    BY <1>1, <1>4, <1>5 DEF Layout
  <1>10. OperandsTimed'
    <2>1. \A x : Ready(x)' = Ready(x)
      BY <1>1, <1>5 DEF Ready
    <2> QED
      BY <1>1, <1>2, <1>5, <2>1 DEF ScheduleInv, OperandsTimed
  <1> QED
    BY <1>6, <1>7, <1>8, <1>9, <1>10 DEF ScheduleInv

\* A program without a loop is scheduled when its only block is.
LEMMA FinishStraightLineInv ==
    ASSUME ScheduleInv, FinishStraightLine
    PROVE  ScheduleInv'
  <1>1. /\ phase = "BB0" /\ todo = {} /\ phase' = "scheduled" /\ ~HasLoop(program)
        /\ size' = SizeOf(InBlock(program, "BB0")) /\ Working
        /\ UNCHANGED <<source, program, todo, row, slot, begin>>
    BY DEF FinishStraightLine, Working, Placing
  <1>2. /\ Compilable(program) /\ \A a \in AllPlaced : row[a] \in Nat
        /\ AllPlaced' = AllPlaced
    BY <1>1, StateIs DEF AllPlaced, Placed
  <1>3. AllPlaced = InBlock(program, "BB0") /\ InBlock(program, "BB0") = DOMAIN program.code
        /\ InBlock(program, "BB2") = {}
    BY <1>1, StraightIs DEF ScheduleInv, Progress
  <1>4. size' \in Nat /\ \A a \in DOMAIN program.code : row[a] < size'
    <2>1. IsFiniteSet(DOMAIN program.code)
      BY <1>2, AddressesAre
    <2> QED
      BY <1>1, <1>2, <1>3, <2>1, SizeIs
  <1>5. /\ Working' /\ Finished' /\ ~LoopPlaced'
        /\ \A x : Code(x)' = Code(x)
    BY <1>1, ProgramKept DEF Working, Placing, Finished, LoopPlaced
  <1>6. ScheduleTypes'
    BY <1>1, <1>4, <1>5 DEF ScheduleInv, ScheduleTypes
  <1>7. Progress'
    BY <1>1, <1>2, <1>3, <1>5 DEF Progress
  <1>8. SlotsApart'
    BY <1>1, <1>2, <1>5 DEF ScheduleInv, SlotsApart
  <1>9. Layout'
    BY <1>1, <1>4, <1>5 DEF Layout
  <1>10. OperandsTimed'
    <2>1. \A x : Ready(x)' = Ready(x)
      BY <1>1, <1>5 DEF Ready
    <2> QED
      BY <1>1, <1>2, <1>3, <1>5, <2>1 DEF ScheduleInv, OperandsTimed
  <1> QED
    BY <1>6, <1>7, <1>8, <1>9, <1>10 DEF ScheduleInv

\* The iterations are far enough apart for the body and for its units.
LEMMA IntervalIs ==
    ASSUME ScheduleInv, phase = "BB1", todo = {}
    PROVE  /\ Interval \in Nat /\ 1 <= Interval
           /\ \A a \in Body : row[a] \in Nat /\ row[a] < Interval
  <1>1. Working
    BY DEF Working, Placing
  <1>2. /\ Compilable(program) /\ \A a \in AllPlaced : row[a] \in Nat
        /\ \A a \in DOMAIN program.code : row[a] \in Int
    BY <1>1, StateIs
  <1>3. HasLoop(program) /\ Splittable(program) /\ \A a \in Body : row[a] \in Nat
    BY <1>2 DEF ScheduleInv, Progress, Compilable
  <1>4. IsFiniteSet(Body) /\ Body \subseteq DOMAIN program.code
    <2>1. Body \in SUBSET (DOMAIN program.code)
      BY DEF Body, InBlock
    <2> QED
      BY <1>2, <2>1, AddressesAre, FS_Subset
  <1>5. /\ SizeOf(Body) \in Nat /\ \A a \in Body : row[a] < SizeOf(Body)
    BY <1>3, <1>4, SizeIs
  <1>6. ResourceInterval(program) \in Nat /\ ResourceInterval(program) >= 1
    BY <1>3, ResourceIntervalIs
  <1> DEFINE W(a) == {Ready(d.previous) - row[a] : d \in InterloopDependencies(program, a)}
             V == {W(a) : a \in Body}
             carry == Greatest(UNION V, 0)
  <1>7. ASSUME NEW a \in Body PROVE W(a) \in SUBSET Int /\ IsFiniteSet(W(a))
    <2> DEFINE D == InterloopDependencies(program, a)
               g == [d \in D |-> Ready(d.previous) - row[a]]
    <2>1. IsFiniteSet(D)
      BY <1>2, <1>4, FiniteDependencies DEF Compilable
    <2>2. \A d \in D : d.previous \in Body
      BY <1>2, <1>4, ProducersAre
    <2>3. \A d \in D : Ready(d.previous) \in Int
      BY <1>3, <2>2, ReadyIs
    <2>4. W(a) = {g[d] : d \in D}
      OBVIOUS
    <2>5. W(a) \in SUBSET Int
      BY <1>3, <2>3
    <2> HIDE DEF D, g
    <2> QED
      BY <2>1, <2>4, <2>5, FiniteImage
  <1>8. UNION V \in SUBSET Int
    BY <1>7
  <1>9. IsFiniteSet(UNION V)
    <2> DEFINE h == [a \in Body |-> W(a)]
    <2>1. V = {h[a] : a \in Body} /\ \A S \in V : IsFiniteSet(S)
      BY <1>7
    <2> HIDE DEF h, V
    <2>2. IsFiniteSet(V)
      BY <1>4, <2>1, FiniteImage
    <2> QED
      BY <2>1, <2>2, FS_UNION
  <1>10. carry \in Int
    <2>1. 0 \in Int
      OBVIOUS
    <2> HIDE DEF V
    <2> QED
      BY <1>8, <1>9, <2>1, GreatestIs
  <1>11. Interval = Greatest({SizeOf(Body), ResourceInterval(program)}, carry)
    BY DEF Interval
  <1>12. /\ Interval \in Int /\ SizeOf(Body) <= Interval /\ ResourceInterval(program) <= Interval
    <2> DEFINE x == SizeOf(Body)
               y == ResourceInterval(program)
    <2>1. IsFiniteSet({x, y})
      <3>1. IsFiniteSet({x})
        BY FS_Singleton
      <3>2. {x, y} = {x} \cup {y}
        OBVIOUS
      <3> QED
        BY <3>1, <3>2, FS_AddElement
    <2>2. {x, y} \in SUBSET Int
      BY <1>5, <1>6
    <2> HIDE DEF x, y, carry
    <2>3. /\ Greatest({x, y}, carry) \in Int
          /\ \A z \in {x, y} : z <= Greatest({x, y}, carry)
      BY <1>10, <2>1, <2>2, GreatestIs
    <2> QED
      BY <1>11, <2>3 DEF x, y
  <1> HIDE DEF carry
  <1> QED
    BY <1>3, <1>5, <1>6, <1>12

\* The empty cycles before the loop wait for what it reads of BB0.
LEMMA PaddingIs ==
    ASSUME ScheduleInv, phase = "BB1"
    PROVE  Padding \in Nat /\ \A b \in EnteringLoop : Ready(b) <= size + Padding
  <1>1. Working
    BY DEF Working, Placing
  <1>2. /\ Compilable(program) /\ size \in Nat
        /\ \A a \in DOMAIN program.code : row[a] \in Int
    BY <1>1, StateIs
  <1>3. EnteringLoop \in SUBSET (DOMAIN program.code)
    BY <1>2, EnteringAre
  <1>4. IsFiniteSet(EnteringLoop)
    BY <1>2, <1>3, AddressesAre, FS_Subset
  <1> DEFINE f == [b \in EnteringLoop |-> Ready(b) - size]
             F == {f[b] : b \in EnteringLoop}
  <1>5. \A b \in EnteringLoop : Ready(b) \in Int
    BY <1>2, <1>3, ReadyIs
  <1>6. F \in SUBSET Int /\ \A b \in EnteringLoop : Ready(b) - size \in F
    BY <1>2, <1>5
  <1>7. IsFiniteSet(F)
    <2> HIDE DEF f
    <2> QED
      BY <1>4, FiniteImage
  <1>8. Padding = Greatest(F, 0)
    BY DEF Padding
  <1> HIDE DEF F
  <1>9. /\ Greatest(F, 0) \in Int /\ 0 <= Greatest(F, 0)
        /\ \A y \in F : y <= Greatest(F, 0)
    <2>1. 0 \in Int
      OBVIOUS
    <2> QED
      BY <1>6, <1>7, <2>1, GreatestIs
  <1>10. Padding \in Nat
    BY <1>8, <1>9
  <1>11. ASSUME NEW b \in EnteringLoop PROVE Ready(b) <= size + Padding
    <2>1. Ready(b) - size <= Padding /\ Ready(b) \in Int
      BY <1>5, <1>6, <1>8, <1>9
    <2> QED
      BY <1>2, <1>10, <2>1
  <1> QED
    BY <1>10, <1>11

\* BB1 is put behind BB0 and the empty cycles, stretched to the interval.
LEMMA FinishBB1Inv ==
    ASSUME ScheduleInv, FinishBB1
    PROVE  ScheduleInv'
  <1> DEFINE offset == size + Padding
  <1>1. /\ phase = "BB1" /\ todo = {} /\ size > 0 /\ phase' = "BB2"
        /\ begin' = offset
        /\ row' = [a \in DOMAIN row |-> IF a \in Body THEN offset + row[a]
                                        ELSE IF a = Control THEN offset + Interval - 1
                                        ELSE row[a]]
        /\ slot' = [slot EXCEPT ![Control] = "Branch"]
        /\ size' = offset + Interval
        /\ todo' = InBlock(program, "BB2")
        /\ UNCHANGED <<source, program>> /\ Working
    BY DEF FinishBB1, LoopTarget, Working, Placing
  <1>2. /\ Compilable(program) /\ size \in Nat
        /\ DOMAIN row = DOMAIN program.code /\ DOMAIN slot = DOMAIN program.code
        /\ row \in [DOMAIN program.code -> Nat \cup {None}]
        /\ slot \in [DOMAIN program.code -> Slot]
        /\ \A a : a \in AllPlaced <=> a \in DOMAIN program.code /\ row[a] # None
    BY <1>1, StateIs
  <1>3. /\ HasLoop(program) /\ AllPlaced = InBlock(program, "BB0") \cup Body
        /\ InBlock(program, "BB0") # {}
    BY <1>1 DEF ScheduleInv, Progress
  <1>4. /\ Interval \in Nat /\ 1 <= Interval
        /\ \A a \in Body : row[a] \in Nat /\ row[a] < Interval
    BY <1>1, IntervalIs
  <1>5. Padding \in Nat /\ \A b \in EnteringLoop : Ready(b) <= offset
    BY <1>1, PaddingIs
  <1>6. offset \in Nat /\ size <= offset
    BY <1>2, <1>5
  <1>7. \A a \in InBlock(program, "BB0") : row[a] \in Nat /\ row[a] < offset
    <2>1. \A a \in InBlock(program, "BB0") : row[a] \in Nat /\ row[a] < size
      BY <1>1, <1>2, <1>3, StateIs DEF ScheduleInv, Layout
    <2> HIDE DEF offset
    <2> QED
      BY <1>2, <1>6, <2>1
  <1> HIDE DEF offset
  <1>8. /\ Control \in DOMAIN program.code /\ Control \notin Body
        /\ Block(program, Control) = "BB1" /\ Code(Control).unit = "Branch"
        /\ Reads(program.code[Control]) = {}
        /\ \A a \in Body : a \in DOMAIN program.code /\ Block(program, a) = "BB1"
                             /\ Code(a).unit # "Branch"
        /\ \A a \in InBlock(program, "BB0") : a \in DOMAIN program.code
                             /\ Block(program, a) = "BB0" /\ a # Control /\ a \notin Body
    <2>1. /\ Control \in DOMAIN program.code /\ Block(program, Control) = "BB1"
          /\ Code(Control) = Loop /\ Code(Control).unit = "Branch"
          /\ \A a \in Body : a \in DOMAIN program.code /\ a # Control
                               /\ Block(program, a) = "BB1" /\ Code(a).unit # "Branch"
          /\ \A a, b : a \in InBlock(program, b) <=>
                           a \in DOMAIN program.code /\ Block(program, a) = b
      BY <1>2, <1>3, AddressesAre
    <2>2. Reads(program.code[Control]) = {}
      BY <2>1 DEF Reads, Code, Loop
    <2> QED
      BY <2>1, <2>2
  <1>9. /\ DOMAIN row' = DOMAIN program.code
        /\ \A a \in InBlock(program, "BB0") : row'[a] = row[a] /\ slot'[a] = slot[a]
        /\ \A a \in Body : row'[a] = offset + row[a] /\ slot'[a] = slot[a]
        /\ row'[Control] = (offset + Interval) - 1 /\ slot'[Control] = "Branch"
        /\ \A a \in DOMAIN program.code : a \notin Body /\ a # Control => row'[a] = row[a]
    BY <1>1, <1>2, <1>4, <1>6, <1>8
  <1>10. row'[Control] \in Nat /\ offset <= row'[Control] /\ size' = row'[Control] + 1
    BY <1>1, <1>4, <1>6, <1>9
  <1>11. \A a \in Body : row'[a] \in Nat /\ offset <= row'[a] /\ row'[a] <= row'[Control]
    BY <1>4, <1>6, <1>9
  <1>12. AllPlaced' = AllPlaced \cup {Control}
    <2>1. \A a : a \in AllPlaced' <=> a \in DOMAIN program.code /\ row'[a] # None
      BY <1>9 DEF AllPlaced, Placed
    <2>2. \A a \in Body \cup {Control} : row'[a] # None
      BY <1>10, <1>11 DEF None
    <2> QED
      BY <1>2, <1>3, <1>8, <1>9, <2>1, <2>2
  <1>13. /\ Working' /\ ~Finished' /\ LoopPlaced'
         /\ \A x : Code(x)' = Code(x)
         /\ Body' = Body /\ Control' = Control /\ EnteringLoop' = EnteringLoop
    BY <1>1, <1>3, ProgramKept DEF Working, Placing, Finished, LoopPlaced
  <1>14. ScheduleTypes'
    <2>1. row' \in [DOMAIN program.code -> Nat \cup {None}]
      <3>1. \A a \in DOMAIN program.code : row'[a] \in Nat \cup {None}
        BY <1>2, <1>9, <1>10, <1>11
      <3>2. row' = [a \in DOMAIN program.code |-> row'[a]]
        BY <1>1, <1>2
      <3> QED
        BY <3>1, <3>2
    <2>2. slot' \in [DOMAIN program.code -> Slot]
      BY <1>1, <1>2 DEF Slot
    <2>3. ScheduleTypes /\ InBlock(program, "BB2") \subseteq DOMAIN program.code
      BY DEF ScheduleInv, InBlock
    <2>4. size' \in Nat
      BY <1>1, <1>4, <1>6
    <2> QED
      BY <1>1, <1>6, <1>13, <2>1, <2>2, <2>3, <2>4 DEF ScheduleTypes
  <1>15. Progress'
    <2>1. AllPlaced' = (DOMAIN program.code) \ InBlock(program, "BB2")
      BY <1>2, <1>3, <1>8, <1>12, AddressesAre
    <2> QED
      BY <1>1, <1>2, <1>3, <1>13, <2>1 DEF Progress
  <1>16. SlotsApart'
    <2>1. /\ \A x \in AllPlaced : SlotFits(Code(x).unit, slot[x])
          /\ \A x, y \in AllPlaced :
                x # y /\ Block(program, x) = Block(program, y) /\ row[x] = row[y] =>
                   slot[x] # slot[y]
      BY <1>1 DEF ScheduleInv, SlotsApart
    <2>2. \A x \in AllPlaced' : SlotFits(Code(x).unit, slot'[x])
      <3>1. SlotFits("Branch", "Branch")
        BY DEF SlotFits
      <3> QED
        BY <1>3, <1>8, <1>9, <1>12, <2>1, <3>1
    <2>3. ASSUME NEW x \in AllPlaced', NEW y \in AllPlaced', x # y,
                 Block(program, x) = Block(program, y), row'[x] = row'[y]
          PROVE  slot'[x] # slot'[y]
      <3>1. \A z \in Body : slot'[z] # "Branch"
        BY <1>3, <1>8, <1>9, <2>1 DEF SlotFits
      <3>2. CASE x = Control
        BY <1>3, <1>8, <1>9, <1>12, <2>3, <3>1, <3>2
      <3>3. CASE y = Control
        BY <1>3, <1>8, <1>9, <1>12, <2>3, <3>1, <3>3
      <3>4. CASE x # Control /\ y # Control
        <4>1. x \in AllPlaced /\ y \in AllPlaced
          BY <1>12, <3>4
        <4>2. row[x] = row[y]
          <5>1. CASE x \in Body
            <6>1. y \in Body
              BY <1>3, <1>8, <2>3, <4>1, <5>1
            <6>2. offset + row[x] = offset + row[y] /\ row[x] \in Nat /\ row[y] \in Nat
              BY <1>4, <1>9, <2>3, <5>1, <6>1
            <6>3. \A i, j \in Nat : offset + i = offset + j => i = j
              BY <1>6
            <6> QED
              BY <6>2, <6>3
          <5>2. CASE x \notin Body
            <6>1. x \in InBlock(program, "BB0") /\ y \in InBlock(program, "BB0")
              BY <1>3, <1>8, <2>3, <4>1, <5>2
            <6> QED
              BY <1>9, <2>3, <6>1
          <5> QED
            BY <5>1, <5>2
        <4>3. slot'[x] = slot[x] /\ slot'[y] = slot[y]
          BY <1>3, <1>9, <4>1
        <4> QED
          BY <2>1, <2>3, <4>1, <4>2, <4>3
      <3> QED
        BY <3>2, <3>3, <3>4
    <2> QED
      BY <1>1, <1>13, <2>2, <2>3 DEF SlotsApart
  <1>17. Layout'
    BY <1>1, <1>7, <1>9, <1>10, <1>11, <1>13 DEF Layout
  <1>18. OperandsTimed'
    <2>1. \A x \in InBlock(program, "BB0") : Ready(x)' = Ready(x)
      BY <1>9, <1>13 DEF Ready
    <2>2. ASSUME NEW x \in AllPlaced', NEW d \in LocalDependencies(program, x)
          PROVE  d.producer \in AllPlaced' /\ Ready(d.producer)' <= row'[x]
      <3>1. x # Control
        <4>1. \A y \in DOMAIN program.code : Reads(program.code[y]) = {} =>
                 LocalDependencies(program, y) = {}
          BY DEF LocalDependencies
        <4> QED
          BY <1>8, <2>2, <4>1
      <3>2. x \in AllPlaced /\ x \in DOMAIN program.code
        BY <1>2, <1>12, <3>1
      <3>3. d.producer \in AllPlaced /\ Ready(d.producer) <= row[x]
        BY <1>1, <2>2, <3>2 DEF ScheduleInv, OperandsTimed
      <3>4. Block(program, d.producer) = Block(program, x)
        BY <1>2, <2>2, <3>2, ProducersAre
      <3>5. CASE x \in Body
        <4>1. d.producer \in Body
          BY <1>3, <1>8, <3>3, <3>4, <3>5
        <4>2. row'[d.producer] = offset + row[d.producer] /\ row[d.producer] \in Nat
              /\ row'[x] = offset + row[x] /\ row[x] \in Nat
          BY <1>4, <1>9, <3>5, <4>1
        <4>3. Latency(Code(d.producer)) \in Nat
          BY DEF Latency
        <4>4. row[d.producer] + Latency(Code(d.producer)) <= row[x]
          BY <3>3 DEF Ready
        <4>5. Ready(d.producer)' = row'[d.producer] + Latency(Code(d.producer))
          BY <1>13 DEF Ready
        <4> HIDE DEF offset
        <4>6. (offset + row[d.producer]) + Latency(Code(d.producer)) <= offset + row[x]
          BY <1>6, <4>2, <4>3, <4>4
        <4> QED
          BY <1>12, <3>3, <4>2, <4>5, <4>6
      <3>6. CASE x \in InBlock(program, "BB0")
        <4>1. d.producer \in InBlock(program, "BB0")
          BY <1>3, <1>8, <3>3, <3>4, <3>6
        <4> QED
          BY <1>9, <1>12, <2>1, <3>3, <3>6, <4>1
      <3> QED
        BY <1>3, <3>2, <3>5, <3>6
    <2>3. AllPlaced' \cap InBlock(program, "BB2") = {}
      BY <1>2, <1>3, <1>8, <1>12, AddressesAre
    <2>4. \A b \in EnteringLoop : Ready(b)' <= offset
      BY <1>2, <1>5, <2>1, EnteringAre DEF offset
    <2> QED
      BY <1>1, <1>13, <2>2, <2>3, <2>4 DEF OperandsTimed
  <1> QED
    BY <1>14, <1>15, <1>16, <1>17, <1>18 DEF ScheduleInv

\* Without anything before the loop there is no schedule.
LEMMA NothingBeforeLoopInv ==
    ASSUME ScheduleInv, NothingBeforeLoop
    PROVE  ScheduleInv'
  BY FailedInv DEF NothingBeforeLoop

\* BB2 is put behind the loop.
LEMMA FinishBB2Inv ==
    ASSUME ScheduleInv, FinishBB2
    PROVE  ScheduleInv'
  <1>1. /\ phase = "BB2" /\ todo = {} /\ phase' = "scheduled"
        /\ row' = [a \in DOMAIN row |-> IF Block(program, a) = "BB2" THEN row[a] + size
                                        ELSE row[a]]
        /\ size' = size + SizeOf(InBlock(program, "BB2"))
        /\ UNCHANGED <<source, program, todo, slot, begin>> /\ Working
    BY DEF FinishBB2, Working, Placing
  <1>2. /\ Compilable(program) /\ size \in Nat /\ begin \in Nat
        /\ DOMAIN row = DOMAIN program.code
        /\ row \in [DOMAIN program.code -> Nat \cup {None}]
        /\ \A a \in AllPlaced : a \in DOMAIN program.code /\ row[a] \in Nat
    BY <1>1, StateIs
  <1>3. HasLoop(program) /\ AllPlaced = DOMAIN program.code /\ InBlock(program, "BB0") # {}
    <2>1. HasLoop(program) /\ AllPlaced = (DOMAIN program.code) \ todo
      BY <1>1 DEF ScheduleInv, Progress
    <2> QED
      BY <1>1, <2>1 DEF ScheduleInv, Progress, LoopPlaced
  <1>4. \A a \in DOMAIN program.code : row[a] \in Nat
    BY <1>2, <1>3
  <1> DEFINE last == SizeOf(InBlock(program, "BB2"))
  <1>5. last \in Nat /\ \A a \in InBlock(program, "BB2") : row[a] < last
    <2>1. InBlock(program, "BB2") \in SUBSET (DOMAIN program.code)
      BY DEF InBlock
    <2>2. IsFiniteSet(InBlock(program, "BB2"))
      BY <1>2, <2>1, AddressesAre, FS_Subset
    <2> QED
      BY <1>4, <2>1, <2>2, SizeIs
  <1> HIDE DEF last
  <1>6. /\ Control \in DOMAIN program.code /\ Block(program, Control) = "BB1"
        /\ \A a \in Body : a \in DOMAIN program.code /\ Block(program, a) = "BB1"
        /\ \A a, b : a \in InBlock(program, b) <=>
                        a \in DOMAIN program.code /\ Block(program, a) = b
    BY <1>2, <1>3, AddressesAre
  <1>7. /\ DOMAIN row' = DOMAIN program.code
        /\ \A a \in DOMAIN program.code : Block(program, a) # "BB2" => row'[a] = row[a]
        /\ \A a \in InBlock(program, "BB2") : row'[a] = row[a] + size
        /\ \A a \in DOMAIN program.code : row'[a] \in Nat
    BY <1>1, <1>2, <1>4, <1>6
  <1>8. AllPlaced' = DOMAIN program.code
    <2>1. \A a \in DOMAIN program.code : row'[a] # None
      BY <1>7 DEF None
    <2> QED
      BY <1>7, <2>1 DEF AllPlaced, Placed
  <1>9. /\ Working' /\ Finished' /\ LoopPlaced' /\ LoopPlaced /\ ~Placing' /\ ~Finished
        /\ \A x : Code(x)' = Code(x)
        /\ Body' = Body /\ Control' = Control /\ EnteringLoop' = EnteringLoop
    BY <1>1, <1>3, ProgramKept DEF Working, Placing, Finished, LoopPlaced
  <1>10. /\ size = row[Control] + 1 /\ begin <= row[Control]
         /\ \A a \in InBlock(program, "BB0") : row[a] < begin
         /\ \A a \in Body : begin <= row[a] /\ row[a] <= row[Control]
    BY <1>1, <1>9 DEF ScheduleInv, Layout
  <1>11. ScheduleTypes'
    <2>1. row' \in [DOMAIN program.code -> Nat \cup {None}]
      <3>1. row' = [a \in DOMAIN program.code |-> row'[a]]
        BY <1>1, <1>2
      <3> QED
        BY <1>7, <3>1
    <2>2. size' \in Nat /\ ScheduleTypes
      BY <1>1, <1>2, <1>5 DEF last, ScheduleInv
    <2> QED
      BY <1>1, <1>9, <2>1, <2>2 DEF ScheduleTypes
  <1>12. Progress'
    BY <1>1, <1>2, <1>3, <1>8, <1>9 DEF Progress
  <1>13. SlotsApart'
    <2>1. /\ \A x \in AllPlaced : SlotFits(Code(x).unit, slot[x])
          /\ \A x, y \in AllPlaced :
                x # y /\ Block(program, x) = Block(program, y) /\ row[x] = row[y] =>
                   slot[x] # slot[y]
      BY <1>1 DEF ScheduleInv, SlotsApart
    <2>2. ASSUME NEW x \in DOMAIN program.code, NEW y \in DOMAIN program.code,
                 Block(program, x) = Block(program, y), row'[x] = row'[y]
          PROVE  row[x] = row[y]
      <3>1. CASE Block(program, x) = "BB2"
        <4>1. row[x] + size = row[y] + size /\ row[x] \in Nat /\ row[y] \in Nat
          BY <1>4, <1>6, <1>7, <2>2, <3>1
        <4>2. \A i, j \in Nat : i + size = j + size => i = j
          BY <1>2
        <4> QED
          BY <4>1, <4>2
      <3>2. CASE Block(program, x) # "BB2"
        BY <1>7, <2>2, <3>2
      <3> QED
        BY <3>1, <3>2
    <2> QED
      BY <1>1, <1>3, <1>8, <1>9, <2>1, <2>2 DEF SlotsApart
  <1>14. Layout'
    <2>1. ASSUME NEW a \in InBlock(program, "BB2")
          PROVE  row[Control] < row'[a] /\ row'[a] < size'
      <3>1. row'[a] = row[a] + size /\ row[a] \in Nat /\ row[a] < last /\ size' = size + last
        BY <1>1, <1>4, <1>5, <1>6, <1>7 DEF last
      <3>2. row[Control] \in Nat
        BY <1>4, <1>6
      <3> QED
        BY <1>2, <1>5, <1>10, <3>1, <3>2
    <2>2. row[Control] < size' /\ row'[Control] = row[Control]
      <3>1. row[Control] \in Nat /\ size' = size + last
        BY <1>1, <1>4, <1>6 DEF last
      <3> QED
        BY <1>2, <1>5, <1>6, <1>7, <1>10, <3>1
    <2>3. /\ \A a \in InBlock(program, "BB0") : row'[a] < begin
          /\ \A a \in Body : begin <= row'[a] /\ row'[a] <= row'[Control]
      BY <1>6, <1>7, <1>10, <2>2
    <2> QED
      BY <1>1, <1>9, <1>10, <2>1, <2>2, <2>3, <1>3 DEF Layout
  <1>15. OperandsTimed'
    <2>1. \A x \in DOMAIN program.code : Block(program, x) # "BB2" => Ready(x)' = Ready(x)
      BY <1>7, <1>9 DEF Ready
    <2>2. ASSUME NEW x \in AllPlaced', NEW d \in LocalDependencies(program, x)
          PROVE  d.producer \in AllPlaced' /\ Ready(d.producer)' <= row'[x]
      <3>1. x \in DOMAIN program.code /\ Ready(d.producer) <= row[x]
        BY <1>1, <1>3, <1>8, <2>2 DEF ScheduleInv, OperandsTimed
      <3>2. d.producer \in DOMAIN program.code /\ Block(program, d.producer) = Block(program, x)
        BY <1>2, <2>2, <3>1, ProducersAre
      <3>3. CASE Block(program, x) = "BB2"
        <4>1. row'[x] = row[x] + size /\ row'[d.producer] = row[d.producer] + size
          BY <1>6, <1>7, <3>1, <3>2, <3>3
        <4>2. Ready(d.producer)' = row'[d.producer] + Latency(Code(d.producer))
              /\ Ready(d.producer) = row[d.producer] + Latency(Code(d.producer))
          BY <1>9 DEF Ready
        <4>3. Latency(Code(d.producer)) \in Nat /\ row[x] \in Nat /\ row[d.producer] \in Nat
          BY <1>4, <3>1, <3>2 DEF Latency
        <4>4. (row[d.producer] + size) + Latency(Code(d.producer)) <= row[x] + size
          BY <1>2, <3>1, <4>2, <4>3
        <4> QED
          BY <1>8, <3>2, <4>1, <4>2, <4>4
      <3>4. CASE Block(program, x) # "BB2"
        BY <1>7, <1>8, <2>1, <3>1, <3>2, <3>4
      <3> QED
        BY <3>3, <3>4
    <2>3. \A b \in EnteringLoop : Ready(b)' <= begin
      <3>1. \A b \in EnteringLoop : Ready(b) <= begin
        BY <1>9 DEF ScheduleInv, OperandsTimed
      <3>2. \A b \in EnteringLoop : b \in DOMAIN program.code /\ Block(program, b) = "BB0"
        BY <1>2, <1>6, EnteringAre
      <3> QED
        BY <2>1, <3>1, <3>2
    <2>4. ASSUME NEW a \in InBlock(program, "BB2"), NEW d \in PostLoopDependencies(program, a)
          PROVE  Ready(d.producer)' <= row'[a]
      <3>1. a \in AllPlaced \cap InBlock(program, "BB2") /\ a \in DOMAIN program.code
        BY <1>3, <1>6
      <3>2. Ready(d.producer) <= row[a] + size
        BY <1>1, <3>1 DEF ScheduleInv, OperandsTimed
      <3>3. d.producer \in Body
        BY <1>2, <3>1, ProducersAre
      <3> QED
        BY <1>6, <1>7, <2>1, <3>1, <3>2, <3>3
    <2> QED
      BY <1>1, <1>9, <2>2, <2>3, <2>4 DEF OperandsTimed
  <1> QED
    BY <1>11, <1>12, <1>13, <1>14, <1>15 DEF ScheduleInv

-----------------------------------------------------------------------------
(* What renaming and the machine do to the schedule *)

\* Nothing but the loop instruction and what follows it ever moves again.
LEMMA ShiftInv ==
    ASSUME ScheduleInv, Finished, Finished', HasLoop(program), NEW added \in Nat,
           row' = [a \in DOMAIN row |-> IF Block(program, a) = "BB2" \/ a = Control
                                        THEN row[a] + added ELSE row[a]],
           size' = size + added,
           UNCHANGED <<source, program, todo, slot, begin>>
    PROVE  ScheduleInv'
  <1>1. Working /\ Working' /\ LoopPlaced /\ LoopPlaced' /\ ~Placing /\ ~Placing'
    BY DEF Working, LoopPlaced, Finished, Placing
  <1>2. /\ Compilable(program) /\ size \in Nat /\ begin \in Nat
        /\ DOMAIN row = DOMAIN program.code
        /\ row \in [DOMAIN program.code -> Nat \cup {None}]
        /\ \A a \in AllPlaced : a \in DOMAIN program.code /\ row[a] \in Nat
    BY <1>1, StateIs
  <1>3. AllPlaced = DOMAIN program.code /\ todo = {} /\ InBlock(program, "BB0") # {}
    BY <1>1 DEF ScheduleInv, Progress
  <1>4. \A a \in DOMAIN program.code : row[a] \in Nat
    BY <1>2, <1>3
  <1>5. /\ Control \in DOMAIN program.code /\ Block(program, Control) = "BB1"
        /\ Reads(program.code[Control]) = {} /\ Code(Control).unit = "Branch"
        /\ \A a \in Body : a \in DOMAIN program.code /\ a # Control
                             /\ Block(program, a) = "BB1"
        /\ \A a, b : a \in InBlock(program, b) <=>
                        a \in DOMAIN program.code /\ Block(program, a) = b
        /\ \A a \in DOMAIN program.code : Block(program, a) = "BB1" /\ a # Control => a \in Body
        /\ \A a \in DOMAIN program.code : Code(a).unit = "Branch" <=> a = Control
    <2>1. Reads(program.code[Control]) = {}
      BY <1>2, AddressesAre DEF Reads, Loop, Code
    <2> QED
      BY <1>2, <2>1, AddressesAre
  <1>6. /\ DOMAIN row' = DOMAIN program.code
        /\ \A a \in DOMAIN program.code :
              Block(program, a) # "BB2" /\ a # Control => row'[a] = row[a]
        /\ \A a \in InBlock(program, "BB2") : row'[a] = row[a] + added
        /\ row'[Control] = row[Control] + added
        /\ \A a \in DOMAIN program.code : row'[a] \in Nat
    BY <1>2, <1>4, <1>5
  <1>7. AllPlaced' = DOMAIN program.code
    <2>1. \A a \in DOMAIN program.code : row'[a] # None
      BY <1>6 DEF None
    <2> QED
      BY <1>6, <2>1 DEF AllPlaced, Placed
  <1>8. /\ \A x : Code(x)' = Code(x)
        /\ Body' = Body /\ Control' = Control /\ EnteringLoop' = EnteringLoop
    BY ProgramKept
  <1>9. /\ row[Control] < size /\ begin <= row[Control]
        /\ \A a \in InBlock(program, "BB0") : row[a] < begin
        /\ \A a \in Body : begin <= row[a] /\ row[a] <= row[Control]
        /\ \A a \in InBlock(program, "BB2") : row[Control] < row[a] /\ row[a] < size
    BY <1>1 DEF ScheduleInv, Layout
  <1>10. ScheduleTypes'
    <2>1. row' \in [DOMAIN program.code -> Nat \cup {None}]
      <3>1. row' = [a \in DOMAIN program.code |-> row'[a]]
        BY <1>2
      <3> QED
        BY <1>6, <3>1
    <2>2. size' \in Nat /\ ScheduleTypes
      BY <1>2 DEF ScheduleInv
    <2> QED
      BY <1>1, <2>1, <2>2 DEF ScheduleTypes
  <1>11. Progress'
    BY <1>1, <1>2, <1>3, <1>7 DEF Progress, Placing
  <1>12. SlotsApart'
    <2>1. /\ \A x \in DOMAIN program.code : SlotFits(Code(x).unit, slot[x])
          /\ \A x, y \in DOMAIN program.code :
                x # y /\ Block(program, x) = Block(program, y) /\ row[x] = row[y] =>
                   slot[x] # slot[y]
      BY <1>1, <1>3 DEF ScheduleInv, SlotsApart
    <2>2. \A x \in DOMAIN program.code : slot[x] = "Branch" <=> x = Control
      BY <1>5, <2>1 DEF SlotFits
    <2>3. ASSUME NEW x \in DOMAIN program.code, NEW y \in DOMAIN program.code, x # y,
                 Block(program, x) = Block(program, y), row'[x] = row'[y]
          PROVE  slot[x] # slot[y]
      <3>1. CASE x = Control \/ y = Control
        BY <2>2, <2>3, <3>1
      <3>2. CASE x # Control /\ y # Control /\ Block(program, x) = "BB2"
        <4>1. row[x] + added = row[y] + added /\ row[x] \in Nat /\ row[y] \in Nat
          BY <1>4, <1>5, <1>6, <2>3, <3>2
        <4>2. \A i, j \in Nat : i + added = j + added => i = j
          OBVIOUS
        <4>3. row[x] = row[y]
          BY <4>1, <4>2
        <4> QED
          BY <2>1, <2>3, <4>3
      <3>3. CASE x # Control /\ y # Control /\ Block(program, x) # "BB2"
        <4>1. row[x] = row[y]
          BY <1>6, <2>3, <3>3
        <4> QED
          BY <2>1, <2>3, <4>1
      <3> QED
        BY <3>1, <3>2, <3>3
    <2> QED
      BY <1>1, <1>7, <1>8, <2>1, <2>3 DEF SlotsApart
  <1>13. Layout'
    <2>1. row[Control] \in Nat
      BY <1>4, <1>5
    <2>2. ASSUME NEW a \in InBlock(program, "BB2")
          PROVE  row'[Control] < row'[a] /\ row'[a] < size'
      <3>1. /\ row'[a] = row[a] + added /\ row'[Control] = row[Control] + added
            /\ row[a] \in Nat /\ row[Control] < row[a] /\ row[a] < size
        BY <1>4, <1>5, <1>6, <1>9
      <3> QED
        BY <1>2, <2>1, <3>1
    <2>3. row'[Control] < size' /\ row[Control] <= row'[Control] /\ begin <= row'[Control]
      BY <1>2, <1>6, <1>9, <2>1
    <2>4. \A a \in InBlock(program, "BB0") : row'[a] < begin
      BY <1>5, <1>6, <1>9
    <2>5. ASSUME NEW a \in Body PROVE begin <= row'[a] /\ row'[a] <= row'[Control]
      <3>1. row'[a] = row[a] /\ row[a] \in Nat /\ begin <= row[a] /\ row[a] <= row[Control]
        BY <1>4, <1>5, <1>6, <1>9
      <3>2. row'[Control] \in Nat
        BY <1>5, <1>6
      <3> QED
        BY <2>1, <2>3, <3>1, <3>2
    <2> QED
      BY <1>1, <1>8, <2>2, <2>3, <2>4, <2>5 DEF Layout, Placing
  <1>14. OperandsTimed'
    <2>1. \A x \in DOMAIN program.code :
             Block(program, x) # "BB2" /\ x # Control => Ready(x)' = Ready(x)
      BY <1>6, <1>8 DEF Ready
    <2>2. ASSUME NEW x \in AllPlaced', NEW d \in LocalDependencies(program, x)
          PROVE  d.producer \in AllPlaced' /\ Ready(d.producer)' <= row'[x]
      <3>1. x \in DOMAIN program.code /\ Ready(d.producer) <= row[x]
        BY <1>1, <1>3, <1>7, <2>2 DEF ScheduleInv, OperandsTimed
      <3>2. d.producer \in DOMAIN program.code /\ Block(program, d.producer) = Block(program, x)
            /\ d.reg \in Code(d.producer).dst
        BY <1>2, <2>2, <3>1, ProducersAre
      <3>3. x # Control /\ d.producer # Control
        <4>1. Reads(program.code[x]) # {}
          BY <2>2 DEF LocalDependencies
        <4>2. Code(Control).dst = {}
          BY <1>2, AddressesAre
        <4> QED
          BY <1>5, <3>2, <4>1, <4>2
      <3>4. CASE Block(program, x) = "BB2"
        <4>1. row'[x] = row[x] + added /\ row'[d.producer] = row[d.producer] + added
          BY <1>5, <1>6, <3>1, <3>2, <3>4
        <4>2. Ready(d.producer)' = row'[d.producer] + Latency(Code(d.producer))
              /\ Ready(d.producer) = row[d.producer] + Latency(Code(d.producer))
          BY <1>8 DEF Ready
        <4>3. Latency(Code(d.producer)) \in Nat /\ row[x] \in Nat /\ row[d.producer] \in Nat
          BY <1>4, <3>1, <3>2 DEF Latency
        <4>4. (row[d.producer] + added) + Latency(Code(d.producer)) <= row[x] + added
          BY <3>1, <4>2, <4>3
        <4> QED
          BY <1>7, <3>2, <4>1, <4>2, <4>4
      <3>5. CASE Block(program, x) # "BB2"
        BY <1>6, <1>7, <2>1, <3>1, <3>2, <3>3, <3>5
      <3> QED
        BY <3>4, <3>5
    <2>3. \A b \in EnteringLoop : Ready(b)' <= begin
      <3>1. \A b \in EnteringLoop : Ready(b) <= begin
        BY <1>1 DEF ScheduleInv, OperandsTimed
      <3>2. \A b \in EnteringLoop : b \in DOMAIN program.code /\ Block(program, b) = "BB0"
        BY <1>2, <1>5, EnteringAre
      <3>3. \A b \in EnteringLoop : b # Control
        BY <1>5, <3>2
      <3> QED
        BY <2>1, <3>1, <3>2, <3>3
    <2>4. ASSUME NEW a \in InBlock(program, "BB2"), NEW d \in PostLoopDependencies(program, a)
          PROVE  Ready(d.producer)' <= row'[a]
      <3>1. a \in DOMAIN program.code /\ Ready(d.producer) <= row[a]
        BY <1>5 DEF ScheduleInv, OperandsTimed
      <3>2. d.producer \in Body
        BY <1>2, <3>1, ProducersAre
      <3>3. Ready(d.producer)' = Ready(d.producer)
        BY <1>5, <2>1, <3>2
      <3>4. row'[a] = row[a] + added /\ row[a] \in Nat
        BY <1>4, <1>6, <3>1
      <3>5. Ready(d.producer) \in Int
        BY <1>4, <1>5, <3>2, ReadyIs
      <3> QED
        BY <3>1, <3>3, <3>4, <3>5
    <2> QED
      BY <1>1, <1>8, <2>2, <2>3, <2>4 DEF OperandsTimed, Placing
  <1> QED
    BY <1>10, <1>11, <1>12, <1>13, <1>14 DEF ScheduleInv

\* The other steps after scheduling leave the schedule alone.
LEMMA FinishedInv ==
    ASSUME ScheduleInv, Finished, Finished',
           UNCHANGED <<source, program, todo, row, slot, size, begin>>
    PROVE  ScheduleInv'
  <1>1. /\ Working /\ Working' /\ ~Placing /\ ~Placing' /\ LoopPlaced' = LoopPlaced
        /\ Body' = Body /\ Control' = Control /\ EnteringLoop' = EnteringLoop
        /\ AllPlaced' = AllPlaced
        /\ \A x : Code(x)' = Code(x)
    BY ProgramKept DEF Working, Placing, Finished, LoopPlaced, AllPlaced, Placed
  <1>2. \A x : Ready(x)' = Ready(x)
    BY <1>1 DEF Ready
  <1>3. ScheduleTypes'
    BY <1>1 DEF ScheduleInv, ScheduleTypes
  <1>4. Progress'
    BY <1>1 DEF ScheduleInv, Progress, Placing
  <1>5. SlotsApart'
    BY <1>1 DEF ScheduleInv, SlotsApart
  <1>6. Layout'
    BY <1>1 DEF ScheduleInv, Layout, Placing
  <1>7. OperandsTimed'
    BY <1>1, <1>2 DEF ScheduleInv, OperandsTimed, Placing
  <1> QED
    BY <1>3, <1>4, <1>5, <1>6, <1>7 DEF ScheduleInv

-----------------------------------------------------------------------------
(* The inductive invariant of the renaming *)

\* Results have their registers, and moves are being inserted or have been.
Numbered == phase \in {"operands", "starting", "moves", "renamed", "running"}
Moving == phase \in {"moves", "renamed", "running"}

FirstOperand(a, r) == Smallest({k \in DOMAIN Code(a).src : Code(a).src[k] = r})

\* The types, also of what has been given up.
RenamingTypes ==
    /\ next \in 1 .. MaxReg + 1
    /\ \A a \in DOMAIN dst : dst[a] \subseteq Register
    /\ \A a \in DOMAIN src : \A k \in DOMAIN src[a] :
            src[a][k].reg \in Register /\ src[a][k].renamed \in BOOLEAN
    /\ \A m \in moves : m.row \in Nat /\ m.slot \in Slot /\ {m.from, m.to} \subseteq Register
    /\ resolved \subseteq Register

\* Every result has a register to itself.
Results ==
    Numbered =>
        /\ DOMAIN dst = DOMAIN program.code
        /\ \A a \in DOMAIN program.code :
              /\ Code(a).dst = {} => dst[a] = {}
              /\ Code(a).dst # {} => \E n \in 1 .. next - 1 : dst[a] = {n}
        /\ \A a, b \in DOMAIN program.code : a # b => dst[a] \cap dst[b] = {}

\* The operands are those of the program, and there is a producer for them to follow.
Operands ==
    Numbered =>
        /\ DOMAIN src = DOMAIN program.code
        /\ \A a \in DOMAIN program.code : DOMAIN src[a] = DOMAIN Code(a).src
        /\ \A e \in work : /\ e.at \in DOMAIN program.code /\ e \in AllDependencies(e.at)
                           /\ e.dependency.producer # 0

\* A carried dependency, whose register renaming may replace.
CarriedEntry ==
    [at : Nat, kind : {2}, operand : Nat,
     dependency : [reg : Register, producer : Nat, previous : Nat]]

CarriedFrom(c, d) ==
    /\ c.operand = FirstOperand(c.at, d.reg)
    /\ c.dependency.producer = d.producer /\ c.dependency.previous = d.previous

\* The carried dependencies are those of the loop, one an operand.
Carries ==
    Numbered =>
        /\ carried \subseteq CarriedEntry
        /\ \A c \in carried :
              /\ HasLoop(program) /\ c.at \in Body
              /\ \E d \in InterloopDependencies(program, c.at) : CarriedFrom(c, d)
        /\ \A c, e \in carried : c.at = e.at /\ c.operand = e.operand => c = e

\* The moves stand between the body and the end of the loop, in slots of their own.
Moves ==
    /\ ~Moving => moves = {} /\ resolved = {}
    /\ IsFiniteSet(moves)
    /\ Moving =>
          /\ moves # {} => HasLoop(program)
          /\ \A m \in moves :
                /\ begin <= m.row /\ m.row <= row[Control]
                /\ m.slot \in {"ALU0", "ALU1"}
                /\ \A a \in Body : row[a] <= m.row
                /\ \A a \in DOMAIN program.code : row[a] = m.row => slot[a] # m.slot
          /\ \A m, n \in moves : m.row = n.row /\ m.slot = n.slot => m = n

\* What all steps of the renaming keep.
RenamingInv == RenamingTypes /\ Results /\ Operands /\ Carries /\ Moves

-----------------------------------------------------------------------------
(* Places in the schedule, and what comes first *)

\* No two instructions of a finished schedule stand in the same slot of a cycle.
LEMMA PlacesApart ==
    ASSUME ScheduleInv, Finished
    PROVE  \A a, b \in DOMAIN program.code : row[a] = row[b] /\ slot[a] = slot[b] => a = b
  <1>1. Working /\ ~Placing
    BY DEF Working, Finished, Placing
  <1>2. /\ Compilable(program) /\ AllPlaced = DOMAIN program.code
        /\ \A a \in DOMAIN program.code : row[a] \in Int
    BY <1>1, StateIs DEF ScheduleInv, Progress
  <1>3. \A a, b \in DOMAIN program.code :
           a # b /\ Block(program, a) = Block(program, b) /\ row[a] = row[b] =>
              slot[a] # slot[b]
    BY <1>1, <1>2 DEF ScheduleInv, SlotsApart
  <1>4. ASSUME NEW a \in DOMAIN program.code, NEW b \in DOMAIN program.code,
               row[a] = row[b], Block(program, a) # Block(program, b)
        PROVE  FALSE
    <2>1. HasLoop(program)
      BY <1>2, <1>4, AddressesAre
    <2>2. /\ begin <= row[Control]
          /\ \A x \in InBlock(program, "BB0") : row[x] < begin
          /\ \A x \in Body : begin <= row[x] /\ row[x] <= row[Control]
          /\ \A x \in InBlock(program, "BB2") : row[Control] < row[x]
          /\ begin \in Int
      BY <1>1, <2>1 DEF ScheduleInv, ScheduleTypes, Layout, LoopPlaced
    <2>3. /\ Control \in DOMAIN program.code
          /\ \A x \in DOMAIN program.code :
                \/ x \in InBlock(program, "BB0") /\ Block(program, x) = "BB0"
                \/ (x \in Body \/ x = Control) /\ Block(program, x) = "BB1"
                \/ x \in InBlock(program, "BB2") /\ Block(program, x) = "BB2"
      BY <1>2, <2>1, AddressesAre
    <2>4. row[Control] \in Int
      BY <1>2, <2>3
    <2>5. \A x \in DOMAIN program.code :
             /\ Block(program, x) = "BB0" => row[x] < begin
             /\ Block(program, x) = "BB1" => begin <= row[x] /\ row[x] <= row[Control]
             /\ Block(program, x) = "BB2" => row[Control] < row[x]
      BY <1>2, <2>2, <2>3, <2>4
    <2>6. \A i, j \in Int : /\ i < begin /\ begin <= j => i # j
                            /\ i < begin /\ row[Control] < j => i # j
                            /\ i <= row[Control] /\ row[Control] < j => i # j
      BY <2>2, <2>4
    <2> QED
      BY <1>2, <1>4, <2>3, <2>5, <2>6
  <1> QED
    BY <1>3, <1>4

\* So the order of the schedule is total.
LEMMA PlaceIs ==
    ASSUME ScheduleInv, Finished
    PROVE  /\ \A a \in DOMAIN program.code : row[a] \in Nat /\ Place(a) \in Nat
           /\ \A a, b \in DOMAIN program.code : Place(a) = Place(b) => a = b
  <1>1. Working
    BY DEF Working
  <1>2. /\ AllPlaced = DOMAIN program.code /\ slot \in [DOMAIN program.code -> Slot]
        /\ \A a \in AllPlaced : row[a] \in Nat
    BY <1>1, StateIs DEF ScheduleInv, Progress
  <1>3. \A s \in Slot : SlotIndex[s] \in 0 .. 4
    BY DEF SlotIndex, Slot
  <1>4. \A s, t \in Slot : SlotIndex[s] = SlotIndex[t] => s = t
    BY DEF SlotIndex, Slot
  <1>5. \A a \in DOMAIN program.code : row[a] \in Nat /\ slot[a] \in Slot
    BY <1>2
  <1>6. \A i, j \in Nat : \A m, n \in 0 .. 4 : (5 * i) + m = (5 * j) + n => i = j /\ m = n
    OBVIOUS
  <1>7. \A a \in DOMAIN program.code : Place(a) = (5 * row[a]) + SlotIndex[slot[a]]
    BY DEF Place
  <1>8. \A a \in DOMAIN program.code : Place(a) \in Nat
    BY <1>3, <1>5, <1>7
  <1>9. ASSUME NEW a \in DOMAIN program.code, NEW b \in DOMAIN program.code,
               Place(a) = Place(b)
        PROVE  a = b
    <2>1. row[a] = row[b] /\ SlotIndex[slot[a]] = SlotIndex[slot[b]]
      BY <1>3, <1>5, <1>6, <1>7, <1>9
    <2>2. slot[a] = slot[b]
      BY <1>4, <1>5, <2>1
    <2> QED
      BY <2>1, <2>2, PlacesApart
  <1> QED
    BY <1>5, <1>8, <1>9

\* Among entries that place, kind and operand tell apart, one comes first.
LEMMA FirstInScheduleIs ==
    ASSUME NEW E, E # {},
           \A e \in E : Place(e.at) \in Nat /\ e.kind \in Nat /\ e.operand \in Nat,
           \A e, f \in E : Place(e.at) = Place(f.at) => e.at = f.at,
           \A e, f \in E : e.at = f.at /\ e.kind = f.kind /\ e.operand = f.operand => e = f
    PROVE  /\ FirstInSchedule(E) \in E
           /\ \A f \in E : f.at = FirstInSchedule(E).at /\ f.kind = FirstInSchedule(E).kind =>
                 FirstInSchedule(E).operand <= f.operand
  <1> DEFINE First(e) ==
               \A f \in E \ {e} :
                  \/ Place(e.at) < Place(f.at)
                  \/ e.at = f.at /\ (e.kind < f.kind \/ (e.kind = f.kind /\ e.operand < f.operand))
             P == {Place(e.at) : e \in E}
  <1>1. PICK p \in P : \A q \in P : p <= q
    <2>1. P \in SUBSET Nat /\ P # {}
      OBVIOUS
    <2> HIDE DEF P
    <2> QED
      BY <2>1, MinExists
  <1> DEFINE E1 == {e \in E : Place(e.at) = p}
             K == {e.kind : e \in E1}
  <1>2. PICK k \in K : \A q \in K : k <= q
    <2>1. K \in SUBSET Nat /\ K # {}
      OBVIOUS
    <2> HIDE DEF K
    <2> QED
      BY <2>1, MinExists
  <1> DEFINE E2 == {e \in E1 : e.kind = k}
             O == {e.operand : e \in E2}
  <1>3. PICK o \in O : \A q \in O : o <= q
    <2>1. O \in SUBSET Nat /\ O # {}
      OBVIOUS
    <2> HIDE DEF O
    <2> QED
      BY <2>1, MinExists
  <1>4. PICK x \in E2 : x.operand = o
    OBVIOUS
  <1>5. First(x)
    <2> SUFFICES ASSUME NEW f \in E \ {x}
                 PROVE  \/ Place(x.at) < Place(f.at)
                        \/ x.at = f.at /\ (x.kind < f.kind \/ (x.kind = f.kind /\ x.operand < f.operand))
      OBVIOUS
    <2>1. /\ Place(x.at) \in Nat /\ Place(f.at) \in Nat /\ Place(x.at) = p /\ p <= Place(f.at)
          /\ x.kind \in Nat /\ f.kind \in Nat /\ x.operand \in Nat /\ f.operand \in Nat
      BY <1>1, <1>4
    <2>2. CASE Place(f.at) # Place(x.at)
      BY <2>1, <2>2
    <2>3. CASE Place(f.at) = Place(x.at) /\ f.kind # x.kind
      <3>1. f.at = x.at /\ k <= f.kind /\ x.kind = k
        BY <1>2, <1>4, <2>1, <2>3
      <3> QED
        BY <2>1, <2>3, <3>1
    <2>4. CASE Place(f.at) = Place(x.at) /\ f.kind = x.kind
      <3>1. f.at = x.at /\ o <= f.operand /\ x.operand = o
        BY <1>3, <1>4, <2>1, <2>4
      <3>2. f.operand # x.operand
        BY <2>4, <3>1
      <3> QED
        BY <2>1, <2>4, <3>1, <3>2
    <2> QED
      BY <2>2, <2>3, <2>4
  <1>6. FirstInSchedule(E) = CHOOSE e \in E : First(e)
    BY DEF FirstInSchedule
  <1>7. FirstInSchedule(E) \in E /\ First(FirstInSchedule(E))
    <2>1. x \in E
      BY <1>4
    <2> HIDE DEF First
    <2> QED
      BY <1>5, <1>6, <2>1
  <1>8. ASSUME NEW f \in E, f.at = FirstInSchedule(E).at, f.kind = FirstInSchedule(E).kind
        PROVE  FirstInSchedule(E).operand <= f.operand
    <2> DEFINE e == FirstInSchedule(E)
    <2> SUFFICES e.operand <= f.operand
      OBVIOUS
    <2>1. e \in E /\ First(e) /\ f.at = e.at /\ f.kind = e.kind
      BY <1>7, <1>8
    <2> HIDE DEF e
    <2>2. Place(e.at) \in Nat /\ e.kind \in Nat /\ e.operand \in Nat /\ f.operand \in Nat
      BY <2>1
    <2>3. CASE f = e
      BY <2>2, <2>3
    <2>4. CASE f # e
      BY <2>1, <2>2, <2>4
    <2> QED
      BY <2>3, <2>4
  <1> QED
    BY <1>7, <1>8

\* The same for entries of the table.
LEMMA FirstInTableIs ==
    ASSUME NEW E, E # {}, \A e \in E : e.at \in Nat /\ e.operand \in Nat,
           \A e, f \in E : e.at = f.at /\ e.operand = f.operand => e = f
    PROVE  FirstInTable(E) \in E
  <1> DEFINE First(e) ==
               \A f \in E \ {e} : e.at < f.at \/ (e.at = f.at /\ e.operand < f.operand)
             P == {e.at : e \in E}
  <1>1. PICK p \in P : \A q \in P : p <= q
    <2>1. P \in SUBSET Nat /\ P # {}
      OBVIOUS
    <2> HIDE DEF P
    <2> QED
      BY <2>1, MinExists
  <1> DEFINE E1 == {e \in E : e.at = p}
             O == {e.operand : e \in E1}
  <1>2. PICK o \in O : \A q \in O : o <= q
    <2>1. O \in SUBSET Nat /\ O # {}
      OBVIOUS
    <2> HIDE DEF O
    <2> QED
      BY <2>1, MinExists
  <1>3. PICK x \in E1 : x.operand = o
    OBVIOUS
  <1>4. First(x)
    <2> SUFFICES ASSUME NEW f \in E \ {x}
                 PROVE  x.at < f.at \/ (x.at = f.at /\ x.operand < f.operand)
      OBVIOUS
    <2>1. /\ x.at \in Nat /\ f.at \in Nat /\ x.at = p /\ p <= f.at
          /\ x.operand \in Nat /\ f.operand \in Nat
      BY <1>1, <1>3
    <2>2. CASE f.at # x.at
      BY <2>1, <2>2
    <2>3. CASE f.at = x.at
      <3>1. o <= f.operand /\ x.operand = o
        BY <1>2, <1>3, <2>1, <2>3
      <3>2. f.operand # x.operand
        BY <2>3, <1>3
      <3> QED
        BY <2>1, <2>3, <3>1, <3>2
    <2> QED
      BY <2>2, <2>3
  <1>5. FirstInTable(E) = CHOOSE e \in E : First(e)
    BY DEF FirstInTable
  <1>6. x \in E
    BY <1>3
  <1> HIDE DEF First
  <1> QED
    BY <1>4, <1>5, <1>6

-----------------------------------------------------------------------------
(* Operands, dependencies and register numbers *)

\* The first operand of a name.
LEMMA FirstOperandIs ==
    ASSUME Compilable(program), NEW a \in DOMAIN program.code,
           NEW r \in Reads(program.code[a])
    PROVE  /\ FirstOperand(a, r) \in DOMAIN Code(a).src /\ FirstOperand(a, r) \in Nat
           /\ Code(a).src[FirstOperand(a, r)] = r
           /\ \A k \in DOMAIN Code(a).src : Code(a).src[k] = r => FirstOperand(a, r) <= k
  <1> DEFINE S == {k \in DOMAIN Code(a).src : Code(a).src[k] = r}
  <1>1. Code(a).src \in Seq(Reg)
    BY AddressesAre
  <1>2. DOMAIN Code(a).src \in SUBSET Nat
    <2>1. DOMAIN Code(a).src = 1 .. Len(Code(a).src) /\ Len(Code(a).src) \in Nat
      BY <1>1
    <2> QED
      BY <2>1
  <1>3. S \in SUBSET Nat
    BY <1>2
  <1>4. S # {}
    BY DEF Reads, Code
  <1>5. Smallest(S) \in S /\ \A y \in S : Smallest(S) <= y
    <2> HIDE DEF S
    <2> QED
      BY <1>3, <1>4, SmallestIs
  <1>6. FirstOperand(a, r) = Smallest(S)
    BY DEF FirstOperand
  <1> QED
    BY <1>2, <1>5, <1>6

\* A dependency of each kind belongs to a register that the instruction reads.
LEMMA RegistersRead ==
    ASSUME NEW a
    PROVE  /\ \A d \in LocalDependencies(program, a) :
                 /\ d.reg \in Reads(program.code[a])
                 /\ d = Dependency(d.reg, LocalProducer(program, a, d.reg), 0)
           /\ \A d \in InterloopDependencies(program, a) :
                 /\ d.reg \in Reads(program.code[a])
                 /\ d = Dependency(d.reg, BlockProducer(program, "BB0", d.reg),
                                          BlockProducer(program, "BB1", d.reg))
           /\ \A d \in PostLoopDependencies(program, a) :
                 /\ d.reg \in Reads(program.code[a])
                 /\ d = Dependency(d.reg, BlockProducer(program, "BB1", d.reg), 0)
           /\ \A d \in InvariantDependencies(program, a) :
                 /\ d.reg \in Reads(program.code[a])
                 /\ d = Dependency(d.reg, BlockProducer(program, "BB0", d.reg), 0)
  <1>1. \A r, p, q : Dependency(r, p, q).reg = r
    BY DEF Dependency
  <1>2. ASSUME NEW d \in LocalDependencies(program, a)
        PROVE  /\ d.reg \in Reads(program.code[a])
               /\ d = Dependency(d.reg, LocalProducer(program, a, d.reg), 0)
    BY <1>1 DEF LocalDependencies
  <1>3. ASSUME NEW d \in InterloopDependencies(program, a)
        PROVE  /\ d.reg \in Reads(program.code[a])
               /\ d = Dependency(d.reg, BlockProducer(program, "BB0", d.reg),
                                        BlockProducer(program, "BB1", d.reg))
    BY <1>1 DEF InterloopDependencies, Incoming
  <1>4. ASSUME NEW d \in PostLoopDependencies(program, a)
        PROVE  /\ d.reg \in Reads(program.code[a])
               /\ d = Dependency(d.reg, BlockProducer(program, "BB1", d.reg), 0)
    BY <1>1 DEF PostLoopDependencies, Incoming
  <1>5. ASSUME NEW d \in InvariantDependencies(program, a)
        PROVE  /\ d.reg \in Reads(program.code[a])
               /\ d = Dependency(d.reg, BlockProducer(program, "BB0", d.reg), 0)
    BY <1>1 DEF InvariantDependencies, Incoming
  <1> QED
    BY <1>2, <1>3, <1>4, <1>5

\* The dependencies of each kind, as the passes number the kinds.
DependenciesOf(a, kind) ==
    CASE kind = 1 -> LocalDependencies(program, a)
      [] kind = 2 -> InterloopDependencies(program, a)
      [] kind = 3 -> PostLoopDependencies(program, a)
      [] kind = 4 -> InvariantDependencies(program, a)

\* The entries of an instruction are its dependencies, one a register and kind.
LEMMA EntriesAre ==
    ASSUME Compilable(program), NEW a \in DOMAIN program.code
    PROVE  /\ \A e \in AllDependencies(a) :
                 /\ e.at = a /\ e.kind \in 1 .. 4
                 /\ e.dependency \in DependenciesOf(a, e.kind)
                 /\ e.dependency.reg \in Reads(program.code[a])
                 /\ e.operand = FirstOperand(a, e.dependency.reg)
           /\ \A e, f \in AllDependencies(a) : e.kind = f.kind /\ e.operand = f.operand => e = f
  <1>1. ASSUME NEW kind \in 1 .. 4, NEW e \in Entries(a, kind, DependenciesOf(a, kind))
        PROVE  /\ e.at = a /\ e.kind = kind
               /\ e.dependency \in DependenciesOf(a, kind)
               /\ e.dependency.reg \in Reads(program.code[a])
               /\ e.operand = FirstOperand(a, e.dependency.reg)
               /\ e = [at |-> a, kind |-> kind, dependency |-> e.dependency,
                       operand |-> FirstOperand(a, e.dependency.reg)]
    <2>1. PICK d \in DependenciesOf(a, kind) :
             e = [at |-> a, kind |-> kind, dependency |-> d, operand |-> FirstOperand(a, d.reg)]
      BY <1>1 DEF Entries, FirstOperand
    <2>2. d.reg \in Reads(program.code[a])
      BY <2>1, RegistersRead DEF DependenciesOf
    <2> QED
      BY <2>1, <2>2
  <1>2. ASSUME NEW e \in AllDependencies(a)
        PROVE  \E kind \in 1 .. 4 : e \in Entries(a, kind, DependenciesOf(a, kind))
    BY DEF AllDependencies, DependenciesOf
  <1>3. ASSUME NEW kind \in 1 .. 4, NEW d \in DependenciesOf(a, kind),
               NEW c \in DependenciesOf(a, kind), d.reg = c.reg
        PROVE  d = c
    <2>1. CASE kind = 1
      <3>1. d \in LocalDependencies(program, a) /\ c \in LocalDependencies(program, a)
        BY <2>1 DEF DependenciesOf
      <3> QED
        BY <1>3, <3>1, RegistersRead
    <2>2. CASE kind = 2
      <3>1. d \in InterloopDependencies(program, a) /\ c \in InterloopDependencies(program, a)
        BY <2>2 DEF DependenciesOf
      <3> QED
        BY <1>3, <3>1, RegistersRead
    <2>3. CASE kind = 3
      <3>1. d \in PostLoopDependencies(program, a) /\ c \in PostLoopDependencies(program, a)
        BY <2>3 DEF DependenciesOf
      <3> QED
        BY <1>3, <3>1, RegistersRead
    <2>4. CASE kind = 4
      <3>1. d \in InvariantDependencies(program, a) /\ c \in InvariantDependencies(program, a)
        BY <2>4 DEF DependenciesOf
      <3> QED
        BY <1>3, <3>1, RegistersRead
    <2> QED
      BY <2>1, <2>2, <2>3, <2>4
  <1>4. ASSUME NEW e \in AllDependencies(a), NEW f \in AllDependencies(a),
               e.kind = f.kind, e.operand = f.operand
        PROVE  e = f
    <2>1. PICK kind \in 1 .. 4 : e \in Entries(a, kind, DependenciesOf(a, kind))
      BY <1>2
    <2>2. PICK other \in 1 .. 4 : f \in Entries(a, other, DependenciesOf(a, other))
      BY <1>2
    <2>3. kind = other
      BY <1>1, <1>4, <2>1, <2>2
    <2>4. e.dependency.reg = f.dependency.reg
      <3>1. /\ e.operand = FirstOperand(a, e.dependency.reg)
            /\ f.operand = FirstOperand(a, f.dependency.reg)
            /\ e.dependency.reg \in Reads(program.code[a])
            /\ f.dependency.reg \in Reads(program.code[a])
        BY <1>1, <2>1, <2>2
      <3>2. Code(a).src[e.operand] = e.dependency.reg /\ Code(a).src[f.operand] = f.dependency.reg
        BY <3>1, FirstOperandIs
      <3> QED
        BY <1>4, <3>2
    <2>5. e.dependency = f.dependency
      BY <1>1, <1>3, <2>1, <2>2, <2>3, <2>4
    <2> QED
      BY <1>1, <2>1, <2>2, <2>3, <2>5
  <1> QED
    BY <1>1, <1>2, <1>4

\* What an entry with a producer follows is a result.
LEMMA EntryFollows ==
    ASSUME Compilable(program), NEW a \in DOMAIN program.code, NEW e \in AllDependencies(a),
           e.dependency.producer # 0
    PROVE  /\ e.dependency.producer \in DOMAIN program.code
           /\ e.dependency.reg \in Code(e.dependency.producer).dst
  <1>1. e.kind \in 1 .. 4 /\ e.dependency \in DependenciesOf(a, e.kind)
    BY EntriesAre
  <1> DEFINE d == e.dependency
  <1>2. \/ d \in LocalDependencies(program, a)
        \/ d \in InterloopDependencies(program, a)
        \/ d \in PostLoopDependencies(program, a)
        \/ d \in InvariantDependencies(program, a)
    BY <1>1 DEF DependenciesOf
  <1>3. d.producer # 0
    OBVIOUS
  <1>4. \A x : (x \in Body => (HasLoop(program) => x \in DOMAIN program.code))
               /\ (x \in InBlock(program, "BB0") => x \in DOMAIN program.code)
    BY DEF Body, InBlock
  <1> HIDE DEF d
  <1>5. d.producer \in DOMAIN program.code /\ d.reg \in Code(d.producer).dst
    BY <1>2, <1>3, <1>4, ProducersAre
  <1> QED
    BY <1>5 DEF d

\* Results are numbered from 1, each differently.
LEMMA NumbersAre ==
    ASSUME ScheduleInv, Finished
    PROVE  /\ Cardinality(Writing) \in Nat
           /\ Writing \in SUBSET (DOMAIN program.code)
           /\ \A a \in Writing : NumberOf(a) \in 1 .. Cardinality(Writing)
           /\ \A a, b \in Writing : NumberOf(a) = NumberOf(b) => a = b
  <1>1. Working /\ Compilable(program) /\ DOMAIN row = DOMAIN program.code
    BY StateIs DEF Working
  <1>2. Writing \in SUBSET (DOMAIN program.code)
    BY <1>1 DEF Writing
  <1>3. IsFiniteSet(Writing)
    BY <1>1, <1>2, AddressesAre, FS_Subset
  <1> DEFINE Upto(a) == {b \in Writing : Place(b) <= Place(a)}
  <1>4. /\ \A a \in Writing : Place(a) \in Nat
        /\ \A a, b \in Writing : Place(a) = Place(b) => a = b
    BY <1>2, PlaceIs
  <1>5. ASSUME NEW a \in Writing
        PROVE  /\ IsFiniteSet(Upto(a)) /\ Cardinality(Upto(a)) \in 1 .. Cardinality(Writing)
               /\ NumberOf(a) = Cardinality(Upto(a))
    <2>1. Upto(a) \in SUBSET Writing
      OBVIOUS
    <2>2. a \in Upto(a)
      BY <1>4
    <2>3. NumberOf(a) = Cardinality(Upto(a))
      BY DEF NumberOf
    <2> HIDE DEF Upto
    <2>4. IsFiniteSet(Upto(a)) /\ Cardinality(Upto(a)) <= Cardinality(Writing)
      BY <1>3, <2>1, FS_Subset
    <2>5. Cardinality(Upto(a)) \in Nat /\ Cardinality(Writing) \in Nat
      BY <1>3, <2>4, FS_CardinalityType
    <2>6. Cardinality(Upto(a)) # 0
      BY <2>2, <2>4, FS_EmptySet
    <2> QED
      BY <2>3, <2>4, <2>5, <2>6
  <1>6. ASSUME NEW a \in Writing, NEW b \in Writing, NumberOf(a) = NumberOf(b),
               Place(a) < Place(b)
        PROVE  FALSE
    <2>1. Upto(a) \in SUBSET Upto(b) /\ b \in Upto(b) /\ b \notin Upto(a)
      BY <1>4, <1>6
    <2>2. IsFiniteSet(Upto(b)) /\ Cardinality(Upto(a)) = Cardinality(Upto(b))
      BY <1>5, <1>6
    <2> HIDE DEF Upto
    <2>3. Upto(a) = Upto(b)
      BY <2>1, <2>2, FS_Subset
    <2> QED
      BY <2>1, <2>3
  <1>7. ASSUME NEW a \in Writing, NEW b \in Writing, NumberOf(a) = NumberOf(b), a # b
        PROVE  FALSE
    <2>1. Place(a) < Place(b) \/ Place(b) < Place(a)
      BY <1>4, <1>7
    <2> QED
      BY <1>6, <1>7, <2>1
  <1>8. Cardinality(Writing) \in Nat
    BY <1>3, FS_CardinalityType
  <1> QED
    BY <1>2, <1>5, <1>7, <1>8

-----------------------------------------------------------------------------
(* The steps of the renaming *)

\* Before the results are numbered, and when the compiler gives up, there are no moves.
LEMMA UnnumberedInv ==
    ASSUME RenamingInv, ~Moving, ~Numbered', UNCHANGED renamingVars
    PROVE  RenamingInv'
  <1>1. RenamingTypes'
    BY DEF RenamingInv, RenamingTypes, renamingVars
  <1>2. Results' /\ Operands' /\ Carries'
    BY DEF Results, Operands, Carries
  <1>3. ~Moving'
    BY DEF Moving, Numbered
  <1>4. Moves'
    BY <1>3 DEF RenamingInv, Moves, renamingVars
  <1> QED
    BY <1>1, <1>2, <1>4 DEF RenamingInv

\* Steps that only go on to the next pass.
LEMMA PassDone ==
    ASSUME RenamingInv, Numbered, Numbered', Moving => Moving',
           UNCHANGED <<program, row, slot, begin>>, UNCHANGED renamingVars
    PROVE  RenamingInv'
  <1>1. /\ Body' = Body /\ Control' = Control /\ HasLoop(program)' = HasLoop(program)
        /\ \A x : Code(x)' = Code(x)
        /\ \A x : InterloopDependencies(program, x)' = InterloopDependencies(program, x)
        /\ UNCHANGED <<dst, src, work, carried, next, moves, resolved>>
    BY ProgramKept DEF renamingVars
  <1>2. \A x : AllDependencies(x)' = AllDependencies(x)
    BY <1>1 DEF AllDependencies, Entries, Code
  <1>3. \A c, d : CarriedFrom(c, d)' = CarriedFrom(c, d)
    BY <1>1 DEF CarriedFrom, FirstOperand, Code
  <1>4. RenamingTypes'
    BY <1>1 DEF RenamingInv, RenamingTypes
  <1>5. Results'
    BY <1>1 DEF RenamingInv, Results
  <1>6. Operands'
    BY <1>1, <1>2 DEF RenamingInv, Operands
  <1>7. Carries'
    BY <1>1, <1>3 DEF RenamingInv, Carries
  <1>8. Moves'
    BY <1>1 DEF RenamingInv, Moves
  <1> QED
    BY <1>4, <1>5, <1>6, <1>7, <1>8 DEF RenamingInv

\* Registers are numbers.
LEMMA RegistersAre == MaxReg \in Nat /\ Register = 0 .. MaxReg /\ Reg \subseteq Register
  BY LoopBackendAssumption

\* Every result gets a number of its own, and the tables of what follows are made.
LEMMA RenameProducedInv ==
    ASSUME ScheduleInv, RenamingInv, RenameProduced, UNCHANGED <<program, row, slot, begin>>
    PROVE  RenamingInv'
  <1>1. /\ phase = "scheduled" /\ phase' = "operands" /\ Cardinality(Writing) <= MaxReg
        /\ dst' = [a \in DOMAIN row |-> IF a \in Writing THEN {NumberOf(a)} ELSE {}]
        /\ next' = Cardinality(Writing) + 1
        /\ src' = [a \in DOMAIN row |-> [k \in DOMAIN Code(a).src |->
                                            Operand(Code(a).src[k], FALSE)]]
        /\ work' = {e \in UNION {AllDependencies(a) : a \in DOMAIN row} :
                        e.dependency.producer # 0}
        /\ carried' = UNION {Entries(a, 2, InterloopDependencies(program, a)) : a \in DOMAIN row}
        /\ UNCHANGED <<moves, resolved>>
    BY DEF RenameProduced
  <1>2. Finished /\ Working /\ Numbered' /\ ~Moving /\ ~Moving'
    BY <1>1 DEF Finished, Working, Numbered, Moving
  <1>3. Compilable(program) /\ DOMAIN row = DOMAIN program.code /\ program \in Program
    BY <1>2, StateIs DEF Compilable
  <1>4. /\ Cardinality(Writing) \in Nat
        /\ Writing \in SUBSET (DOMAIN program.code)
        /\ \A a \in Writing : NumberOf(a) \in 1 .. Cardinality(Writing)
        /\ \A a, b \in Writing : NumberOf(a) = NumberOf(b) => a = b
    BY <1>2, NumbersAre
  <1>5. MaxReg \in Nat /\ Register = 0 .. MaxReg /\ Reg \subseteq Register
    BY RegistersAre
  <1>6. /\ \A x : Code(x)' = Code(x)
        /\ Body' = Body /\ HasLoop(program)' = HasLoop(program)
        /\ \A x : InterloopDependencies(program, x)' = InterloopDependencies(program, x)
    BY ProgramKept
  <1>7. /\ \A x : AllDependencies(x)' = AllDependencies(x)
        /\ \A c, d : CarriedFrom(c, d)' = CarriedFrom(c, d)
    BY <1>6 DEF AllDependencies, Entries, Code, CarriedFrom, FirstOperand
  <1>8. \A a \in DOMAIN program.code : \A k \in DOMAIN Code(a).src :
           Code(a).src[k] \in Reg
    <2>1. \A a \in DOMAIN program.code : Code(a).src \in Seq(Reg)
      BY <1>3, AddressesAre
    <2> QED
      BY <2>1
  <1>9. next' \in 1 .. MaxReg + 1 /\ next' - 1 = Cardinality(Writing)
    BY <1>1, <1>4, <1>5
  <1>10. \A a \in Writing : NumberOf(a) \in Register
    BY <1>1, <1>4, <1>5
  <1>11. RenamingTypes'
    <2>1. \A a \in DOMAIN dst' : dst'[a] \subseteq Register
      BY <1>1, <1>10
    <2>2. \A a \in DOMAIN src' : \A k \in DOMAIN src'[a] :
             src'[a][k].reg \in Register /\ src'[a][k].renamed \in BOOLEAN
      <3>1. \A r, b : Operand(r, b).reg = r /\ Operand(r, b).renamed = b
        BY DEF Operand
      <3>2. \A a \in DOMAIN src' : /\ a \in DOMAIN program.code
                                  /\ DOMAIN src'[a] = DOMAIN Code(a).src
        BY <1>1, <1>3
      <3>3. \A a \in DOMAIN src' : \A k \in DOMAIN src'[a] :
               src'[a][k] = Operand(Code(a).src[k], FALSE)
        BY <1>1, <1>3
      <3>4. ASSUME NEW a \in DOMAIN src', NEW k \in DOMAIN src'[a]
            PROVE  src'[a][k].reg = Code(a).src[k] /\ src'[a][k].renamed = FALSE
        BY <3>3 DEF Operand
      <3>5. \A a \in DOMAIN src' : \A k \in DOMAIN src'[a] : Code(a).src[k] \in Register
        BY <1>5, <1>8, <3>2
      <3> QED
        BY <3>4, <3>5
    <2> QED
      BY <1>1, <1>9, <2>1, <2>2 DEF RenamingInv, RenamingTypes
  <1>12. Results'
    <2>1. DOMAIN dst' = DOMAIN program.code
      BY <1>1, <1>3
    <2>2. \A a : a \in Writing <=> a \in DOMAIN program.code /\ Code(a).dst # {}
      BY <1>3 DEF Writing
    <2>3. \A a \in DOMAIN program.code : Code(a).dst = {} => dst'[a] = {}
      BY <1>1, <1>3, <2>2
    <2>4. \A a \in DOMAIN program.code :
             Code(a).dst # {} => \E n \in 1 .. next' - 1 : dst'[a] = {n}
      BY <1>1, <1>3, <1>4, <1>9, <2>2
    <2>5. \A a, b \in DOMAIN program.code : a # b => dst'[a] \cap dst'[b] = {}
      BY <1>1, <1>3, <1>4
    <2> QED
      BY <1>1, <1>6, <2>1, <2>3, <2>4, <2>5 DEF Results
  <1>13. Operands'
    <2>1. DOMAIN src' = DOMAIN program.code
      BY <1>1, <1>3
    <2>2. \A a \in DOMAIN program.code : DOMAIN src'[a] = DOMAIN Code(a).src
      BY <1>1, <1>3
    <2>3. ASSUME NEW e \in work'
          PROVE  /\ e.at \in DOMAIN program.code /\ e \in AllDependencies(e.at)
                 /\ e.dependency.producer # 0
      <3>1. PICK a \in DOMAIN program.code : e \in AllDependencies(a)
        BY <1>1, <1>3, <2>3
      <3>2. e.at = a /\ e.dependency.producer # 0
        BY <1>1, <1>3, <2>3, <3>1, EntriesAre
      <3> QED
        BY <3>1, <3>2
    <2> QED
      BY <1>1, <1>6, <1>7, <2>1, <2>2, <2>3 DEF Operands
  <1>14. ASSUME NEW c \in carried'
         PROVE  /\ c \in CarriedEntry /\ HasLoop(program) /\ c.at \in Body
                /\ c.at \in DOMAIN program.code
                /\ c \in AllDependencies(c.at) /\ c.kind = 2
                /\ \E d \in InterloopDependencies(program, c.at) : CarriedFrom(c, d)
    <2>1. PICK a \in DOMAIN program.code : c \in Entries(a, 2, InterloopDependencies(program, a))
      BY <1>1, <1>3
    <2>2. PICK d \in InterloopDependencies(program, a) :
             c = [at |-> a, kind |-> 2, dependency |-> d, operand |-> FirstOperand(a, d.reg)]
      BY <2>1 DEF Entries, FirstOperand
    <2>3. /\ HasLoop(program) /\ a \in Body
          /\ d.producer # 0 => d.producer \in InBlock(program, "BB0")
          /\ d.previous \in Body
      BY <1>3, <2>2, ProducersAre
    <2>4. DOMAIN program.code \in SUBSET Nat
      BY <1>3, AddressesAre
    <2>5. /\ a \in Nat /\ d.producer \in Nat /\ d.previous \in Nat
      BY <2>3, <2>4 DEF Body, InBlock
    <2>6. /\ d.reg \in Reads(program.code[a])
          /\ d = Dependency(d.reg, BlockProducer(program, "BB0", d.reg),
                                   BlockProducer(program, "BB1", d.reg))
      BY <2>2, RegistersRead
    <2>7. d.reg \in Register
      BY <1>5, <1>8, <2>6 DEF Reads, Code
    <2>8. FirstOperand(a, d.reg) \in Nat
      BY <1>3, <2>6, FirstOperandIs
    <2>9. d = [reg |-> d.reg, producer |-> d.producer, previous |-> d.previous]
      BY <2>6 DEF Dependency
    <2>10. d \in [reg : Register, producer : Nat, previous : Nat]
      BY <2>5, <2>7, <2>9
    <2>11. c \in CarriedEntry
      BY <2>2, <2>5, <2>8, <2>10 DEF CarriedEntry
    <2>12. c \in AllDependencies(a)
      BY <2>1 DEF AllDependencies
    <2>13. CarriedFrom(c, d)
      BY <2>2 DEF CarriedFrom
    <2> QED
      BY <2>2, <2>3, <2>11, <2>12, <2>13
  <1>15. Carries'
    <2>1. ASSUME NEW c \in carried', NEW e \in carried', c.at = e.at, c.operand = e.operand
          PROVE  c = e
      BY <1>3, <1>14, <2>1, EntriesAre
    <2> QED
      BY <1>6, <1>7, <1>14, <2>1 DEF Carries
  <1>16. Moves'
    BY <1>1, <1>2 DEF RenamingInv, Moves
  <1> QED
    BY <1>11, <1>12, <1>13, <1>15, <1>16 DEF RenamingInv

\* The first entry to follow is one, whose producer has a register.
LEMMA WorkIs ==
    ASSUME ScheduleInv, RenamingInv, phase = "operands", work # {}
    PROVE  \E e \in work :
              /\ e = FirstInSchedule(work) /\ e.at \in DOMAIN program.code
              /\ e \in AllDependencies(e.at)
              /\ e.dependency.producer \in DOMAIN program.code
              /\ e.dependency.reg \in Code(e.dependency.producer).dst
              /\ \E n \in 1 .. next - 1 : dst[e.dependency.producer] = {n}
  <1>1. Numbered /\ Finished /\ Working /\ Compilable(program)
    BY StateIs DEF Numbered, Finished, Working
  <1>2. \A e \in work : /\ e.at \in DOMAIN program.code /\ e \in AllDependencies(e.at)
                        /\ e.dependency.producer # 0
    BY <1>1 DEF RenamingInv, Operands
  <1>3. \A e \in work : Place(e.at) \in Nat
    BY <1>1, <1>2, PlaceIs
  <1>4. \A e \in work : e.kind \in Nat /\ e.operand \in Nat
    <2>1. \A e \in work : /\ e.kind \in 1 .. 4 /\ e.dependency.reg \in Reads(program.code[e.at])
                          /\ e.operand = FirstOperand(e.at, e.dependency.reg)
      BY <1>1, <1>2, EntriesAre
    <2> QED
      BY <1>1, <1>2, <2>1, FirstOperandIs
  <1>5. \A e, f \in work : Place(e.at) = Place(f.at) => e.at = f.at
    BY <1>1, <1>2, PlaceIs
  <1>6. \A e, f \in work : e.at = f.at /\ e.kind = f.kind /\ e.operand = f.operand => e = f
    BY <1>1, <1>2, EntriesAre
  <1>7. FirstInSchedule(work) \in work
    BY <1>3, <1>4, <1>5, <1>6, FirstInScheduleIs
  <1> DEFINE e == FirstInSchedule(work)
  <1>8. e \in work /\ e.at \in DOMAIN program.code /\ e \in AllDependencies(e.at)
        /\ e.dependency.producer # 0
    BY <1>2, <1>7
  <1> HIDE DEF e
  <1>9. /\ e.dependency.producer \in DOMAIN program.code
        /\ e.dependency.reg \in Code(e.dependency.producer).dst
    BY <1>1, <1>8, EntryFollows
  <1>10. \E n \in 1 .. next - 1 : dst[e.dependency.producer] = {n}
    BY <1>1, <1>9 DEF RenamingInv, Results
  <1> QED
    BY <1>8, <1>9, <1>10 DEF e

\* An operand follows a dependency.
LEMMA RenameOperandInv ==
    ASSUME ScheduleInv, RenamingInv, RenameOperand, UNCHANGED <<program, row, slot, begin>>
    PROVE  RenamingInv'
  <1>1. /\ phase = "operands" /\ phase' = phase /\ work # {}
        /\ UNCHANGED <<dst, carried, next, moves, resolved>>
    BY DEF RenameOperand
  <1>2. PICK e \in work :
              /\ e = FirstInSchedule(work) /\ e.at \in DOMAIN program.code
              /\ e.dependency.producer \in DOMAIN program.code
              /\ \E n \in 1 .. next - 1 : dst[e.dependency.producer] = {n}
    BY <1>1, WorkIs
  <1>3. /\ src' = [src EXCEPT ![e.at] = Followed(@, e.dependency)]
        /\ work' = work \ {e}
    BY <1>2 DEF RenameOperand
  <1>4. /\ Numbered /\ Numbered' /\ ~Moving /\ ~Moving'
    BY <1>1 DEF Numbered, Moving
  <1>5. /\ DOMAIN src = DOMAIN program.code
        /\ \A a \in DOMAIN program.code : DOMAIN src[a] = DOMAIN Code(a).src
    BY <1>4 DEF RenamingInv, Operands
  <1>6. TheElement(dst[e.dependency.producer]) \in Register
    <2>1. PICK n \in 1 .. next - 1 : dst[e.dependency.producer] = {n}
      BY <1>2
    <2>2. TheElement(dst[e.dependency.producer]) = n
      BY <2>1 DEF TheElement
    <2>3. next \in 1 .. MaxReg + 1
      BY DEF RenamingInv, RenamingTypes
    <2> QED
      BY <2>2, <2>3, RegistersAre
  <1>7. /\ \A x : Code(x)' = Code(x)
        /\ Body' = Body /\ HasLoop(program)' = HasLoop(program)
        /\ \A x : InterloopDependencies(program, x)' = InterloopDependencies(program, x)
    BY ProgramKept
  <1>8. /\ \A x : AllDependencies(x)' = AllDependencies(x)
        /\ \A c, d : CarriedFrom(c, d)' = CarriedFrom(c, d)
    BY <1>7 DEF AllDependencies, Entries, Code, CarriedFrom, FirstOperand
  <1>9. RenamingTypes'
    <2>1. \A a \in DOMAIN src : \A k \in DOMAIN src[a] :
             src[a][k].reg \in Register /\ src[a][k].renamed \in BOOLEAN
      BY DEF RenamingInv, RenamingTypes
    <2>2. \A k \in DOMAIN src[e.at] :
             /\ Followed(src[e.at], e.dependency)[k].reg \in Register
             /\ Followed(src[e.at], e.dependency)[k].renamed \in BOOLEAN
      BY <1>2, <1>5, <1>6, <2>1 DEF Followed, Operand
    <2>3. DOMAIN Followed(src[e.at], e.dependency) = DOMAIN src[e.at]
      BY DEF Followed
    <2>4. \A a \in DOMAIN src' : \A k \in DOMAIN src'[a] :
             src'[a][k].reg \in Register /\ src'[a][k].renamed \in BOOLEAN
      BY <1>2, <1>3, <1>5, <2>1, <2>2, <2>3
    <2> QED
      BY <1>1, <2>4 DEF RenamingInv, RenamingTypes
  <1>10. Results'
    BY <1>1, <1>4, <1>7 DEF RenamingInv, Results
  <1>11. Operands'
    <2>1. DOMAIN Followed(src[e.at], e.dependency) = DOMAIN src[e.at]
      BY DEF Followed
    <2>2. /\ DOMAIN src' = DOMAIN program.code
          /\ \A a \in DOMAIN program.code : DOMAIN src'[a] = DOMAIN Code(a).src
      BY <1>2, <1>3, <1>5, <2>1
    <2> QED
      BY <1>3, <1>4, <1>7, <1>8, <2>2 DEF RenamingInv, Operands
  <1>12. Carries'
    BY <1>1, <1>4, <1>7, <1>8 DEF RenamingInv, Carries
  <1>13. Moves'
    BY <1>1, <1>4 DEF RenamingInv, Moves
  <1> QED
    BY <1>9, <1>10, <1>11, <1>12, <1>13 DEF RenamingInv

\* The first operand without a producer is one.
LEMMA UnrenamedIs ==
    ASSUME ScheduleInv, RenamingInv, Numbered, Unrenamed # {}
    PROVE  \E e \in Unrenamed :
              /\ e = FirstInSchedule(Unrenamed) /\ e.at \in DOMAIN program.code
              /\ e.operand \in DOMAIN src[e.at] /\ ~src[e.at][e.operand].renamed
              /\ e.operand \in Nat
              /\ \A k \in DOMAIN src[e.at] : ~src[e.at][k].renamed => e.operand <= k
  <1>1. Finished /\ Working /\ Compilable(program)
    BY StateIs DEF Numbered, Finished, Working
  <1>2. /\ DOMAIN src = DOMAIN program.code
        /\ \A a \in DOMAIN program.code : DOMAIN src[a] = DOMAIN Code(a).src
    BY DEF RenamingInv, Operands
  <1>3. \A a \in DOMAIN program.code : DOMAIN Code(a).src \in SUBSET Nat
    <2>1. \A a \in DOMAIN program.code : Code(a).src \in Seq(Reg)
      BY <1>1, AddressesAre
    <2>2. \A a \in DOMAIN program.code :
             DOMAIN Code(a).src = 1 .. Len(Code(a).src) /\ Len(Code(a).src) \in Nat
      BY <2>1
    <2> QED
      BY <2>2
  <1>4. \A e \in Unrenamed :
           /\ e.at \in DOMAIN program.code /\ e.kind = 0
           /\ e.operand \in DOMAIN src[e.at] /\ ~src[e.at][e.operand].renamed
           /\ e = [at |-> e.at, kind |-> 0, operand |-> e.operand]
    BY <1>2 DEF Unrenamed
  <1>5. \A e \in Unrenamed : e.operand \in Nat /\ e.kind \in Nat
    BY <1>2, <1>3, <1>4
  <1>6. \A e \in Unrenamed : Place(e.at) \in Nat
    BY <1>1, <1>4, PlaceIs
  <1>7. \A e, f \in Unrenamed : Place(e.at) = Place(f.at) => e.at = f.at
    BY <1>1, <1>4, PlaceIs
  <1>8. \A e, f \in Unrenamed : e.at = f.at /\ e.kind = f.kind /\ e.operand = f.operand => e = f
    BY <1>4
  <1> DEFINE e == FirstInSchedule(Unrenamed)
  <1>9. /\ e \in Unrenamed
        /\ \A f \in Unrenamed : f.at = e.at /\ f.kind = e.kind => e.operand <= f.operand
    BY <1>5, <1>6, <1>7, <1>8, FirstInScheduleIs
  <1> HIDE DEF e
  <1>10. /\ e.at \in DOMAIN program.code /\ e.kind = 0 /\ e.operand \in Nat
         /\ e.operand \in DOMAIN src[e.at] /\ ~src[e.at][e.operand].renamed
    BY <1>4, <1>5, <1>9
  <1>11. ASSUME NEW k \in DOMAIN src[e.at], ~src[e.at][k].renamed PROVE e.operand <= k
    <2> DEFINE f == [at |-> e.at, kind |-> 0, operand |-> k]
    <2>1. f \in Unrenamed
      BY <1>2, <1>10, <1>11 DEF Unrenamed
    <2>2. f.at = e.at /\ f.kind = e.kind /\ f.operand = k
      BY <1>10
    <2> HIDE DEF f
    <2> QED
      BY <1>9, <2>1, <2>2
  <1> QED
    BY <1>9, <1>10, <1>11 DEF e

\* An operand without a producer is given a register.
LEMMA RenameStartingInv ==
    ASSUME ScheduleInv, RenamingInv, RenameStarting, UNCHANGED <<program, row, slot, begin>>
    PROVE  RenamingInv'
  <1>1. /\ phase = "starting" /\ phase' = phase /\ Unrenamed # {} /\ next <= MaxReg
        /\ next' = next + 1
        /\ UNCHANGED <<dst, work, moves, resolved>>
    BY DEF RenameStarting
  <1>2. Numbered /\ Numbered' /\ ~Moving /\ ~Moving'
    BY <1>1 DEF Numbered, Moving
  <1>3. PICK e \in Unrenamed : e = FirstInSchedule(Unrenamed) /\ e.at \in DOMAIN program.code
    BY <1>1, <1>2, UnrenamedIs
  <1> DEFINE old == src[e.at][e.operand].reg
             operands == [k \in DOMAIN src[e.at] |->
                             IF k >= e.operand /\ src[e.at][k].reg = old /\ ~src[e.at][k].renamed
                             THEN Operand(next, TRUE) ELSE src[e.at][k]]
             expected(c) == IF c.at = e.at /\ c.dependency.reg = old
                            THEN [c EXCEPT !.dependency.reg = next] ELSE c
  <1>4. /\ src' = [src EXCEPT ![e.at] = operands]
        /\ carried' = {expected(c) : c \in carried}
    BY <1>3 DEF RenameStarting
  <1>5. MaxReg \in Nat /\ Register = 0 .. MaxReg /\ next \in 1 .. MaxReg + 1
    BY RegistersAre DEF RenamingInv, RenamingTypes
  <1>6. next \in Register /\ next' \in 1 .. MaxReg + 1 /\ next' - 1 = next
    BY <1>1, <1>5
  <1>7. /\ DOMAIN src = DOMAIN program.code
        /\ \A a \in DOMAIN program.code : DOMAIN src[a] = DOMAIN Code(a).src
    BY <1>2 DEF RenamingInv, Operands
  <1>8. /\ \A x : Code(x)' = Code(x)
        /\ Body' = Body /\ HasLoop(program)' = HasLoop(program)
        /\ \A x : InterloopDependencies(program, x)' = InterloopDependencies(program, x)
    BY ProgramKept
  <1>9. /\ \A x : AllDependencies(x)' = AllDependencies(x)
        /\ \A c, d : CarriedFrom(c, d)' = CarriedFrom(c, d)
    BY <1>8 DEF AllDependencies, Entries, Code, CarriedFrom, FirstOperand
  <1>10. DOMAIN operands = DOMAIN src[e.at]
    OBVIOUS
  <1>11. RenamingTypes'
    <2>1. \A a \in DOMAIN src : \A k \in DOMAIN src[a] :
             src[a][k].reg \in Register /\ src[a][k].renamed \in BOOLEAN
      BY DEF RenamingInv, RenamingTypes
    <2>2. \A k \in DOMAIN operands :
             operands[k].reg \in Register /\ operands[k].renamed \in BOOLEAN
      BY <1>3, <1>6, <1>7, <2>1 DEF Operand
    <2> HIDE DEF operands
    <2>3. \A a \in DOMAIN src' : \A k \in DOMAIN src'[a] :
             src'[a][k].reg \in Register /\ src'[a][k].renamed \in BOOLEAN
      BY <1>3, <1>4, <1>7, <2>1, <2>2
    <2> QED
      BY <1>1, <1>6, <2>3 DEF RenamingInv, RenamingTypes
  <1>12. Results'
    <2>1. \A n \in 1 .. next - 1 : n \in 1 .. next' - 1
      <3>1. next \in Int
        BY <1>5
      <3>2. \A n \in 1 .. next - 1 : n \in 1 .. next
        BY <3>1
      <3> QED
        BY <1>6, <3>2
    <2> QED
      BY <1>1, <1>2, <1>8, <2>1 DEF RenamingInv, Results
  <1>13. Operands'
    <2> HIDE DEF operands
    <2>1. /\ DOMAIN src' = DOMAIN program.code
          /\ \A a \in DOMAIN program.code : DOMAIN src'[a] = DOMAIN Code(a).src
      BY <1>3, <1>4, <1>7, <1>10
    <2> QED
      BY <1>1, <1>2, <1>8, <1>9, <2>1 DEF RenamingInv, Operands
  <1>14. ASSUME NEW c \in CarriedEntry
         PROVE  /\ expected(c) \in CarriedEntry
                /\ expected(c).at = c.at /\ expected(c).operand = c.operand
                /\ expected(c).dependency.producer = c.dependency.producer
                /\ expected(c).dependency.previous = c.dependency.previous
    <2> HIDE DEF old
    <2> QED
      BY <1>6 DEF CarriedEntry
  <1>15. Carries'
    <2>1. /\ carried \subseteq CarriedEntry
          /\ \A c \in carried :
                /\ HasLoop(program) /\ c.at \in Body
                /\ \E d \in InterloopDependencies(program, c.at) : CarriedFrom(c, d)
          /\ \A c, f \in carried : c.at = f.at /\ c.operand = f.operand => c = f
      BY <1>2 DEF RenamingInv, Carries
    <2> HIDE DEF expected
    <2>2. carried' \subseteq CarriedEntry
      BY <1>4, <1>14, <2>1
    <2>3. ASSUME NEW c \in carried'
          PROVE  /\ HasLoop(program) /\ c.at \in Body
                 /\ \E d \in InterloopDependencies(program, c.at) : CarriedFrom(c, d)
      <3>1. PICK f \in carried : c = expected(f)
        BY <1>4
      <3>2. /\ c.at = f.at /\ c.operand = f.operand
            /\ c.dependency.producer = f.dependency.producer
            /\ c.dependency.previous = f.dependency.previous
        BY <1>14, <2>1, <3>1
      <3> QED
        BY <2>1, <3>2 DEF CarriedFrom
    <2>4. ASSUME NEW c \in carried', NEW f \in carried', c.at = f.at, c.operand = f.operand
          PROVE  c = f
      <3>1. PICK x \in carried : c = expected(x)
        BY <1>4
      <3>2. PICK y \in carried : f = expected(y)
        BY <1>4
      <3>3. x = y
        BY <1>14, <2>1, <2>4, <3>1, <3>2
      <3> QED
        BY <3>1, <3>2, <3>3
    <2> QED
      BY <1>2, <1>8, <1>9, <2>2, <2>3, <2>4 DEF Carries
  <1>16. Moves'
    BY <1>1, <1>2 DEF RenamingInv, Moves
  <1> QED
    BY <1>11, <1>12, <1>13, <1>15, <1>16 DEF RenamingInv

\* The carried dependency whose turn it is.
LEMMA CarryIs ==
    ASSUME ScheduleInv, RenamingInv, phase = "moves", carried # {}
    PROVE  \E c \in carried :
              /\ c = FirstInTable(carried) /\ Carry = c.dependency
              /\ HasLoop(program) /\ c.at \in Body /\ c.at \in DOMAIN program.code
              /\ c \in CarriedEntry
              /\ c.dependency.previous \in Body
              /\ c.dependency.previous \in DOMAIN program.code
              /\ \E n \in Register : dst[c.dependency.previous] = {n}
              /\ c.dependency.producer # 0 =>
                    /\ c.dependency.producer \in DOMAIN program.code
                    /\ \E n \in Register : dst[c.dependency.producer] = {n}
              /\ Expected \in Register
  <1>1. Numbered /\ Finished /\ Working /\ Compilable(program)
    BY StateIs DEF Numbered, Finished, Working
  <1>2. /\ carried \subseteq CarriedEntry
        /\ \A c \in carried :
              /\ HasLoop(program) /\ c.at \in Body
              /\ \E d \in InterloopDependencies(program, c.at) : CarriedFrom(c, d)
        /\ \A c, f \in carried : c.at = f.at /\ c.operand = f.operand => c = f
    BY <1>1 DEF RenamingInv, Carries
  <1>3. \A c \in carried : c.at \in Nat /\ c.operand \in Nat
    BY <1>2 DEF CarriedEntry
  <1>4. FirstInTable(carried) \in carried
    BY <1>2, <1>3, FirstInTableIs
  <1> DEFINE c == FirstInTable(carried)
  <1>5. c \in carried /\ Carry = c.dependency
    BY <1>4 DEF Carry
  <1> HIDE DEF c
  <1>6. PICK d \in InterloopDependencies(program, c.at) : CarriedFrom(c, d)
    BY <1>2, <1>5
  <1>7. /\ c.dependency.producer = d.producer /\ c.dependency.previous = d.previous
        /\ HasLoop(program) /\ c.at \in Body /\ c.at \in DOMAIN program.code
    BY <1>2, <1>5, <1>6 DEF CarriedFrom, Body, InBlock
  <1>8. /\ d.producer # 0 => d.producer \in InBlock(program, "BB0")
                                      /\ d.reg \in Code(d.producer).dst
        /\ d.previous \in Body /\ d.reg \in Code(d.previous).dst
    BY <1>1, <1>6, <1>7, ProducersAre
  <1>9. \A x \in DOMAIN program.code : Code(x).dst # {} => \E n \in Register : dst[x] = {n}
    <2>1. \A x \in DOMAIN program.code : Code(x).dst # {} => \E n \in 1 .. next - 1 : dst[x] = {n}
      BY <1>1 DEF RenamingInv, Results
    <2>2. next \in 1 .. MaxReg + 1
      BY DEF RenamingInv, RenamingTypes
    <2>3. 1 .. next - 1 \subseteq Register
      BY <2>2, RegistersAre
    <2> QED
      BY <2>1, <2>3
  <1>10. /\ d.previous \in DOMAIN program.code /\ \E n \in Register : dst[d.previous] = {n}
         /\ d.producer # 0 => d.producer \in DOMAIN program.code
                                 /\ \E n \in Register : dst[d.producer] = {n}
    BY <1>8, <1>9 DEF Body, InBlock
  <1>11. c \in CarriedEntry /\ c.dependency.reg \in Register
    BY <1>2, <1>5 DEF CarriedEntry
  <1>12. Expected \in Register
    BY <1>5, <1>7, <1>10, <1>11 DEF Expected, TheElement
  <1> QED
    BY <1>5, <1>7, <1>8, <1>10, <1>11, <1>12 DEF c

\* The move stands at the end of the loop or in a new bundle behind it.
LEMMA MoveRowIs ==
    ASSUME ScheduleInv, RenamingInv, phase = "moves", carried # {}
    PROVE  /\ MoveRow \in Nat /\ row[Control] \in Nat /\ row[Control] <= MoveRow
           /\ Ready(Carry.previous) <= MoveRow
           /\ MoveRow = row[Control] => FreeALUs(MoveRow) # {}
  <1>1. Finished /\ Working
    BY DEF Finished, Working
  <1>2. PICK c \in carried : /\ Carry = c.dependency /\ HasLoop(program)
                             /\ c.dependency.previous \in DOMAIN program.code
    BY CarryIs
  <1>3. Compilable(program) /\ \A a \in DOMAIN program.code : row[a] \in Nat
    BY <1>1, StateIs, PlaceIs
  <1>4. Control \in DOMAIN program.code /\ row[Control] \in Nat
    BY <1>2, <1>3, AddressesAre
  <1>5. Ready(Carry.previous) \in Int
    BY <1>2, <1>3, ReadyIs
  <1> DEFINE r == Ready(Carry.previous)
             earliest == Greatest({r}, row[Control])
  <1>6. /\ earliest \in Int /\ row[Control] <= earliest /\ r <= earliest
    <2>1. IsFiniteSet({r})
      BY FS_Singleton
    <2>2. {r} \in SUBSET Int /\ row[Control] \in Int
      BY <1>4, <1>5
    <2> HIDE DEF r
    <2> QED
      BY <2>1, <2>2, GreatestIs
  <1>7. MoveRow = IF earliest = row[Control] /\ FreeALUs(earliest) = {} THEN earliest + 1
                  ELSE earliest
    BY DEF MoveRow
  <1> HIDE DEF earliest
  <1> QED
    BY <1>4, <1>5, <1>6, <1>7

\* A move takes a free slot; what it pushes on stays apart from it.
LEMMA InsertMoveInv ==
    ASSUME ScheduleInv, RenamingInv, InsertMove, UNCHANGED <<source, program, todo, slot, begin>>
    PROVE  ScheduleInv' /\ RenamingInv'
  <1> DEFINE added == MoveRow - row[Control]
             free == IF added > 0 THEN {"ALU0", "ALU1"} ELSE FreeALUs(MoveRow)
             move == [row |-> MoveRow, slot |-> IF "ALU0" \in free THEN "ALU0" ELSE "ALU1",
                      from |-> TheElement(dst[Carry.previous]), to |-> Expected]
  <1>1. /\ phase = "moves" /\ phase' = phase /\ carried # {}
        /\ moves' = moves \cup {move}
        /\ row' = [a \in DOMAIN row |-> IF Block(program, a) = "BB2" \/ a = Control
                                        THEN row[a] + added ELSE row[a]]
        /\ size' = size + added
        /\ resolved' = resolved \cup {Expected}
        /\ carried' = carried \ {FirstInTable(carried)}
        /\ UNCHANGED <<dst, src, work, next>>
    BY DEF InsertMove
  <1>2. Numbered /\ Numbered' /\ Moving /\ Moving' /\ Finished /\ Finished' /\ Working
    BY <1>1 DEF Numbered, Moving, Finished, Working
  <1>3. PICK c \in carried :
              /\ Carry = c.dependency /\ HasLoop(program)
              /\ \E n \in Register : dst[c.dependency.previous] = {n}
              /\ Expected \in Register
    BY <1>1, CarryIs
  <1>4. /\ MoveRow \in Nat /\ row[Control] \in Nat /\ row[Control] <= MoveRow
        /\ MoveRow = row[Control] => FreeALUs(MoveRow) # {}
    BY <1>1, MoveRowIs
  <1>5. added \in Nat /\ MoveRow = row[Control] + added
    BY <1>4
  <1>6. /\ Compilable(program) /\ DOMAIN row = DOMAIN program.code /\ begin \in Nat
        /\ \A a \in DOMAIN program.code : row[a] \in Nat
    BY <1>2, StateIs, PlaceIs
  <1>7. move.slot \in {"ALU0", "ALU1"} /\ move.slot \in free
    <2>1. added = 0 => MoveRow = row[Control]
      BY <1>4
    <2>2. added = 0 \/ added > 0
      BY <1>5
    <2>3. free # {} /\ free \subseteq {"ALU0", "ALU1"}
      BY <1>4, <2>1, <2>2 DEF FreeALUs
    <2> HIDE DEF free
    <2> QED
      BY <2>3
  <1>8. move.row = MoveRow /\ move.from \in Register /\ move.to \in Register
    BY <1>3 DEF TheElement
  <1> HIDE DEF move, added
  <1>9. ScheduleInv'
    BY <1>1, <1>2, <1>3, <1>5, ShiftInv
  <1>10. /\ \A x : Code(x)' = Code(x)
         /\ Body' = Body /\ Control' = Control /\ HasLoop(program)' = HasLoop(program)
         /\ \A x : InterloopDependencies(program, x)' = InterloopDependencies(program, x)
    BY ProgramKept
  <1>11. /\ \A x : AllDependencies(x)' = AllDependencies(x)
         /\ \A d, f : CarriedFrom(d, f)' = CarriedFrom(d, f)
    BY <1>10 DEF AllDependencies, Entries, Code, CarriedFrom, FirstOperand
  <1>12. RenamingTypes'
    <2>1. move.row \in Nat /\ move.slot \in Slot
      BY <1>4, <1>7, <1>8 DEF Slot
    <2> QED
      BY <1>1, <1>3, <1>8, <2>1 DEF RenamingInv, RenamingTypes
  <1>13. Results' /\ Operands' /\ Carries'
    BY <1>1, <1>2, <1>10, <1>11 DEF RenamingInv, Results, Operands, Carries
  <1>14. Moves'
    <2>1. /\ IsFiniteSet(moves)
          /\ \A m \in moves :
                /\ begin <= m.row /\ m.row <= row[Control]
                /\ m.slot \in {"ALU0", "ALU1"}
                /\ \A a \in Body : row[a] <= m.row
                /\ \A a \in DOMAIN program.code : row[a] = m.row => slot[a] # m.slot
          /\ \A m, n \in moves : m.row = n.row /\ m.slot = n.slot => m = n
          /\ \A m \in moves : m.row \in Nat
      BY <1>2 DEF RenamingInv, Moves, RenamingTypes
    <2>2. /\ begin <= row[Control]
          /\ \A a \in InBlock(program, "BB0") : row[a] < begin
          /\ \A a \in Body : begin <= row[a] /\ row[a] <= row[Control]
          /\ \A a \in InBlock(program, "BB2") : row[Control] < row[a]
      BY <1>2, <1>3 DEF ScheduleInv, Layout, LoopPlaced, Finished
    <2>3. /\ Control \in DOMAIN program.code /\ Control \notin InBlock(program, "BB2")
          /\ Block(program, Control) = "BB1"
          /\ \A a \in Body : a \in DOMAIN program.code /\ a # Control
                               /\ Block(program, a) = "BB1"
          /\ \A a \in DOMAIN program.code :
                \/ a \in InBlock(program, "BB0") /\ Block(program, a) = "BB0" /\ a # Control
                \/ a \in Body /\ Block(program, a) = "BB1" /\ a # Control
                \/ a = Control
                \/ a \in InBlock(program, "BB2") /\ Block(program, a) = "BB2" /\ a # Control
      BY <1>3, <1>6, AddressesAre
    <2>4. /\ row'[Control] = MoveRow
          /\ \A a \in DOMAIN program.code :
                /\ a \in InBlock(program, "BB2") => row'[a] = row[a] + added
                /\ a \in Body \/ a \in InBlock(program, "BB0") => row'[a] = row[a]
      <3>1. \A a \in DOMAIN program.code : a \in InBlock(program, "BB2") => Block(program, a) = "BB2"
        BY DEF InBlock
      <3>2. \A a \in DOMAIN program.code : a \in InBlock(program, "BB0") =>
               Block(program, a) = "BB0" /\ a # Control
        BY <2>3 DEF InBlock, Body
      <3> QED
        BY <1>1, <1>5, <1>6, <2>3, <3>1, <3>2
    <2>5. slot[Control] = "Branch"
      <3>1. SlotFits(Code(Control).unit, slot[Control])
        BY <1>2, <2>3, StateIs DEF ScheduleInv, SlotsApart, Progress
      <3>2. Code(Control).unit = "Branch"
        BY <1>3, <1>6, AddressesAre DEF Loop
      <3> QED
        BY <3>1, <3>2 DEF SlotFits
    <2>6. ASSUME NEW a \in DOMAIN program.code
          PROVE  /\ a \in Body => row'[a] <= MoveRow
                 /\ row'[a] = MoveRow => slot[a] # move.slot
                 /\ \A m \in moves : row'[a] = m.row => slot[a] # m.slot
      <3>1. CASE a = Control
        BY <1>7, <2>1, <2>3, <2>5, <3>1
      <3>2. CASE a \in InBlock(program, "BB2")
        <4>1. row'[a] = row[a] + added /\ row[a] \in Nat /\ row[Control] < row[a]
          BY <1>6, <2>2, <2>4, <3>2
        <4>2. MoveRow < row'[a] /\ row[Control] < row'[a]
          BY <1>4, <1>5, <4>1
        <4>3. \A m \in moves : m.row < row'[a]
          BY <1>4, <1>5, <2>1, <4>1, <4>2
        <4>4. row'[a] \in Nat
          BY <1>5, <4>1
        <4>5. a \notin Body
          BY <2>3, <3>2 DEF InBlock
        <4> QED
          BY <1>4, <2>1, <4>2, <4>3, <4>4, <4>5
      <3>3. CASE a \in Body \/ a \in InBlock(program, "BB0")
        <4>1. row'[a] = row[a] /\ row[a] \in Nat /\ row[a] <= row[Control]
          BY <1>4, <1>6, <2>2, <2>4, <3>3
        <4>2. row'[a] <= MoveRow
          BY <1>4, <4>1
        <4>3. ASSUME row'[a] = MoveRow PROVE slot[a] # move.slot
          <5>1. row[a] = MoveRow /\ added = 0
            BY <1>4, <4>1, <4>3 DEF added
          <5>2. move.slot \in FreeALUs(MoveRow)
            BY <1>7, <5>1
          <5> QED
            BY <1>6, <5>1, <5>2 DEF FreeALUs
        <4>4. \A m \in moves : row'[a] = m.row => slot[a] # m.slot
          BY <2>1, <4>1
        <4> QED
          BY <4>2, <4>3, <4>4
      <3> QED
        BY <2>3, <3>1, <3>2, <3>3
    <2>7. ASSUME NEW m \in moves
          PROVE  m.row <= MoveRow /\ (m.row = MoveRow => m.slot # move.slot)
      <3>1. m.row \in Nat /\ m.row <= row[Control]
        BY <2>1
      <3>2. m.row <= MoveRow
        BY <1>4, <3>1
      <3>3. ASSUME m.row = MoveRow PROVE m.slot # move.slot
        <4>1. added = 0
          BY <1>4, <3>1, <3>3 DEF added
        <4>2. move.slot \in FreeALUs(MoveRow)
          BY <1>7, <4>1
        <4> QED
          BY <3>3, <4>2 DEF FreeALUs
      <3> QED
        BY <3>2, <3>3
    <2>8. begin <= MoveRow
      BY <1>4, <1>6, <2>2
    <2>9. IsFiniteSet(moves')
      BY <1>1, <2>1, FS_AddElement
    <2>10. ASSUME NEW m \in moves'
           PROVE  /\ begin <= m.row /\ m.row <= row'[Control]
                  /\ m.slot \in {"ALU0", "ALU1"}
                  /\ \A a \in Body : row'[a] <= m.row
                  /\ \A a \in DOMAIN program.code : row'[a] = m.row => slot[a] # m.slot
      <3>1. CASE m = move
        BY <1>4, <1>7, <1>8, <2>3, <2>4, <2>6, <2>8, <3>1
      <3>2. CASE m \in moves
        BY <2>1, <2>3, <2>4, <2>6, <2>7, <3>2
      <3> QED
        BY <1>1, <3>1, <3>2
    <2>11. \A m, n \in moves' : m.row = n.row /\ m.slot = n.slot => m = n
      BY <1>1, <1>8, <2>1, <2>7
    <2> QED
      BY <1>2, <1>3, <1>10, <2>9, <2>10, <2>11 DEF Moves
  <1> QED
    BY <1>9, <1>12, <1>13, <1>14 DEF RenamingInv

\* A dependency that needs no move is dropped.
LEMMA SkipMoveInv ==
    ASSUME RenamingInv, SkipMove, UNCHANGED <<program, row, slot, begin>>
    PROVE  RenamingInv'
  <1>1. /\ phase = "moves" /\ phase' = phase
        /\ carried' = carried \ {FirstInTable(carried)}
        /\ UNCHANGED <<dst, src, work, next, moves, resolved>>
    BY DEF SkipMove
  <1>2. Numbered /\ Numbered' /\ Moving /\ Moving'
    BY <1>1 DEF Numbered, Moving
  <1>3. /\ \A x : Code(x)' = Code(x)
        /\ Body' = Body /\ Control' = Control /\ HasLoop(program)' = HasLoop(program)
        /\ \A x : InterloopDependencies(program, x)' = InterloopDependencies(program, x)
    BY ProgramKept
  <1>4. /\ \A x : AllDependencies(x)' = AllDependencies(x)
        /\ \A d, f : CarriedFrom(d, f)' = CarriedFrom(d, f)
    BY <1>3 DEF AllDependencies, Entries, Code, CarriedFrom, FirstOperand
  <1>5. RenamingTypes' /\ Results' /\ Operands' /\ Carries'
    BY <1>1, <1>2, <1>3, <1>4 DEF RenamingInv, RenamingTypes, Results, Operands, Carries
  <1>6. Moves'
    BY <1>1, <1>2, <1>3 DEF RenamingInv, Moves
  <1> QED
    BY <1>5, <1>6 DEF RenamingInv

-----------------------------------------------------------------------------
(* The compiler's invariant *)

\* The schedule's part and the renaming's.
CompilerInv == ScheduleInv /\ RenamingInv

\* It holds of every source.
LEMMA CompilerStarts ==
    ASSUME Init
    PROVE  CompilerInv
  <1>1. /\ source \in Sources /\ program = [code |-> <<>>, start |-> 0]
        /\ phase = "source" /\ todo = {} /\ row = <<>> /\ slot = <<>>
        /\ size = 0 /\ begin = 0
        /\ dst = <<>> /\ src = <<>> /\ work = {} /\ carried = {} /\ next = 1
        /\ moves = {} /\ resolved = {}
    BY DEF Init, SchedulerInit, RenamingInit
  <1>2. ~Working /\ ~Finished /\ ~LoopPlaced /\ ~Numbered /\ ~Moving
    BY <1>1 DEF Working, Placing, Finished, LoopPlaced, Numbered, Moving
  <1>3. /\ program \in Program /\ program.code = <<>> /\ DOMAIN program.code = {}
        /\ row \in [DOMAIN program.code -> Nat \cup {None}]
        /\ slot \in [DOMAIN program.code -> Slot]
    BY <1>1 DEF Program
  <1>4. ScheduleTypes
    BY <1>1, <1>3 DEF ScheduleTypes
  <1>5. Progress /\ SlotsApart /\ Layout /\ OperandsTimed
    BY <1>1, <1>2 DEF Progress, SlotsApart, Layout, OperandsTimed
  <1>6. RenamingTypes
    <2>1. next \in 1 .. MaxReg + 1
      BY <1>1, RegistersAre
    <2> QED
      BY <1>1, <2>1 DEF RenamingTypes
  <1>7. Results /\ Operands /\ Carries
    BY <1>2 DEF Results, Operands, Carries
  <1>8. Moves
    BY <1>1, <1>2, FS_EmptySet DEF Moves
  <1> QED
    BY <1>4, <1>5, <1>6, <1>7, <1>8 DEF CompilerInv, ScheduleInv, RenamingInv

\* The scheduler keeps it.
LEMMA ScheduleStep ==
    ASSUME CompilerInv, ScheduleNext, UNCHANGED renamingVars
    PROVE  CompilerInv'
  <1>1. ScheduleInv /\ RenamingInv
    BY DEF CompilerInv
  <1>2. ScheduleInv'
    <2>1. CASE Parse
      BY <1>1, <2>1, ParseInv
    <2>2. CASE ParseError
      BY <1>1, <2>2, FailedInv DEF ParseError
    <2>3. CASE PlaceInstruction
      BY <1>1, <2>3, PlaceInstructionInv
    <2>4. CASE FinishBB0
      BY <1>1, <2>4, FinishBB0Inv
    <2>5. CASE FinishStraightLine
      BY <1>1, <2>5, FinishStraightLineInv
    <2>6. CASE FinishBB1
      BY <1>1, <2>6, FinishBB1Inv
    <2>7. CASE NothingBeforeLoop
      BY <1>1, <2>7, NothingBeforeLoopInv
    <2>8. CASE FinishBB2
      BY <1>1, <2>8, FinishBB2Inv
    <2> QED
      BY <2>1, <2>2, <2>3, <2>4, <2>5, <2>6, <2>7, <2>8 DEF ScheduleNext
  <1>3. ~Moving /\ ~Numbered'
    BY DEF ScheduleNext, Parse, ParseError, PlaceInstruction, FinishBB0, FinishStraightLine,
           FinishBB1, NothingBeforeLoop, FinishBB2, Moving, Numbered
  <1>4. RenamingInv'
    BY <1>1, <1>3, UnnumberedInv
  <1> QED
    BY <1>2, <1>4 DEF CompilerInv

\* So do the passes of the renaming.
LEMMA RenameStep ==
    ASSUME CompilerInv, RenameNext
    PROVE  CompilerInv'
  <1>1. /\ ScheduleInv /\ RenamingInv
        /\ UNCHANGED <<source, program, todo, slot, begin>>
    BY DEF CompilerInv, RenameNext
  <1>2. CASE InsertMove
    BY <1>1, <1>2, InsertMoveInv DEF CompilerInv
  <1>3. CASE SkipMove
    <2>1. /\ UNCHANGED <<row, size>> /\ phase' = phase /\ phase = "moves"
      BY <1>3 DEF SkipMove
    <2>2. RenamingInv'
      BY <1>1, <1>3, <2>1, SkipMoveInv
    <2>3. ScheduleInv'
      BY <1>1, <2>1, FinishedInv DEF Finished
    <2> QED
      BY <2>2, <2>3 DEF CompilerInv
  <1>4. ASSUME ~InsertMove, ~SkipMove PROVE CompilerInv'
    <2>1. /\ UNCHANGED <<row, size>>
          /\ \/ RenameProduced \/ TooManyResults \/ RenameOperand \/ OperandsDone
             \/ RenameStarting \/ TooManyRegisters \/ StartingDone \/ MovesDone
      BY <1>4 DEF RenameNext
    <2>2. CASE RenameProduced
      <3>1. phase = "scheduled" /\ phase' = "operands"
        BY <2>2 DEF RenameProduced
      <3>2. ScheduleInv'
        BY <1>1, <2>1, <3>1, FinishedInv DEF Finished
      <3> QED
        BY <1>1, <2>1, <2>2, <3>2, RenameProducedInv DEF CompilerInv
    <2>3. CASE TooManyResults \/ TooManyRegisters
      <3>1. /\ phase \in {"scheduled", "starting"} /\ phase' = "failed"
            /\ UNCHANGED renamingVars
        BY <2>3 DEF TooManyResults, TooManyRegisters
      <3>2. ~Moving /\ ~Numbered'
        BY <3>1 DEF Moving, Numbered
      <3>3. ScheduleInv'
        BY <1>1, <2>1, <3>1, FailedInv
      <3> QED
        BY <1>1, <3>1, <3>2, <3>3, UnnumberedInv DEF CompilerInv
    <2>4. CASE RenameOperand
      <3>1. phase = "operands" /\ phase' = phase
        BY <2>4 DEF RenameOperand
      <3>2. ScheduleInv'
        BY <1>1, <2>1, <3>1, FinishedInv DEF Finished
      <3> QED
        BY <1>1, <2>1, <2>4, <3>2, RenameOperandInv DEF CompilerInv
    <2>5. CASE RenameStarting
      <3>1. phase = "starting" /\ phase' = phase
        BY <2>5 DEF RenameStarting
      <3>2. ScheduleInv'
        BY <1>1, <2>1, <3>1, FinishedInv DEF Finished
      <3> QED
        BY <1>1, <2>1, <2>5, <3>2, RenameStartingInv DEF CompilerInv
    <2>6. CASE OperandsDone \/ StartingDone \/ MovesDone
      <3>1. /\ UNCHANGED renamingVars
            /\ \/ phase = "operands" /\ phase' = "starting"
               \/ phase = "starting" /\ phase' = "moves"
               \/ phase = "moves" /\ phase' = "renamed"
        BY <2>6 DEF OperandsDone, StartingDone, MovesDone
      <3>2. Numbered /\ Numbered' /\ (Moving => Moving') /\ Finished /\ Finished'
        BY <3>1 DEF Numbered, Moving, Finished
      <3>3. ScheduleInv'
        BY <1>1, <2>1, <3>2, FinishedInv
      <3>4. RenamingInv'
        BY <1>1, <2>1, <3>1, <3>2, PassDone
      <3> QED
        BY <3>3, <3>4 DEF CompilerInv
    <2> QED
      BY <2>1, <2>2, <2>3, <2>4, <2>5, <2>6
  <1> QED
    BY <1>2, <1>3, <1>4

\* What changes nothing of the compiler.
LEMMA CompilerKept ==
    ASSUME CompilerInv, UNCHANGED schedulerVars, UNCHANGED renamingVars
    PROVE  CompilerInv'
  <1>1. /\ UNCHANGED <<source, program, phase, todo, row, slot, size, begin>>
        /\ UNCHANGED <<dst, src, work, carried, next, moves, resolved>>
    BY DEF schedulerVars, renamingVars
  <1>2. /\ \A x : Code(x)' = Code(x)
        /\ Body' = Body /\ Control' = Control /\ HasLoop(program)' = HasLoop(program)
        /\ EnteringLoop' = EnteringLoop /\ AllPlaced' = AllPlaced
        /\ \A x : InterloopDependencies(program, x)' = InterloopDependencies(program, x)
    BY <1>1, ProgramKept DEF AllPlaced, Placed
  <1>3. /\ \A x : AllDependencies(x)' = AllDependencies(x)
        /\ \A d, f : CarriedFrom(d, f)' = CarriedFrom(d, f)
        /\ \A x : Ready(x)' = Ready(x)
    BY <1>1, <1>2 DEF AllDependencies, Entries, Code, CarriedFrom, FirstOperand, Ready
  <1>4. /\ Working' = Working /\ Placing' = Placing /\ Finished' = Finished
        /\ LoopPlaced' = LoopPlaced /\ Numbered' = Numbered /\ Moving' = Moving
    BY <1>1 DEF Working, Placing, Finished, LoopPlaced, Numbered, Moving
  <1>5. ScheduleTypes' /\ Progress' /\ SlotsApart' /\ Layout'
    BY <1>1, <1>2, <1>4
       DEF CompilerInv, ScheduleInv, ScheduleTypes, Progress, SlotsApart, Layout
  <1>6. OperandsTimed'
    BY <1>1, <1>2, <1>3, <1>4 DEF CompilerInv, ScheduleInv, OperandsTimed
  <1>7. RenamingTypes' /\ Results' /\ Operands'
    BY <1>1, <1>2, <1>3, <1>4 DEF CompilerInv, RenamingInv, RenamingTypes, Results, Operands
  <1>8. Carries' /\ Moves'
    BY <1>1, <1>2, <1>3, <1>4 DEF CompilerInv, RenamingInv, Carries, Moves
  <1> QED
    BY <1>5, <1>6, <1>7, <1>8 DEF CompilerInv, ScheduleInv, RenamingInv

\* The machine leaves the compiler's tables alone.
LEMMA CompilerStep ==
    ASSUME CompilerInv, [Next]_vars
    PROVE  CompilerInv'
  <1>1. CASE Schedule
    BY <1>1, ScheduleStep DEF Schedule
  <1>2. CASE Rename
    BY <1>2, RenameStep DEF Rename
  <1>3. CASE Load
    <2>1. /\ phase = "renamed" /\ phase' = "running" /\ UNCHANGED renamingVars
          /\ UNCHANGED <<source, program, todo, row, slot, size, begin>>
      BY <1>3 DEF Load
    <2>2. Numbered /\ Numbered' /\ (Moving => Moving') /\ Finished /\ Finished'
      BY <2>1 DEF Numbered, Moving, Finished
    <2>3. ScheduleInv'
      BY <2>1, <2>2, FinishedInv DEF CompilerInv
    <2>4. RenamingInv'
      BY <2>1, <2>2, PassDone DEF CompilerInv
    <2> QED
      BY <2>3, <2>4 DEF CompilerInv
  <1>4. CASE Run
    BY <1>4, CompilerKept DEF Run
  <1>5. CASE UNCHANGED vars
    BY <1>5, CompilerKept DEF vars
  <1> QED
    BY <1>1, <1>2, <1>3, <1>4, <1>5 DEF Next

\* In every state of the compiler, its tables are right.
THEOREM Compiles == Spec => []CompilerInv
  <1>1. Init => CompilerInv
    BY CompilerStarts
  <1>2. CompilerInv /\ [Next]_vars => CompilerInv'
    BY CompilerStep
  <1> QED
    BY <1>1, <1>2, PTL DEF Spec

-----------------------------------------------------------------------------
(* What reaches the machine *)

\* A set has as many elements as a function on it has values that tell them apart.
LEMMA SameSize ==
    ASSUME NEW S, IsFiniteSet(S), NEW f, DOMAIN f = S,
           \A x, y \in S : f[x] = f[y] => x = y
    PROVE  /\ IsFiniteSet({f[x] : x \in S})
           /\ Cardinality({f[x] : x \in S}) = Cardinality(S)
  <1> DEFINE T == {f[x] : x \in S}
             g == [x \in S |-> f[x]]
  <1>1. g \in [S -> T] /\ \A x \in S : g[x] = f[x]
    OBVIOUS
  <1>2. g \in Injection(S, T)
    BY <1>1 DEF Injection, IsInjective
  <1>3. g \in Surjection(S, T)
    BY <1>1 DEF Surjection
  <1>4. g \in Bijection(S, T)
    BY <1>2, <1>3 DEF Bijection
  <1> HIDE DEF g, T
  <1>5. ExistsBijection(S, T)
    BY <1>4 DEF ExistsBijection
  <1>6. IsFiniteSet(T) /\ Cardinality(T) = Cardinality(S)
    BY <1>5, FS_Bijection
  <1> QED
    BY <1>6 DEF T

\* When renaming is done, no slot of a bundle is taken twice.
LEMMA AllReachTheMachine ==
    ASSUME CompilerInv
    PROVE  NothingLost
  <1> SUFFICES ASSUME phase = "renamed"
               PROVE  /\ Placed(DOMAIN row) = DOMAIN program.code
                      /\ \A a \in DOMAIN row : row[a] < size
                      /\ Cardinality({<<row[a], slot[a]>> : a \in DOMAIN row}
                                        \cup {<<m.row, m.slot>> : m \in moves})
                            = Len(program.code) + Cardinality(moves)
    BY DEF NothingLost
  <1>1. ScheduleInv /\ RenamingInv /\ Finished /\ Moving /\ Working
    BY DEF CompilerInv, Finished, Moving, Working
  <1>2. /\ Compilable(program) /\ DOMAIN row = DOMAIN program.code /\ size \in Nat
        /\ AllPlaced = DOMAIN program.code
    BY <1>1, StateIs DEF ScheduleInv, Progress
  <1>3. Len(program.code) \in Nat /\ DOMAIN program.code = 1 .. Len(program.code)
    BY <1>2 DEF Compilable, Program
  <1>4. IsFiniteSet(DOMAIN row) /\ Cardinality(DOMAIN row) = Len(program.code)
    <2>1. 1 \in Int /\ Len(program.code) \in Int
      BY <1>3
    <2>2. /\ IsFiniteSet(1 .. Len(program.code))
          /\ Cardinality(1 .. Len(program.code))
                = IF 1 > Len(program.code) THEN 0 ELSE (Len(program.code) - 1) + 1
      BY <2>1, FS_Interval
    <2> QED
      BY <1>2, <1>3, <2>2
  <1> DEFINE f == [a \in DOMAIN row |-> <<row[a], slot[a]>>]
             g == [m \in moves |-> <<m.row, m.slot>>]
             A == {f[a] : a \in DOMAIN row}
             B == {g[m] : m \in moves}
  <1>5. /\ {<<row[a], slot[a]>> : a \in DOMAIN row} = A
        /\ {<<m.row, m.slot>> : m \in moves} = B
    OBVIOUS
  <1>6. IsFiniteSet(A) /\ Cardinality(A) = Len(program.code)
    <2>1. DOMAIN f = DOMAIN row /\ \A a, b \in DOMAIN row : f[a] = f[b] => a = b
      BY <1>1, <1>2, PlacesApart
    <2> HIDE DEF f
    <2> QED
      BY <1>4, <2>1, SameSize
  <1>7. IsFiniteSet(B) /\ Cardinality(B) = Cardinality(moves)
    <2>1. IsFiniteSet(moves)
      BY <1>1 DEF RenamingInv, Moves
    <2>2. DOMAIN g = moves /\ \A m, n \in moves : g[m] = g[n] => m = n
      BY <1>1 DEF RenamingInv, Moves
    <2> HIDE DEF g
    <2> QED
      BY <2>1, <2>2, SameSize
  <1>8. A \cap B = {}
    <2>1. \A m \in moves : \A a \in DOMAIN program.code : row[a] = m.row => slot[a] # m.slot
      BY <1>1 DEF RenamingInv, Moves
    <2> SUFFICES ASSUME NEW x \in A, x \in B PROVE FALSE
      OBVIOUS
    <2>2. PICK a \in DOMAIN row : x = <<row[a], slot[a]>>
      OBVIOUS
    <2>3. PICK m \in moves : x = <<m.row, m.slot>>
      OBVIOUS
    <2> QED
      BY <1>2, <2>1, <2>2, <2>3
  <1>9. Cardinality(A \cup B) = Len(program.code) + Cardinality(moves)
    <2> HIDE DEF A, B
    <2>1. Cardinality(A \cup B) = Cardinality(A) + Cardinality(B) - Cardinality(A \cap B)
      <3>1. IsFiniteSet(A) /\ IsFiniteSet(B)
        BY <1>6, <1>7
      <3> QED
        BY <3>1, FS_Union
    <2>2. Cardinality(A \cap B) = 0
      BY <1>8, FS_EmptySet
    <2>3. Cardinality(B) \in Nat
      BY <1>7, FS_CardinalityType
    <2> QED
      BY <1>3, <1>6, <1>7, <2>1, <2>2, <2>3
  <1>10. \A a \in DOMAIN row : row[a] < size
    <2>1. CASE HasLoop(program)
      <3>1. /\ row[Control] < size
            /\ \A a \in InBlock(program, "BB0") : row[a] < begin
            /\ \A a \in Body : row[a] <= row[Control]
            /\ \A a \in InBlock(program, "BB2") : row[a] < size
            /\ begin <= row[Control] /\ begin \in Nat
        BY <1>1, <2>1 DEF ScheduleInv, ScheduleTypes, Layout, LoopPlaced
      <3>2. /\ Control \in DOMAIN program.code
            /\ \A a \in DOMAIN program.code :
                  a \in InBlock(program, "BB0") \/ a \in Body \/ a = Control
                     \/ a \in InBlock(program, "BB2")
        BY <1>2, <2>1, AddressesAre
      <3>3. \A a \in DOMAIN program.code : row[a] \in Nat
        BY <1>1, PlaceIs
      <3>4. ASSUME NEW a \in DOMAIN program.code PROVE row[a] < size
        <4>1. row[a] \in Nat /\ row[Control] \in Nat
          BY <3>2, <3>3
        <4>2. a \in InBlock(program, "BB0") => row[a] < size
          BY <1>2, <3>1, <4>1
        <4>3. a \in Body => row[a] < size
          BY <1>2, <3>1, <4>1
        <4> QED
          BY <3>1, <3>2, <4>2, <4>3
      <3> QED
        BY <1>2, <3>4
    <2>2. CASE ~HasLoop(program)
      BY <1>1, <1>2, <2>2 DEF ScheduleInv, Layout
    <2> QED
      BY <2>1, <2>2
  <1> HIDE DEF A, B
  <1> QED
    BY <1>2, <1>5, <1>9, <1>10 DEF AllPlaced

\* Every instruction and every move has a slot of its own in the bundles that are
\* written.
THEOREM NothingIsLost == Spec => []NothingLost
  <1>1. CompilerInv => NothingLost
    BY AllReachTheMachine
  <1> QED
    BY <1>1, Compiles, PTL

=============================================================================
