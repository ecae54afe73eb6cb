------------------------- MODULE VLIWProgramProofs -------------------------
(***************************************************************************)
(* What the frontend and the middle end of the VLIW470 compiler compute,   *)
(* for every program: the operators of VLIWProgram mean what the passes    *)
(* that use them expect, and the dependency analysis finds for every       *)
(* operand of every instance the instance that a sequential run reads.     *)
(***************************************************************************)
EXTENDS VLIWProgram, FiniteSetTheorems, TLAPS

-----------------------------------------------------------------------------
(* Greatest and least elements *)

\* A counterexample to a greatest element has no smallest one.
LEMMA MaxExists ==
    ASSUME NEW S \in SUBSET Int, IsFiniteSet(S), S # {}
    PROVE  \E x \in S : \A y \in S : y <= x
  <1> DEFINE Bad == {T \in SUBSET S : T # {} /\ ~\E x \in T : \A y \in T : y <= x}
  <1> SUFFICES ASSUME Bad # {} PROVE FALSE
    OBVIOUS
  <1>1. IsWellFoundedOn(StrictSubsetOrdering(S), FiniteSubsetsOf(S))
    BY FS_StrictSubsetOrderingWellFounded
  <1>2. FiniteSubsetsOf(S) = SUBSET S
    BY FS_FiniteSubsetsOfFinite
  <1>3. PICK T \in Bad : \A U \in Bad : <<U, T>> \notin StrictSubsetOrdering(S)
    <2>1. Bad \subseteq FiniteSubsetsOf(S)
      BY <1>2
    <2> HIDE DEF Bad
    <2> QED
      BY <1>1, <2>1, WFMin
  <1>4. T \in SUBSET S /\ T # {} /\ ~\E x \in T : \A y \in T : y <= x
    OBVIOUS
  <1>5. PICK x \in T : TRUE
    BY <1>4
  <1> DEFINE U == T \ {x}
  <1>6. U \notin Bad
    <2>1. U \in SUBSET S /\ U \subseteq T /\ U # T
      BY <1>4, <1>5
    <2> QED
      BY <1>3, <1>4, <2>1 DEF StrictSubsetOrdering
  <1>7. CASE U = {}
    <2>1. T = {x}
      BY <1>5, <1>7
    <2> QED
      BY <1>4, <1>5, <2>1
  <1>8. CASE U # {}
    <2>1. PICK z \in U : \A y \in U : y <= z
      BY <1>4, <1>6, <1>8
    <2>2. x \in Int /\ z \in Int /\ z \in T /\ \A y \in T : y \in Int
      BY <1>4, <1>5, <2>1
    <2>3. CASE x <= z
      <3>1. \A y \in T : y <= z
        BY <2>1, <2>3
      <3> QED
        BY <1>4, <2>2, <3>1
    <2>4. CASE z <= x
      <3>1. \A y \in T : y <= x
        BY <2>1, <2>2, <2>4
      <3> QED
        BY <1>4, <1>5, <3>1
    <2> QED
      BY <2>2, <2>3, <2>4
  <1> QED
    BY <1>7, <1>8

\* A set of naturals has a least element, whether it is finite or not.
LEMMA MinExists ==
    ASSUME NEW S \in SUBSET Nat, S # {}
    PROVE  \E x \in S : \A y \in S : x <= y
  <1>1. PICK x \in S : \A y \in S : <<y, x>> \notin OpToRel(<, Nat)
    BY NatLessThanWellFounded, WFMin
  <1>2. \A y \in S : ~(y < x)
    BY <1>1 DEF OpToRel
  <1>3. \A y \in S : x <= y
    BY <1>2
  <1> QED
    BY <1>3

\* The greatest element of a finite set of integers.
LEMMA LargestIs ==
    ASSUME NEW S \in SUBSET Int, IsFiniteSet(S), S # {}
    PROVE  Largest(S) \in S /\ \A y \in S : y <= Largest(S)
  BY MaxExists DEF Largest

\* The least address of what is left to place.
LEMMA SmallestIs ==
    ASSUME NEW S \in SUBSET Nat, S # {}
    PROVE  Smallest(S) \in S /\ \A y \in S : Smallest(S) <= y
  BY MinExists DEF Smallest

\* The greatest of some bounds and a least one bounds them all.
LEMMA GreatestIs ==
    ASSUME NEW S \in SUBSET Int, IsFiniteSet(S), NEW least \in Int
    PROVE  /\ Greatest(S, least) \in S \cup {least}
           /\ Greatest(S, least) \in Int
           /\ least <= Greatest(S, least)
           /\ \A y \in S : y <= Greatest(S, least)
  <1>1. IsFiniteSet(S \cup {least}) /\ S \cup {least} \in SUBSET Int /\ S \cup {least} # {}
    BY FS_AddElement
  <1> QED
    BY <1>1, LargestIs DEF Greatest

\* The values of a function on a finite set are finitely many.
LEMMA FiniteImage ==
    ASSUME NEW S, IsFiniteSet(S), NEW f
    PROVE  IsFiniteSet({f[x] : x \in S})
  <1> DEFINE T == {f[x] : x \in S}
             g == [x \in S |-> f[x]]
  <1>1. g \in Surjection(S, T)
    BY DEF Surjection
  <1> HIDE DEF g, T
  <1>2. IsFiniteSet(T)
    BY <1>1, FS_Surjection
  <1> QED
    BY <1>2 DEF T

-----------------------------------------------------------------------------
(* Intervals and offsets *)

\* One more on the right is one more i.
LEMMA StepUp ==
    ASSUME NEW i \in Nat, NEW u \in Int, NEW v \in Int, u < v
    PROVE  (i * u) + i <= i * v
  <1>1. PICK k \in Nat : v = u + 1 + k
    <2>1. v - u - 1 \in Nat /\ v = u + 1 + (v - u - 1)
      OBVIOUS
    <2> QED
      BY <2>1
  <1>2. i * v = (i * u) + i + (i * k)
    BY <1>1
  <1>3. i * k >= 0 /\ i * k \in Int /\ i * u \in Int
    BY <1>1
  <1> QED
    BY <1>2, <1>3

\* Division leaves a quotient and an offset.
LEMMA DivMod ==
    ASSUME NEW i \in Nat \ {0}, NEW r \in Nat
    PROVE  \E q \in Nat, m \in 0 .. i - 1 : r = (i * q) + m /\ r % i = m /\ r \div i = q
  <1>1. /\ r \div i \in Nat /\ r % i \in 0 .. i - 1
        /\ r = (i * (r \div i)) + (r % i)
    OBVIOUS
  <1> QED
    BY <1>1

\* Quotient and offset are unique.
LEMMA QuotientUnique ==
    ASSUME NEW i \in Nat \ {0}, NEW u \in Int, NEW v \in Int,
           NEW m \in 0 .. i - 1, NEW o \in 0 .. i - 1, (i * u) + m = (i * v) + o
    PROVE  u = v /\ m = o
  <1>1. PICK x \in Int : x = i * u
    OBVIOUS
  <1>2. PICK y \in Int : y = i * v
    OBVIOUS
  <1>3. ~(u < v)
    <2>1. u < v => x + i <= y
      BY <1>1, <1>2, StepUp
    <2> QED
      BY <1>1, <1>2, <2>1
  <1>4. ~(v < u)
    <2>1. v < u => y + i <= x
      BY <1>1, <1>2, StepUp
    <2> QED
      BY <1>1, <1>2, <2>1
  <1> QED
    BY <1>3, <1>4

\* Numbers that agree after whole intervals have the same offset.
LEMMA SameOffset ==
    ASSUME NEW i \in Nat \ {0}, NEW r \in Nat, NEW s \in Nat, NEW j \in Nat, NEW k \in Nat,
           r + (i * j) = s + (i * k)
    PROVE  r % i = s % i
  <1>1. PICK q \in Nat, m \in 0 .. i - 1 : r = (i * q) + m /\ r % i = m
    BY DivMod
  <1>2. PICK p \in Nat, o \in 0 .. i - 1 : s = (i * p) + o /\ s % i = o
    BY DivMod
  <1>3. (i * (q + j)) + m = (i * (p + k)) + o
    <2>1. i * (q + j) = (i * q) + (i * j) /\ i * (p + k) = (i * p) + (i * k)
      OBVIOUS
    <2>2. i * q \in Int /\ i * j \in Int /\ i * p \in Int /\ i * k \in Int
      OBVIOUS
    <2> QED
      BY <1>1, <1>2, <2>1, <2>2
  <1>4. m = o
    <2> DEFINE u == q + j
               v == p + k
    <2>1. u \in Int /\ v \in Int /\ (i * u) + m = (i * v) + o
      BY <1>3
    <2> HIDE DEF u, v
    <2> QED
      BY <2>1, QuotientUnique
  <1> QED
    BY <1>1, <1>2, <1>4

-----------------------------------------------------------------------------
(* Searching a slot *)

\* What the search finds is in the cycles searched, a slot of the unit, and free.
LEMMA PlacesIs ==
    ASSUME NEW u \in {"ALU", "Mult", "Mem"}, NEW cycles \in SUBSET Nat, NEW taken,
           NEW at \in Places(u, cycles, taken)
    PROVE  /\ at.cycle \in cycles
           /\ at.slot \in Slot \ {"Branch"}
           /\ IF u = "ALU" THEN at.slot \in {"ALU0", "ALU1"} ELSE at.slot = u
           /\ <<at.cycle, at.slot>> \notin taken
  <1> DEFINE slots == PossibleSlots(u)
             free == {x \in cycles \X DOMAIN slots : <<x[1], slots[x[2]]>> \notin taken}
             Earlier(x, y) == x[1] < y[1] \/ (x[1] = y[1] /\ x[2] <= y[2])
             first == CHOOSE x \in free : \A other \in free : Earlier(x, other)
  <1>1. free # {} /\ at = [cycle |-> first[1], slot |-> slots[first[2]]]
    BY DEF Places
  <1>2. /\ DOMAIN slots \in SUBSET Nat
        /\ \A i \in DOMAIN slots :
              /\ slots[i] \in Slot \ {"Branch"}
              /\ IF u = "ALU" THEN slots[i] \in {"ALU0", "ALU1"} ELSE slots[i] = u
    BY DEF PossibleSlots, Slot
  <1>3. \E x \in free : \A other \in free : Earlier(x, other)
    <2> DEFINE firsts == {x[1] : x \in free}
    <2>1. firsts \in SUBSET Nat /\ firsts # {}
      BY <1>1
    <2>2. PICK c \in firsts : \A d \in firsts : c <= d
      BY <2>1, MinExists
    <2> DEFINE seconds == {x[2] : x \in {y \in free : y[1] = c}}
    <2>3. seconds \in SUBSET Nat /\ seconds # {}
      <3>1. \A y \in free : y[2] \in DOMAIN slots
        OBVIOUS
      <3>2. \A y \in free : y[2] \in Nat
        BY <1>2, <3>1
      <3> HIDE DEF free
      <3> QED
        BY <2>2, <3>2
    <2>4. PICK s \in seconds : \A d \in seconds : s <= d
      BY <2>3, MinExists
    <2>5. PICK x \in free : x[1] = c /\ x[2] = s
      BY <2>4
    <2>6. ASSUME NEW y \in free PROVE Earlier(x, y)
      <3>1. y[1] \in firsts /\ y[1] \in Nat /\ c \in Nat
        BY <2>1, <2>2
      <3>2. CASE y[1] = c
        <4>1. y[2] \in seconds
          BY <3>2
        <4> QED
          BY <2>4, <2>5, <3>2, <4>1
      <3>3. CASE y[1] # c
        <4>1. c <= y[1]
          BY <2>2, <3>1
        <4>2. ASSUME NEW k \in Nat, c <= k, k # c, NEW d \in Nat, d = c PROVE d < k
          BY <4>2
        <4>3. c < y[1]
          <5> HIDE DEF firsts, free
          <5> QED
            BY <3>1, <3>3, <4>1, <4>2
        <4> QED
          BY <2>5, <4>3
      <3> QED
        BY <3>2, <3>3
    <2> QED
      BY <2>5, <2>6
  <1>4. first \in free
    BY <1>3
  <1> HIDE DEF first, slots
  <1> QED
    BY <1>1, <1>2, <1>4

-----------------------------------------------------------------------------
(* Programs that the frontend accepts *)

\* The instructions but the loop instruction.
Operations ==
    [unit : {"ALU", "Mult", "Mem"}, dst : {{}} \cup {{r} : r \in Reg}, src : Seq(Reg)]

\* A program as parsed, with one loop.
Splittable(p) == p \in Program /\ p.start >= 1 /\ SplitAccepted(p)

\* It is a program.
LEMMA SplittableIs ==
    ASSUME NEW p, Splittable(p)
    PROVE  p \in Program
  BY DEF Splittable

\* The a-th instruction that is not a nop exists: counting them from the front goes up
\* by one at a time.
LEMMA KeptIs ==
    ASSUME NEW raw \in Seq(Instruction \cup {Nop})
    PROVE  /\ Kept(raw) \in Seq(Instruction)
           /\ \A a \in DOMAIN Kept(raw) : \E i \in DOMAIN raw : Kept(raw)[a] = raw[i]
  <1> DEFINE kept == {i \in DOMAIN raw : raw[i] # Nop}
             Before(i) == {j \in kept : j <= i}
             Count(i) == Cardinality(Before(i))
             at(a) == CHOOSE i \in kept : Count(i) = a
  <1>1. /\ Len(raw) \in Nat /\ DOMAIN raw = 1 .. Len(raw)
        /\ \A i \in DOMAIN raw : raw[i] \in Instruction \cup {Nop}
    OBVIOUS
  <1>2. IsFiniteSet(1 .. Len(raw)) /\ kept \in SUBSET (1 .. Len(raw))
    <2>1. 1 \in Int /\ Len(raw) \in Int /\ kept \in SUBSET (1 .. Len(raw))
      BY <1>1
    <2> HIDE DEF kept
    <2> QED
      BY <2>1, FS_Interval
  <1> HIDE DEF kept
  <1>3. IsFiniteSet(kept)
    BY <1>2, FS_Subset
  <1>4. \A i : Before(i) \in SUBSET kept
    OBVIOUS
  <1>5. ASSUME NEW i \in Nat PROVE IsFiniteSet(Before(i)) /\ Count(i) \in Nat
    <2>1. IsFiniteSet(Before(i))
      BY <1>3, <1>4, FS_Subset
    <2> QED
      BY <2>1, FS_CardinalityType
  <1>6. Cardinality(kept) \in Nat
    BY <1>3, FS_CardinalityType
  <1>7. \A j \in kept : j \in Nat /\ 1 <= j /\ j <= Len(raw)
    BY <1>1, <1>2
  <1>8. ASSUME NEW a \in 1 .. Cardinality(kept) PROVE \E i \in kept : Count(i) = a
    <2> DEFINE enough == {i \in Nat : a <= Count(i)}
    <2>1. a \in Nat /\ 1 <= a /\ a <= Cardinality(kept)
      BY <1>6
    <2>2. Len(raw) \in enough
      <3>1. Before(Len(raw)) = kept
        BY <1>7
      <3>2. Count(Len(raw)) = Cardinality(kept)
        BY <3>1
      <3> HIDE DEF Count
      <3> QED
        BY <1>1, <2>1, <3>2
    <2>3. PICK i \in enough : \A j \in enough : i <= j
      <3>1. enough \in SUBSET Nat /\ enough # {}
        BY <2>2
      <3> HIDE DEF enough
      <3> QED
        BY <3>1, MinExists
    <2>4. i \in Nat /\ a <= Count(i)
      OBVIOUS
    <2>5. i # 0
      <3>1. Before(0) = {}
        <4>1. \A j \in kept : ~(j <= 0)
          BY <1>7
        <4> QED
          BY <4>1
      <3>2. Count(0) = 0
        BY <3>1, FS_EmptySet
      <3> HIDE DEF Count
      <3> QED
        BY <2>1, <2>4, <3>2
    <2>6. i - 1 \in Nat /\ i - 1 \notin enough
      <3>1. i - 1 \in Nat /\ ~(i <= i - 1)
        BY <2>4, <2>5
      <3> QED
        BY <2>3, <3>1
    <2>7. Count(i - 1) < a
      <3>1. Count(i - 1) \in Nat
        BY <1>5, <2>6
      <3>2. ~(a <= Count(i - 1))
        BY <2>6
      <3> HIDE DEF Count
      <3> QED
        BY <2>1, <3>1, <3>2
    <2>8. CASE i \notin kept
      <3>1. Before(i) = Before(i - 1)
        <4>1. \A j \in kept : j <= i <=> j <= i - 1
          BY <1>7, <2>4, <2>8
        <4> QED
          BY <4>1
      <3>2. Count(i) = Count(i - 1) /\ Count(i) \in Nat
        BY <1>5, <2>4, <3>1
      <3> HIDE DEF Count
      <3> QED
        BY <2>1, <2>4, <2>7, <3>2
    <2>9. CASE i \in kept
      <3>1. Before(i) = Before(i - 1) \cup {i} /\ i \notin Before(i - 1)
        <4>1. \A j \in kept : j <= i <=> (j <= i - 1 \/ j = i)
          BY <1>7, <2>4
        <4>2. ~(i <= i - 1)
          BY <2>4
        <4> QED
          BY <2>9, <4>1, <4>2
      <3>2. Count(i) = Count(i - 1) + 1
        BY <1>5, <2>6, <3>1, FS_AddElement
      <3>3. Count(i) = a
        <4> DEFINE x == Count(i - 1)
        <4>1. x \in Nat
          BY <1>5, <2>6
        <4> HIDE DEF x
        <4>2. a \in Nat /\ x < a /\ a <= x + 1 /\ Count(i) = x + 1
          BY <1>6, <2>4, <2>7, <3>2 DEF x
        <4> HIDE DEF Count
        <4> QED
          BY <4>1, <4>2
      <3> QED
        BY <2>9, <3>3
    <2> QED
      BY <2>8, <2>9
  <1>9. ASSUME NEW a \in 1 .. Cardinality(kept)
        PROVE  raw[at(a)] \in Instruction /\ at(a) \in DOMAIN raw
    <2>1. at(a) \in kept
      BY <1>8
    <2> HIDE DEF at
    <2> QED
      BY <1>1, <2>1 DEF kept
  <1>10. Kept(raw) = [a \in 1 .. Cardinality(kept) |-> raw[at(a)]]
    BY DEF Kept, kept
  <1> HIDE DEF at
  <1>11. Kept(raw) \in Seq(Instruction)
    BY <1>6, <1>9, <1>10
  <1>12. \A a \in DOMAIN Kept(raw) : \E i \in DOMAIN raw : Kept(raw)[a] = raw[i]
    BY <1>9, <1>10
  <1> QED
    BY <1>11, <1>12

\* What the parser makes of a source that it and the splitting accept.
LEMMA ParsedIs ==
    ASSUME NEW s, s.code \in Seq(Instruction \cup {Nop}), s.target \in Int, LoopAccepted(s)
    PROVE  Splittable(Parsed(s.code, s.target))
  <1> DEFINE before == {i \in 1 .. s.target - 1 : s.code[i] # Nop}
  <1>1. Cardinality(before) \in Nat
    <2>1. IsFiniteSet(1 .. s.target - 1)
      <3>1. s.target - 1 \in Int
        OBVIOUS
      <3> QED
        BY <3>1, FS_Interval
    <2>2. before \in SUBSET (1 .. s.target - 1)
      OBVIOUS
    <2>3. IsFiniteSet(before)
      BY <2>2, <2>1, FS_Subset
    <2> QED
      BY <2>3, FS_CardinalityType
  <1>2. NewAddress(s.code, s.target) \in Nat /\ NewAddress(s.code, s.target) >= 1
    BY <1>1 DEF NewAddress
  <1> QED
    BY <1>2, KeptIs DEF Splittable, Parsed, LoopAccepted, Program

\* Without a loop, too, the parser makes a program.
LEMMA ParsedProgram ==
    ASSUME NEW s, s.code \in Seq(Instruction \cup {Nop}), s.target \in Int
    PROVE  Parsed(s.code, s.target) \in Program
  <1> DEFINE before == {i \in 1 .. s.target - 1 : s.code[i] # Nop}
  <1>1. Cardinality(before) \in Nat
    <2>1. IsFiniteSet(1 .. s.target - 1)
      <3>1. s.target - 1 \in Int
        OBVIOUS
      <3> QED
        BY <3>1, FS_Interval
    <2>2. before \in SUBSET (1 .. s.target - 1)
      OBVIOUS
    <2>3. IsFiniteSet(before)
      BY <2>2, <2>1, FS_Subset
    <2> QED
      BY <2>3, FS_CardinalityType
  <1>2. NewAddress(s.code, s.target) \in Nat
    BY <1>1 DEF NewAddress
  <1> QED
    BY <1>2, KeptIs DEF Parsed, Program

\* The blocks are the addresses before the loop, the loop, and those behind it, and the
\* loop instruction is the only branch.
LEMMA BlocksAre ==
    ASSUME NEW p, Splittable(p)
    PROVE  /\ Len(p.code) \in Nat /\ DOMAIN p.code = 1 .. Len(p.code)
           /\ HasLoop(p) /\ LoopAddress(p) \in DOMAIN p.code
           /\ p.start \in 1 .. LoopAddress(p)
           /\ p.code[LoopAddress(p)] = Loop
           /\ \A a \in DOMAIN p.code \ {LoopAddress(p)} :
                 p.code[a] \in Operations
           /\ InBlock(p, "BB0") = 1 .. p.start - 1
           /\ InBlock(p, "BB1") = p.start .. LoopAddress(p)
           /\ InBlock(p, "BB2") = LoopAddress(p) + 1 .. Len(p.code)
  <1>1. /\ p.code \in Seq(Instruction) /\ p.start \in Nat /\ p.start >= 1
        /\ Cardinality(LoopAddresses(p)) = 1 /\ p.start <= LoopAddress(p)
    BY DEF Splittable, Program, SplitAccepted
  <1>2. Len(p.code) \in Nat /\ DOMAIN p.code = 1 .. Len(p.code)
    BY <1>1
  <1>3. PICK l : LoopAddresses(p) = {l}
    <2>1. IsFiniteSet(DOMAIN p.code)
      <3>1. 1 \in Int /\ Len(p.code) \in Int
        BY <1>2
      <3>2. IsFiniteSet(1 .. Len(p.code))
        BY <3>1, FS_Interval
      <3> QED
        BY <1>2, <3>2
    <2>2. IsFiniteSet(LoopAddresses(p))
      BY <2>1, FS_Subset DEF LoopAddresses
    <2> QED
      BY <1>1, <2>2, FS_Singleton
  <1>4. LoopAddress(p) = l /\ HasLoop(p) /\ l \in DOMAIN p.code /\ p.code[l].unit = "Branch"
    BY <1>3 DEF LoopAddress, LoopAddresses, HasLoop
  <1>5. \A a \in DOMAIN p.code : p.code[a] \in Instruction
    BY <1>1
  <1>6. p.code[l] = Loop
    BY <1>4, <1>5 DEF Instruction, Loop
  <1>7. ASSUME NEW a \in DOMAIN p.code \ {l}
        PROVE  p.code[a] \in Operations
    <2>1. p.code[a].unit # "Branch"
      BY <1>3 DEF LoopAddresses
    <2> QED
      BY <1>5, <2>1 DEF Instruction, Loop, Operations
  <1>8. l \in 1 .. Len(p.code) /\ p.start \in Nat /\ 1 <= p.start /\ p.start <= l
    BY <1>1, <1>2, <1>4
  <1>9. \A a \in DOMAIN p.code :
           Block(p, a) = IF a < p.start THEN "BB0" ELSE IF a <= l THEN "BB1" ELSE "BB2"
    BY <1>4 DEF Block
  <1>10. InBlock(p, "BB0") = 1 .. p.start - 1
    BY <1>2, <1>8, <1>9 DEF InBlock
  <1>11. InBlock(p, "BB1") = p.start .. l
    BY <1>2, <1>8, <1>9 DEF InBlock
  <1>12. InBlock(p, "BB2") = l + 1 .. Len(p.code)
    BY <1>2, <1>8, <1>9 DEF InBlock
  <1> QED
    BY <1>1, <1>2, <1>4, <1>6, <1>7, <1>8, <1>10, <1>11, <1>12

-----------------------------------------------------------------------------
(* Producers *)

\* The block of an address is the block that it is in.
LEMMA BlockIs ==
    ASSUME NEW p, Splittable(p), NEW a \in DOMAIN p.code
    PROVE  /\ Block(p, a) \in {"BB0", "BB1", "BB2"}
           /\ Block(p, a) = "BB0" <=> a < p.start
           /\ Block(p, a) = "BB1" <=> p.start <= a /\ a <= LoopAddress(p)
           /\ Block(p, a) = "BB2" <=> LoopAddress(p) < a
           /\ a \in Nat /\ LoopAddress(p) \in Nat /\ p.start \in Nat
  BY BlocksAre DEF Block

\* Every program has finitely many addresses, and an instruction at each of them.
LEMMA ProgramIs ==
    ASSUME NEW p \in Program
    PROVE  /\ Len(p.code) \in Nat /\ DOMAIN p.code = 1 .. Len(p.code) /\ p.start \in Nat
           /\ IsFiniteSet(DOMAIN p.code) /\ DOMAIN p.code \in SUBSET (Nat \ {0})
           /\ \A a \in DOMAIN p.code :
                 /\ p.code[a] \in Operations \/ p.code[a] = Loop
                 /\ p.code[a].src \in Seq(Reg)
                 /\ p.code[a].dst = {} \/ \E r \in Reg : p.code[a].dst = {r}
                 /\ p.code[a].unit \in {"ALU", "Mult", "Mem", "Branch"}
                 /\ p.code[a].unit = "Branch" <=> p.code[a] = Loop
                 /\ p.code[a].unit = "Branch" <=> a \in LoopAddresses(p)
  <1>1. p.code \in Seq(Instruction) /\ p.start \in Nat
    BY DEF Program
  <1>2. Len(p.code) \in Nat /\ DOMAIN p.code = 1 .. Len(p.code)
    BY <1>1
  <1>3. IsFiniteSet(1 .. Len(p.code))
    <2>1. 1 \in Int /\ Len(p.code) \in Int
      BY <1>2
    <2> QED
      BY <2>1, FS_Interval
  <1>4. ASSUME NEW a \in DOMAIN p.code
        PROVE  /\ p.code[a] \in Operations \/ p.code[a] = Loop
               /\ p.code[a].src \in Seq(Reg)
               /\ p.code[a].dst = {} \/ \E r \in Reg : p.code[a].dst = {r}
               /\ p.code[a].unit \in {"ALU", "Mult", "Mem", "Branch"}
               /\ p.code[a].unit = "Branch" <=> p.code[a] = Loop
               /\ p.code[a].unit = "Branch" <=> a \in LoopAddresses(p)
    <2>1. p.code[a] \in Operations \/ p.code[a] = Loop
      BY <1>1 DEF Instruction, Operations
    <2>2. CASE p.code[a] = Loop
      BY <2>2 DEF Loop, LoopAddresses
    <2>3. CASE p.code[a] \in Operations
      BY <2>3 DEF Operations, Loop, LoopAddresses
    <2> QED
      BY <2>1, <2>2, <2>3
  <1> QED
    BY <1>1, <1>2, <1>3, <1>4

\* The last address of a set, or none.
LEMMA LastOfIs ==
    ASSUME NEW p, p \in Program, NEW S \in SUBSET (DOMAIN p.code)
    PROVE  /\ LastOf(S) \in S \cup {0}
           /\ LastOf(S) \in Nat
           /\ LastOf(S) = 0 => S = {}
           /\ \A w \in S : w <= LastOf(S)
  <1>1. IsFiniteSet(DOMAIN p.code) /\ DOMAIN p.code \in SUBSET (Nat \ {0})
    BY ProgramIs
  <1>2. IsFiniteSet(S) /\ S \in SUBSET Int /\ S \in SUBSET (Nat \ {0})
    BY <1>1, FS_Subset
  <1>3. CASE S = {}
    BY <1>3 DEF LastOf
  <1>4. CASE S # {}
    <2>1. Largest(S) \in S /\ \A w \in S : w <= Largest(S)
      BY <1>2, <1>4, LargestIs
    <2>2. LastOf(S) = Largest(S)
      BY <1>4 DEF LastOf
    <2> QED
      BY <1>2, <1>4, <2>1, <2>2
  <1> QED
    BY <1>3, <1>4

\* The local producer is the last writer before the reader in its block.
LEMMA LocalProducerIs ==
    ASSUME NEW p, p \in Program, NEW a \in DOMAIN p.code, NEW r
    PROVE  /\ LocalProducer(p, a, r) \in Nat
           /\ LocalProducer(p, a, r) # 0 =>
                 /\ LocalProducer(p, a, r) \in DOMAIN p.code
                 /\ r \in p.code[LocalProducer(p, a, r)].dst
                 /\ LocalProducer(p, a, r) < a
                 /\ Block(p, LocalProducer(p, a, r)) = Block(p, a)
           /\ \A w \in DOMAIN p.code :
                 r \in p.code[w].dst /\ w < a /\ Block(p, w) = Block(p, a) =>
                    LocalProducer(p, a, r) # 0 /\ w <= LocalProducer(p, a, r)
  <1> DEFINE S == {w \in Writers(p, r) : w < a /\ Block(p, w) = Block(p, a)}
  <1>1. S \in SUBSET (DOMAIN p.code)
    BY DEF Writers
  <1>2. /\ LastOf(S) \in S \cup {0} /\ LastOf(S) \in Nat
        /\ LastOf(S) = 0 => S = {}
        /\ \A w \in S : w <= LastOf(S)
    <2> HIDE DEF S
    <2> QED
      BY <1>1, LastOfIs
  <1>3. LocalProducer(p, a, r) = LastOf(S)
    BY DEF LocalProducer
  <1> QED
    BY <1>2, <1>3 DEF Writers

\* The producer of a block is its last writer.
LEMMA BlockProducerIs ==
    ASSUME NEW p, p \in Program, NEW b, NEW r
    PROVE  /\ BlockProducer(p, b, r) \in Nat
           /\ BlockProducer(p, b, r) # 0 =>
                 /\ BlockProducer(p, b, r) \in DOMAIN p.code
                 /\ BlockProducer(p, b, r) \in InBlock(p, b)
                 /\ r \in p.code[BlockProducer(p, b, r)].dst
           /\ \A w \in InBlock(p, b) :
                 r \in p.code[w].dst =>
                    BlockProducer(p, b, r) # 0 /\ w <= BlockProducer(p, b, r)
  <1> DEFINE S == {w \in Writers(p, r) : Block(p, w) = b}
  <1>1. S \in SUBSET (DOMAIN p.code)
    BY DEF Writers
  <1>2. /\ LastOf(S) \in S \cup {0} /\ LastOf(S) \in Nat
        /\ LastOf(S) = 0 => S = {}
        /\ \A w \in S : w <= LastOf(S)
    <2> HIDE DEF S
    <2> QED
      BY <1>1, LastOfIs
  <1>3. BlockProducer(p, b, r) = LastOf(S)
    BY DEF BlockProducer
  <1> QED
    BY <1>2, <1>3 DEF Writers, InBlock

\* What a dependency names.
LEMMA DependenciesAre ==
    ASSUME NEW p, p \in Program, NEW a \in DOMAIN p.code
    PROVE  /\ \A d \in LocalDependencies(p, a) :
                 /\ d.producer \in DOMAIN p.code /\ d.producer < a
                 /\ Block(p, d.producer) = Block(p, a)
           /\ \A d \in InterloopDependencies(p, a) :
                 /\ Block(p, a) = "BB1"
                 /\ d.producer \in InBlock(p, "BB0") \cup {0}
                 /\ d.previous \in InBlock(p, "BB1")
                 /\ d.previous \in DOMAIN p.code
           /\ \A d \in InvariantDependencies(p, a) :
                 /\ Block(p, a) \in {"BB1", "BB2"}
                 /\ d.producer \in InBlock(p, "BB0")
                 /\ d.producer \in DOMAIN p.code
           /\ \A d \in PostLoopDependencies(p, a) :
                 /\ Block(p, a) = "BB2"
                 /\ d.producer \in InBlock(p, "BB1")
                 /\ d.producer \in DOMAIN p.code
  <1>1. ASSUME NEW d \in LocalDependencies(p, a)
        PROVE  /\ d.producer \in DOMAIN p.code /\ d.producer < a
               /\ Block(p, d.producer) = Block(p, a)
    <2>1. PICK r \in Reads(p.code[a]) \ Incoming(p, a) :
             d = Dependency(r, LocalProducer(p, a, r), 0)
      BY DEF LocalDependencies
    <2>2. d.producer = LocalProducer(p, a, r) /\ LocalProducer(p, a, r) # 0
      BY <2>1 DEF Dependency, Incoming
    <2> QED
      BY <2>2, LocalProducerIs
  <1>2. ASSUME NEW d \in InterloopDependencies(p, a)
        PROVE  /\ Block(p, a) = "BB1"
               /\ d.producer \in InBlock(p, "BB0") \cup {0}
               /\ d.previous \in InBlock(p, "BB1")
               /\ d.previous \in DOMAIN p.code
    <2>1. PICK r : /\ Block(p, a) = "BB1" /\ BlockProducer(p, "BB1", r) # 0
                   /\ d = Dependency(r, BlockProducer(p, "BB0", r), BlockProducer(p, "BB1", r))
      BY DEF InterloopDependencies
    <2>2. d.producer = BlockProducer(p, "BB0", r) /\ d.previous = BlockProducer(p, "BB1", r)
      BY <2>1 DEF Dependency
    <2> QED
      BY <2>1, <2>2, BlockProducerIs
  <1>3. ASSUME NEW d \in InvariantDependencies(p, a)
        PROVE  /\ Block(p, a) \in {"BB1", "BB2"}
               /\ d.producer \in InBlock(p, "BB0")
               /\ d.producer \in DOMAIN p.code
    <2>1. PICK r : /\ Block(p, a) \in {"BB1", "BB2"} /\ BlockProducer(p, "BB0", r) # 0
                   /\ d = Dependency(r, BlockProducer(p, "BB0", r), 0)
      BY DEF InvariantDependencies
    <2>2. d.producer = BlockProducer(p, "BB0", r)
      BY <2>1 DEF Dependency
    <2> QED
      BY <2>1, <2>2, BlockProducerIs
  <1>4. ASSUME NEW d \in PostLoopDependencies(p, a)
        PROVE  /\ Block(p, a) = "BB2"
               /\ d.producer \in InBlock(p, "BB1")
               /\ d.producer \in DOMAIN p.code
    <2>1. PICK r : /\ Block(p, a) = "BB2" /\ BlockProducer(p, "BB1", r) # 0
                   /\ d = Dependency(r, BlockProducer(p, "BB1", r), 0)
      BY DEF PostLoopDependencies
    <2>2. d.producer = BlockProducer(p, "BB1", r)
      BY <2>1 DEF Dependency
    <2> QED
      BY <2>1, <2>2, BlockProducerIs
  <1> QED
    BY <1>1, <1>2, <1>3, <1>4

\* An instruction has finitely many dependencies.
LEMMA FiniteDependencies ==
    ASSUME NEW p, p \in Program, NEW a \in DOMAIN p.code
    PROVE  /\ IsFiniteSet(LocalDependencies(p, a))
           /\ IsFiniteSet(InterloopDependencies(p, a))
           /\ IsFiniteSet(InvariantDependencies(p, a))
           /\ IsFiniteSet(PostLoopDependencies(p, a))
  <1> DEFINE i == p.code[a]
             R == Reads(i)
  <1>1. IsFiniteSet(R)
    <2>1. i.src \in Seq(Reg)
      BY ProgramIs
    <2>2. Len(i.src) \in Nat /\ DOMAIN i.src = 1 .. Len(i.src)
      BY <2>1
    <2>3. IsFiniteSet(1 .. Len(i.src))
      BY <2>2, FS_Interval
    <2>4. IsFiniteSet({i.src[k] : k \in DOMAIN i.src})
      <3> DEFINE D == DOMAIN i.src
                 f == i.src
      <3>1. IsFiniteSet(D)
        BY <2>2, <2>3
      <3> HIDE DEF D, f
      <3>2. IsFiniteSet({f[k] : k \in D})
        BY <3>1, FiniteImage
      <3> QED
        BY <3>2 DEF D, f
    <2> QED
      BY <2>4 DEF Reads
  <1>2. \A S \in SUBSET R : IsFiniteSet(S)
    BY <1>1, FS_Subset
  <1>3. IsFiniteSet(LocalDependencies(p, a))
    <2> DEFINE S == R \ Incoming(p, a)
               f == [r \in S |-> Dependency(r, LocalProducer(p, a, r), 0)]
    <2>1. IsFiniteSet(S)
      BY <1>2
    <2>2. LocalDependencies(p, a) = {f[r] : r \in S}
      BY DEF LocalDependencies
    <2> HIDE DEF S, f
    <2> QED
      BY <2>1, <2>2, FiniteImage
  <1>4. IsFiniteSet(InterloopDependencies(p, a))
    <2> DEFINE S == {q \in Incoming(p, a) : Block(p, a) = "BB1"
                                               /\ BlockProducer(p, "BB1", q) # 0}
               f == [r \in S |-> Dependency(r, BlockProducer(p, "BB0", r),
                                               BlockProducer(p, "BB1", r))]
    <2>1. IsFiniteSet(S)
      BY <1>2 DEF Incoming
    <2>2. InterloopDependencies(p, a) = {f[r] : r \in S}
      BY DEF InterloopDependencies
    <2> HIDE DEF S, f
    <2> QED
      BY <2>1, <2>2, FiniteImage
  <1>5. IsFiniteSet(InvariantDependencies(p, a))
    <2> DEFINE S == {q \in Incoming(p, a) : /\ Block(p, a) \in {"BB1", "BB2"}
                                            /\ BlockProducer(p, "BB1", q) = 0
                                            /\ BlockProducer(p, "BB0", q) # 0}
               f == [r \in S |-> Dependency(r, BlockProducer(p, "BB0", r), 0)]
    <2>1. IsFiniteSet(S)
      BY <1>2 DEF Incoming
    <2>2. InvariantDependencies(p, a) = {f[r] : r \in S}
      BY DEF InvariantDependencies
    <2> HIDE DEF S, f
    <2> QED
      BY <2>1, <2>2, FiniteImage
  <1>6. IsFiniteSet(PostLoopDependencies(p, a))
    <2> DEFINE S == {q \in Incoming(p, a) : Block(p, a) = "BB2"
                                               /\ BlockProducer(p, "BB1", q) # 0}
               f == [r \in S |-> Dependency(r, BlockProducer(p, "BB1", r), 0)]
    <2>1. IsFiniteSet(S)
      BY <1>2 DEF Incoming
    <2>2. PostLoopDependencies(p, a) = {f[r] : r \in S}
      BY DEF PostLoopDependencies
    <2> HIDE DEF S, f
    <2> QED
      BY <2>1, <2>2, FiniteImage
  <1> QED
    BY <1>3, <1>4, <1>5, <1>6

\* The first interval tried is positive: the loop instruction takes a slot.
LEMMA ResourceIntervalIs ==
    ASSUME NEW p, Splittable(p)
    PROVE  ResourceInterval(p) \in Nat /\ ResourceInterval(p) >= 1
  <1>1. \A u : UnitCount(p, u) \in Nat
    <2>1. IsFiniteSet(InBlock(p, "BB1"))
      <3>1. p.start \in Int /\ LoopAddress(p) \in Int
        BY BlocksAre
      <3>2. IsFiniteSet(p.start .. LoopAddress(p))
        BY <3>1, FS_Interval
      <3> QED
        BY <3>2, BlocksAre
    <2>2. ASSUME NEW u PROVE UnitCount(p, u) \in Nat
      <3>1. IsFiniteSet({a \in InBlock(p, "BB1") : p.code[a].unit = u})
        BY <2>1, FS_Subset
      <3> QED
        BY <3>1, FS_CardinalityType DEF UnitCount
    <2> QED
      BY <2>2
  <1>2. CeilDivide(UnitCount(p, "ALU"), 2) \in Int
    BY <1>1 DEF CeilDivide
  <1> DEFINE three == {"Mult", "Mem", "Branch"}
             f == [u \in three |-> UnitCount(p, u)]
             S == {f[u] : u \in three}
             T == S \cup {CeilDivide(UnitCount(p, "ALU"), 2)}
  <1>3. IsFiniteSet(S)
    <2>1. IsFiniteSet({"Mult"})
      BY FS_Singleton
    <2>2. IsFiniteSet({"Mult"} \cup {"Mem"})
      BY <2>1, FS_AddElement
    <2>3. IsFiniteSet({"Mult"} \cup {"Mem"} \cup {"Branch"})
      BY <2>2, FS_AddElement
    <2>4. IsFiniteSet(three)
      <3>1. three = {"Mult"} \cup {"Mem"} \cup {"Branch"}
        OBVIOUS
      <3> QED
        BY <2>3, <3>1
    <2> HIDE DEF three, f
    <2> QED
      BY <2>4, FiniteImage
  <1>4. S \in SUBSET Int
    BY <1>1
  <1> HIDE DEF S
  <1>5. IsFiniteSet(T) /\ T \in SUBSET Int
    BY <1>2, <1>3, <1>4, FS_AddElement
  <1>6. ResourceInterval(p) = Greatest(T, 1)
    <2>1. T = {CeilDivide(UnitCount(p, "ALU"), 2)} \cup
             {UnitCount(p, u) : u \in {"Mult", "Mem", "Branch"}}
      BY DEF S
    <2> QED
      BY <2>1 DEF ResourceInterval
  <1> HIDE DEF T
  <1>7. Greatest(T, 1) \in Int /\ 1 <= Greatest(T, 1)
    BY <1>5, GreatestIs
  <1> QED
    BY <1>6, <1>7

-----------------------------------------------------------------------------
(* The order of a sequential run *)

\* The blocks in the order in which they execute.
Rank(p, a) == CASE Block(p, a) = "BB0" -> 0
                [] Block(p, a) = "BB1" -> 1
                [] OTHER -> 2

\* One instance precedes another: by block, then by iteration, then by address.
Precedes(p, x, y) ==
    \/ Rank(p, x[1]) < Rank(p, y[1])
    \/ /\ Rank(p, x[1]) = Rank(p, y[1])
       /\ x[2] < y[2] \/ (x[2] = y[2] /\ x[1] < y[1])

\* What an instance says of its instruction and its iteration.
LEMMA InstanceIs ==
    ASSUME NEW p, Splittable(p), NEW k \in Nat \ {0}, NEW x \in Instances(p, k)
    PROVE  /\ x = <<x[1], x[2]>>
           /\ x[1] \in DOMAIN p.code /\ x[1] \in Nat /\ x[2] \in Nat /\ x[2] <= k - 1
           /\ Block(p, x[1]) # "BB1" => x[2] = 0
           /\ Rank(p, x[1]) \in {0, 1, 2}
           /\ Rank(p, x[1]) = 0 <=> Block(p, x[1]) = "BB0"
           /\ Rank(p, x[1]) = 1 <=> Block(p, x[1]) = "BB1"
           /\ Rank(p, x[1]) = 2 <=> Block(p, x[1]) = "BB2"
  <1>1. CASE x \in (InBlock(p, "BB0") \cup InBlock(p, "BB2")) \X {0}
    <2>1. x = <<x[1], x[2]>> /\ x[2] = 0 /\ x[1] \in InBlock(p, "BB0") \cup InBlock(p, "BB2")
      BY <1>1
    <2>2. x[1] \in DOMAIN p.code /\ Block(p, x[1]) \in {"BB0", "BB2"}
      BY <2>1 DEF InBlock
    <2> QED
      BY <2>1, <2>2, BlockIs DEF Rank
  <1>2. CASE x \in InBlock(p, "BB1") \X (0 .. k - 1)
    <2>1. x = <<x[1], x[2]>> /\ x[2] \in 0 .. k - 1 /\ x[1] \in InBlock(p, "BB1")
      BY <1>2
    <2>2. x[1] \in DOMAIN p.code /\ Block(p, x[1]) = "BB1"
      BY <2>1 DEF InBlock
    <2> QED
      BY <2>1, <2>2, BlockIs DEF Rank
  <1> QED
    BY <1>1, <1>2 DEF Instances

\* What is an instance.
LEMMA InstanceMade ==
    ASSUME NEW p, NEW k \in Nat \ {0}, NEW a \in DOMAIN p.code, NEW i \in Nat, i <= k - 1,
           Block(p, a) # "BB1" => i = 0,
           Block(p, a) \in {"BB0", "BB1", "BB2"}
    PROVE  <<a, i>> \in Instances(p, k)
  BY DEF Instances, InBlock

\* The positions in a sequential run follow this order.
LEMMA PrecedesPosition ==
    ASSUME NEW p, Splittable(p), NEW k \in Nat \ {0},
           NEW x \in Instances(p, k), NEW y \in Instances(p, k), Precedes(p, x, y)
    PROVE  Position(p, k, x) < Position(p, k, y)
  <1> DEFINE length == Cardinality(InBlock(p, "BB1"))
             X == x[1]  Y == y[1]  I == x[2]  J == y[2]
             s == p.start  l == LoopAddress(p)
  <1>1. length \in Nat /\ length = l - s + 1
    <2>1. s \in Int /\ l \in Int /\ ~(s > l)
      BY BlocksAre
    <2>2. Cardinality(s .. l) = l - s + 1
      BY <2>1, FS_Interval
    <2> QED
      BY <2>1, <2>2, BlocksAre
  <1>2. /\ X \in Nat /\ Y \in Nat /\ I \in Nat /\ J \in Nat /\ s \in Nat /\ l \in Nat
        /\ I <= k - 1 /\ J <= k - 1
    <2>1. X \in Nat /\ I \in Nat /\ I <= k - 1
      BY InstanceIs
    <2>2. Y \in Nat /\ J \in Nat /\ J <= k - 1
      BY InstanceIs
    <2>3. s \in Nat /\ l \in Nat
      BY BlocksAre
    <2> QED
      BY <2>1, <2>2, <2>3
  <1> DEFINE A == IF Block(p, X) = "BB2" THEN k - 1 ELSE I
             B == IF Block(p, Y) = "BB2" THEN k - 1 ELSE J
  <1>3. Position(p, k, x) = X + (length * A) /\ Position(p, k, y) = Y + (length * B)
    BY DEF Position
  <1>4. A \in Nat /\ B \in Nat /\ k - 1 \in Nat
    BY <1>2
  <1>5. /\ Rank(p, X) = 0 => X < s /\ I = 0 /\ A = 0
        /\ Rank(p, X) = 1 => s <= X /\ X <= l /\ A = I
        /\ Rank(p, X) = 2 => l < X /\ I = 0 /\ A = k - 1
        /\ Rank(p, X) \in {0, 1, 2}
    BY InstanceIs, BlockIs
  <1>6. /\ Rank(p, Y) = 0 => Y < s /\ J = 0 /\ B = 0
        /\ Rank(p, Y) = 1 => s <= Y /\ Y <= l /\ B = J
        /\ Rank(p, Y) = 2 => l < Y /\ J = 0 /\ B = k - 1
        /\ Rank(p, Y) \in {0, 1, 2}
    BY InstanceIs, BlockIs
  <1>7. (A = B /\ X < Y) \/ (A < B /\ X < Y + length)
    <2>1. s <= l
      BY BlocksAre
    <2> HIDE DEF length, X, Y, I, J, s, l, A, B
    <2>2. CASE Rank(p, X) < Rank(p, Y)
      <3>1. X < Y /\ A <= B
        <4>1. CASE Rank(p, X) = 0
          BY <1>1, <1>2, <1>4, <1>5, <1>6, <2>1, <2>2, <4>1
        <4>2. CASE Rank(p, X) = 1
          BY <1>1, <1>2, <1>4, <1>5, <1>6, <2>1, <2>2, <4>2
        <4> QED
          BY <1>5, <1>6, <2>2, <4>1, <4>2
      <3> QED
        BY <1>1, <1>2, <1>4, <3>1
    <2>3. CASE Rank(p, X) = Rank(p, Y) /\ (I < J \/ (I = J /\ X < Y))
      <3>1. CASE Rank(p, X) = 1
        BY <1>1, <1>2, <1>4, <1>5, <1>6, <2>1, <2>3, <3>1
      <3>2. CASE Rank(p, X) # 1
        BY <1>1, <1>2, <1>4, <1>5, <1>6, <2>1, <2>3, <3>2
      <3> QED
        BY <3>1, <3>2
    <2> QED
      BY <2>2, <2>3 DEF Precedes, X, Y, I, J
  <1> HIDE DEF length, X, Y, I, J, s, l, A, B
  <1>8. CASE A = B /\ X < Y
    <2>1. length * A \in Int
      BY <1>1, <1>4
    <2> QED
      BY <1>2, <1>3, <1>8, <2>1
  <1>9. CASE A < B /\ X < Y + length
    <2>1. PICK m \in Int : m = length * A
      BY <1>1, <1>4
    <2>2. PICK n \in Int : n = length * B
      BY <1>1, <1>4
    <2>3. m + length <= n
      BY <1>1, <1>4, <1>9, <2>1, <2>2, StepUp
    <2> QED
      BY <1>1, <1>2, <1>3, <1>9, <2>1, <2>2, <2>3
  <1> QED
    BY <1>7, <1>8, <1>9

\* The order is total, so that the positions determine it.
LEMMA PositionPrecedes ==
    ASSUME NEW p, Splittable(p), NEW k \in Nat \ {0},
           NEW x \in Instances(p, k), NEW y \in Instances(p, k)
    PROVE  /\ Position(p, k, x) \in Int
           /\ Position(p, k, x) < Position(p, k, y) <=> Precedes(p, x, y)
           /\ Precedes(p, x, y) \/ Precedes(p, y, x) \/ x = y
  <1>1. ASSUME NEW z \in Instances(p, k) PROVE Position(p, k, z) \in Int
    <2>1. z[1] \in Nat /\ z[2] \in Nat /\ k - 1 \in Nat
      BY InstanceIs
    <2>2. Cardinality(InBlock(p, "BB1")) \in Nat
      <3>1. p.start \in Int /\ LoopAddress(p) \in Int /\ ~(p.start > LoopAddress(p))
        BY BlocksAre
      <3>2. Cardinality(p.start .. LoopAddress(p)) \in Nat
        BY <3>1, FS_Interval
      <3> QED
        BY <3>2, BlocksAre
    <2> QED
      BY <2>1, <2>2 DEF Position
  <1>2. Precedes(p, x, y) \/ Precedes(p, y, x) \/ x = y
    <2>1. /\ x = <<x[1], x[2]>> /\ x[1] \in Nat /\ x[2] \in Nat /\ Rank(p, x[1]) \in Nat
          /\ y = <<y[1], y[2]>> /\ y[1] \in Nat /\ y[2] \in Nat /\ Rank(p, y[1]) \in Nat
      BY InstanceIs
    <2>2. (x[1] = y[1] /\ x[2] = y[2]) => x = y
      BY <2>1
    <2> QED
      BY <2>1, <2>2 DEF Precedes
  <1>3. Precedes(p, x, y) => Position(p, k, x) < Position(p, k, y)
    BY PrecedesPosition
  <1>4. Precedes(p, y, x) => Position(p, k, y) < Position(p, k, x)
    BY PrecedesPosition
  <1> QED
    BY <1>1, <1>2, <1>3, <1>4

-----------------------------------------------------------------------------
(* What an instance reads *)

\* z writes r before x.
WritesBefore(p, k, z, x, r) ==
    z \in Instances(p, k) /\ r \in p.code[z[1]].dst /\ Precedes(p, z, x)

\* w is the last to write r before x.
LastBefore(p, k, w, x, r) ==
    /\ WritesBefore(p, k, w, x, r)
    /\ \A z : WritesBefore(p, k, z, x, r) => ~Precedes(p, w, z)

\* What the last write before x wrote is what x reads.
LEMMA ReachingLast ==
    ASSUME NEW p, Splittable(p), NEW k \in Nat \ {0}, NEW x \in Instances(p, k), NEW r,
           NEW w, LastBefore(p, k, w, x, r)
    PROVE  Reaching(p, k, x, r) = {w}
  <1> DEFINE before == {y \in Instances(p, k) :
                          /\ r \in p.code[y[1]].dst
                          /\ Position(p, k, y) < Position(p, k, x)}
  <1>1. \A z : z \in before <=> WritesBefore(p, k, z, x, r)
    BY PositionPrecedes DEF WritesBefore
  <1>2. w \in before /\ \A z \in before : ~Precedes(p, w, z)
    BY <1>1 DEF LastBefore
  <1>3. before \subseteq Instances(p, k)
    OBVIOUS
  <1>4. Reaching(p, k, x, r) =
           {y \in before : \A z \in before : Position(p, k, z) <= Position(p, k, y)}
    BY DEF Reaching
  <1> HIDE DEF before
  <1>5. ASSUME NEW z \in before PROVE Position(p, k, z) <= Position(p, k, w)
    <2>1. Position(p, k, z) \in Int /\ Position(p, k, w) \in Int
      BY <1>2, <1>3, PositionPrecedes
    <2>2. ~(Position(p, k, w) < Position(p, k, z))
      BY <1>2, <1>3, PositionPrecedes
    <2> QED
      BY <2>1, <2>2
  <1>6. ASSUME NEW y \in before, Position(p, k, w) <= Position(p, k, y) PROVE y = w
    <2>1. ~Precedes(p, w, y)
      BY <1>2
    <2>2. ~Precedes(p, y, w)
      <3>1. Position(p, k, y) \in Int /\ Position(p, k, w) \in Int
        BY <1>2, <1>3, PositionPrecedes
      <3>2. ~(Position(p, k, y) < Position(p, k, w))
        BY <1>6, <3>1
      <3> QED
        BY <1>2, <1>3, <3>2, PositionPrecedes
    <2> QED
      BY <1>2, <1>3, <2>1, <2>2, PositionPrecedes
  <1> QED
    BY <1>2, <1>4, <1>5, <1>6

\* Without a write before it, x reads nothing that the program wrote.
LEMMA ReachingNone ==
    ASSUME NEW p, Splittable(p), NEW k \in Nat \ {0}, NEW x \in Instances(p, k), NEW r,
           \A z : ~WritesBefore(p, k, z, x, r)
    PROVE  Reaching(p, k, x, r) = {}
  <1>1. \A z \in Instances(p, k) :
           ~(r \in p.code[z[1]].dst /\ Position(p, k, z) < Position(p, k, x))
    BY PositionPrecedes DEF WritesBefore
  <1> QED
    BY <1>1 DEF Reaching

\* The instance of a dependency, if it has a producer.
Producing(a, i) == IF a = 0 THEN {} ELSE {<<a, i>>}

\* The prediction, written as the cases that the analysis tells apart.
PredictedCase(p, k, x, r) ==
    LET a == x[1]
        i == x[2]
        inner == BlockProducer(p, "BB1", r)
        outer == BlockProducer(p, "BB0", r)
    IN  IF r \notin Incoming(p, a) THEN {<<LocalProducer(p, a, r), i>>}
        ELSE IF Block(p, a) = "BB1" /\ inner # 0
             THEN IF i = 0 THEN Producing(outer, 0) ELSE {<<inner, i - 1>>}
        ELSE IF Block(p, a) \in {"BB1", "BB2"} /\ inner = 0 THEN Producing(outer, 0)
        ELSE IF Block(p, a) = "BB2" THEN {<<inner, k - 1>>} ELSE {}

\* A register is in one kind of dependency only, so the union is a case distinction.
LEMMA PredictedIs ==
    ASSUME NEW p, NEW k, NEW x, NEW r \in Reads(p.code[x[1]])
    PROVE  Predicted(p, k, x, r) = PredictedCase(p, k, x, r)
  <1> DEFINE a == x[1]
             i == x[2]
             inner == BlockProducer(p, "BB1", r)
             outer == BlockProducer(p, "BB0", r)
             local == LocalProducer(p, a, r)
             Of(deps) == {d \in deps : d.reg = r}
             first == UNION {Producing(d.producer, i) : d \in Of(LocalDependencies(p, a))}
             carried == UNION {IF i = 0 THEN Producing(d.producer, 0)
                               ELSE Producing(d.previous, i - 1) :
                                  d \in Of(InterloopDependencies(p, a))}
             invariant == UNION {Producing(d.producer, 0) :
                                  d \in Of(InvariantDependencies(p, a))}
             final == UNION {Producing(d.producer, k - 1) :
                                  d \in Of(PostLoopDependencies(p, a))}
  <1>1. Predicted(p, k, x, r) = first \cup carried \cup invariant \cup final
    BY DEF Predicted, Producing
  <1>2. Of(LocalDependencies(p, a)) =
           IF r \notin Incoming(p, a) THEN {Dependency(r, local, 0)} ELSE {}
    BY DEF LocalDependencies, Dependency
  <1>3. Of(InterloopDependencies(p, a)) =
           IF r \in Incoming(p, a) /\ Block(p, a) = "BB1" /\ inner # 0
           THEN {Dependency(r, outer, inner)} ELSE {}
    BY DEF InterloopDependencies, Dependency
  <1>4. Of(InvariantDependencies(p, a)) =
           IF r \in Incoming(p, a) /\ Block(p, a) \in {"BB1", "BB2"} /\ inner = 0 /\ outer # 0
           THEN {Dependency(r, outer, 0)} ELSE {}
    BY DEF InvariantDependencies, Dependency
  <1>5. Of(PostLoopDependencies(p, a)) =
           IF r \in Incoming(p, a) /\ Block(p, a) = "BB2" /\ inner # 0
           THEN {Dependency(r, inner, 0)} ELSE {}
    BY DEF PostLoopDependencies, Dependency
  <1>6. r \notin Incoming(p, a) => local # 0
    BY DEF Incoming
  <1>7. first = IF r \notin Incoming(p, a) THEN {<<local, i>>} ELSE {}
    <2> HIDE DEF local, inner, outer, i, a
    <2>1. CASE r \notin Incoming(p, a)
      <3>1. Of(LocalDependencies(p, a)) = {Dependency(r, local, 0)}
        BY <1>2, <2>1
      <3> DEFINE e == Dependency(r, local, 0)
      <3>2. e.reg = r /\ e.producer = local /\ e.previous = 0
        BY DEF Dependency
      <3> HIDE DEF e, Of
      <3>3. first = Producing(local, i)
        BY <3>1, <3>2 DEF e, first
      <3> QED
        BY <2>1, <3>3, <1>6 DEF Producing
    <2>2. CASE ~(r \notin Incoming(p, a))
      <3>1. Of(LocalDependencies(p, a)) = {}
        BY <1>2, <2>2
      <3> HIDE DEF Of
      <3> QED
        BY <2>2, <3>1
    <2> QED
      BY <2>1, <2>2
  <1>8. carried = IF r \in Incoming(p, a) /\ Block(p, a) = "BB1" /\ inner # 0
                  THEN IF i = 0 THEN Producing(outer, 0) ELSE {<<inner, i - 1>>} ELSE {}
    <2> HIDE DEF local, inner, outer, i, a
    <2>1. CASE r \in Incoming(p, a) /\ Block(p, a) = "BB1" /\ inner # 0
      <3>1. Of(InterloopDependencies(p, a)) = {Dependency(r, outer, inner)}
        BY <1>3, <2>1
      <3> DEFINE e == Dependency(r, outer, inner)
      <3>2. e.reg = r /\ e.producer = outer /\ e.previous = inner
        BY DEF Dependency
      <3> HIDE DEF e, Of
      <3>3. carried = IF i = 0 THEN Producing(outer, 0) ELSE Producing(inner, i - 1)
        BY <3>1, <3>2 DEF e, carried
      <3> QED
        BY <2>1, <3>3 DEF Producing
    <2>2. CASE ~(r \in Incoming(p, a) /\ Block(p, a) = "BB1" /\ inner # 0)
      <3>1. Of(InterloopDependencies(p, a)) = {}
        BY <1>3, <2>2
      <3> HIDE DEF Of
      <3> QED
        BY <2>2, <3>1
    <2> QED
      BY <2>1, <2>2
  <1>9. invariant = IF r \in Incoming(p, a) /\ Block(p, a) \in {"BB1", "BB2"} /\ inner = 0
                    THEN Producing(outer, 0) ELSE {}
    <2> HIDE DEF local, inner, outer, i, a
    <2>1. CASE r \in Incoming(p, a) /\ Block(p, a) \in {"BB1", "BB2"} /\ inner = 0 /\ outer # 0
      <3>1. Of(InvariantDependencies(p, a)) = {Dependency(r, outer, 0)}
        BY <1>4, <2>1
      <3> DEFINE e == Dependency(r, outer, 0)
      <3>2. e.reg = r /\ e.producer = outer /\ e.previous = 0
        BY DEF Dependency
      <3> HIDE DEF e, Of
      <3>3. invariant = Producing(outer, 0)
        BY <3>1, <3>2 DEF e, invariant
      <3> QED
        BY <2>1, <3>3 DEF Producing
    <2>2. CASE ~(r \in Incoming(p, a) /\ Block(p, a) \in {"BB1", "BB2"} /\ inner = 0 /\ outer # 0)
      <3>1. Of(InvariantDependencies(p, a)) = {}
        BY <1>4, <2>2
      <3> HIDE DEF Of
      <3> QED
        BY <2>2, <3>1 DEF Producing
    <2> QED
      BY <2>1, <2>2
  <1>10. final = IF r \in Incoming(p, a) /\ Block(p, a) = "BB2" /\ inner # 0
                 THEN {<<inner, k - 1>>} ELSE {}
    <2> HIDE DEF local, inner, outer, i, a
    <2>1. CASE r \in Incoming(p, a) /\ Block(p, a) = "BB2" /\ inner # 0
      <3>1. Of(PostLoopDependencies(p, a)) = {Dependency(r, inner, 0)}
        BY <1>5, <2>1
      <3> DEFINE e == Dependency(r, inner, 0)
      <3>2. e.reg = r /\ e.producer = inner /\ e.previous = 0
        BY DEF Dependency
      <3> HIDE DEF e, Of
      <3>3. final = Producing(inner, k - 1)
        BY <3>1, <3>2 DEF e, final
      <3> QED
        BY <2>1, <3>3 DEF Producing
    <2>2. CASE ~(r \in Incoming(p, a) /\ Block(p, a) = "BB2" /\ inner # 0)
      <3>1. Of(PostLoopDependencies(p, a)) = {}
        BY <1>5, <2>2
      <3> HIDE DEF Of
      <3> QED
        BY <2>2, <3>1
    <2> QED
      BY <2>1, <2>2
  <1>11. PredictedCase(p, k, x, r) =
           IF r \notin Incoming(p, a) THEN {<<local, i>>}
           ELSE IF Block(p, a) = "BB1" /\ inner # 0
                THEN IF i = 0 THEN Producing(outer, 0) ELSE {<<inner, i - 1>>}
           ELSE IF Block(p, a) \in {"BB1", "BB2"} /\ inner = 0 THEN Producing(outer, 0)
           ELSE IF Block(p, a) = "BB2" THEN {<<inner, k - 1>>} ELSE {}
    BY DEF PredictedCase
  <1> HIDE DEF local, inner, outer, i, a, first, carried, invariant, final
  <1> QED
    BY <1>1, <1>7, <1>8, <1>9, <1>10, <1>11

\* What comes between an instance and a writer of its own block and iteration writes r
\* before it, so that the local producer is not before that writer.
LEMMA NoLocalBetween ==
    ASSUME NEW p, Splittable(p), NEW k \in Nat \ {0}, NEW x \in Instances(p, k), NEW r,
           NEW z, WritesBefore(p, k, z, x, r), Rank(p, z[1]) = Rank(p, x[1]), z[2] = x[2]
    PROVE  LocalProducer(p, x[1], r) # 0 /\ z[1] <= LocalProducer(p, x[1], r)
  <1>1. z \in Instances(p, k) /\ r \in p.code[z[1]].dst /\ Precedes(p, z, x)
    BY DEF WritesBefore
  <1>2. /\ z[1] \in DOMAIN p.code /\ x[1] \in DOMAIN p.code
        /\ z[1] \in Nat /\ x[1] \in Nat /\ z[2] \in Nat /\ x[2] \in Nat
        /\ Block(p, z[1]) = Block(p, x[1])
    BY <1>1, InstanceIs
  <1>3. z[1] < x[1]
    <2>1. Rank(p, z[1]) \in Nat /\ Rank(p, x[1]) \in Nat
      BY <1>1, InstanceIs
    <2> QED
      BY <1>1, <1>2, <2>1 DEF Precedes
  <1> QED
    BY <1>1, <1>2, <1>3, SplittableIs, LocalProducerIs

\* The dependency analysis is right about an operand that its own block wrote before.
LEMMA LocalReaches ==
    ASSUME NEW p, Splittable(p), NEW k \in Nat \ {0}, NEW x \in Instances(p, k),
           NEW r \in Reads(p.code[x[1]]), r \notin Incoming(p, x[1])
    PROVE  Reaching(p, k, x, r) = {<<LocalProducer(p, x[1], r), x[2]>>}
  <1> DEFINE w == <<LocalProducer(p, x[1], r), x[2]>>
             l == LocalProducer(p, x[1], r)
  <1>1. /\ x[1] \in DOMAIN p.code /\ x[1] \in Nat /\ x[2] \in Nat /\ x[2] <= k - 1
        /\ Block(p, x[1]) # "BB1" => x[2] = 0
        /\ Block(p, x[1]) \in {"BB0", "BB1", "BB2"}
    BY InstanceIs, BlockIs
  <1>2. /\ l \in DOMAIN p.code /\ r \in p.code[l].dst /\ l < x[1]
        /\ Block(p, l) = Block(p, x[1]) /\ l \in Nat
    BY <1>1, SplittableIs, LocalProducerIs DEF Incoming
  <1>3. w \in Instances(p, k) /\ w[1] = l /\ w[2] = x[2]
    <2> HIDE DEF l
    <2> QED
      BY <1>1, <1>2, InstanceMade DEF l
  <1> HIDE DEF w, l
  <1>4. Rank(p, w[1]) = Rank(p, x[1]) /\ Rank(p, w[1]) \in Nat
    BY <1>2, <1>3, InstanceIs DEF Rank
  <1>5. Precedes(p, w, x)
    BY <1>2, <1>3, <1>4 DEF Precedes
  <1>6. ASSUME NEW z, WritesBefore(p, k, z, x, r), Precedes(p, w, z) PROVE FALSE
    <2>1. z \in Instances(p, k) /\ Precedes(p, z, x)
      BY <1>6 DEF WritesBefore
    <2>2. /\ Rank(p, z[1]) \in Nat /\ z[1] \in Nat /\ z[2] \in Nat /\ w[1] \in Nat
          /\ w[2] \in Nat /\ Rank(p, x[1]) \in Nat
      BY <1>3, <2>1, InstanceIs
    <2>3. Rank(p, z[1]) = Rank(p, x[1])
      BY <1>4, <1>6, <2>1, <2>2 DEF Precedes
    <2>4. z[2] = x[2] /\ w[1] < z[1]
      BY <1>1, <1>3, <1>4, <1>6, <2>1, <2>2, <2>3 DEF Precedes
    <2>5. z[1] <= l
      BY <1>6, <2>3, <2>4, NoLocalBetween DEF l
    <2> QED
      BY <1>2, <1>3, <2>2, <2>4, <2>5
  <1>7. LastBefore(p, k, w, x, r)
    BY <1>2, <1>3, <1>5, <1>6 DEF LastBefore, WritesBefore
  <1> QED
    BY <1>7, ReachingLast DEF w, l

\* Only instances of earlier blocks or iterations can give r to an instance whose own
\* block has not written r yet.
LEMMA NotLocal ==
    ASSUME NEW p, Splittable(p), NEW k \in Nat \ {0}, NEW x \in Instances(p, k), NEW r,
           LocalProducer(p, x[1], r) = 0, NEW z, WritesBefore(p, k, z, x, r)
    PROVE  /\ z \in Instances(p, k) /\ r \in p.code[z[1]].dst
           /\ z[1] \in InBlock(p, Block(p, z[1]))
           /\ \/ Rank(p, z[1]) < Rank(p, x[1])
              \/ Rank(p, z[1]) = 1 /\ Rank(p, x[1]) = 1 /\ z[2] < x[2]
  <1>1. z \in Instances(p, k) /\ r \in p.code[z[1]].dst /\ Precedes(p, z, x)
    BY DEF WritesBefore
  <1>2. /\ z[1] \in DOMAIN p.code /\ z[2] \in Nat /\ x[2] \in Nat
        /\ z[1] \in InBlock(p, Block(p, z[1]))
        /\ Rank(p, z[1]) \in {0, 1, 2} /\ Rank(p, x[1]) \in {0, 1, 2}
        /\ Rank(p, z[1]) # 1 => z[2] = 0
        /\ Rank(p, x[1]) # 1 => x[2] = 0
    BY <1>1, InstanceIs DEF InBlock
  <1>3. ~(Rank(p, z[1]) = Rank(p, x[1]) /\ z[2] = x[2])
    BY NoLocalBetween
  <1> QED
    BY <1>1, <1>2, <1>3 DEF Precedes

\* An operand from BB0, when nothing later wrote it.
LEMMA OuterReaches ==
    ASSUME NEW p, Splittable(p), NEW k \in Nat \ {0}, NEW x \in Instances(p, k), NEW r,
           LocalProducer(p, x[1], r) = 0, Rank(p, x[1]) # 0,
           BlockProducer(p, "BB1", r) = 0 \/ (Rank(p, x[1]) = 1 /\ x[2] = 0)
    PROVE  Reaching(p, k, x, r) = Producing(BlockProducer(p, "BB0", r), 0)
  <1> DEFINE o == BlockProducer(p, "BB0", r)
             w == <<o, 0>>
  <1>1. ASSUME NEW z, WritesBefore(p, k, z, x, r)
        PROVE  /\ z \in Instances(p, k) /\ Rank(p, z[1]) = 0 /\ z[2] = 0
               /\ o # 0 /\ z[1] <= o /\ z[1] \in Nat
    <2>1. /\ z \in Instances(p, k) /\ r \in p.code[z[1]].dst
          /\ z[1] \in InBlock(p, Block(p, z[1]))
          /\ \/ Rank(p, z[1]) < Rank(p, x[1])
             \/ Rank(p, z[1]) = 1 /\ Rank(p, x[1]) = 1 /\ z[2] < x[2]
      BY <1>1, NotLocal
    <2>2. /\ Rank(p, z[1]) \in {0, 1, 2} /\ Rank(p, x[1]) \in {0, 1, 2}
          /\ Rank(p, z[1]) = 1 => Block(p, z[1]) = "BB1"
          /\ Rank(p, z[1]) = 0 => Block(p, z[1]) = "BB0" /\ z[2] = 0
          /\ z[1] \in Nat /\ z[2] \in Nat /\ x[2] \in Nat
      BY <2>1, InstanceIs
    <2>3. Rank(p, z[1]) # 1
      <3>1. Rank(p, z[1]) = 1 => BlockProducer(p, "BB1", r) # 0
        BY <2>1, <2>2, SplittableIs, BlockProducerIs
      <3> QED
        BY <2>1, <2>2, <3>1
    <2>4. Rank(p, z[1]) = 0
      BY <2>1, <2>2, <2>3
    <2> QED
      BY <2>1, <2>2, <2>4, SplittableIs, BlockProducerIs
  <1>2. CASE o = 0
    <2>1. Reaching(p, k, x, r) = {}
      BY <1>1, <1>2, ReachingNone
    <2> QED
      BY <1>2, <2>1 DEF Producing
  <1>3. CASE o # 0
    <2>1. o \in DOMAIN p.code /\ Block(p, o) = "BB0" /\ r \in p.code[o].dst /\ o \in Nat
      BY <1>3, SplittableIs, BlockProducerIs DEF InBlock
    <2>2. w \in Instances(p, k) /\ w[1] = o /\ w[2] = 0
      <3> HIDE DEF o
      <3> QED
        BY <2>1, InstanceMade
    <2> HIDE DEF o, w
    <2>3. Rank(p, w[1]) = 0 /\ Rank(p, x[1]) \in {0, 1, 2}
      BY <2>1, <2>2, InstanceIs
    <2>4. WritesBefore(p, k, w, x, r)
      BY <2>1, <2>2, <2>3 DEF WritesBefore, Precedes
    <2>5. LastBefore(p, k, w, x, r)
      <3>1. ASSUME NEW z, WritesBefore(p, k, z, x, r) PROVE ~Precedes(p, w, z)
        BY <1>1, <2>1, <2>2, <2>3, <3>1 DEF Precedes
      <3> QED
        BY <2>4, <3>1 DEF LastBefore
    <2>6. Reaching(p, k, x, r) = {w}
      BY <2>5, ReachingLast
    <2> QED
      BY <1>3, <2>6 DEF Producing, w, o
  <1> QED
    BY <1>2, <1>3

\* An operand from the loop, of the iteration before or of the last one.
LEMMA InnerReaches ==
    ASSUME NEW p, Splittable(p), NEW k \in Nat \ {0}, NEW x \in Instances(p, k), NEW r,
           LocalProducer(p, x[1], r) = 0, BlockProducer(p, "BB1", r) # 0,
           NEW j \in Nat,
           (Rank(p, x[1]) = 1 /\ j = x[2] - 1) \/ (Rank(p, x[1]) = 2 /\ j = k - 1)
    PROVE  Reaching(p, k, x, r) = {<<BlockProducer(p, "BB1", r), j>>}
  <1> DEFINE o == BlockProducer(p, "BB1", r)
             w == <<o, j>>
  <1>1. /\ x[1] \in Nat /\ x[2] \in Nat /\ x[2] <= k - 1
        /\ Rank(p, x[1]) = 1 => Block(p, x[1]) = "BB1"
    BY InstanceIs
  <1>2. o \in DOMAIN p.code /\ Block(p, o) = "BB1" /\ r \in p.code[o].dst /\ o \in Nat
    BY SplittableIs, BlockProducerIs DEF InBlock
  <1>3. w \in Instances(p, k) /\ w[1] = o /\ w[2] = j
    <2>1. j <= k - 1
      BY <1>1
    <2> HIDE DEF o
    <2> QED
      BY <1>2, <2>1, InstanceMade
  <1> HIDE DEF w, o
  <1>4. Rank(p, w[1]) = 1
    BY <1>2, <1>3, InstanceIs
  <1>5. WritesBefore(p, k, w, x, r)
    BY <1>1, <1>2, <1>3, <1>4 DEF WritesBefore, Precedes
  <1>6. ASSUME NEW z, WritesBefore(p, k, z, x, r), Precedes(p, w, z) PROVE FALSE
    <2>1. /\ z \in Instances(p, k) /\ r \in p.code[z[1]].dst
          /\ z[1] \in InBlock(p, Block(p, z[1]))
          /\ \/ Rank(p, z[1]) < Rank(p, x[1])
             \/ Rank(p, z[1]) = 1 /\ Rank(p, x[1]) = 1 /\ z[2] < x[2]
      BY <1>6, NotLocal
    <2>2. /\ Rank(p, z[1]) \in {0, 1, 2} /\ Rank(p, x[1]) \in {0, 1, 2}
          /\ Rank(p, z[1]) = 1 => Block(p, z[1]) = "BB1"
          /\ z[1] \in Nat /\ z[2] \in Nat /\ z[2] <= k - 1
      BY <2>1, InstanceIs
    <2>3. Rank(p, z[1]) = 1 /\ z[2] <= j
      BY <1>1, <1>4, <1>6, <2>1, <2>2 DEF Precedes
    <2>4. o < z[1]
      BY <1>2, <1>3, <1>4, <1>6, <2>2, <2>3 DEF Precedes
    <2>5. z[1] <= o
      BY <2>1, <2>2, <2>3, SplittableIs, BlockProducerIs DEF o
    <2> QED
      BY <1>2, <2>2, <2>4, <2>5
  <1>7. LastBefore(p, k, w, x, r)
    BY <1>5, <1>6 DEF LastBefore
  <1> QED
    BY <1>7, ReachingLast DEF w, o

\* Nothing in BB0 that was not written there before reaches BB0.
LEMMA NothingReaches ==
    ASSUME NEW p, Splittable(p), NEW k \in Nat \ {0}, NEW x \in Instances(p, k), NEW r,
           LocalProducer(p, x[1], r) = 0, Rank(p, x[1]) = 0
    PROVE  Reaching(p, k, x, r) = {}
  <1>1. ASSUME NEW z, WritesBefore(p, k, z, x, r) PROVE FALSE
    <2>1. /\ z \in Instances(p, k)
          /\ \/ Rank(p, z[1]) < Rank(p, x[1])
             \/ Rank(p, z[1]) = 1 /\ Rank(p, x[1]) = 1 /\ z[2] < x[2]
      BY <1>1, NotLocal
    <2>2. Rank(p, z[1]) \in {0, 1, 2}
      BY <2>1, InstanceIs
    <2> QED
      BY <2>1, <2>2
  <1> QED
    BY <1>1, ReachingNone

\* For every program with one loop, every number of iterations and every operand of
\* every instance, the dependency analysis names the instance whose value a sequential
\* run reads.
LEMMA AnalysisReaches ==
    ASSUME NEW p, Splittable(p), NEW k \in Nat \ {0}, NEW x \in Instances(p, k),
           NEW r \in Reads(p.code[x[1]])
    PROVE  Predicted(p, k, x, r) = Reaching(p, k, x, r)
  <1>1. Predicted(p, k, x, r) = PredictedCase(p, k, x, r)
    BY PredictedIs
  <1>2. /\ x[2] \in Nat /\ Rank(p, x[1]) \in {0, 1, 2}
        /\ Rank(p, x[1]) = 0 <=> Block(p, x[1]) = "BB0"
        /\ Rank(p, x[1]) = 1 <=> Block(p, x[1]) = "BB1"
        /\ Rank(p, x[1]) = 2 <=> Block(p, x[1]) = "BB2"
        /\ Block(p, x[1]) # "BB1" => x[2] = 0
    BY InstanceIs
  <1>3. CASE r \notin Incoming(p, x[1])
    BY <1>1, <1>3, LocalReaches DEF PredictedCase
  <1>4. CASE r \in Incoming(p, x[1])
    <2>1. LocalProducer(p, x[1], r) = 0
      BY <1>4 DEF Incoming
    <2>2. CASE Rank(p, x[1]) = 0
      BY <1>1, <1>2, <1>4, <2>1, <2>2, NothingReaches DEF PredictedCase
    <2>3. CASE Rank(p, x[1]) # 0 /\ BlockProducer(p, "BB1", r) = 0
      BY <1>1, <1>2, <1>4, <2>1, <2>3, OuterReaches DEF PredictedCase
    <2>4. CASE Rank(p, x[1]) = 1 /\ BlockProducer(p, "BB1", r) # 0 /\ x[2] = 0
      BY <1>1, <1>2, <1>4, <2>1, <2>4, OuterReaches DEF PredictedCase
    <2>5. CASE Rank(p, x[1]) = 1 /\ BlockProducer(p, "BB1", r) # 0 /\ x[2] # 0
      <3> DEFINE j == x[2] - 1
      <3>1. j \in Nat /\ j = x[2] - 1
        BY <1>2, <2>5
      <3> HIDE DEF j
      <3>2. Reaching(p, k, x, r) = {<<BlockProducer(p, "BB1", r), j>>}
        BY <2>1, <2>5, <3>1, InnerReaches
      <3> QED
        BY <1>1, <1>2, <1>4, <2>5, <3>1, <3>2 DEF PredictedCase
    <2>6. CASE Rank(p, x[1]) = 2 /\ BlockProducer(p, "BB1", r) # 0
      <3> DEFINE j == k - 1
      <3>1. j \in Nat /\ j = k - 1
        OBVIOUS
      <3> HIDE DEF j
      <3>2. Reaching(p, k, x, r) = {<<BlockProducer(p, "BB1", r), j>>}
        BY <2>1, <2>6, <3>1, InnerReaches
      <3> QED
        BY <1>1, <1>2, <1>4, <2>6, <3>1, <3>2 DEF PredictedCase
    <2> QED
      BY <1>2, <2>2, <2>3, <2>4, <2>5, <2>6
  <1> QED
    BY <1>3, <1>4

-----------------------------------------------------------------------------
(* Programs without a loop, too *)

\* What the plain loop backend takes: one loop that goes back, or none.
Compilable(p) == p \in Program /\ (HasLoop(p) => Splittable(p))

\* A program without a loop is one block.
LEMMA StraightIs ==
    ASSUME NEW p, ~HasLoop(p)
    PROVE  /\ \A a : Block(p, a) = "BB0"
           /\ InBlock(p, "BB0") = DOMAIN p.code
           /\ InBlock(p, "BB1") = {} /\ InBlock(p, "BB2") = {}
  <1>1. \A a : Block(p, a) = "BB0"
    BY DEF Block
  <1> QED
    BY <1>1 DEF InBlock

\* Without a loop, an operand comes from the last writer before it.
LEMMA StraightReaches ==
    ASSUME NEW p \in Program, ~HasLoop(p), NEW k \in Nat \ {0}, NEW x \in Instances(p, k),
           NEW r
    PROVE  Reaching(p, k, x, r) = Producing(LocalProducer(p, x[1], r), 0)
  <1> DEFINE w == LocalProducer(p, x[1], r)
             before == {y \in Instances(p, k) :
                          /\ r \in p.code[y[1]].dst
                          /\ Position(p, k, y) < Position(p, k, x)}
  <1>1. DOMAIN p.code \in SUBSET Nat
    BY ProgramIs
  <1>2. Instances(p, k) = (DOMAIN p.code) \X {0}
    BY StraightIs DEF Instances
  <1>3. ASSUME NEW y \in Instances(p, k)
        PROVE  /\ y = <<y[1], 0>> /\ y[1] \in DOMAIN p.code /\ y[1] \in Nat
               /\ Position(p, k, y) = y[1]
    <2>1. y = <<y[1], 0>> /\ y[2] = 0 /\ y[1] \in DOMAIN p.code /\ y[1] \in Nat
      BY <1>1, <1>2, <1>3
    <2>2. Cardinality(InBlock(p, "BB1")) = 0
      BY StraightIs, FS_EmptySet
    <2>3. Position(p, k, y) = y[1] + 0 * 0
      BY <2>1, <2>2, StraightIs DEF Position
    <2> QED
      BY <2>1, <2>3
  <1>4. /\ w \in Nat
        /\ w # 0 => w \in DOMAIN p.code /\ r \in p.code[w].dst /\ w < x[1]
        /\ \A v \in DOMAIN p.code : r \in p.code[v].dst /\ v < x[1] => w # 0 /\ v <= w
    BY <1>3, StraightIs, LocalProducerIs
  <1>5. \A y : y \in before <=> /\ y \in Instances(p, k) /\ r \in p.code[y[1]].dst
                               /\ y[1] < x[1]
    BY <1>3
  <1>6. Reaching(p, k, x, r) =
           {y \in before : \A z \in before : Position(p, k, z) <= Position(p, k, y)}
    BY DEF Reaching
  <1> HIDE DEF w, before
  <1>7. CASE w = 0
    <2>1. before = {}
      BY <1>3, <1>4, <1>5, <1>7
    <2> QED
      BY <1>6, <1>7, <2>1 DEF Producing, w
  <1>8. CASE w # 0
    <2>1. <<w, 0>> \in Instances(p, k)
      BY <1>2, <1>4, <1>8
    <2>2. <<w, 0>> \in before
      BY <1>4, <1>5, <1>8, <2>1
    <2>3. \A z \in before : z = <<z[1], 0>> /\ Position(p, k, z) = z[1] /\ z[1] \in Nat /\ z[1] <= w
      BY <1>3, <1>4, <1>5
    <2>4. Position(p, k, <<w, 0>>) = w
      BY <2>1, <1>3
    <2>5. ASSUME NEW y \in before, \A z \in before : Position(p, k, z) <= Position(p, k, y)
          PROVE  y = <<w, 0>>
      <3>1. w <= y[1] /\ y[1] <= w /\ y[1] \in Nat
        BY <2>2, <2>3, <2>4, <2>5
      <3> QED
        BY <1>4, <2>3, <3>1
    <2>6. Reaching(p, k, x, r) = {<<w, 0>>}
      BY <1>6, <2>2, <2>3, <2>4, <2>5
    <2> QED
      BY <1>8, <2>6 DEF Producing, w
  <1> QED
    BY <1>7, <1>8

\* Of every program, what an operand reads, by cases.
LEMMA CaseReaches ==
    ASSUME NEW p, Compilable(p), NEW k \in Nat \ {0}, NEW x \in Instances(p, k),
           NEW r \in Reads(p.code[x[1]])
    PROVE  Reaching(p, k, x, r) = PredictedCase(p, k, x, r)
  <1>1. CASE HasLoop(p)
    BY <1>1, AnalysisReaches, PredictedIs DEF Compilable
  <1>2. CASE ~HasLoop(p)
    <2>1. p \in Program /\ \A a : Block(p, a) = "BB0"
      BY <1>2, StraightIs DEF Compilable
    <2>2. x = <<x[1], 0>> /\ x[2] = 0
      BY <1>2, StraightIs DEF Instances
    <2>3. Reaching(p, k, x, r) = Producing(LocalProducer(p, x[1], r), 0)
      BY <1>2, <2>1, StraightReaches
    <2>4. LocalProducer(p, x[1], r) = 0 <=> r \in Incoming(p, x[1])
      BY DEF Incoming
    <2> QED
      BY <2>1, <2>2, <2>3, <2>4 DEF PredictedCase, Producing
  <1> QED
    BY <1>1, <1>2

=============================================================================
