---------------------------- MODULE OoO470Proofs ----------------------------
(***************************************************************************)
(* Renaming in OoO470, and its type correctness, capacity and conservation *)
(* of registers, for every program and every size.                         *)
(*                                                                         *)
(* The processor only keeps the youngest map; what an older instruction    *)
(* read from it has to be worked out from the replaced registers that the  *)
(* Active List remembers.  MapIn does that for an Active List q and a map  *)
(* m, so that the lemmas speak of the state before a step and of the state *)
(* after it alike.  They say what dispatch, retirement and rollback do to  *)
(* the maps of the other instructions (nothing), and that a partition of   *)
(* the registers makes destinations distinct and sources older.            *)
(*                                                                         *)
(* None of the three theorems is inductive.  Dispatch pops the Free List,  *)
(* and pushes on the Active List and the Integer Queue, one instruction at *)
(* a time after a check made once for the bundle: ControlInv carries that  *)
(* check through the loop, and ties the working Active List to the latched *)
(* one while commit pops it.  The pushes on the Free List succeed because  *)
(* of QueuesFit, and what they push is in no other place because of        *)
(* RegisterPartition.                                                      *)
(***************************************************************************)
EXTENDS OoO470, TLAPS, SequenceTheorems, WellFoundedInduction

-----------------------------------------------------------------------------
(* The rename map as each instruction in flight finds it *)

\* The first entry of the Active List q, from position i on, that writes logical
\* register l; 0 if there is none.
FirstWriter(q, i, l) ==
    LET writers == {j \in i .. Len(q) : q[j].ld = l}
    IN  IF writers = {} THEN 0 ELSE CHOOSE j \in writers : \A k \in writers : j <= k

\* The physical register of l as the i-th entry of q finds it.
MapIn(q, m, i, l) ==
    IF FirstWriter(q, i, l) = 0 THEN m[l] ELSE q[FirstWriter(q, i, l)].old

\* The register the i-th entry of q writes.
Dest(q, m, i) == MapIn(q, m, i + 1, q[i].ld)

\* The part of RegisterPartition that distinguishes registers in use.
InUseOnce(q, m) ==
    /\ \A l, k \in LogReg : m[l] = m[k] => l = k
    /\ \A i, j \in 1 .. Len(q) : q[i].old = q[j].old => i = j
    /\ \A i \in 1 .. Len(q), l \in LogReg : q[i].old # m[l]

-----------------------------------------------------------------------------
(* The least writer *)

\* A non-empty set of numbers has a least element.
LEMMA LeastNumber ==
    ASSUME NEW T \in SUBSET Nat, T # {}
    PROVE  \E x \in T : \A y \in T : x <= y
  <1> DEFINE R == {ss \in Nat \X Nat : ss[1] < ss[2]}
  <1>1. IsWellFoundedOn(R, Nat)
    BY NatLessThanWellFounded DEF OpToRel
  <1> HIDE DEF R
  <1>2. PICK x \in T : \A y \in T : ~(<<y, x>> \in R)
    BY <1>1, WFMin
  <1>3. \A y \in T : ~(y < x)
    BY <1>2 DEF R
  <1> QED
    BY <1>3

\* What being the first writer means.
LEMMA FirstWriterIs ==
    ASSUME NEW q, Len(q) \in Nat, NEW i \in Nat \ {0}, NEW l
    PROVE  /\ FirstWriter(q, i, l) \in Nat
           /\ FirstWriter(q, i, l) = 0 => \A k \in i .. Len(q) : q[k].ld # l
           /\ FirstWriter(q, i, l) # 0 =>
                 /\ FirstWriter(q, i, l) \in i .. Len(q)
                 /\ q[FirstWriter(q, i, l)].ld = l
                 /\ \A k \in i .. FirstWriter(q, i, l) - 1 : q[k].ld # l
  <1> DEFINE W == {j \in i .. Len(q) : q[j].ld = l}
             first == CHOOSE j \in W : \A k \in W : j <= k
  <1>1. CASE W = {}
    BY <1>1 DEF FirstWriter
  <1>2. CASE W # {}
    <2>1. W \in SUBSET Nat
      OBVIOUS
    <2>2. \E j \in W : \A k \in W : j <= k
      BY <1>2, <2>1, LeastNumber
    <2>3. first \in W /\ \A k \in W : first <= k
      BY <2>2
    <2>4. FirstWriter(q, i, l) = first
      BY <1>2 DEF FirstWriter
    <2> HIDE DEF first
    <2>5. first \in i .. Len(q) /\ q[first].ld = l
      BY <2>3
    <2>6. ASSUME NEW k \in i .. first - 1 PROVE q[k].ld # l
      <3>1. k \in i .. Len(q) /\ ~(first <= k)
        BY <2>5
      <3> QED
        BY <2>3, <3>1
    <2> QED
      BY <2>4, <2>5, <2>6
  <1> QED
    BY <1>1, <1>2

\* The first writer is the only one with nobody before it.
LEMMA FirstWriterUnique ==
    ASSUME NEW q, Len(q) \in Nat, NEW i \in Nat \ {0}, NEW l,
           NEW j \in i .. Len(q), q[j].ld = l, \A k \in i .. j - 1 : q[k].ld # l
    PROVE  FirstWriter(q, i, l) = j /\ j # 0
  <1> DEFINE first == FirstWriter(q, i, l)
  <1>1. /\ first \in Nat
        /\ first = 0 => \A k \in i .. Len(q) : q[k].ld # l
        /\ first # 0 => /\ first \in i .. Len(q) /\ q[first].ld = l
                        /\ \A k \in i .. first - 1 : q[k].ld # l
    BY FirstWriterIs
  <1> HIDE DEF first
  <1>2. first # 0
    BY <1>1
  <1>3. ~(first < j) /\ ~(j < first)
    BY <1>1, <1>2
  <1>4. first = j
    BY <1>1, <1>2, <1>3
  <1> QED
    BY <1>2, <1>4 DEF first

\* Nobody from i on writes l.
LEMMA FirstWriterNone ==
    ASSUME NEW q, Len(q) \in Nat, NEW i \in Nat \ {0}, NEW l,
           \A k \in i .. Len(q) : q[k].ld # l
    PROVE  FirstWriter(q, i, l) = 0
  BY FirstWriterIs

\* An entry finds the map its predecessor leaves.
LEMMA MapNext ==
    ASSUME NEW q, Len(q) \in Nat, NEW m, NEW i \in 1 .. Len(q), NEW l
    PROVE  MapIn(q, m, i, l) = IF q[i].ld = l THEN q[i].old ELSE MapIn(q, m, i + 1, l)
  <1>0. i \in Nat \ {0} /\ i + 1 \in Nat \ {0}
    OBVIOUS
  <1>1. CASE q[i].ld = l
    <2>1. i \in i .. Len(q) /\ \A k \in i .. i - 1 : q[k].ld # l
      OBVIOUS
    <2>2. FirstWriter(q, i, l) = i
      BY <1>0, <1>1, <2>1, FirstWriterUnique
    <2> QED
      BY <1>1, <2>2 DEF MapIn
  <1>2. CASE q[i].ld # l
    <2> DEFINE next == FirstWriter(q, i + 1, l)
    <2>1. /\ next \in Nat
          /\ next = 0 => \A k \in i + 1 .. Len(q) : q[k].ld # l
          /\ next # 0 => /\ next \in i + 1 .. Len(q) /\ q[next].ld = l
                         /\ \A k \in i + 1 .. next - 1 : q[k].ld # l
      BY <1>0, FirstWriterIs
    <2>2. FirstWriter(q, i, l) = next
      <3> HIDE DEF next
      <3>1. CASE next = 0
        <4>1. \A k \in i .. Len(q) : q[k].ld # l
          BY <1>2, <2>1, <3>1
        <4> QED
          BY <1>0, <3>1, <4>1, FirstWriterNone
      <3>2. CASE next # 0
        <4>1. next \in i .. Len(q) /\ q[next].ld = l /\ \A k \in i .. next - 1 : q[k].ld # l
          BY <1>2, <2>1, <3>2
        <4> QED
          BY <1>0, <4>1, FirstWriterUnique
      <3> QED
        BY <3>1, <3>2
    <2> QED
      BY <1>2, <2>2 DEF MapIn
  <1> QED
    BY <1>1, <1>2

-----------------------------------------------------------------------------
(* What each change of the Active List does to the maps *)

\* Flags do not matter.
LEMMA MapSame ==
    ASSUME NEW q, NEW r, Len(q) \in Nat, Len(r) = Len(q),
           \A k \in 1 .. Len(q) : r[k].ld = q[k].ld /\ r[k].old = q[k].old,
           NEW m, NEW i \in Nat \ {0}, NEW l
    PROVE  MapIn(r, m, i, l) = MapIn(q, m, i, l)
  <1> DEFINE first == FirstWriter(q, i, l)
  <1>1. /\ first \in Nat
        /\ first = 0 => \A k \in i .. Len(q) : q[k].ld # l
        /\ first # 0 => /\ first \in i .. Len(q) /\ q[first].ld = l
                        /\ \A k \in i .. first - 1 : q[k].ld # l
    BY FirstWriterIs
  <1>2. FirstWriter(r, i, l) = first
    <2> HIDE DEF first
    <2>1. CASE first = 0
      <3>1. \A k \in i .. Len(r) : r[k].ld # l
        BY <1>1, <2>1
      <3> QED
        BY <2>1, <3>1, FirstWriterNone
    <2>2. CASE first # 0
      <3>1. first \in i .. Len(r) /\ r[first].ld = l /\ \A k \in i .. first - 1 : r[k].ld # l
        BY <1>1, <2>2
      <3> QED
        BY <3>1, FirstWriterUnique
    <2> QED
      BY <2>1, <2>2
  <1>3. first # 0 => first \in 1 .. Len(q)
    BY <1>1
  <1> QED
    BY <1>2, <1>3 DEF MapIn

\* Retirement leaves to each remaining entry the map it had, one position further on.
LEMMA MapTail ==
    ASSUME NEW q, NEW r, Len(r) \in Nat, Len(q) = Len(r) + 1, \A k \in 1 .. Len(r) : r[k] = q[k + 1],
           NEW m, NEW i \in Nat \ {0}, NEW l
    PROVE  MapIn(r, m, i, l) = MapIn(q, m, i + 1, l)
  <1>0. Len(q) \in Nat /\ i + 1 \in Nat \ {0}
    OBVIOUS
  <1> DEFINE first == FirstWriter(r, i, l)
  <1>1. /\ first \in Nat
        /\ first = 0 => \A k \in i .. Len(r) : r[k].ld # l
        /\ first # 0 => /\ first \in i .. Len(r) /\ r[first].ld = l
                        /\ \A k \in i .. first - 1 : r[k].ld # l
    BY FirstWriterIs
  <1>2. FirstWriter(q, i + 1, l) = IF first = 0 THEN 0 ELSE first + 1
    <2> HIDE DEF first
    <2>1. CASE first = 0
      <3>1. ASSUME NEW k \in i + 1 .. Len(q) PROVE q[k].ld # l
        <4>1. k - 1 \in i .. Len(r) /\ k - 1 \in 1 .. Len(r) /\ (k - 1) + 1 = k
          BY <1>0
        <4> QED
          BY <1>1, <2>1, <4>1
      <3> QED
        BY <1>0, <2>1, <3>1, FirstWriterNone
    <2>2. CASE first # 0
      <3>1. first + 1 \in i + 1 .. Len(q) /\ q[first + 1].ld = l
        BY <1>1, <2>2
      <3>2. ASSUME NEW k \in i + 1 .. (first + 1) - 1 PROVE q[k].ld # l
        <4>1. k - 1 \in i .. first - 1 /\ k - 1 \in 1 .. Len(r) /\ (k - 1) + 1 = k
          BY <1>1, <2>2
        <4> QED
          BY <1>1, <2>2, <4>1
      <3>3. FirstWriter(q, i + 1, l) = first + 1
        BY <1>0, <3>1, <3>2, FirstWriterUnique
      <3> QED
        BY <2>2, <3>3
    <2> QED
      BY <2>1, <2>2
  <1>3. first # 0 => r[first] = q[first + 1] /\ first + 1 # 0
    BY <1>1
  <1> QED
    BY <1>1, <1>2, <1>3 DEF MapIn

\* (r, w) is (q, m) with one younger instruction: its entry remembers the register
\* its logical register was mapped to, and no other mapping changed.
OneYounger(q, m, r, w) ==
    /\ Len(r) = Len(q) + 1 /\ \A k \in 1 .. Len(q) : r[k] = q[k]
    /\ r[Len(q) + 1].ld \in LogReg
    /\ r[Len(q) + 1].old = m[r[Len(q) + 1].ld]
    /\ \A x \in LogReg : x # r[Len(q) + 1].ld => w[x] = m[x]

\* Dispatch and rollback leave every older map as it was; after the youngest entry
\* there is the new map.
LEMMA MapYounger ==
    ASSUME NEW q, NEW m, NEW r, NEW w, Len(q) \in Nat, OneYounger(q, m, r, w),
           NEW i \in 1 .. Len(q) + 1, NEW l \in LogReg
    PROVE  MapIn(r, w, i, l) = MapIn(q, m, i, l)
  <1> DEFINE d == r[Len(q) + 1].ld
             first == FirstWriter(q, i, l)
  <1>0. /\ i \in Nat \ {0} /\ Len(r) \in Nat
        /\ Len(r) = Len(q) + 1 /\ \A k \in 1 .. Len(q) : r[k] = q[k]
        /\ d \in LogReg /\ r[Len(q) + 1].old = m[d]
        /\ \A x \in LogReg : x # d => w[x] = m[x]
    BY DEF OneYounger
  <1>1. /\ first \in Nat
        /\ first = 0 => \A k \in i .. Len(q) : q[k].ld # l
        /\ first # 0 => /\ first \in i .. Len(q) /\ q[first].ld = l
                        /\ \A k \in i .. first - 1 : q[k].ld # l
    BY <1>0, FirstWriterIs
  <1>2. CASE first # 0
    <2> HIDE DEF first
    <2>1. first \in i .. Len(r) /\ r[first].ld = l /\ \A k \in i .. first - 1 : r[k].ld # l
      BY <1>0, <1>1, <1>2
    <2>2. FirstWriter(r, i, l) = first
      BY <1>0, <2>1, FirstWriterUnique, ZenonT(90)
    <2>3. r[first] = q[first]
      BY <1>0, <1>1, <1>2
    <2> QED
      BY <1>2, <2>2, <2>3 DEF MapIn, first
  <1>3. CASE first = 0
    <2>0. MapIn(q, m, i, l) = m[l]
      BY <1>3 DEF MapIn
    <2>1. CASE d = l
      <3>1. /\ Len(q) + 1 \in i .. Len(r)
            /\ \A k \in i .. (Len(q) + 1) - 1 : r[k].ld # l
        BY <1>0, <1>1, <1>3
      <3>h. PICK h \in Nat : h = Len(q) + 1
        OBVIOUS
      <3>2. FirstWriter(r, i, l) = Len(q) + 1 /\ Len(q) + 1 # 0
        <4>1. h \in i .. Len(r) /\ r[h].ld = l /\ \A k \in i .. h - 1 : r[k].ld # l
          BY <2>1, <3>1, <3>h
        <4>2. FirstWriter(r, i, l) = h
          <5> HIDE DEF first
          <5> QED
            BY <1>0, <4>1, FirstWriterUnique, ZenonT(90)
        <4>3. h # 0
          BY <3>h
        <4> QED
          BY <3>h, <4>2, <4>3
      <3>3. MapIn(r, w, i, l) = r[Len(q) + 1].old
        BY <3>2 DEF MapIn
      <3> QED
        BY <1>0, <2>0, <2>1, <3>3
    <2>2. CASE d # l
      <3>1. \A k \in i .. Len(r) : r[k].ld # l
        BY <1>0, <1>1, <1>3, <2>2
      <3>2. FirstWriter(r, i, l) = 0
        BY <1>0, <3>1, FirstWriterNone
      <3>3. MapIn(r, w, i, l) = w[l]
        BY <3>2 DEF MapIn
      <3> QED
        BY <1>0, <2>0, <2>2, <3>3
    <2> QED
      BY <2>1, <2>2
  <1> QED
    BY <1>2, <1>3

-----------------------------------------------------------------------------
(* Registers in use *)

\* A register an entry finds is mapped, or held by an entry at or after it.
LEMMA MapInUse ==
    ASSUME NEW q, Len(q) \in Nat, NEW m, NEW i \in Nat \ {0}, NEW l \in LogReg
    PROVE  \/ \E k \in LogReg : MapIn(q, m, i, l) = m[k]
           \/ \E j \in 1 .. Len(q) : i <= j /\ MapIn(q, m, i, l) = q[j].old
  <1> DEFINE first == FirstWriter(q, i, l)
  <1>1. CASE first = 0
    BY <1>1 DEF MapIn
  <1>2. CASE first # 0
    <2>1. first \in 1 .. Len(q) /\ i <= first
      BY <1>2, FirstWriterIs
    <2>2. MapIn(q, m, i, l) = q[first].old
      BY <1>2 DEF MapIn
    <2> QED
      BY <2>1, <2>2
  <1> QED
    BY <1>1, <1>2

\* It is a physical register.
LEMMA MapType ==
    ASSUME NEW q, Len(q) \in Nat, \A k \in 1 .. Len(q) : q[k].old \in PhysReg,
           NEW m \in [LogReg -> PhysReg], NEW i \in Nat \ {0}, NEW l \in LogReg
    PROVE  MapIn(q, m, i, l) \in PhysReg
  <1>1. CASE \E k \in LogReg : MapIn(q, m, i, l) = m[k]
    BY <1>1
  <1>2. CASE \E j \in 1 .. Len(q) : i <= j /\ MapIn(q, m, i, l) = q[j].old
    BY <1>2
  <1> QED
    BY <1>1, <1>2, MapInUse

\* The register an entry finds for l is written by an older instruction only: the
\* entry whose destination it is stands before it and writes l.
LEMMA SourceOlder ==
    ASSUME NEW q, NEW m, Len(q) \in Nat, InUseOnce(q, m),
           NEW i \in 1 .. Len(q) + 1, NEW l \in LogReg, NEW j \in 1 .. Len(q),
           q[j].ld \in LogReg,
           MapIn(q, m, i, l) = Dest(q, m, j)
    PROVE  j < i /\ q[j].ld = l /\ \A k \in j + 1 .. i - 1 : q[k].ld # l
  <1> DEFINE e == q[j].ld
             g == FirstWriter(q, i, l)
             h == FirstWriter(q, j + 1, e)
  <1>0. i \in Nat \ {0} /\ j + 1 \in Nat \ {0}
    OBVIOUS
  <1>1. /\ g \in Nat
        /\ g = 0 => \A k \in i .. Len(q) : q[k].ld # l
        /\ g # 0 => /\ g \in i .. Len(q) /\ q[g].ld = l
                    /\ \A k \in i .. g - 1 : q[k].ld # l
    BY <1>0, FirstWriterIs
  <1>2. /\ h \in Nat
        /\ h = 0 => \A k \in j + 1 .. Len(q) : q[k].ld # e
        /\ h # 0 => /\ h \in j + 1 .. Len(q) /\ q[h].ld = e
                    /\ \A k \in j + 1 .. h - 1 : q[k].ld # e
    BY <1>0, FirstWriterIs
  <1>3. (IF g = 0 THEN m[l] ELSE q[g].old) = (IF h = 0 THEN m[e] ELSE q[h].old)
    BY DEF MapIn, Dest
  <1>4. /\ g # 0 => g \in 1 .. Len(q)
        /\ h # 0 => h \in 1 .. Len(q)
    BY <1>1, <1>2
  <1> HIDE DEF g, h
  <1>5. g = h /\ l = e
    <2>1. CASE g = 0 /\ h = 0
      BY <1>3, <2>1 DEF InUseOnce
    <2>2. CASE g # 0 /\ h # 0
      <3>1. g = h
        BY <1>3, <1>4, <2>2 DEF InUseOnce
      <3> QED
        BY <1>1, <1>2, <2>2, <3>1
    <2>3. CASE g = 0 /\ h # 0
      BY <1>3, <1>4, <2>3 DEF InUseOnce
    <2>4. CASE g # 0 /\ h = 0
      BY <1>3, <1>4, <2>4 DEF InUseOnce
    <2> QED
      BY <2>1, <2>2, <2>3, <2>4
  <1>6. q[j].ld = l
    BY <1>5
  <1>7. \A k \in j + 1 .. Len(q) : (h = 0 \/ k < h) => q[k].ld # l
    BY <1>2, <1>5
  <1>8. \A k \in i .. Len(q) : (h = 0 \/ k < h) => q[k].ld # l
    BY <1>1, <1>5
  <1>9. h # 0 => i <= h /\ j < h
    BY <1>1, <1>2, <1>5
  <1>10. j < i
    <2>1. ~(i <= j)
      BY <1>6, <1>8, <1>9
    <2> QED
      BY <2>1
  <1>11. ASSUME NEW k \in j + 1 .. i - 1 PROVE q[k].ld # l
    <2>1. k \in j + 1 .. Len(q) /\ (h # 0 => k < h)
      BY <1>2, <1>9
    <2> QED
      BY <1>7, <2>1
  <1> QED
    BY <1>6, <1>10, <1>11

\* No two entries have the same destination.
LEMMA DestinationsDiffer ==
    ASSUME NEW q, NEW m, Len(q) \in Nat, InUseOnce(q, m),
           \A k \in 1 .. Len(q) : q[k].ld \in LogReg,
           NEW i \in 1 .. Len(q), NEW j \in 1 .. Len(q),
           Dest(q, m, i) = Dest(q, m, j)
    PROVE  i = j
  <1>1. q[i].ld \in LogReg /\ q[j].ld \in LogReg
    OBVIOUS
  <1>2. i + 1 \in 1 .. Len(q) + 1 /\ j + 1 \in 1 .. Len(q) + 1
    OBVIOUS
  <1>3. j < i + 1
    <2>1. MapIn(q, m, i + 1, q[i].ld) = Dest(q, m, j)
      BY DEF Dest
    <2> QED
      BY <1>1, <1>2, <2>1, SourceOlder
  <1>4. i < j + 1
    <2>1. MapIn(q, m, j + 1, q[j].ld) = Dest(q, m, i)
      BY DEF Dest
    <2> QED
      BY <1>1, <1>2, <2>1, SourceOlder
  <1> QED
    BY <1>3, <1>4

\* No entry writes a register that the oldest finds mapped.
LEMMA CommittedApart ==
    ASSUME NEW q, NEW m, Len(q) \in Nat, InUseOnce(q, m),
           \A k \in 1 .. Len(q) : q[k].ld \in LogReg,
           NEW l \in LogReg, NEW j \in 1 .. Len(q)
    PROVE  MapIn(q, m, 1, l) # Dest(q, m, j)
  <1>1. q[j].ld \in LogReg /\ 1 \in 1 .. Len(q) + 1
    OBVIOUS
  <1>2. ASSUME MapIn(q, m, 1, l) = Dest(q, m, j) PROVE FALSE
    <2>1. j < 1
      BY <1>1, <1>2, SourceOlder
    <2> QED
      BY <2>1
  <1> QED
    BY <1>2

-----------------------------------------------------------------------------
(* The definitions of OoO470 in these terms *)

\* Destination and CommittedMap are the maps after an entry and before all of them.
LEMMA RenamingTerms ==
    ASSUME TypeOK
    PROVE  /\ \A i \in DOMAIN al : Destination(i) = Dest(al, map, i)
           /\ \A l \in LogReg : CommittedMap(l) = MapIn(al, map, 1, l)
  <1>1. DOMAIN al = 1 .. Len(al) /\ Len(al) \in Nat
    BY DEF TypeOK
  <1>2. ASSUME NEW i \in Nat \ {0}, NEW l
        PROVE  MapIn(al, map, i, l) =
                  LET later == {j \in i .. Len(al) : al[j].ld = l}
                  IN  IF later = {} THEN map[l]
                      ELSE al[CHOOSE j \in later : \A k \in later : j <= k].old
    <2> DEFINE W == {j \in i .. Len(al) : al[j].ld = l}
    <2>1. CASE W = {}
      BY <2>1 DEF MapIn, FirstWriter
    <2>2. CASE W # {}
      <3>1. FirstWriter(al, i, l) = CHOOSE j \in W : \A k \in W : j <= k
        BY <2>2 DEF FirstWriter
      <3>2. PICK w \in i .. Len(al) : al[w].ld = l
        BY <2>2
      <3>3. FirstWriter(al, i, l) # 0
        BY <1>1, <3>2, FirstWriterIs
      <3> QED
        BY <2>2, <3>1, <3>3 DEF MapIn
    <2> QED
      BY <2>1, <2>2
  <1>3. ASSUME NEW l \in LogReg PROVE CommittedMap(l) = MapIn(al, map, 1, l)
    <2>1. MapIn(al, map, 1, l) =
                  LET later == {j \in 1 .. Len(al) : al[j].ld = l}
                  IN  IF later = {} THEN map[l]
                      ELSE al[CHOOSE j \in later : \A k \in later : j <= k].old
      <3>1. 1 \in Nat \ {0}
        OBVIOUS
      <3> QED
        BY <1>2, <3>1, Zenon
    <2> QED
      BY <1>1, <2>1 DEF CommittedMap
  <1>4. ASSUME NEW i \in DOMAIN al PROVE Destination(i) = Dest(al, map, i)
    <2>1. i + 1 \in Nat \ {0}
      BY <1>1
    <2>2. MapIn(al, map, i + 1, al[i].ld) =
                  LET later == {j \in i + 1 .. Len(al) : al[j].ld = al[i].ld}
                  IN  IF later = {} THEN map[al[i].ld]
                      ELSE al[CHOOSE j \in later : \A k \in later : j <= k].old
      BY <1>2, <2>1
    <2> QED
      BY <2>2 DEF Destination, Dest
  <1> QED
    BY <1>3, <1>4

\* Conservation of registers keeps the registers in use apart.
LEMMA PartitionApart ==
    ASSUME TypeOK, RegisterPartition
    PROVE  InUseOnce(al, map)
  <1>1. ASSUME NEW i \in DOMAIN al, NEW l \in LogReg PROVE al[i].old # map[l]
    <2>1. map[l] \in PhysReg
      BY DEF TypeOK
    <2> QED
      BY <2>1 DEF RegisterPartition, Mapped, Held
  <1> QED
    BY <1>1 DEF InUseOnce, RegisterPartition

-----------------------------------------------------------------------------
(* The invariant *)

\* The addresses of a bundle are addresses of instructions.
InProgram(s) == \A i \in DOMAIN s : s[i] < Len(prog)

\* What the loops of commit and of dispatch rely on, at each of their iterations.
ControlInv ==
    /\ InProgram(dir) /\ InProgram(curr.dir)
    /\ step = "execution" => curr.dir = dir /\ curr.al = al
    /\ step = "commit" => n <= Len(curr.al) /\ Len(al) = Len(curr.al) - n
    /\ step = "dispatch" =>
          /\ n <= Len(curr.dir)
          /\ Len(curr.dir) - n <= Len(fl)
          /\ Len(curr.dir) - n <= ALCap - Len(al)
          /\ Len(curr.dir) - n <= IQCap - Len(iq)

\* The inductive invariant.
IInv == TypeOK /\ ControlInv /\ QueuesFit /\ RegisterPartition

USE SizeAssumption, ProgramAssumption, WordAssumption, LogicalAssumption

-----------------------------------------------------------------------------
(* Types *)

\* A push keeps the type of a queue.
LEMMA PushType ==
    ASSUME NEW S, NEW q \in Seq(S), NEW cap \in Nat, NEW e \in S
    PROVE  Push(q, cap, e) \in Seq(S)
  BY DEF Push

\* The ALUs compute words from words.
LEMMA ComputeType ==
    ASSUME NEW op \in Opcode, NEW a \in Word, NEW b \in Word
    PROVE  Compute(op, a, b) \in Word
  <1> /\ a \in Nat /\ b \in Nat /\ a < WordMod /\ b < WordMod
    BY DEF Word
  <1>1. CASE op \in {"add", "addi"}
    <2>1. Compute(op, a, b) = (a + b) % WordMod
      BY <1>1, Zenon DEF Compute
    <2> QED
      BY <2>1 DEF Word
  <1>2. CASE op = "sub"
    <2>1. Compute(op, a, b) = (a - b) % WordMod
      BY <1>2, Zenon DEF Compute
    <2> QED
      BY <2>1 DEF Word
  <1>3. CASE op = "mulu"
    <2>1. Compute(op, a, b) = (a * b) % WordMod
      BY <1>3, Zenon DEF Compute
    <2> QED
      BY <2>1 DEF Word
  <1>4. CASE op = "divu"
    <2>1. Compute(op, a, b) = IF b = 0 THEN 0 ELSE a \div b
      BY <1>4, Zenon DEF Compute
    <2>2. b # 0 => a \div b \in Nat /\ a \div b <= a
      OBVIOUS
    <2> QED
      BY <2>1, <2>2 DEF Word
  <1>5. CASE op = "remu"
    <2>1. Compute(op, a, b) = IF b = 0 THEN 0 ELSE a % b
      BY <1>5, Zenon DEF Compute
    <2>2. b # 0 => a % b \in Nat /\ a % b < b
      OBVIOUS
    <2> QED
      BY <2>1, <2>2 DEF Word
  <1> QED
    BY <1>1, <1>2, <1>3, <1>4, <1>5 DEF Opcode

\* What leaves an ALU is a forwarding result.
LEMMA ResultType ==
    ASSUME NEW e \in IssuedInstruction
    PROVE  ResultOf(e) \in ForwardingResult
  BY ComputeType DEF ResultOf, IssuedInstruction, ForwardingResult, Faults

\* What the forwarding paths deliver is a word.
LEMMA ForwardedType ==
    ASSUME TypeOK, NEW r, Delivered(r) # {}
    PROVE  ForwardedValue(r) \in Word
  <1> DEFINE k == CHOOSE j \in Delivered(r) : TRUE
  <1>1. k \in DOMAIN ctx.fwd
    BY DEF Delivered
  <1>2. ctx.fwd \in Seq(ForwardingResult)
    BY DEF TypeOK, Signals
  <1>3. ctx.fwd[k] \in ForwardingResult
    <2> HIDE DEF k
    <2> QED
      BY <1>1, <1>2, ElementOfSeq, LenProperties
  <1> QED
    BY <1>3 DEF ForwardedValue, ForwardingResult

\* Taking an entry out of the Integer Queue leaves a queue one entry shorter.
LEMMA RemoveAtType ==
    ASSUME NEW S, NEW q \in Seq(S), NEW i \in DOMAIN q
    PROVE  /\ RemoveAt(q, i) \in Seq(S)
           /\ Len(RemoveAt(q, i)) = Len(q) - 1
  <1>1. i \in 1 .. Len(q) /\ Len(q) \in Nat
    OBVIOUS
  <1>2. \A j \in 1 .. Len(q) : q[j] \in S
    OBVIOUS
  <1>3. /\ SubSeq(q, 1, i - 1) \in Seq(S)
        /\ Len(SubSeq(q, 1, i - 1)) = i - 1
    BY <1>1, <1>2, SubSeqProperties
  <1>4. /\ SubSeq(q, i + 1, Len(q)) \in Seq(S)
        /\ Len(SubSeq(q, i + 1, Len(q))) = Len(q) - i
    BY <1>1, <1>2, SubSeqProperties
  <1> DEFINE u == SubSeq(q, 1, i - 1)
             v == SubSeq(q, i + 1, Len(q))
  <1>5. RemoveAt(q, i) = u \o v
    BY DEF RemoveAt
  <1>6. u \in Seq(S) /\ v \in Seq(S) /\ Len(u) = i - 1 /\ Len(v) = Len(q) - i
    BY <1>3, <1>4, Zenon
  <1>7. u \o v \in Seq(S) /\ Len(u \o v) = Len(u) + Len(v)
    BY <1>6, ConcatProperties, Zenon
  <1>8. (i - 1) + (Len(q) - i) = Len(q) - 1
    BY <1>1
  <1> QED
    BY <1>5, <1>6, <1>7, <1>8, Zenon

\* Dispatch finds an instruction at the address the DIR gives, and a free register.
LEMMA DispatchInputs ==
    ASSUME IInv, DispatchNext
    PROVE  /\ curr.dir[n + 1] \in Nat
           /\ prog[curr.dir[n + 1] + 1] \in Instruction
           /\ fl # <<>> /\ Head(fl) \in PhysReg
  <1>1. curr.dir \in Seq(Nat) /\ prog \in Seq(Instruction) /\ fl \in Seq(PhysReg)
    BY DEF IInv, TypeOK, Latched
  <1>2. n + 1 \in 1 .. Len(curr.dir)
    <2>1. n \in Nat /\ n < Len(curr.dir)
      BY DEF DispatchNext, IInv, TypeOK
    <2> QED
      BY <1>1, <2>1
  <1>3. curr.dir[n + 1] \in Nat /\ curr.dir[n + 1] < Len(prog)
    BY <1>1, <1>2 DEF IInv, ControlInv, InProgram
  <1>4. Len(fl) # 0
    <2>1. Len(curr.dir) - n <= Len(fl) /\ n < Len(curr.dir)
      BY DEF DispatchNext, IInv, ControlInv
    <2>2. n \in Nat /\ Len(curr.dir) \in Nat
      BY <1>1 DEF IInv, TypeOK
    <2> QED
      BY <2>1, <2>2
  <1> QED
    BY <1>1, <1>3, <1>4

\* What dispatch enters in the Integer Queue is an entry of it.
LEMMA QueueEntryType ==
    ASSUME TypeOK, NEW i \in Instruction, NEW p \in Nat, NEW dst \in PhysReg
    PROVE  QueueEntry(i, p, dst) \in IntegerQueueEntry
  <1>1. map[i.rs1] \in PhysReg /\ map[i.rs2] \in PhysReg
    BY DEF TypeOK, Instruction
  <1>2. \A r \in PhysReg : ReadOperand(r) \in Word
    BY DEF TypeOK, ReadOperand, Word
  <1>3. 0 \in PhysReg
    BY DEF PhysReg
  <1>4. busy[map[i.rs1]] \in BOOLEAN /\ busy[map[i.rs2]] \in BOOLEAN
    BY <1>1 DEF TypeOK
  <1> QED
    BY <1>1, <1>2, <1>3, <1>4 DEF QueueEntry, IntegerQueueEntry, Instruction

\* Fetch gives addresses inside the program, whatever the PC is.
LEMMA BundleType ==
    ASSUME TypeOK, NEW from \in Nat
    PROVE  /\ FetchBundle(from) \in Seq(Nat)
           /\ InProgram(FetchBundle(from))
  <1> DEFINE k == IF Len(prog) <= from THEN 0 ELSE Least(Width, Len(prog) - from)
  <1>1. Len(prog) \in Nat
    BY DEF TypeOK
  <1>2. k \in Nat /\ k <= Width /\ (k # 0 => from + k <= Len(prog))
    BY <1>1 DEF Least
  <1>3. 1 .. Least(Width, Len(prog) - from) = 1 .. k
    BY <1>1 DEF Least
  <1>4. FetchBundle(from) = [i \in 1 .. k |-> from + i - 1]
    BY <1>3 DEF FetchBundle
  <1> HIDE DEF k
  <1>5. \A i \in 1 .. k : from + i - 1 \in Nat /\ from + i - 1 < Len(prog)
    BY <1>1, <1>2
  <1> QED
    BY <1>2, <1>4, <1>5 DEF InProgram

\* The reset state has its types.
LEMMA InitType == Init => TypeOK
  <1> SUFFICES ASSUME Init PROVE TypeOK
    OBVIOUS
  <1>1. fl \in Seq(PhysReg)
    BY DEF Init, PhysReg
  <1>2. ctx \in Signals
    BY DEF Init, NoSignals, Signals
  <1>3. curr \in Latched
    BY DEF Init, Latched
  <1>4. map \in [LogReg -> PhysReg]
    BY DEF Init, LogReg, PhysReg
  <1>5. prf \in [PhysReg -> Word]
    BY DEF Init, PhysReg, Word
  <1>6. busy \in [PhysReg -> BOOLEAN]
    BY DEF Init
  <1>7. al \in Seq(ActiveListEntry) /\ iq \in Seq(IntegerQueueEntry)
    BY DEF Init
  <1>8. s1 \in Seq(IssuedInstruction) /\ s2 \in Seq(IssuedInstruction)
    BY DEF Init
  <1>9. dir \in Seq(Nat)
    BY EmptySeq DEF Init
  <1>10. prog \in Programs /\ step = "execution" /\ exc = FALSE
    BY DEF Init
  <1>11. n = 0 /\ pc = 0 /\ excPC = 0
    BY DEF Init
  <1> QED
    BY <1>1, <1>2, <1>3, <1>4, <1>5, <1>6, <1>7, <1>8, <1>9, <1>10, <1>11 DEF TypeOK

\* Each stage keeps the types; dispatch needs ControlInv to pop the Free List.
LEMMA TypeStep == IInv /\ [Next]_vars => TypeOK'
  <1> SUFFICES ASSUME IInv, [Next]_vars PROVE TypeOK'
    OBVIOUS
  <1> TypeOK
    BY DEF IInv
  <1> USE DEF frontEnd, excState, regState, queues, alus
  <1>1. CASE Execute
    <2>1. [i \in 1 .. Len(s2) |-> ResultOf(s2[i])] \in Seq(ForwardingResult)
      BY ResultType DEF TypeOK
    <2>2. ctx' \in Signals
      BY <1>1, <2>1 DEF Execute, TypeOK, Signals
    <2>3. /\ s2' = s1 /\ s1' = <<>> /\ step' = "commit" /\ n' = 0
          /\ UNCHANGED <<prog, curr, pc, dir, exc, excPC, map, prf, busy, fl, al, iq>>
      BY <1>1 DEF Execute
    <2> QED
      BY <2>2, <2>3 DEF TypeOK
  <1>2. CASE RetireFront
    <2>1. al # <<>> /\ Head(al) \in ActiveListEntry
      BY <1>2, SMTT(30) DEF IInv, TypeOK, Latched, RetireFront, MayRetire, ControlInv
    <2>2. fl' \in Seq(PhysReg)
      BY <1>2, <2>1, PushType DEF TypeOK, RetireFront, ActiveListEntry
    <2>3. busy' \in [PhysReg -> BOOLEAN]
      BY <1>2, <2>1 DEF TypeOK, RetireFront, ActiveListEntry
    <2>4. al' \in Seq(ActiveListEntry)
      BY <1>2, <2>1 DEF TypeOK, RetireFront
    <2>5. /\ n' \in Nat
          /\ UNCHANGED <<prog, step, curr, pc, dir, exc, excPC, map, prf, iq, s1, s2, ctx>>
      BY <1>2 DEF TypeOK, RetireFront
    <2> QED
      BY <2>2, <2>3, <2>4, <2>5 DEF TypeOK
  <1>3. CASE DetectException
    <2>1. excPC' \in Nat
      <3>1. curr.al \in Seq(ActiveListEntry)
        BY DEF TypeOK, Latched
      <3>2. n + 1 \in 1 .. Len(curr.al)
        <4>1. n \in Nat /\ n < Len(curr.al)
          BY <1>3 DEF DetectException, MayRetire, TypeOK
        <4> QED
          BY <3>1, <4>1
      <3>3. curr.al[n + 1] \in ActiveListEntry
        BY <3>1, <3>2, ElementOfSeq
      <3>4. excPC' = curr.al[n + 1].pc
        BY <1>3 DEF DetectException
      <3> QED
        BY <3>3, <3>4 DEF ActiveListEntry
    <2>2. ctx' \in Signals
      BY <1>3 DEF DetectException, TypeOK, Signals
    <2>3. /\ exc' = TRUE /\ step' = "control"
          /\ UNCHANGED <<prog, n, curr, pc, dir, map, prf, busy, fl, al, iq, s1, s2>>
      BY <1>3 DEF DetectException
    <2> QED
      BY <2>1, <2>2, <2>3 DEF TypeOK
  <1>4. CASE ObserveResults
    <2>1. \A e \in ActiveListEntry : Marked(e) \in ActiveListEntry
      <3> SUFFICES ASSUME NEW e \in ActiveListEntry, Completions(e) # {}
                   PROVE  Marked(e) \in ActiveListEntry
        BY DEF Marked
      <3> DEFINE k == CHOOSE j \in Completions(e) : TRUE
      <3>1. k \in DOMAIN ctx.fwd
        BY DEF Completions
      <3>2. ctx.fwd \in Seq(ForwardingResult)
        BY DEF TypeOK, Signals
      <3>2b. ctx.fwd[k] \in ForwardingResult
        <4> HIDE DEF k
        <4> QED
          BY <3>1, <3>2, ElementOfSeq, LenProperties
      <3>2a. ctx.fwd[k].exception \in BOOLEAN
        BY <3>2b DEF ForwardingResult
      <3>3. Marked(e) = [e EXCEPT !.done = TRUE, !.exception = ctx.fwd[k].exception]
        BY DEF Marked
      <3> QED
        BY <3>2a, <3>3 DEF ActiveListEntry
    <2>2. al' \in Seq(ActiveListEntry)
      <3>1. al \in Seq(ActiveListEntry)
        BY DEF TypeOK
      <3>2. \A i \in 1 .. Len(al) : Marked(al[i]) \in ActiveListEntry
        BY <2>1, <3>1
      <3> QED
        BY <1>4, <3>1, <3>2 DEF ObserveResults
    <2>3. HeadFault \in SUBSET Nat
      <3>1. al # <<>> => Head(al) \in ActiveListEntry
        BY DEF TypeOK
      <3> QED
        BY <3>1 DEF HeadFault, ActiveListEntry
    <2>4. ctx' \in Signals
      BY <1>4, <2>3 DEF ObserveResults, TypeOK, Signals
    <2>5. /\ step' = "control"
          /\ UNCHANGED <<prog, n, curr, pc, dir, exc, excPC, map, prf, busy, fl, iq, s1, s2>>
      BY <1>4 DEF ObserveResults
    <2> QED
      BY <2>2, <2>4, <2>5 DEF TypeOK
  <1>5. CASE RollBackYoungest
    <2>1. Last(al) \in ActiveListEntry /\ Front(al) \in Seq(ActiveListEntry)
      <3>1. al \in Seq(ActiveListEntry) /\ Len(al) \in Nat \ {0}
        BY <1>5 DEF RollBackYoungest, TypeOK
      <3>2. \A i \in 1 .. Len(al) : al[i] \in ActiveListEntry
        BY <3>1
      <3> QED
        BY <3>1, <3>2, SubSeqProperties DEF Last, Front
    <2>2. Undone.ld \in LogReg /\ Undone.old \in PhysReg /\ map[Undone.ld] \in PhysReg
      BY <2>1 DEF Undone, ActiveListEntry, TypeOK
    <2>3. fl' \in Seq(PhysReg)
      BY <1>5, <2>2, PushType DEF RollBackYoungest, SpeculativeRegister, TypeOK
    <2>4. /\ map' \in [LogReg -> PhysReg]
          /\ busy' \in [PhysReg -> BOOLEAN]
      BY <1>5, <2>2 DEF RollBackYoungest, SpeculativeRegister, TypeOK
    <2>5. ctx' \in Signals
      BY <1>5 DEF RollBackYoungest, TypeOK, Signals
    <2>6. /\ exc' = TRUE /\ al' = Front(al) /\ n' = n + 1
          /\ UNCHANGED <<prog, step, curr, pc, dir, excPC, prf, iq, s1, s2>>
      BY <1>5 DEF RollBackYoungest
    <2> QED
      BY <2>1, <2>3, <2>4, <2>5, <2>6 DEF TypeOK
  <1>6. CASE RollBackEnd
    BY <1>6 DEF RollBackEnd, TypeOK
  <1>7. CASE LeaveException
    <2>1. ctx' \in Signals
      BY <1>7 DEF LeaveException, TypeOK, Signals
    <2>2. /\ exc' = FALSE /\ step' = "control"
          /\ UNCHANGED <<prog, n, curr, pc, dir, excPC, map, prf, busy, fl, al, iq, s1, s2>>
      BY <1>7 DEF LeaveException
    <2> QED
      BY <2>1, <2>2 DEF TypeOK
  <1>8. CASE ResetExecution
    <2>1. s1' \in Seq(IssuedInstruction) /\ s2' \in Seq(IssuedInstruction)
      <3>1. <<>> \in Seq(IssuedInstruction)
        BY EmptySeq
      <3>2. s1 \in Seq(IssuedInstruction) /\ s2 \in Seq(IssuedInstruction)
        BY DEF TypeOK
      <3> QED
        BY <1>8, <3>1, <3>2 DEF ResetExecution
    <2>2. /\ step' = "issue" /\ n' = 0
          /\ UNCHANGED <<prog, curr, pc, dir, exc, excPC, map, prf, busy, fl, al, iq, ctx>>
      BY <1>8 DEF ResetExecution
    <2> QED
      BY <2>1, <2>2 DEF TypeOK
  <1>9. CASE ResetQueue
    <2>1. iq' \in Seq(IntegerQueueEntry)
      BY <1>9, EmptySeq DEF ResetQueue
    <2>2. /\ step' = "rename"
          /\ UNCHANGED <<prog, n, curr, pc, dir, exc, excPC, map, prf, busy, fl, al,
                         s1, s2, ctx>>
      BY <1>9 DEF ResetQueue
    <2> QED
      BY <2>1, <2>2 DEF TypeOK
  <1>10. CASE WakeUp
    <2>1. iq \in Seq(IntegerQueueEntry)
      BY DEF TypeOK
    <2>2. \A e \in IntegerQueueEntry : WokenUp(e) \in IntegerQueueEntry
      BY ForwardedType, ZenonT(30) DEF WokenUp, IntegerQueueEntry
    <2>3. iq' \in Seq(IntegerQueueEntry)
      <3>1. \A i \in 1 .. Len(iq) : WokenUp(iq[i]) \in IntegerQueueEntry
        BY <2>1, <2>2
      <3> QED
        BY <1>10, <2>1, <3>1 DEF WakeUp
    <2>4. /\ step' = "select"
          /\ UNCHANGED <<prog, n, curr, pc, dir, exc, excPC, map, prf, busy, fl, al,
                         s1, s2, ctx>>
      BY <1>10 DEF WakeUp
    <2> QED
      BY <2>3, <2>4 DEF TypeOK
  <1>11. CASE IssueOldestReady
    <2>1. PICK i \in DOMAIN iq :
             /\ s1' = Append(s1, [op |-> iq[i].op, a |-> iq[i].aVal, b |-> iq[i].bVal,
                                  dst |-> iq[i].dst, pc |-> iq[i].pc])
             /\ iq' = RemoveAt(iq, i)
      BY <1>11 DEF IssueOldestReady
    <2>2. iq \in Seq(IntegerQueueEntry) /\ iq[i] \in IntegerQueueEntry
      BY DEF TypeOK
    <2>3. iq' \in Seq(IntegerQueueEntry)
      BY <2>1, <2>2, RemoveAtType
    <2>4. [op |-> iq[i].op, a |-> iq[i].aVal, b |-> iq[i].bVal,
           dst |-> iq[i].dst, pc |-> iq[i].pc] \in IssuedInstruction
      BY <2>2 DEF IntegerQueueEntry, IssuedInstruction
    <2>5. s1' \in Seq(IssuedInstruction)
      BY <2>1, <2>4 DEF TypeOK
    <2>6. /\ n' = n + 1
          /\ UNCHANGED <<prog, step, curr, pc, dir, exc, excPC, map, prf, busy, fl, al,
                         s2, ctx>>
      BY <1>11 DEF IssueOldestReady
    <2> QED
      BY <2>3, <2>5, <2>6 DEF TypeOK
  <1>12. CASE IssueEnd
    BY <1>12 DEF IssueEnd, TypeOK
  <1>13. CASE RenameHalted
    BY <1>13 DEF RenameHalted, TypeOK
  <1>14. CASE WriteBack
    <2>1. prf' \in [PhysReg -> Word]
      BY <1>14, ForwardedType DEF WriteBack, TypeOK
    <2>2. busy' \in [PhysReg -> BOOLEAN]
      BY <1>14 DEF WriteBack, TypeOK
    <2>3. ctx' \in Signals
      BY <1>14 DEF WriteBack, TypeOK, Signals
    <2>4. /\ step' \in {"dispatch", "fetch"} /\ n' = 0
          /\ UNCHANGED <<prog, curr, pc, dir, exc, excPC, map, fl, al, iq, s1, s2>>
      BY <1>14 DEF WriteBack
    <2> QED
      BY <2>1, <2>2, <2>3, <2>4 DEF TypeOK
  <1>15. CASE DispatchNext
    <2> DEFINE p == curr.dir[n + 1]
               i == prog[p + 1]
    <2>1. p \in Nat /\ i \in Instruction /\ Head(fl) \in PhysReg /\ fl # <<>>
      BY <1>15, DispatchInputs
    <2>2. map' \in [LogReg -> PhysReg] /\ fl' \in Seq(PhysReg)
      BY <1>15, <2>1, SMTT(30) DEF DispatchNext, TypeOK, Instruction
    <2>3. busy' \in [PhysReg -> BOOLEAN]
      BY <1>15, <2>1 DEF DispatchNext, TypeOK
    <2>4. QueueEntry(i, p, Head(fl)) \in IntegerQueueEntry
      BY <2>1, QueueEntryType
    <2>5. iq' \in Seq(IntegerQueueEntry)
      BY <1>15, <2>4, PushType DEF DispatchNext, TypeOK
    <2>6. [done |-> FALSE, exception |-> FALSE, ld |-> i.dst, old |-> map[i.dst],
           pc |-> p] \in ActiveListEntry
      BY <2>1 DEF ActiveListEntry, Instruction, TypeOK
    <2>7. al' \in Seq(ActiveListEntry)
      BY <1>15, <2>6, PushType DEF DispatchNext, TypeOK
    <2>8. /\ n' = n + 1
          /\ UNCHANGED <<prog, step, curr, pc, dir, exc, excPC, prf, s1, s2, ctx>>
      BY <1>15 DEF DispatchNext
    <2> QED
      BY <2>2, <2>3, <2>5, <2>7, <2>8 DEF TypeOK
  <1>16. CASE DispatchEnd
    <2>1. dir' \in Seq(Nat)
      BY <1>16, EmptySeq DEF DispatchEnd
    <2>2. /\ step' = "fetch"
          /\ UNCHANGED <<prog, n, curr, pc, exc, excPC, map, prf, busy, fl, al, iq,
                         s1, s2, ctx>>
      BY <1>16 DEF DispatchEnd
    <2> QED
      BY <2>1, <2>2 DEF TypeOK
  <1>17. CASE FetchHalted
    BY <1>17 DEF FetchHalted, TypeOK
  <1>18. CASE FetchStalled
    BY <1>18 DEF FetchStalled, TypeOK
  <1>19. CASE FetchAndDecode
    <2>1. curr.pc \in Nat
      BY DEF TypeOK, Latched
    <2>2. dir' \in Seq(Nat) /\ pc' \in Nat
      <3>1. FetchBundle(curr.pc) \in Seq(Nat)
        BY <2>1, BundleType
      <3>2. Len(FetchBundle(curr.pc)) \in Nat
        BY <3>1
      <3>3. dir' = FetchBundle(curr.pc) /\ pc' = pc + Len(FetchBundle(curr.pc))
        BY <1>19 DEF FetchAndDecode
      <3> QED
        BY <3>1, <3>2, <3>3 DEF TypeOK
    <2>3. /\ step' = "latch"
          /\ UNCHANGED <<prog, n, curr, exc, excPC, map, prf, busy, fl, al, iq, s1, s2, ctx>>
      BY <1>19 DEF FetchAndDecode
    <2> QED
      BY <2>2, <2>3 DEF TypeOK
  <1>20. CASE Latch
    <2>1. curr' \in Latched
      BY <1>20 DEF Latch, Latched, TypeOK
    <2>2. ctx' \in Signals
      BY <1>20 DEF Latch, NoSignals, Signals
    <2>3. /\ step' = "execution"
          /\ UNCHANGED <<prog, n, pc, dir, exc, excPC, map, prf, busy, fl, al, iq, s1, s2>>
      BY <1>20 DEF Latch
    <2> QED
      BY <2>1, <2>2, <2>3 DEF TypeOK
  <1>21. CASE UNCHANGED vars
    BY <1>21 DEF vars, TypeOK
  <1> QED
    BY <1>1, <1>2, <1>3, <1>4, <1>5, <1>6, <1>7, <1>8, <1>9, <1>10, <1>11, <1>12,
       <1>13, <1>14, <1>15, <1>16, <1>17, <1>18, <1>19, <1>20, <1>21
    DEF Next, Commit, Issue, RenameAndDispatch, Fetch, Terminated

-----------------------------------------------------------------------------
(* Control: the counters of the loops and the queues they walk *)

\* A push makes a queue one longer at most and never exceeds the capacity.
LEMMA PushLength ==
    ASSUME NEW S, NEW q \in Seq(S), NEW cap \in Nat, NEW e \in S
    PROVE  /\ Len(q) < cap => Push(q, cap, e) = Append(q, e)
           /\ Len(Push(q, cap, e)) <= Len(q) + 1
           /\ Len(q) <= cap => Len(Push(q, cap, e)) <= cap
  BY DEF Push

\* What popping the youngest entry leaves, and what that entry is.
LEMMA FrontProperties ==
    ASSUME NEW S, NEW q \in Seq(S), q # <<>>
    PROVE  /\ Front(q) \in Seq(S)
           /\ Len(Front(q)) = Len(q) - 1
           /\ \A i \in 1 .. Len(q) - 1 : Front(q)[i] = q[i]
           /\ Last(q) = q[Len(q)] /\ Last(q) \in S
  <1>1. Len(q) \in Nat \ {0} /\ \A i \in 1 .. Len(q) : q[i] \in S
    OBVIOUS
  <1>2. \A i \in 1 .. Len(q) - 1 : q[i] \in S
    BY <1>1
  <1> DEFINE m == Len(q) - 1
  <1>3. m \in Nat /\ \A i \in 1 .. m : q[i] \in S
    BY <1>1, <1>2
  <1>4. Front(q) = SubSeq(q, 1, m)
    BY DEF Front
  <1> HIDE DEF m
  <1>5. /\ SubSeq(q, 1, m) \in Seq(S)
        /\ Len(SubSeq(q, 1, m)) = IF 1 <= m THEN m - 1 + 1 ELSE 0
        /\ \A i \in 1 .. m - 1 + 1 : SubSeq(q, 1, m)[i] = q[1 + i - 1]
    BY <1>3, SubSeqProperties
  <1>6. /\ Front(q) \in Seq(S)
        /\ Len(Front(q)) = m
        /\ \A i \in 1 .. m : Front(q)[i] = q[i]
    BY <1>3, <1>4, <1>5
  <1> QED
    BY <1>1, <1>6 DEF Last, m

\* Nothing is fetched or latched at reset.
LEMMA ControlInit == Init => ControlInv
  BY DEF Init, ControlInv, InProgram

\* The queues' parts of the type invariant, for the steps below.
LEMMA Typed ==
    ASSUME TypeOK
    PROVE  /\ n \in Nat /\ curr.dir \in Seq(Nat) /\ curr.al \in Seq(ActiveListEntry)
           /\ dir \in Seq(Nat) /\ fl \in Seq(PhysReg) /\ al \in Seq(ActiveListEntry)
           /\ iq \in Seq(IntegerQueueEntry)
  BY DEF TypeOK, Latched

\* Commit pops as many entries as it counts; dispatch uses one unit of each
\* resource for each instruction it counts.
LEMMA ControlStep == IInv /\ [Next]_vars => ControlInv'
  <1> SUFFICES ASSUME IInv, [Next]_vars PROVE ControlInv'
    OBVIOUS
  <1> TypeOK /\ ControlInv
    BY DEF IInv
  <1>0. /\ n \in Nat /\ curr.dir \in Seq(Nat) /\ curr.al \in Seq(ActiveListEntry)
        /\ dir \in Seq(Nat) /\ fl \in Seq(PhysReg) /\ al \in Seq(ActiveListEntry)
        /\ iq \in Seq(IntegerQueueEntry)
    BY Typed
  <1> USE DEF frontEnd, excState, regState, queues, alus
  <1>1. CASE Execute
    <2>1. /\ step = "execution" /\ step' = "commit" /\ n' = 0
          /\ UNCHANGED <<prog, curr, dir, al>>
      BY <1>1 DEF Execute
    <2> QED
      BY <1>0, <2>1 DEF ControlInv, InProgram
  <1>2. CASE RetireFront
    <2>1. /\ step = "commit" /\ step' = "commit" /\ n' = n + 1 /\ n < Len(curr.al)
          /\ al' = Tail(al)
          /\ UNCHANGED <<prog, curr, dir>>
      BY <1>2 DEF RetireFront, MayRetire
    <2>2. al # <<>> /\ Len(al) = Len(curr.al) - n
      BY <1>0, <2>1 DEF ControlInv
    <2>3. Len(Tail(al)) = Len(al) - 1
      BY <1>0, <2>2
    <2> QED
      BY <1>0, <2>1, <2>2, <2>3 DEF ControlInv, InProgram
  <1>3. CASE RollBackYoungest
    <2>1. /\ step = "commit" /\ step' = "commit" /\ n' = n + 1 /\ al # <<>>
          /\ al' = Front(al)
          /\ UNCHANGED <<prog, curr, dir>>
      BY <1>3 DEF RollBackYoungest
    <2>2. Len(al) = Len(curr.al) - n
      BY <1>0, <2>1 DEF ControlInv
    <2>3. Len(Front(al)) = Len(al) - 1 /\ Len(al) > 0
      <3>1. Len(Front(al)) = Len(al) - 1
        BY <1>0, <2>1, FrontProperties, Zenon
      <3>2. Len(al) > 0
        BY <1>0, <2>1
      <3> QED
        BY <3>1, <3>2
    <2> QED
      BY <1>0, <2>1, <2>2, <2>3 DEF ControlInv, InProgram
  <1>4. CASE \/ DetectException \/ ObserveResults \/ RollBackEnd \/ LeaveException
             \/ ResetExecution \/ Issue \/ RenameHalted \/ FetchHalted \/ FetchStalled
    <2>1. step' \notin {"execution", "commit", "dispatch"} /\ UNCHANGED <<prog, curr, dir>>
      BY <1>4 DEF DetectException, ObserveResults, RollBackEnd, LeaveException,
                  ResetExecution, Issue, ResetQueue, WakeUp, IssueOldestReady, IssueEnd,
                  RenameHalted, FetchHalted, FetchStalled
    <2> QED
      BY <2>1 DEF ControlInv, InProgram
  <1>5. CASE WriteBack
    <2>1. /\ n' = 0 /\ step' \in {"dispatch", "fetch"}
          /\ step' = "dispatch" => HasEnoughResources
          /\ UNCHANGED <<prog, curr, dir, fl, al, iq>>
      BY <1>5 DEF WriteBack
    <2> QED
      BY <1>0, <2>1 DEF ControlInv, InProgram, HasEnoughResources
  <1>6. CASE DispatchNext
    <2> DEFINE p == curr.dir[n + 1]
               i == prog[p + 1]
    <2>1. p \in Nat /\ i \in Instruction /\ Head(fl) \in PhysReg /\ fl # <<>>
      BY <1>6, DispatchInputs
    <2>2. QueueEntry(i, p, Head(fl)) \in IntegerQueueEntry
      BY <2>1, QueueEntryType
    <2>3. [done |-> FALSE, exception |-> FALSE, ld |-> i.dst, old |-> map[i.dst],
           pc |-> p] \in ActiveListEntry
      BY <2>1 DEF ActiveListEntry, Instruction, TypeOK
    <2>4. /\ Len(fl') = Len(fl) - 1
          /\ Len(al') <= Len(al) + 1
          /\ Len(iq') <= Len(iq) + 1
      <3>1. fl' = Tail(fl)
        BY <1>6 DEF DispatchNext
      <3>2. al' = Push(al, ALCap, [done |-> FALSE, exception |-> FALSE, ld |-> i.dst,
                                   old |-> map[i.dst], pc |-> p])
        BY <1>6 DEF DispatchNext
      <3>3. iq' = Push(iq, IQCap, QueueEntry(i, p, Head(fl)))
        BY <1>6 DEF DispatchNext
      <3> HIDE DEF i, p
      <3>4. Len(fl') = Len(fl) - 1
        BY <1>0, <2>1, <3>1
      <3>5. Len(al') <= Len(al) + 1
        BY <1>0, <2>3, <3>2, PushLength
      <3>6. Len(iq') <= Len(iq) + 1
        BY <1>0, <2>2, <3>3, PushLength
      <3> QED
        BY <3>4, <3>5, <3>6
    <2>5. /\ al' \in Seq(ActiveListEntry) /\ iq' \in Seq(IntegerQueueEntry)
          /\ fl' \in Seq(PhysReg)
      BY TypeStep DEF TypeOK
    <2>6. /\ step = "dispatch" /\ step' = "dispatch" /\ n < Len(curr.dir) /\ n' = n + 1
          /\ UNCHANGED <<prog, curr, dir>>
      BY <1>6 DEF DispatchNext
    <2> HIDE DEF i, p
    <2>7. InProgram(dir)' /\ InProgram(curr.dir)'
      BY <2>6 DEF ControlInv, InProgram
    <2>8. /\ Len(curr.dir) - n <= Len(fl)
          /\ Len(curr.dir) - n <= ALCap - Len(al)
          /\ Len(curr.dir) - n <= IQCap - Len(iq)
      BY <2>6 DEF ControlInv
    <2>9. /\ n \in Nat /\ Len(curr.dir) \in Nat
          /\ Len(fl) \in Nat /\ Len(al) \in Nat /\ Len(iq) \in Nat
          /\ Len(fl') \in Nat /\ Len(al') \in Nat /\ Len(iq') \in Nat
      BY <1>0, <2>5
    <2>10. /\ n + 1 <= Len(curr.dir)
           /\ Len(curr.dir) - (n + 1) <= Len(fl')
           /\ Len(curr.dir) - (n + 1) <= ALCap - Len(al')
           /\ Len(curr.dir) - (n + 1) <= IQCap - Len(iq')
      <3>2. n + 1 <= Len(curr.dir)
        BY <2>6, <2>9
      <3>3. Len(curr.dir) - (n + 1) <= Len(fl')
        BY <2>4, <2>8, <2>9
      <3>4. Len(curr.dir) - (n + 1) <= ALCap - Len(al')
        BY <2>4, <2>8, <2>9, SMTT(30)
      <3>5. Len(curr.dir) - (n + 1) <= IQCap - Len(iq')
        BY <2>4, <2>8, <2>9, SMTT(30)
      <3> QED
        BY <3>2, <3>3, <3>4, <3>5
    <2> QED
      BY <2>6, <2>7, <2>10 DEF ControlInv
  <1>7. CASE DispatchEnd
    <2>1. step' = "fetch" /\ dir' = <<>> /\ UNCHANGED <<prog, curr>>
      BY <1>7 DEF DispatchEnd
    <2> QED
      BY <2>1 DEF ControlInv, InProgram
  <1>8. CASE FetchAndDecode
    <2>1. step' = "latch" /\ dir' = FetchBundle(curr.pc) /\ UNCHANGED <<prog, curr>>
      BY <1>8 DEF FetchAndDecode
    <2>2. InProgram(FetchBundle(curr.pc))
      BY BundleType DEF TypeOK, Latched
    <2> QED
      BY <2>1, <2>2 DEF ControlInv, InProgram
  <1>9. CASE Latch
    <2>1. /\ step' = "execution" /\ curr'.dir = dir /\ curr'.al = al
          /\ UNCHANGED <<prog, dir, al>>
      BY <1>9 DEF Latch
    <2> QED
      BY <2>1 DEF ControlInv, InProgram
  <1>10. CASE UNCHANGED vars
    BY <1>10 DEF vars, ControlInv, InProgram
  <1> QED
    BY <1>1, <1>2, <1>3, <1>4, <1>5, <1>6, <1>7, <1>8, <1>9, <1>10
    DEF Next, Commit, RenameAndDispatch, Fetch, Terminated

-----------------------------------------------------------------------------
(* Capacity: the Free List and the Active List together *)

\* At reset the Free List is full and the Active List empty.
LEMMA CapacityInit == Init => QueuesFit
  <1> SUFFICES ASSUME Init PROVE QueuesFit
    OBVIOUS
  <1>1. Len(fl) = FLCap
    BY DEF Init
  <1>2. Len(al) = 0 /\ Len(iq) = 0 /\ Len(s1) = 0 /\ Len(s2) = 0
    BY DEF Init
  <1>3. Len(ctx.fwd) = 0
    BY DEF Init, NoSignals
  <1> QED
    BY <1>1, <1>2, <1>3 DEF QueuesFit

\* What retirement, rollback and dispatch do to the two lists that hand registers
\* around; the pushes succeed because the lists' lengths add up.
LEMMA RetireLists ==
    ASSUME IInv, RetireFront
    PROVE  /\ al # <<>> /\ Head(al) = al[1]
           /\ fl' = Append(fl, al[1].old)
           /\ al' = Tail(al)
           /\ map' = map
  <1>1. fl \in Seq(PhysReg) /\ al \in Seq(ActiveListEntry)
    BY Typed DEF IInv
  <1>2. al # <<>>
    <2>1. n < Len(curr.al) /\ step = "commit"
      BY DEF RetireFront, MayRetire
    <2>2. Len(al) = Len(curr.al) - n /\ n \in Nat /\ Len(curr.al) \in Nat
      BY <2>1, Typed DEF IInv, ControlInv
    <2> QED
      BY <2>1, <2>2
  <1>3. Head(al) = al[1] /\ al[1] \in ActiveListEntry /\ Len(al) > 0
    BY <1>1, <1>2
  <1>4. Len(fl) < FLCap
    BY <1>1, <1>3 DEF IInv, QueuesFit
  <1>5. fl' = Push(fl, FLCap, al[1].old)
    BY <1>3 DEF RetireFront
  <1> QED
    BY <1>2, <1>3, <1>4, <1>5 DEF Push, RetireFront

\* The same for a rollback.
LEMMA RollBackLists ==
    ASSUME IInv, RollBackYoungest
    PROVE  /\ al # <<>> /\ al' = Front(al)
           /\ Undone = al[Len(al)] /\ Undone \in ActiveListEntry
           /\ fl' = Append(fl, map[Undone.ld])
           /\ map' = [map EXCEPT ![Undone.ld] = Undone.old]
  <1>1. fl \in Seq(PhysReg) /\ al \in Seq(ActiveListEntry)
    BY Typed DEF IInv
  <1>2. al # <<>> /\ al' = Front(al)
    BY DEF RollBackYoungest
  <1>3. Undone = al[Len(al)] /\ Undone \in ActiveListEntry /\ Len(al) > 0
    BY <1>1, <1>2, FrontProperties DEF Undone
  <1>4. Len(fl) < FLCap
    BY <1>1, <1>3 DEF IInv, QueuesFit
  <1>5. fl' = Push(fl, FLCap, map[Undone.ld])
    BY DEF RollBackYoungest, SpeculativeRegister
  <1> QED
    BY <1>2, <1>3, <1>4, <1>5 DEF Push, RollBackYoungest

\* The same for a dispatch; the Active List has room for the instruction.
LEMMA DispatchLists ==
    ASSUME IInv, DispatchNext
    PROVE  \E i \in Instruction, p \in Nat :
              /\ fl # <<>> /\ fl' = Tail(fl)
              /\ map' = [map EXCEPT ![i.dst] = fl[1]]
              /\ al' = Append(al, [done |-> FALSE, exception |-> FALSE, ld |-> i.dst,
                                   old |-> map[i.dst], pc |-> p])
              /\ Len(al) < ALCap
  <1> DEFINE p == curr.dir[n + 1]
             i == prog[p + 1]
             e == [done |-> FALSE, exception |-> FALSE, ld |-> i.dst,
                   old |-> map[i.dst], pc |-> p]
  <1>1. p \in Nat /\ i \in Instruction /\ Head(fl) \in PhysReg /\ fl # <<>>
    BY DispatchInputs
  <1>2. fl \in Seq(PhysReg) /\ al \in Seq(ActiveListEntry)
    BY Typed DEF IInv
  <1>3. Head(fl) = fl[1]
    BY <1>1, <1>2
  <1>4. Len(al) < ALCap
    <2>1. n < Len(curr.dir) /\ Len(curr.dir) - n <= ALCap - Len(al)
      BY DEF DispatchNext, IInv, ControlInv
    <2>2. n \in Nat /\ Len(curr.dir) \in Nat /\ Len(al) \in Nat
      BY <1>2, Typed DEF IInv
    <2> QED
      BY <2>1, <2>2
  <1>5. /\ fl' = Tail(fl)
        /\ map' = [map EXCEPT ![i.dst] = Head(fl)]
        /\ al' = Push(al, ALCap, e)
    BY DEF DispatchNext
  <1>6. al' = Append(al, e)
    BY <1>4, <1>5 DEF Push
  <1> QED
    BY <1>1, <1>3, <1>4, <1>5, <1>6

\* What leaves the Active List enters the Free List and conversely; the ALUs
\* take what issue counts.
LEMMA CapacityStep == IInv /\ [Next]_vars => QueuesFit'
  <1> SUFFICES ASSUME IInv, [Next]_vars PROVE QueuesFit'
    OBVIOUS
  <1> QueuesFit
    BY DEF IInv
  <1>0. /\ fl \in Seq(PhysReg) /\ al \in Seq(ActiveListEntry)
        /\ iq \in Seq(IntegerQueueEntry)
        /\ s1 \in Seq(IssuedInstruction) /\ s2 \in Seq(IssuedInstruction)
        /\ ctx.fwd \in Seq(ForwardingResult) /\ ctx \in Signals
    BY DEF IInv, TypeOK, Signals
  <1> USE DEF frontEnd, excState, regState, queues, alus
  <1>1. CASE Execute
    <2>1. Len(ctx.fwd)' = Len(s2)
      BY <1>0, <1>1 DEF Execute, Signals
    <2>2. Len(s1)' = 0 /\ s2' = s1 /\ UNCHANGED <<fl, al, iq>>
      BY <1>1 DEF Execute
    <2> QED
      BY <2>1, <2>2 DEF QueuesFit
  <1>2. CASE RetireFront
    <2>1. /\ al # <<>> /\ al[1] \in ActiveListEntry
          /\ fl' = Append(fl, al[1].old) /\ al' = Tail(al)
      BY <1>0, <1>2, RetireLists
    <2>2. Len(fl') = Len(fl) + 1 /\ Len(al') = Len(al) - 1
      BY <1>0, <2>1 DEF ActiveListEntry
    <2>3. UNCHANGED <<iq, s1, s2, ctx>>
      BY <1>2 DEF RetireFront
    <2>4. Len(fl) \in Nat /\ Len(al) \in Nat
      BY <1>0
    <2>5. Len(al') <= ALCap /\ Len(fl') + Len(al') = FLCap
      BY <2>2, <2>4, SMTT(30) DEF QueuesFit
    <2> QED
      BY <2>3, <2>5 DEF QueuesFit
  <1>3. CASE RollBackYoungest
    <2>1. /\ al # <<>> /\ al' = Front(al) /\ fl' = Append(fl, map[Undone.ld])
          /\ map[Undone.ld] \in PhysReg
      BY <1>3, RollBackLists DEF IInv, TypeOK, ActiveListEntry
    <2>2. Len(fl') = Len(fl) + 1
      BY <1>0, <2>1
    <2>3. Len(al') = Len(al) - 1
      BY <1>0, <2>1, FrontProperties, Zenon
    <2>4. ctx'.fwd = ctx.fwd /\ UNCHANGED <<iq, s1, s2>>
      BY <1>0, <1>3 DEF RollBackYoungest, Signals
    <2>5. Len(fl) \in Nat /\ Len(al) \in Nat
      BY <1>0
    <2>6. Len(al') <= ALCap /\ Len(fl') + Len(al') = FLCap
      BY <2>2, <2>3, <2>5, SMTT(30) DEF QueuesFit
    <2> QED
      BY <2>4, <2>6 DEF QueuesFit
  <1>4. CASE DetectException \/ LeaveException \/ WriteBack
    <2>1. Len(ctx.fwd)' = Len(ctx.fwd) /\ UNCHANGED <<fl, al, iq, s1, s2>>
      BY <1>0, <1>4 DEF DetectException, LeaveException, WriteBack, Signals
    <2> QED
      BY <2>1 DEF QueuesFit
  <1>5. CASE ObserveResults
    <2>1. Len(ctx.fwd)' = Len(ctx.fwd) /\ UNCHANGED <<fl, iq, s1, s2>>
      BY <1>0, <1>5 DEF ObserveResults, Signals
    <2>2. Len(al') = Len(al)
      BY <1>0, <1>5 DEF ObserveResults
    <2> QED
      BY <2>1, <2>2 DEF QueuesFit
  <1>6. CASE ResetExecution
    <2>1. /\ (Len(s1)' = 0 /\ Len(s2)' = 0) \/ UNCHANGED <<s1, s2>>
          /\ UNCHANGED <<fl, al, iq, ctx>>
      BY <1>6 DEF ResetExecution
    <2> QED
      BY <2>1 DEF QueuesFit
  <1>7. CASE ResetQueue \/ WakeUp
    <2>1. Len(iq') = 0 \/ Len(iq') = Len(iq)
      BY <1>0, <1>7 DEF ResetQueue, WakeUp
    <2>2. UNCHANGED <<fl, al, s1, s2, ctx>>
      BY <1>7 DEF ResetQueue, WakeUp
    <2> QED
      BY <2>1, <2>2 DEF QueuesFit
  <1>8. CASE IssueOldestReady
    <2>1. PICK i \in DOMAIN iq :
             /\ Len(s1) < Width
             /\ s1' = Append(s1, [op |-> iq[i].op, a |-> iq[i].aVal, b |-> iq[i].bVal,
                                  dst |-> iq[i].dst, pc |-> iq[i].pc])
             /\ iq' = RemoveAt(iq, i)
      BY <1>8 DEF IssueOldestReady, Issuable
    <2>2. Len(iq') = Len(iq) - 1
      BY <1>0, <2>1, RemoveAtType
    <2>3. Len(s1') = Len(s1) + 1
      BY <1>0, <2>1
    <2>4. UNCHANGED <<fl, al, s2, ctx>>
      BY <1>8 DEF IssueOldestReady
    <2>5. Len(iq) \in Nat /\ Len(s1) \in Nat
      BY <1>0
    <2> QED
      BY <2>1, <2>2, <2>3, <2>4, <2>5 DEF QueuesFit
  <1>9. CASE DispatchNext
    <2>1. PICK i \in Instruction, p \in Nat :
              /\ fl # <<>> /\ fl' = Tail(fl)
              /\ al' = Append(al, [done |-> FALSE, exception |-> FALSE, ld |-> i.dst,
                                   old |-> map[i.dst], pc |-> p])
              /\ Len(al) < ALCap
      BY <1>9, DispatchLists
    <2>2. Len(fl') = Len(fl) - 1
      BY <1>0, <2>1
    <2>3. Len(al') = Len(al) + 1
      BY <1>0, <2>1
    <2>4. Len(iq') <= IQCap
      <3> DEFINE q == curr.dir[n + 1]
                 e == QueueEntry(prog[q + 1], q, Head(fl))
      <3>1. e \in IntegerQueueEntry
        BY <1>9, DispatchInputs, QueueEntryType DEF IInv
      <3>2. iq' = Push(iq, IQCap, e)
        BY <1>9 DEF DispatchNext
      <3>3. Len(iq) <= IQCap
        BY DEF QueuesFit
      <3> HIDE DEF e
      <3> QED
        BY <1>0, <3>1, <3>2, <3>3, PushLength
    <2>5. UNCHANGED <<s1, s2, ctx>>
      BY <1>9 DEF DispatchNext
    <2>6. Len(fl) \in Nat /\ Len(al) \in Nat
      BY <1>0
    <2>7. Len(al) < ALCap
      BY <2>1
    <2>8. Len(al') <= ALCap /\ Len(fl') + Len(al') = FLCap
      BY <2>2, <2>3, <2>6, <2>7, SMTT(30) DEF QueuesFit
    <2> QED
      BY <2>4, <2>5, <2>8 DEF QueuesFit
  <1>10. CASE Latch
    <2>1. Len(ctx.fwd)' = 0 /\ UNCHANGED <<fl, al, iq, s1, s2>>
      BY <1>10 DEF Latch, NoSignals
    <2> QED
      BY <2>1 DEF QueuesFit
  <1>11. CASE RollBackEnd \/ IssueEnd \/ RenameHalted \/ DispatchEnd \/ Fetch
    <2>1. UNCHANGED <<fl, al, iq, s1, s2, ctx>>
      BY <1>11 DEF RollBackEnd, IssueEnd, RenameHalted, DispatchEnd, Fetch, FetchHalted,
                   FetchStalled, FetchAndDecode
    <2> QED
      BY <2>1 DEF QueuesFit
  <1>12. CASE UNCHANGED vars
    BY <1>12 DEF vars, QueuesFit
  <1> QED
    BY <1>1, <1>2, <1>3, <1>4, <1>5, <1>6, <1>7, <1>8, <1>9, <1>10, <1>11, <1>12
    DEF Next, Commit, Issue, RenameAndDispatch, Terminated

-----------------------------------------------------------------------------
(* Conservation: every physical register in one place *)

\* The entries after a push.
LEMMA AppendElements ==
    ASSUME NEW S, NEW q \in Seq(S), NEW e \in S
    PROVE  /\ DOMAIN q = 1 .. Len(q) /\ Len(q) \in Nat
           /\ DOMAIN Append(q, e) = 1 .. Len(q) + 1
           /\ \A i \in 1 .. Len(q) : Append(q, e)[i] = q[i]
           /\ Append(q, e)[Len(q) + 1] = e
  OBVIOUS

\* The entries after a pop at the front.
LEMMA TailElements ==
    ASSUME NEW S, NEW q \in Seq(S), q # <<>>
    PROVE  /\ DOMAIN q = 1 .. Len(q) /\ Len(q) \in Nat \ {0}
           /\ DOMAIN Tail(q) = 1 .. Len(q) - 1
           /\ \A i \in 1 .. Len(q) - 1 : Tail(q)[i] = q[i + 1]
  OBVIOUS

\* The entries after a pop at the end.
LEMMA FrontElements ==
    ASSUME NEW S, NEW q \in Seq(S), q # <<>>
    PROVE  /\ DOMAIN q = 1 .. Len(q) /\ Len(q) \in Nat \ {0}
           /\ DOMAIN Front(q) = 1 .. Len(q) - 1
           /\ \A i \in 1 .. Len(q) - 1 : Front(q)[i] = q[i]
  <1>1. DOMAIN q = 1 .. Len(q) /\ Len(q) \in Nat \ {0}
    OBVIOUS
  <1>2. Front(q) \in Seq(S) /\ Len(Front(q)) = Len(q) - 1
    BY FrontProperties, Zenon
  <1>3. \A i \in 1 .. Len(q) - 1 : Front(q)[i] = q[i]
    BY FrontProperties, Zenon
  <1>4. DOMAIN Front(q) = 1 .. Len(q) - 1
    BY <1>2, LenProperties
  <1> QED
    BY <1>1, <1>3, <1>4

\* At reset the first NLog registers are mapped and the others are free.
LEMMA PartitionInit == Init => RegisterPartition
  <1> SUFFICES ASSUME Init PROVE RegisterPartition
    OBVIOUS
  <1>1. /\ map = [l \in LogReg |-> l]
        /\ fl = [i \in 1 .. FLCap |-> NLog + i - 1]
        /\ al = <<>>
    BY DEF Init
  <1>2. \A r : Mapped(r) <=> r \in 0 .. NLog - 1
    BY <1>1 DEF Mapped, LogReg
  <1>3. \A r \in PhysReg : Free(r) <=> r \in NLog .. NPhys - 1
    <2> TAKE r \in PhysReg
    <2>1. DOMAIN fl = 1 .. FLCap /\ \A i \in 1 .. FLCap : fl[i] = NLog + i - 1
      BY <1>1
    <2>2. ASSUME r \in NLog .. NPhys - 1 PROVE Free(r)
      <3>1. r - NLog + 1 \in 1 .. FLCap /\ NLog + (r - NLog + 1) - 1 = r
        BY <2>2
      <3> QED
        BY <2>1, <3>1 DEF Free
    <2> QED
      BY <2>1, <2>2 DEF Free
  <1>4. \A r : ~Held(r)
    BY <1>1 DEF Held
  <1>5. \A r \in PhysReg : r \in 0 .. NLog - 1 \/ r \in NLog .. NPhys - 1
    BY DEF PhysReg
  <1>6. \A r \in PhysReg : ~(r \in 0 .. NLog - 1 /\ r \in NLog .. NPhys - 1)
    BY DEF PhysReg
  <1>7. /\ \A l, m \in LogReg : map[l] = map[m] => l = m
        /\ \A i, j \in DOMAIN fl : fl[i] = fl[j] => i = j
        /\ \A i, j \in DOMAIN al : al[i].old = al[j].old => i = j
    BY <1>1 DEF LogReg
  <1> QED
    BY <1>2, <1>3, <1>4, <1>5, <1>6, <1>7 DEF RegisterPartition

\* Retirement moves the register the head replaced from the Active List to the
\* Free List.
LEMMA PartitionRetire ==
    ASSUME IInv, RetireFront
    PROVE  RegisterPartition'
  <1> DEFINE d == al[1].old
  <1>1. /\ al # <<>> /\ fl' = Append(fl, d) /\ al' = Tail(al) /\ map' = map
    BY RetireLists
  <1>2. fl \in Seq(PhysReg) /\ al \in Seq(ActiveListEntry)
    BY Typed DEF IInv
  <1>3. /\ DOMAIN al = 1 .. Len(al) /\ Len(al) \in Nat \ {0}
        /\ DOMAIN al' = 1 .. Len(al) - 1
        /\ \A i \in 1 .. Len(al) - 1 : al'[i] = al[i + 1]
    BY <1>1, <1>2, TailElements
  <1>4. d \in PhysReg
    <2>1. al[1] \in ActiveListEntry
      BY <1>1, <1>2
    <2> QED
      BY <2>1 DEF ActiveListEntry
  <1>5. /\ DOMAIN fl = 1 .. Len(fl) /\ Len(fl) \in Nat
        /\ DOMAIN fl' = 1 .. Len(fl) + 1
        /\ \A i \in 1 .. Len(fl) : fl'[i] = fl[i]
        /\ fl'[Len(fl) + 1] = d
    BY <1>1, <1>2, <1>4, AppendElements
  <1> HIDE DEF d
  <1>6. \A r : Free(r)' <=> Free(r) \/ r = d
    BY <1>5 DEF Free
  <1>7. d = al[1].old
    BY DEF d
  <1>8. \A i, j \in DOMAIN al : al[i].old = al[j].old => i = j
    BY DEF IInv, RegisterPartition
  <1>9. Held(d)
    BY <1>3, <1>7 DEF Held
  <1>10. \A r : Held(r)' <=> Held(r) /\ r # d
    <2> TAKE r
    <2>1. ASSUME Held(r)' PROVE Held(r) /\ r # d
      <3>1. PICK i \in 1 .. Len(al) - 1 : al[i + 1].old = r
        BY <1>3, <2>1 DEF Held
      <3>2. i + 1 \in DOMAIN al /\ 1 \in DOMAIN al /\ i + 1 # 1
        BY <1>3
      <3> QED
        BY <1>7, <1>8, <3>1, <3>2 DEF Held
    <2>2. ASSUME Held(r), r # d PROVE Held(r)'
      <3>1. PICK i \in DOMAIN al : al[i].old = r
        BY <2>2 DEF Held
      <3>2. i # 1
        BY <1>7, <2>2, <3>1
      <3>3. i - 1 \in 1 .. Len(al) - 1 /\ (i - 1) + 1 = i
        BY <1>3, <3>1, <3>2
      <3>4. i - 1 \in DOMAIN al' /\ al'[i - 1] = al[i]
        BY <1>3, <3>3
      <3> QED
        BY <3>1, <3>4 DEF Held
    <2> QED
      BY <2>1, <2>2
  <1>11. \A r : Mapped(r)' <=> Mapped(r)
    BY <1>1 DEF Mapped
  <1>12. ~Free(d)
    BY <1>4, <1>9 DEF IInv, RegisterPartition
  <1>13. \A i, j \in DOMAIN fl' : fl'[i] = fl'[j] => i = j
    <2>1. \A i, j \in DOMAIN fl : fl[i] = fl[j] => i = j
      BY DEF IInv, RegisterPartition
    <2>2. \A i \in DOMAIN fl : fl[i] # d
      BY <1>12 DEF Free
    <2> QED
      BY <1>5, <2>1, <2>2
  <1>14. \A i, j \in DOMAIN al' : al'[i].old = al'[j].old => i = j
    <2> TAKE i \in DOMAIN al', j \in DOMAIN al'
    <2> HAVE al'[i].old = al'[j].old
    <2>1. i + 1 \in DOMAIN al /\ j + 1 \in DOMAIN al
      BY <1>3
    <2>2. al[i + 1].old = al[j + 1].old
      BY <1>3
    <2>3. i + 1 = j + 1
      BY <1>8, <2>1, <2>2
    <2> QED
      BY <1>3, <2>3
  <1>15. \A l, m \in LogReg : map'[l] = map'[m] => l = m
    BY <1>1 DEF IInv, RegisterPartition
  <1>16. \A r \in PhysReg : /\ Mapped(r)' \/ Free(r)' \/ Held(r)'
                            /\ ~(Mapped(r)' /\ Free(r)')
                            /\ ~(Mapped(r)' /\ Held(r)')
                            /\ ~(Free(r)' /\ Held(r)')
    BY <1>6, <1>9, <1>10, <1>11 DEF IInv, RegisterPartition
  <1> QED
    BY <1>13, <1>14, <1>15, <1>16 DEF RegisterPartition

\* Rollback frees the register the youngest instruction was given and maps the one
\* it had replaced again.
LEMMA PartitionRollBack ==
    ASSUME IInv, RollBackYoungest
    PROVE  RegisterPartition'
  <1> DEFINE u == al[Len(al)]
             d == map[u.ld]
             o == u.old
  <1>1. /\ al # <<>> /\ u \in ActiveListEntry
        /\ al' = Front(al) /\ fl' = Append(fl, d) /\ map' = [map EXCEPT ![u.ld] = o]
    BY RollBackLists
  <1>2. /\ fl \in Seq(PhysReg) /\ al \in Seq(ActiveListEntry)
        /\ map \in [LogReg -> PhysReg]
    BY Typed DEF IInv, TypeOK
  <1>3. /\ DOMAIN al = 1 .. Len(al) /\ Len(al) \in Nat \ {0}
        /\ DOMAIN al' = 1 .. Len(al) - 1
        /\ \A i \in 1 .. Len(al) - 1 : al'[i] = al[i]
    BY <1>1, <1>2, FrontElements
  <1>4. u.ld \in LogReg /\ d \in PhysReg /\ o \in PhysReg
    BY <1>1, <1>2 DEF ActiveListEntry
  <1>5. /\ DOMAIN fl = 1 .. Len(fl) /\ Len(fl) \in Nat
        /\ DOMAIN fl' = 1 .. Len(fl) + 1
        /\ \A i \in 1 .. Len(fl) : fl'[i] = fl[i]
        /\ fl'[Len(fl) + 1] = d
    BY <1>1, <1>2, <1>4, AppendElements
  <1>6. /\ \A l \in LogReg : map'[l] = IF l = u.ld THEN o ELSE map[l]
        /\ d = map[u.ld] /\ o = al[Len(al)].old
    BY <1>1, <1>2
  <1> HIDE DEF u, d, o
  <1>7. /\ \A i, j \in DOMAIN al : al[i].old = al[j].old => i = j
        /\ \A i, j \in DOMAIN fl : fl[i] = fl[j] => i = j
        /\ \A l, m \in LogReg : map[l] = map[m] => l = m
    BY DEF IInv, RegisterPartition
  <1>8. Held(o) /\ ~Mapped(o) /\ ~Free(o)
    <2>1. Held(o)
      BY <1>3, <1>6 DEF Held
    <2> QED
      BY <1>4, <2>1 DEF IInv, RegisterPartition
  <1>9. Mapped(d) /\ ~Held(d) /\ ~Free(d)
    <2>1. Mapped(d)
      BY <1>4, <1>6 DEF Mapped
    <2> QED
      BY <1>4, <2>1 DEF IInv, RegisterPartition
  <1>10. \A r : Free(r)' <=> Free(r) \/ r = d
    BY <1>5 DEF Free
  <1>11. \A r : Held(r)' <=> Held(r) /\ r # o
    BY <1>3, <1>6, <1>7 DEF Held
  <1>12. \A r : Mapped(r)' <=> (Mapped(r) /\ r # d) \/ r = o
    BY <1>4, <1>6, <1>7 DEF Mapped
  <1>13. \A i, j \in DOMAIN fl' : fl'[i] = fl'[j] => i = j
    <2>1. \A i \in DOMAIN fl : fl[i] # d
      BY <1>9 DEF Free
    <2> QED
      BY <1>5, <1>7, <2>1
  <1>14. \A i, j \in DOMAIN al' : al'[i].old = al'[j].old => i = j
    BY <1>3, <1>7
  <1>15. \A l, m \in LogReg : map'[l] = map'[m] => l = m
    <2>1. \A l \in LogReg : map[l] # o
      BY <1>8 DEF Mapped
    <2> QED
      BY <1>6, <1>7, <2>1
  <1>16. \A r \in PhysReg : /\ Mapped(r)' \/ Free(r)' \/ Held(r)'
                            /\ ~(Mapped(r)' /\ Free(r)')
                            /\ ~(Mapped(r)' /\ Held(r)')
                            /\ ~(Free(r)' /\ Held(r)')
    BY <1>8, <1>9, <1>10, <1>11, <1>12 DEF IInv, RegisterPartition
  <1> QED
    BY <1>13, <1>14, <1>15, <1>16 DEF RegisterPartition

\* Dispatch maps the register at the head of the Free List and leaves the one it
\* replaces to the new Active List entry.
LEMMA PartitionDispatch ==
    ASSUME IInv, DispatchNext
    PROVE  RegisterPartition'
  <1>1. PICK i \in Instruction, p \in Nat :
              /\ fl # <<>> /\ fl' = Tail(fl)
              /\ map' = [map EXCEPT ![i.dst] = fl[1]]
              /\ al' = Append(al, [done |-> FALSE, exception |-> FALSE, ld |-> i.dst,
                                   old |-> map[i.dst], pc |-> p])
              /\ Len(al) < ALCap
    BY DispatchLists
  <1> DEFINE f == fl[1]
             d == i.dst
             o == map[d]
             e == [done |-> FALSE, exception |-> FALSE, ld |-> d, old |-> o, pc |-> p]
  <1>2. /\ fl \in Seq(PhysReg) /\ al \in Seq(ActiveListEntry)
        /\ map \in [LogReg -> PhysReg]
    BY Typed DEF IInv, TypeOK
  <1>3. d \in LogReg /\ o \in PhysReg /\ f \in PhysReg /\ e \in ActiveListEntry
    <2>1. d \in LogReg
      BY DEF Instruction
    <2>2. o \in PhysReg
      BY <1>2, <2>1
    <2>3. f \in PhysReg
      BY <1>1, <1>2
    <2> QED
      BY <2>1, <2>2, <2>3 DEF ActiveListEntry
  <1>4. e.old = o
    OBVIOUS
  <1>5. \A l \in LogReg : map'[l] = IF l = d THEN f ELSE map[l]
    BY <1>1, <1>2
  <1> HIDE DEF e
  <1>6. /\ DOMAIN al = 1 .. Len(al) /\ Len(al) \in Nat
        /\ DOMAIN al' = 1 .. Len(al) + 1
        /\ \A k \in 1 .. Len(al) : al'[k] = al[k]
        /\ al'[Len(al) + 1] = e
    <2>1. al' = Append(al, e)
      BY <1>1 DEF e
    <2> QED
      BY <1>2, <1>3, <2>1, AppendElements
  <1>7. /\ DOMAIN fl = 1 .. Len(fl) /\ Len(fl) \in Nat \ {0}
        /\ DOMAIN fl' = 1 .. Len(fl) - 1
        /\ \A k \in 1 .. Len(fl) - 1 : fl'[k] = fl[k + 1]
    BY <1>1, <1>2, TailElements
  <1>8. f = fl[1] /\ o = map[d]
    OBVIOUS
  <1> HIDE DEF f, d, o
  <1>9. /\ \A k, j \in DOMAIN al : al[k].old = al[j].old => k = j
        /\ \A k, j \in DOMAIN fl : fl[k] = fl[j] => k = j
        /\ \A l, m \in LogReg : map[l] = map[m] => l = m
    BY DEF IInv, RegisterPartition
  <1>10. Free(f) /\ ~Mapped(f) /\ ~Held(f)
    <2>1. Free(f)
      BY <1>7, <1>8 DEF Free
    <2> QED
      BY <1>3, <2>1 DEF IInv, RegisterPartition
  <1>11. Mapped(o) /\ ~Held(o) /\ ~Free(o)
    <2>1. Mapped(o)
      BY <1>3, <1>8 DEF Mapped
    <2> QED
      BY <1>3, <2>1 DEF IInv, RegisterPartition
  <1>12. \A r : Free(r)' <=> Free(r) /\ r # f
    <2> TAKE r
    <2>1. ASSUME Free(r)' PROVE Free(r) /\ r # f
      <3>1. PICK k \in 1 .. Len(fl) - 1 : fl[k + 1] = r
        BY <1>7, <2>1 DEF Free
      <3>2. k + 1 \in DOMAIN fl /\ 1 \in DOMAIN fl /\ k + 1 # 1
        BY <1>7
      <3> QED
        BY <1>8, <1>9, <3>1, <3>2 DEF Free
    <2>2. ASSUME Free(r), r # f PROVE Free(r)'
      <3>1. PICK k \in DOMAIN fl : fl[k] = r
        BY <2>2 DEF Free
      <3>2. k # 1
        BY <1>8, <2>2, <3>1
      <3>3. k - 1 \in 1 .. Len(fl) - 1 /\ (k - 1) + 1 = k
        BY <1>7, <3>1, <3>2
      <3>4. k - 1 \in DOMAIN fl' /\ fl'[k - 1] = fl[k]
        BY <1>7, <3>3
      <3> QED
        BY <3>1, <3>4 DEF Free
    <2> QED
      BY <2>1, <2>2
  <1>13. \A r : Held(r)' <=> Held(r) \/ r = o
    BY <1>4, <1>6 DEF Held
  <1>14. \A r : Mapped(r)' <=> (Mapped(r) /\ r # o) \/ r = f
    BY <1>3, <1>5, <1>8, <1>9 DEF Mapped
  <1>15. \A k, j \in DOMAIN fl' : fl'[k] = fl'[j] => k = j
    <2> TAKE k \in DOMAIN fl', j \in DOMAIN fl'
    <2> HAVE fl'[k] = fl'[j]
    <2>1. k + 1 \in DOMAIN fl /\ j + 1 \in DOMAIN fl
      BY <1>7
    <2>2. fl[k + 1] = fl[j + 1]
      BY <1>7
    <2>3. k + 1 = j + 1
      BY <1>9, <2>1, <2>2
    <2> QED
      BY <1>7, <2>3
  <1>16. \A k, j \in DOMAIN al' : al'[k].old = al'[j].old => k = j
    <2>1. \A k \in DOMAIN al : al[k].old # o
      BY <1>11 DEF Held
    <2> QED
      BY <1>4, <1>6, <1>9, <2>1
  <1>17. \A l, m \in LogReg : map'[l] = map'[m] => l = m
    <2>1. \A l \in LogReg : map[l] # f
      BY <1>10 DEF Mapped
    <2> QED
      BY <1>5, <1>9, <2>1
  <1>18. \A r \in PhysReg : /\ Mapped(r)' \/ Free(r)' \/ Held(r)'
                            /\ ~(Mapped(r)' /\ Free(r)')
                            /\ ~(Mapped(r)' /\ Held(r)')
                            /\ ~(Free(r)' /\ Held(r)')
    BY <1>10, <1>11, <1>12, <1>13, <1>14 DEF IInv, RegisterPartition
  <1> QED
    BY <1>15, <1>16, <1>17, <1>18 DEF RegisterPartition

\* Every other step leaves the registers where they are; the results that commit
\* observes change the flags of the Active List's entries only.
LEMMA PartitionStep == IInv /\ [Next]_vars => RegisterPartition'
  <1> SUFFICES ASSUME IInv, [Next]_vars PROVE RegisterPartition'
    OBVIOUS
  <1>1. CASE RetireFront
    BY <1>1, PartitionRetire
  <1>2. CASE RollBackYoungest
    BY <1>2, PartitionRollBack
  <1>3. CASE DispatchNext
    BY <1>3, PartitionDispatch
  <1>4. CASE ObserveResults
    <2>1. al \in Seq(ActiveListEntry)
      BY Typed DEF IInv
    <2>2. \A e \in ActiveListEntry : Marked(e).old = e.old
      <3> TAKE e \in ActiveListEntry
      <3> DEFINE x == ctx.fwd[CHOOSE k \in Completions(e) : TRUE].exception
      <3>1. Marked(e) = e \/ Marked(e) = [e EXCEPT !.done = TRUE, !.exception = x]
        BY DEF Marked
      <3> HIDE DEF x
      <3>2. [e EXCEPT !.done = TRUE, !.exception = x].old = e.old
        BY DEF ActiveListEntry
      <3> QED
        BY <3>1, <3>2
    <2>3. /\ DOMAIN al = 1 .. Len(al)
          /\ \A i \in DOMAIN al : al[i] \in ActiveListEntry
      BY <2>1
    <2>4. /\ al' = [i \in 1 .. Len(al) |-> Marked(al[i])]
          /\ fl' = fl /\ map' = map
      BY <1>4 DEF ObserveResults, regState
    <2>5. DOMAIN al' = DOMAIN al /\ \A i \in DOMAIN al : al'[i].old = al[i].old
      BY <2>2, <2>3, <2>4
    <2>6. \A r : Held(r)' <=> Held(r)
      BY <2>5 DEF Held
    <2>7. \A r : (Free(r)' <=> Free(r)) /\ (Mapped(r)' <=> Mapped(r))
      BY <2>4 DEF Free, Mapped
    <2>8. \A i, j \in DOMAIN al' : al'[i].old = al'[j].old => i = j
      BY <2>5 DEF IInv, RegisterPartition
    <2>9. /\ \A l, m \in LogReg : map'[l] = map'[m] => l = m
          /\ \A i, j \in DOMAIN fl' : fl'[i] = fl'[j] => i = j
      BY <2>4 DEF IInv, RegisterPartition
    <2>10. \A r \in PhysReg : /\ Mapped(r)' \/ Free(r)' \/ Held(r)'
                              /\ ~(Mapped(r)' /\ Free(r)')
                              /\ ~(Mapped(r)' /\ Held(r)')
                              /\ ~(Free(r)' /\ Held(r)')
      BY <2>6, <2>7 DEF IInv, RegisterPartition
    <2> QED
      BY <2>8, <2>9, <2>10 DEF RegisterPartition
  <1>5. CASE UNCHANGED <<map, fl, al>>
    BY <1>5 DEF IInv, RegisterPartition, Mapped, Free, Held
  <1>6. CASE \/ Execute \/ DetectException \/ RollBackEnd \/ LeaveException
             \/ ResetExecution \/ Issue \/ RenameHalted \/ WriteBack \/ DispatchEnd
             \/ Fetch \/ Latch \/ UNCHANGED vars
    <2>1. UNCHANGED <<map, fl, al>>
      BY <1>6 DEF Execute, DetectException, RollBackEnd, LeaveException,
                  ResetExecution, Issue, ResetQueue, WakeUp, IssueOldestReady, IssueEnd,
                  RenameHalted, WriteBack, DispatchEnd, Fetch, FetchHalted, FetchStalled,
                  FetchAndDecode, Latch, vars, regState, queues
    <2> QED
      BY <1>5, <2>1
  <1> QED
    BY <1>1, <1>2, <1>3, <1>4, <1>6 DEF Next, Commit, RenameAndDispatch, Terminated

-----------------------------------------------------------------------------
(* The theorems *)

\* The inductive invariant holds initially and every step preserves it.
LEMMA Inductive == Spec => []IInv
  <1>1. Init => IInv
    BY InitType, ControlInit, CapacityInit, PartitionInit DEF IInv
  <1>2. IInv /\ [Next]_vars => IInv'
    BY TypeStep, ControlStep, CapacityStep, PartitionStep DEF IInv
  <1> QED
    BY <1>1, <1>2, PTL DEF Spec

\* The state of the processor keeps its types: no stage reads past the program or
\* pops an empty list, whatever the sizes, the word and the programs are.
THEOREM TypeCorrect == Spec => []TypeOK
  <1>1. IInv => TypeOK
    BY DEF IInv
  <1> QED
    BY <1>1, Inductive, PTL

\* The Free List, the Active List and the Integer Queue never exceed their sizes,
\* so that the pushes whose result the stages ignore never drop anything.
THEOREM Capacity == Spec => []QueuesFit
  <1>1. IInv => QueuesFit
    BY DEF IInv
  <1> QED
    BY <1>1, Inductive, PTL

\* Retirement, dispatch and rollback neither lose a physical register nor hand one
\* to two owners, for any interleaving of faults, stalls and full queues.
THEOREM Conservation == Spec => []RegisterPartition
  <1>1. IInv => RegisterPartition
    BY DEF IInv
  <1> QED
    BY <1>1, Inductive, PTL

=============================================================================
