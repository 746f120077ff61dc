--------------------------- MODULE SlabSizesProofs ---------------------------
(***************************************************************************)
(* Proofs about the size classes, for any smallest and largest chunk, any  *)
(* alignment and any header size: the ladder of classes climbs to its top, *)
(* and the binary search finds the smallest class that fits.               *)
(*                                                                         *)
(* Both are recursive functions.  Each is shown to exist, and to yield     *)
(* what it should, by induction on how much is left to do: the distance to *)
(* the largest chunk, the width of the range that is searched.             *)
(***************************************************************************)
EXTENDS SlabSizes, TLAPS, SequenceTheorems, WellFoundedInduction

\* A set of numbers that is not empty has a least element.
LEMMA LeastElement ==
    ASSUME NEW T \in SUBSET Nat, T # {}
    PROVE  \E x \in T : \A y \in T : x <= y
<1>1. \E x \in T : \A y \in T : ~(<<y, x>> \in OpToRel(<, Nat))
  BY NatLessThanWellFounded, WFMin
<1>2. PICK x \in T : \A y \in T : ~(<<y, x>> \in OpToRel(<, Nat))
  BY <1>1
<1>3. \A y \in T : ~(y < x)
  BY <1>2, Zenon DEF OpToRel
<1>4. \A y \in T : x <= y
  BY <1>3
<1> QED BY <1>4

\* A set of numbers that has 0 and the successor of each of its members is
\* Nat.
LEMMA Induction ==
    ASSUME NEW S \in SUBSET Nat, 0 \in S, \A n \in S : n + 1 \in S
    PROVE  S = Nat
<1>1. SUFFICES ASSUME Nat \ S # {} PROVE FALSE
  OBVIOUS
<1>2. PICK x \in Nat \ S : \A y \in Nat \ S : x <= y
  BY <1>1, LeastElement
<1>3. x - 1 \in Nat /\ x - 1 \notin Nat \ S
  BY <1>2
<1> QED BY <1>2, <1>3

\* What Min yields on a set of numbers.
LEMMA MinIs ==
    ASSUME NEW T \in SUBSET Nat, T # {}
    PROVE  Min(T) \in T /\ \A y \in T : Min(T) <= y
<1>1. \E x \in T : \A y \in T : x <= y
  BY LeastElement
<1> QED BY <1>1 DEF Min

-----------------------------------------------------------------------------
(***************************************************************************)
(* The ladder of chunk sizes.                                              *)
(***************************************************************************)

\* Rounding up never makes a size smaller.
LEMMA AlignUpIs ==
    ASSUME NEW x \in Nat
    PROVE  AlignUp(x) \in Nat /\ AlignUp(x) >= x
<1> DEFINE a == ItemAlign
           q == (x + a - 1) \div a
           m == (x + a - 1) % a
<1>1. a \in Nat \ {0}
  BY SizesAssumption
<1>2. q \in Nat
  BY <1>1
<1>3. x + a - 1 = (a * q) + m /\ m \in 0..a - 1
  BY <1>1
<1>4. a * q \in Nat /\ a * q = q * a
  BY <1>1, <1>2
<1>5. a * q >= x
  <2> DEFINE p == a * q
  <2> HIDE DEF p, m, q
  <2> QED BY <1>1, <1>3, <1>4 DEF p
<1> QED BY <1>4, <1>5 DEF AlignUp

\* A step of the ladder climbs and stays below the largest chunk.
LEMMA NextChunkSizeIs ==
    ASSUME NEW size \in Nat, size < MaxDataChunk
    PROVE  NextChunkSize(size) \in size + 1..MaxDataChunk
<1> DEFINE next == AlignUp((size * 5) \div 4)
<1>1. next \in Nat
  <2>1. (size * 5) \div 4 \in Nat
    OBVIOUS
  <2> QED BY <2>1, AlignUpIs
<1>2. NextChunkSize(size) =
        LET grown == IF next <= size THEN size + ItemAlign ELSE next
        IN  IF grown > MaxDataChunk THEN MaxDataChunk ELSE grown
  BY DEF NextChunkSize
<1> HIDE DEF next
<1> QED BY <1>1, <1>2, SizesAssumption

\* The sizes the loops of the start-up run over.
Sizes == 0..2 * MaxDataChunk

\* Those whose distance to the largest chunk is at most d.
Within(d) == {size \in Sizes : size + d >= MaxDataChunk}

\* What the ladder is from a size, by what it is from the next.
Rung(f, size) ==
    IF size >= MaxDataChunk THEN <<size>> ELSE <<size>> \o f[NextChunkSize(size)]

\* f is the ladder from every size within d.
Ladder(f, d) == f = [size \in Within(d) |-> Rung(f, size)]

\* The ladder exists.
LEMMA LadderDefined == \E f : Ladder(f, MaxDataChunk)
<1> DEFINE Done == {d \in Nat : \E f : Ladder(f, d)}
<1>1. 0 \in Done
  <2> DEFINE f == [size \in Within(0) |-> <<size>>]
  <2>1. \A size \in Within(0) : Rung(f, size) = <<size>>
    BY SizesAssumption DEF Within, Sizes, Rung
  <2>2. Ladder(f, 0)
    BY <2>1 DEF Ladder
  <2> QED BY <2>2
<1>2. ASSUME NEW d \in Done PROVE d + 1 \in Done
  <2>1. PICK f : Ladder(f, d)
    OBVIOUS
  <2> DEFINE g == [size \in Within(d + 1) |-> Rung(f, size)]
  <2>2. ASSUME NEW size \in Within(d + 1) PROVE g[size] = Rung(g, size)
    <3>1. CASE size >= MaxDataChunk
      BY <3>1 DEF Rung
    <3>2. CASE ~(size >= MaxDataChunk)
      <4> DEFINE next == NextChunkSize(size)
      <4>1. size \in Nat /\ size < MaxDataChunk /\ size + (d + 1) >= MaxDataChunk
        BY <3>2, SizesAssumption DEF Within, Sizes
      <4>2. next \in size + 1..MaxDataChunk
        BY <4>1, NextChunkSizeIs
      <4> HIDE DEF next
      <4>3. next \in Within(d) /\ next \in Within(d + 1)
        BY <4>1, <4>2, SizesAssumption DEF Within, Sizes
      <4>4. f[next] = g[next]
        BY <2>1, <4>3 DEF Ladder
      <4> QED BY <4>4 DEF Rung, next
    <3> QED BY <3>1, <3>2
  <2>3. Ladder(g, d + 1)
    BY <2>2 DEF Ladder
  <2> QED BY <2>3
<1>3. MaxDataChunk \in Done
  <2> HIDE DEF Done
  <2>1. Done \in SUBSET Nat
    BY DEF Done
  <2> QED BY <1>1, <1>2, <2>1, Induction, SizesAssumption
<1> QED BY <1>3

\* What the ladder is from each size.
LEMMA ChunkSizesAre == \A size \in Sizes : ChunkSizesFrom[size] = Rung(ChunkSizesFrom, size)
<1>1. Within(MaxDataChunk) = Sizes
  BY SizesAssumption DEF Within, Sizes
<1> DEFINE IsLadder(f) == f = [size \in 0..2 * MaxDataChunk |->
                                  IF size >= MaxDataChunk THEN <<size>>
                                  ELSE <<size>> \o f[NextChunkSize(size)]]
           ladder == CHOOSE f : IsLadder(f)
<1>2. \E f : IsLadder(f)
  BY <1>1, LadderDefined DEF Ladder, Rung, Sizes
<1>3. IsLadder(ladder)
  BY <1>2, Zenon
<1>4. ChunkSizesFrom = ladder
  BY Zenon DEF ChunkSizesFrom
<1> HIDE DEF ladder
<1> QED BY <1>3, <1>4 DEF Rung, Sizes

\* A sequence of sizes that climbs from `size` to the largest chunk.
Climbs(q, size) ==
    /\ q \in Seq(Nat) /\ Len(q) \in Nat \ {0}
    /\ q[1] = size /\ q[Len(q)] = MaxDataChunk
    /\ \A i \in 1..Len(q) - 1 : q[i] < q[i + 1]

\* A rung below a sequence that climbs.
LEMMA OneMoreRung ==
    ASSUME NEW q, NEW next, Climbs(q, next), NEW size \in Nat, size < next
    PROVE  Climbs(<<size>> \o q, size)
<1> DEFINE one == <<size>>
           r   == one \o q
<1>1. one \in Seq(Nat) /\ Len(one) = 1 /\ one[1] = size
  OBVIOUS
<1> HIDE DEF one
<1>2. q \in Seq(Nat) /\ Len(q) \in Nat \ {0} /\ q[1] = next /\ q[Len(q)] = MaxDataChunk
  BY DEF Climbs
<1>3. /\ r \in Seq(Nat) /\ Len(r) = 1 + Len(q)
      /\ \A i \in 1..1 + Len(q) : r[i] = IF i <= 1 THEN one[i] ELSE q[i - 1]
  <2>1. /\ r \in Seq(Nat) /\ Len(r) = Len(one) + Len(q)
        /\ \A i \in 1..Len(one) + Len(q) :
                r[i] = IF i <= Len(one) THEN one[i] ELSE q[i - Len(one)]
    BY <1>1, <1>2, ConcatProperties
  <2> QED BY <1>1, <2>1
<1> HIDE DEF r
<1>4. r[1] = size /\ r[Len(r)] = MaxDataChunk
  <2>1. 1 \in 1..1 + Len(q) /\ 1 + Len(q) \in 1..1 + Len(q) /\ ~(1 + Len(q) <= 1)
        /\ (1 + Len(q)) - 1 = Len(q)
    BY <1>2
  <2> QED BY <1>1, <1>2, <1>3, <2>1
<1>5. ASSUME NEW i \in 1..Len(r) - 1 PROVE r[i] < r[i + 1]
  <2>1. i \in 1..1 + Len(q) /\ i + 1 \in 1..1 + Len(q) /\ r[i + 1] = q[i]
    <3>1. i \in 1..1 + Len(q) /\ i + 1 \in 1..1 + Len(q) /\ ~(i + 1 <= 1) /\ (i + 1) - 1 = i
      BY <1>2, <1>3
    <3> QED BY <1>3, <3>1
  <2>2. CASE i = 1
    BY <1>2, <1>4, <2>1, <2>2
  <2>3. CASE i # 1
    <3>1. r[i] = q[i - 1]
      BY <1>3, <2>1, <2>3
    <3>2. i - 1 \in 1..Len(q) - 1 /\ (i - 1) + 1 = i
      BY <1>2, <1>3, <2>3
    <3>3. q[i - 1] < q[(i - 1) + 1]
      BY <3>2 DEF Climbs
    <3> QED BY <2>1, <3>1, <3>2, <3>3
  <2> QED BY <2>2, <2>3
<1>6. Climbs(r, size)
  BY <1>2, <1>3, <1>4, <1>5 DEF Climbs
<1> QED BY <1>6 DEF r, one

\* The ladder climbs from any size up to the largest chunk.
LEMMA LadderClimbs ==
    ASSUME NEW size \in Nat, size <= MaxDataChunk
    PROVE  Climbs(ChunkSizesFrom[size], size)
<1> DEFINE Done == {d \in Nat : \A s \in 0..MaxDataChunk :
                        s + d >= MaxDataChunk => Climbs(ChunkSizesFrom[s], s)}
<1>1. ChunkSizesFrom[MaxDataChunk] = <<MaxDataChunk>>
  <2>1. MaxDataChunk \in Sizes /\ MaxDataChunk >= MaxDataChunk
    BY SizesAssumption DEF Sizes
  <2>2. ChunkSizesFrom[MaxDataChunk] = Rung(ChunkSizesFrom, MaxDataChunk)
    BY <2>1, ChunkSizesAre
  <2> QED BY <2>1, <2>2 DEF Rung
<1>2. 0 \in Done
  <2>1. Climbs(<<MaxDataChunk>>, MaxDataChunk)
    BY SizesAssumption DEF Climbs
  <2>2. \A s \in 0..MaxDataChunk : s + 0 >= MaxDataChunk => s = MaxDataChunk
    BY SizesAssumption
  <2> QED BY <1>1, <2>1, <2>2
<1>3. ASSUME NEW d \in Done PROVE d + 1 \in Done
  <2> SUFFICES ASSUME NEW s \in 0..MaxDataChunk, s + (d + 1) >= MaxDataChunk
               PROVE  Climbs(ChunkSizesFrom[s], s)
    OBVIOUS
  <2>1. CASE s = MaxDataChunk
    BY <1>2, <2>1
  <2>2. CASE s # MaxDataChunk
    <3> DEFINE next == NextChunkSize(s)
    <3>1. s \in Nat /\ s < MaxDataChunk /\ s \in Sizes
      BY <2>2, SizesAssumption DEF Sizes
    <3>2. next \in s + 1..MaxDataChunk
      BY <3>1, NextChunkSizeIs
    <3>3. ChunkSizesFrom[s] = <<s>> \o ChunkSizesFrom[next]
      <4>1. ~(s >= MaxDataChunk)
        BY <3>1, SizesAssumption
      <4>2. ChunkSizesFrom[s] = Rung(ChunkSizesFrom, s)
        BY <3>1, ChunkSizesAre
      <4> HIDE DEF Done
      <4> QED BY <4>1, <4>2 DEF Rung
    <3> HIDE DEF next
    <3>4. next \in 0..MaxDataChunk /\ s < next /\ next + d >= MaxDataChunk
      BY <3>1, <3>2, SizesAssumption
    <3>5. Climbs(ChunkSizesFrom[next], next)
      BY <3>4
    <3> QED BY <3>1, <3>3, <3>4, <3>5, OneMoreRung
  <2> QED BY <2>1, <2>2
<1>4. Done = Nat
  <2> HIDE DEF Done
  <2>1. Done \in SUBSET Nat
    BY DEF Done
  <2> QED BY <1>2, <1>3, <2>1, Induction
<1> QED BY <1>4, SizesAssumption

\* In a sequence that climbs step by step every later size is larger.
LEMMA ClimbsThroughout ==
    ASSUME NEW q, NEW size, Climbs(q, size), NEW i \in 1..Len(q), NEW j \in 1..Len(q), i < j
    PROVE  q[i] < q[j]
<1>1. \A k \in 1..Len(q) : q[k] \in Nat
  BY ElementOfSeq DEF Climbs
<1> DEFINE Done == {d \in Nat : i + 1 + d <= Len(q) => q[i] < q[i + 1 + d]}
<1>2. Len(q) \in Nat
  BY DEF Climbs
<1>3. 0 \in Done
  <2>1. i \in 1..Len(q) - 1 /\ i + 1 + 0 = i + 1
    BY <1>2
  <2> QED BY <2>1 DEF Climbs
<1>4. ASSUME NEW d \in Done PROVE d + 1 \in Done
  <2> SUFFICES ASSUME i + 1 + (d + 1) <= Len(q) PROVE q[i] < q[i + 1 + (d + 1)]
    OBVIOUS
  <2> DEFINE k == i + 1 + d
  <2>1. k \in 1..Len(q) - 1 /\ k + 1 = i + 1 + (d + 1) /\ k \in 1..Len(q) /\ k + 1 \in 1..Len(q)
    BY <1>2
  <2>2. q[i] < q[k]
    BY <1>2, <2>1
  <2> HIDE DEF k, Done
  <2>3. q[k] < q[k + 1]
    BY <2>1 DEF Climbs
  <2>4. q[i] \in Nat /\ q[k] \in Nat /\ q[k + 1] \in Nat
    BY <1>1, <2>1
  <2> QED BY <2>1, <2>2, <2>3, <2>4
<1>5. Done = Nat
  <2> HIDE DEF Done
  <2>1. Done \in SUBSET Nat
    BY DEF Done
  <2> QED BY <1>3, <1>4, <2>1, Induction
<1>6. j - (i + 1) \in Nat /\ i + 1 + (j - (i + 1)) = j
  BY <1>2
<1> DEFINE d == j - (i + 1)
<1>7. d \in Nat /\ i + 1 + d = j /\ d \in Done
  BY <1>5, <1>6
<1>8. i + 1 + d <= Len(q)
  BY <1>2, <1>7
<1> HIDE DEF d
<1> QED BY <1>7, <1>8

-----------------------------------------------------------------------------
(***************************************************************************)
(* The binary search.                                                      *)
(***************************************************************************)
Middle(r) == r[1] + (r[2] - r[1]) \div 2

\* What the search makes of a range, by what it makes of the narrower ones.
Probe(size, f, r) ==
    IF r[1] >= r[2] THEN r[1]
    ELSE IF classes[Middle(r) + 1] < size
         THEN f[<<Middle(r) + 1, r[2]>>]
         ELSE f[<<r[1], Middle(r)>>]

Ranges(n) == (0..n) \X (0..n)

\* f is the search over the ranges of width w and less.
Narrow(n, w) == {r \in Ranges(n) : r[2] - r[1] <= w}

Searches(size, f, n, w) == f = [r \in Narrow(n, w) |-> Probe(size, f, r)]

\* Both parts of a range that is probed are narrower.
LEMMA PartsAreNarrower ==
    ASSUME NEW n \in Nat, NEW r \in Ranges(n), r[1] < r[2], NEW w \in Nat, r[2] - r[1] <= w + 1
    PROVE  /\ Middle(r) \in r[1]..r[2] - 1 /\ Middle(r) \in 0..n - 1
           /\ <<Middle(r) + 1, r[2]>> \in Narrow(n, w)
           /\ <<r[1], Middle(r)>> \in Narrow(n, w)
<1>1. r[1] \in 0..n /\ r[2] \in 0..n
  BY DEF Ranges
<1> DEFINE m == Middle(r)
<1>2. m \in r[1]..r[2] - 1 /\ m - r[1] <= w /\ r[2] - (m + 1) <= w
  BY <1>1 DEF Middle
<1> HIDE DEF m
<1>3. m \in 0..n - 1 /\ m \in 0..n /\ m + 1 \in 0..n
  BY <1>1, <1>2
<1>4. <<m + 1, r[2]>> \in Narrow(n, w) /\ <<r[1], m>> \in Narrow(n, w)
  BY <1>1, <1>2, <1>3 DEF Narrow, Ranges
<1> QED BY <1>2, <1>3, <1>4 DEF m

\* The search exists.
LEMMA SearchDefined ==
    ASSUME NEW size, NEW n \in Nat
    PROVE  \E f : Searches(size, f, n, n)
<1> DEFINE Done == {w \in Nat : \E f : Searches(size, f, n, w)}
<1>1. 0 \in Done
  <2> DEFINE f == [r \in Narrow(n, 0) |-> r[1]]
  <2>1. \A r \in Narrow(n, 0) : r[1] >= r[2]
    BY DEF Narrow, Ranges
  <2>2. Searches(size, f, n, 0)
    BY <2>1 DEF Searches, Probe
  <2> QED BY <2>2
<1>2. ASSUME NEW w \in Done PROVE w + 1 \in Done
  <2>1. PICK f : Searches(size, f, n, w)
    OBVIOUS
  <2> DEFINE g == [r \in Narrow(n, w + 1) |-> Probe(size, f, r)]
  <2>2. \A r \in Narrow(n, w) : r \in Narrow(n, w + 1)
    BY DEF Narrow, Ranges
  <2>3. \A r \in Narrow(n, w) : f[r] = g[r]
    BY <2>1, <2>2 DEF Searches
  <2>4. ASSUME NEW r \in Narrow(n, w + 1) PROVE Probe(size, f, r) = Probe(size, g, r)
    <3>1. CASE r[1] >= r[2]
      BY <3>1 DEF Probe
    <3>2. CASE ~(r[1] >= r[2])
      <4>1. r \in Ranges(n) /\ r[1] < r[2] /\ r[2] - r[1] <= w + 1
        BY <3>2 DEF Narrow, Ranges
      <4>2. <<Middle(r) + 1, r[2]>> \in Narrow(n, w) /\ <<r[1], Middle(r)>> \in Narrow(n, w)
        BY <4>1, PartsAreNarrower
      <4> HIDE DEF g
      <4> QED BY <2>3, <4>2 DEF Probe
    <3> QED BY <3>1, <3>2
  <2>5. Searches(size, g, n, w + 1)
    BY <2>4 DEF Searches
  <2> QED BY <2>5
<1>3. n \in Done
  <2> HIDE DEF Done
  <2>1. Done \in SUBSET Nat
    BY DEF Done
  <2> QED BY <1>1, <1>2, <2>1, Induction
<1> QED BY <1>3

\* The class found is the first that is large enough, among the sizes of q.
FirstFit(q, size, class) ==
    /\ class \in 0..Len(q)
    /\ \A i \in 1..Len(q) : IF i <= class THEN q[i] < size ELSE q[i] >= size

\* The search is right on every range that has the first fit within it.
LEMMA SearchFinds ==
    ASSUME NEW first, Climbs(classes, first), NEW size \in Nat,
           NEW f, \A r \in Ranges(Len(classes)) : f[r] = Probe(size, f, r)
    PROVE  FirstFit(classes, size, f[<<0, Len(classes)>>])
<1> DEFINE n == Len(classes)
           Holds(r) == /\ r[1] <= r[2]
                       /\ \A i \in 1..n : /\ i <= r[1] => classes[i] < size
                                          /\ i > r[2] => classes[i] >= size
           Done == {w \in Nat : \A r \in Narrow(n, w) : Holds(r) => FirstFit(classes, size, f[r])}
<1>1. n \in Nat /\ \A i \in 1..n : classes[i] \in Nat
  BY ElementOfSeq DEF Climbs
<1>2. 0 \in Done
  <2> SUFFICES ASSUME NEW r \in Narrow(n, 0), Holds(r) PROVE FirstFit(classes, size, f[r])
    OBVIOUS
  <2>1. r \in Ranges(n) /\ r[1] \in 0..n /\ r[1] = r[2] /\ r[1] >= r[2]
    BY <1>1 DEF Narrow, Ranges
  <2>2. f[r] = r[1]
    BY <2>1 DEF Probe
  <2> QED BY <1>1, <2>1, <2>2 DEF FirstFit
<1>3. ASSUME NEW w \in Done PROVE w + 1 \in Done
  <2> SUFFICES ASSUME NEW r \in Narrow(n, w + 1), Holds(r) PROVE FirstFit(classes, size, f[r])
    OBVIOUS
  <2>1. /\ r \in Ranges(n) /\ r[1] \in 0..n /\ r[2] \in 0..n /\ r[2] - r[1] <= w + 1
        /\ w \in Nat /\ f[r] = Probe(size, f, r)
    BY DEF Narrow, Ranges
  <2>2. CASE r[1] = r[2]
    <3>1. r \in Narrow(n, 0)
      BY <2>1, <2>2 DEF Narrow
    <3> QED BY <1>2, <3>1
  <2>3. CASE r[1] # r[2]
    <3> DEFINE m  == Middle(r)
               r1 == <<m + 1, r[2]>>
               r2 == <<r[1], m>>
    <3>1. r[1] < r[2]
      BY <2>1, <2>3
    <3>2. m \in r[1]..r[2] - 1 /\ m \in 0..n - 1 /\ r1 \in Narrow(n, w) /\ r2 \in Narrow(n, w)
      BY <1>1, <2>1, <3>1, PartsAreNarrower
    <3>3. f[r] = IF classes[m + 1] < size THEN f[r1] ELSE f[r2]
      <4>1. ~(r[1] >= r[2])
        BY <2>1, <3>1
      <4> QED BY <2>1, <4>1 DEF Probe
    <3> HIDE DEF m
    <3>4. m \in Nat /\ m + 1 \in 1..n
      BY <1>1, <3>2
    <3>5. CASE classes[m + 1] < size
      <4>1. ASSUME NEW i \in 1..n, i <= m + 1 PROVE classes[i] < size
        <5>1. i = m + 1 \/ classes[i] < classes[m + 1]
          BY <3>4, <4>1, ClimbsThroughout
        <5> QED BY <1>1, <3>4, <3>5, <5>1
      <4>2. Holds(r1)
        BY <2>1, <3>2, <3>4, <4>1
      <4> QED BY <3>2, <3>3, <3>5, <4>2
    <3>6. CASE ~(classes[m + 1] < size)
      <4>1. ASSUME NEW i \in 1..n, i > m PROVE classes[i] >= size
        <5>1. i = m + 1 \/ classes[m + 1] < classes[i]
          <6>1. i = m + 1 \/ m + 1 < i
            BY <3>4, <4>1
          <6> QED BY <3>4, <6>1, ClimbsThroughout
        <5> QED BY <1>1, <3>4, <3>6, <5>1
      <4>2. Holds(r2)
        BY <2>1, <3>2, <3>4, <4>1
      <4> QED BY <3>2, <3>3, <3>6, <4>2
    <3> QED BY <3>5, <3>6
  <2> QED BY <2>2, <2>3
<1>4. Done = Nat
  <2> HIDE DEF Done
  <2>1. Done \in SUBSET Nat
    BY DEF Done
  <2> QED BY <1>2, <1>3, <2>1, Induction
<1>5. <<0, n>> \in Narrow(n, n) /\ Holds(<<0, n>>)
  BY <1>1 DEF Narrow, Ranges
<1> QED BY <1>1, <1>4, <1>5

\* slab_allocator_find_class finds the first class that is large enough.
LEMMA FindClassIs ==
    ASSUME NEW first, Climbs(classes, first), NEW size \in Nat
    PROVE  FirstFit(classes, size, FindClass(size))
<1> DEFINE n == Len(classes)
           IsSearch(g) == g = [r \in (0..n) \X (0..n) |-> Probe(size, g, r)]
           f == CHOOSE g : IsSearch(g)
<1>1. n \in Nat
  BY DEF Climbs
<1>2. Narrow(n, n) = (0..n) \X (0..n)
  BY <1>1 DEF Narrow, Ranges
<1>3. \E g : IsSearch(g)
  <2>1. PICK g : Searches(size, g, n, n)
    BY <1>1, SearchDefined
  <2>2. IsSearch(g)
    BY <1>2, <2>1 DEF Searches
  <2> QED BY <2>2
<1>4. IsSearch(f)
  BY <1>3, Zenon
<1>5. FindClass(size) = f[<<0, n>>]
  BY Zenon DEF FindClass, Probe, Middle
<1> HIDE DEF f
<1>6. \A r \in Ranges(n) : f[r] = Probe(size, f, r)
  BY <1>4 DEF Ranges
<1> QED BY <1>5, <1>6, SearchFinds

-----------------------------------------------------------------------------
(***************************************************************************)
(* The allocator.                                                          *)
(***************************************************************************)
Laid == Climbs(classes, MinDataChunk)

\* The classes are laid out once and for all.
LEMMA LaidOut == Spec => []Laid
<1>1. Init => Laid
  BY LadderClimbs, SizesAssumption DEF Init, SlabAllocatorInit, Laid
<1>2. Laid /\ [Next]_vars => Laid'
  BY DEF Laid, Climbs, Next, vars, AllocItem, UsableSize
<1> QED BY <1>1, <1>2, PTL DEF Spec

\* The classes climb strictly from the smallest to the largest chunk, for any
\* sizes and alignment: rounding up keeps every step above the last, and the
\* cap ends the ladder at its top.
THEOREM ClassesCorrect == Spec => []ClassesClimb
<1>1. Laid => ClassesClimb
  BY DEF Laid, Climbs, ClassesClimb
<1> QED BY <1>1, LaidOut, PTL

\* No class fits what is larger than the largest chunk.
LEMMA NothingFits ==
    ASSUME Laid, NEW size \in Nat, size > MaxDataChunk
    PROVE  \A i \in 1..Len(classes) : ~(classes[i] >= size)
<1> SUFFICES ASSUME NEW i \in 1..Len(classes) PROVE ~(classes[i] >= size)
  OBVIOUS
<1>1. Len(classes) \in Nat \ {0} /\ classes[Len(classes)] = MaxDataChunk /\ classes[i] \in Nat
  BY ElementOfSeq DEF Laid, Climbs
<1>2. i = Len(classes) \/ classes[i] < classes[Len(classes)]
  BY <1>1, ClimbsThroughout DEF Laid
<1> QED BY <1>1, <1>2, SizesAssumption

\* An item is refused only when it has no data or exceeds the largest chunk
\* with its header, and one that is granted has the smallest class that holds
\* header and data, for any sizes and alignment.
THEOREM RequestsCorrect == Spec => []RequestsServed
<1>1. Init => RequestsServed
  BY DEF Init, NoAnswer, RequestsServed
<1>2. Laid /\ RequestsServed /\ [Next]_vars => RequestsServed'
  <2> SUFFICES ASSUME Laid, RequestsServed, [Next]_vars PROVE RequestsServed'
    OBVIOUS
  <2>1. ASSUME NEW dataLen \in Requests, AllocItem(dataLen) PROVE RequestsServed'
    <3> DEFINE size    == dataLen + ItemSize
               class   == FindClass(size)
               fitting == {i \in 1..Len(classes) : classes[i] >= size}
    <3>1. dataLen \in Nat /\ size \in Nat /\ ItemSize \in Nat
      BY SizesAssumption
    <3>2. FirstFit(classes, size, class)
      <4> HIDE DEF size
      <4> QED BY <3>1, FindClassIs DEF Laid
    <3>3. Len(classes) \in Nat /\ \A i \in 1..Len(classes) : classes[i] \in Nat
      BY ElementOfSeq DEF Laid, Climbs
    <3>4. /\ classes' = classes
          /\ answer' = IF dataLen = 0 \/ size > MaxDataChunk \/ class = Len(classes)
                       THEN [op |-> "null", size |-> dataLen, class |-> 0, bytes |-> 0]
                       ELSE [op |-> "item", size |-> dataLen, class |-> class,
                             bytes |-> ChunkSize(class) - ItemSize]
      BY <2>1 DEF AllocItem
    <3> HIDE DEF class
    <3>5. CASE dataLen = 0 \/ size > MaxDataChunk \/ class = Len(classes)
      <4>1. answer'.op = "null" /\ answer'.size = dataLen
        BY <3>4, <3>5
      <4>2. dataLen = 0 \/ fitting = {}
        BY <3>1, <3>2, <3>3, <3>5, NothingFits DEF FirstFit
      <4> QED BY <3>4, <4>1, <4>2 DEF RequestsServed
    <3>6. CASE ~(dataLen = 0 \/ size > MaxDataChunk \/ class = Len(classes))
      <4>1. /\ answer'.op = "item" /\ answer'.size = dataLen /\ answer'.class = class
            /\ answer'.bytes = ChunkSize(class) - ItemSize
        BY <3>4, <3>6
      <4>2. class \in Nat /\ class + 1 \in 1..Len(classes) /\ classes[class + 1] >= size
        BY <3>2, <3>3, <3>6 DEF FirstFit
      <4>3. class + 1 \in fitting /\ \A i \in fitting : class + 1 <= i
        BY <3>1, <3>2, <3>3, <4>2 DEF FirstFit
      <4>4. class + 1 = Min(fitting)
        <5>1. fitting \in SUBSET Nat
          OBVIOUS
        <5> HIDE DEF fitting
        <5>2. Min(fitting) \in fitting /\ \A i \in fitting : Min(fitting) <= i
          BY <4>3, <5>1, MinIs
        <5>3. class + 1 <= Min(fitting) /\ Min(fitting) <= class + 1 /\ Min(fitting) \in Nat
          BY <4>3, <5>1, <5>2
        <5> QED BY <4>2, <5>3
      <4>5. ChunkSize(class) - ItemSize >= dataLen
        <5>1. ChunkSize(class) \in Nat /\ ChunkSize(class) >= classes[class + 1]
          BY <3>3, <4>2, AlignUpIs DEF ChunkSize
        <5> QED BY <3>1, <3>3, <4>2, <5>1
      <4> QED BY <3>4, <4>1, <4>4, <4>5 DEF RequestsServed
    <3> QED BY <3>5, <3>6
  <2>2. ASSUME NEW size \in Requests, UsableSize(size) PROVE RequestsServed'
    <3>1. answer'.op = "usable"
      BY <2>2 DEF UsableSize
    <3> QED BY <3>1 DEF RequestsServed
  <2>3. CASE UNCHANGED vars
    BY <2>3 DEF RequestsServed, vars
  <2> QED BY <2>1, <2>2, <2>3 DEF Next
<1> QED BY <1>1, <1>2, LaidOut, PTL DEF Spec
=============================================================================
