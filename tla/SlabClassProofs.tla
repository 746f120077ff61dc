--------------------------- MODULE SlabClassProofs ---------------------------
(***************************************************************************)
(* Proofs about one size class, for every number of slabs, chunks and      *)
(* every order of allocations and frees.                                   *)
(*                                                                         *)
(* The inductive invariant adds to the checked ones that slabs are         *)
(* distinct, that a slab not yet added is untouched, and the capacity of   *)
(* the arrays.                                                             *)
(***************************************************************************)
EXTENDS SlabClass, TLAPS, SequenceTheorems, FiniteSetTheorems

\* Slabs enter the class once, and one that has not entered is untouched.
SlabsEnterOnce ==
    /\ IsInjective(slabs)
    /\ \A s \in Slab : s \notin Range(slabs) => slab[s] = NewSlab

\* The array of slabs never overflows.
SlabsFit == slabsCap >= 2 /\ Len(slabs) <= slabsCap

IInv ==
    /\ TypeOK
    /\ SlabsEnterOnce
    /\ SlabsFit
    /\ StackIsSlabsWithRoom
    /\ ChunksAccountedFor
    /\ HeldKnowTheirSlab

-----------------------------------------------------------------------------
(***************************************************************************)
(* Sequences without repetition.                                           *)
(***************************************************************************)

\* Pushing a new element keeps the stack without repetition.
LEMMA AppendInjectiveSeq ==
    ASSUME NEW S, NEW q \in Seq(S), NEW e \in S, IsInjective(q), e \notin Range(q)
    PROVE  /\ Append(q, e) \in Seq(S)
           /\ IsInjective(Append(q, e))
           /\ Range(Append(q, e)) = Range(q) \cup {e}
           /\ Len(Append(q, e)) = Len(q) + 1
<1> DEFINE a == Append(q, e)
<1>1. /\ a \in Seq(S) /\ Len(a) = Len(q) + 1 /\ a[Len(q) + 1] = e
      /\ \A i \in 1..Len(q) : a[i] = q[i]
  BY AppendProperties
<1>2. DOMAIN a = 1..Len(q) + 1 /\ DOMAIN q = 1..Len(q) /\ Len(q) \in Nat
  BY <1>1, LenProperties
<1> HIDE DEF a
<1>3. IsInjective(a)
  BY <1>1, <1>2 DEF IsInjective, Range
<1>4. Range(a) = Range(q) \cup {e}
  <2>1. ASSUME NEW x \in Range(a) PROVE x \in Range(q) \cup {e}
    BY <1>1, <1>2 DEF Range
  <2>2. ASSUME NEW x \in Range(q) PROVE x \in Range(a)
    <3>1. PICK i \in 1..Len(q) : x = q[i]
      BY <1>2 DEF Range
    <3>2. i \in DOMAIN a /\ a[i] = x
      BY <3>1, <1>1, <1>2
    <3> QED BY <3>2 DEF Range
  <2>3. e \in Range(a)
    BY <1>1, <1>2 DEF Range
  <2> QED BY <2>1, <2>2, <2>3
<1> QED BY <1>1, <1>3, <1>4 DEF a

\* Popping the stack removes its last element and nothing else.
LEMMA FrontInjectiveSeq ==
    ASSUME NEW S, NEW q \in Seq(S), IsInjective(q), q # <<>>
    PROVE  /\ Front(q) \in Seq(S)
           /\ IsInjective(Front(q))
           /\ Last(q) \in Range(q)
           /\ Range(Front(q)) = Range(q) \ {Last(q)}
<1> DEFINE f == Front(q)
<1>0. Len(q) \in Nat /\ Len(q) # 0
  BY EmptySeq
<1>1. Len(q) \in Nat \ {0} /\ DOMAIN q = 1..Len(q) /\ \A i \in 1..Len(q) : q[i] \in S
  BY EmptySeq, LenProperties, ElementOfSeq
<1>2. /\ f \in Seq(S) /\ Len(f) = Len(q) - 1
      /\ \A i \in 1..Len(q) - 1 : f[i] = q[i]
  <2>1. \A i \in 1..Len(q) - 1 : q[i] \in S
    BY <1>1
  <2>2. /\ SubSeq(q, 1, Len(q) - 1) \in Seq(S)
        /\ Len(SubSeq(q, 1, Len(q) - 1)) = Len(q) - 1
        /\ \A i \in 1..Len(q) - 1 : SubSeq(q, 1, Len(q) - 1)[i] = q[i]
    BY <1>1, <2>1, SubSeqProperties
  <2> QED BY <2>2 DEF Front
<1>3. DOMAIN f = 1..Len(q) - 1
  BY <1>2, LenProperties
<1>4. Last(q) = q[Len(q)]
  BY DEF Last
<1> HIDE DEF f
<1>5. IsInjective(f)
  BY <1>1, <1>2, <1>3 DEF IsInjective
<1>6. Last(q) \in Range(q)
  BY <1>1, <1>4 DEF Range
<1>7. Range(f) = Range(q) \ {Last(q)}
  <2>1. ASSUME NEW x \in Range(f) PROVE x \in Range(q) \ {Last(q)}
    <3>1. PICK i \in 1..Len(q) - 1 : x = q[i]
      BY <1>2, <1>3 DEF Range
    <3>2. i \in 1..Len(q) /\ i # Len(q) /\ Len(q) \in 1..Len(q)
      BY <1>0
    <3>3. x \in Range(q)
      BY <1>1, <3>1, <3>2 DEF Range
    <3>4. q[i] # q[Len(q)]
      BY <1>1, <3>2 DEF IsInjective
    <3> QED BY <1>4, <3>1, <3>3, <3>4
  <2>2. ASSUME NEW x \in Range(q), x # Last(q) PROVE x \in Range(f)
    <3>1. PICK i \in 1..Len(q) : x = q[i]
      BY <1>1 DEF Range
    <3>2. i \in 1..Len(q) - 1
      BY <1>1, <1>4, <2>2, <3>1
    <3>3. f[i] = x /\ i \in DOMAIN f
      BY <1>2, <1>3, <3>1, <3>2
    <3> QED BY <3>3 DEF Range
  <2> QED BY <2>1, <2>2
<1> QED BY <1>2, <1>5, <1>6, <1>7 DEF f

\* A list of distinct chunks of one slab below its bump index b has at most b.
LEMMA ListBounded ==
    ASSUME NEW s \in Slab, NEW b \in Nat, NEW n \in Nat,
           NEW list \in [1..n -> Chunk], IsInjective(list),
           \A i \in 1..n : list[i][1] = s /\ list[i][2] < b
    PROVE  n <= b
<1> DEFINE f == [i \in 1..n |-> list[i][2]]
<1>1. f \in [1..n -> 0..b - 1]
  BY ClassAssumption DEF Chunk
<1>2. \A i, j \in 1..n : f[i] = f[j] => i = j
  <2>1. ASSUME NEW i \in 1..n, NEW j \in 1..n, f[i] = f[j] PROVE i = j
    <3>1. list[i] \in Chunk /\ list[j] \in Chunk
      OBVIOUS
    <3>2. list[i] = <<list[i][1], list[i][2]>> /\ list[j] = <<list[j][1], list[j][2]>>
      BY <3>1 DEF Chunk
    <3>3. list[i][1] = list[j][1] /\ list[i][2] = list[j][2]
      BY <2>1
    <3>4. list[i] = list[j]
      BY <3>2, <3>3
    <3> QED BY <3>4 DEF IsInjective
  <2> QED BY <2>1
<1>3. f \in Injection(1..n, 0..b - 1)
  <2> HIDE DEF f
  <2> QED BY <1>1, <1>2 DEF Injection, IsInjective
<1>4. IsFiniteSet(0..b - 1) /\ Cardinality(0..b - 1) = b
  BY FS_Interval
<1>5. Cardinality(1..n) = n
  BY FS_Interval
<1>6. Cardinality(1..n) <= Cardinality(0..b - 1)
  BY <1>3, <1>4, FS_Injection
<1> QED BY <1>4, <1>5, <1>6

-----------------------------------------------------------------------------
(***************************************************************************)
(* Free lists.                                                             *)
(***************************************************************************)
SlabState == [freeList : Chunk \cup {NULL}, bump : 0..ChunksPerSlab,
              freeCount : 0..ChunksPerSlab]

\* A free list is a sequence of as many chunks as its slab has below the bump
\* index, at most.
LEMMA FreeListType ==
    ASSUME TypeOK, NEW s \in Slab, NEW list \in FreeLists(s), IsFreeList(s, list)
    PROVE  /\ Len(list) \in Nat /\ Len(list) <= slab[s].bump
           /\ list \in [1..Len(list) -> {s} \X (0..ChunksPerSlab - 1)]
           /\ DOMAIN list = 1..Len(list)
<1>1. PICK n \in 0..ChunksPerSlab : list \in [1..n -> {s} \X (0..ChunksPerSlab - 1)]
  BY DEF FreeLists
<1>2. n \in Nat /\ Len(list) = n
  <2>1. n \in Nat
    BY ClassAssumption
  <2>2. list \in Seq({s} \X (0..ChunksPerSlab - 1))
    BY <1>1, <2>1, SeqDef
  <2> QED BY <1>1, <2>1, <2>2, LenProperties
<1>3. slab[s].bump \in Nat
  BY ClassAssumption DEF TypeOK
<1>4. list \in [1..n -> Chunk]
  BY <1>1 DEF Chunk
<1>5. \A i \in 1..n : list[i][1] = s /\ list[i][2] < slab[s].bump
  BY <1>1, <1>2 DEF IsFreeList
<1>6. IsInjective(list)
  BY DEF IsFreeList
<1>7. n <= slab[s].bump
  BY <1>2, <1>3, <1>4, <1>5, <1>6, ListBounded
<1> QED BY <1>1, <1>2, <1>7

\* Allocating from or freeing into one slab leaves the lists of the others alone.
LEMMA OtherListsUntouched ==
    ASSUME NEW s \in Slab, NEW r \in Slab, r # s, slab'[r] = slab[r],
           \A c \in Chunk : c[1] # s => word'[c] = word[c] /\ (c \in held' <=> c \in held),
           NEW list \in FreeLists(r), IsFreeList(r, list)
    PROVE  IsFreeList(r, list)'
<1>1. PICK n \in 0..ChunksPerSlab : list \in [1..n -> {r} \X (0..ChunksPerSlab - 1)]
  BY DEF FreeLists
<1>2. n \in Nat /\ Len(list) = n
  <2>1. n \in Nat
    BY ClassAssumption
  <2>2. list \in Seq({r} \X (0..ChunksPerSlab - 1))
    BY <1>1, <2>1, SeqDef
  <2> QED BY <1>1, <2>1, <2>2, LenProperties
<1>3. \A i \in 1..Len(list) : list[i] \in Chunk /\ list[i][1] # s
  BY <1>1, <1>2 DEF Chunk
<1>4. \A i \in 1..Len(list) :
        word'[list[i]] = word[list[i]] /\ (list[i] \in held' <=> list[i] \in held)
  BY <1>3
<1>5. \A c \in Chunk : c[1] = r => (c \in held' <=> c \in held)
  OBVIOUS
<1> QED BY <1>4, <1>5 DEF IsFreeList

\* The list of the slab an allocation takes from: its head goes, or nothing
\* does when the chunk comes from above the bump index.
LEMMA TakenListShrinks ==
    ASSUME TypeOK, ChunksAccountedFor, NEW s \in Slab, slab[s].freeCount > 0,
           NEW stack, TakeChunk(s, stack)
    PROVE  \E item \in Chunk \ held :
             /\ item[1] = s
             /\ held' = held \cup {item}
             /\ word' = [word EXCEPT ![item] = s]
             /\ slab'[s] \in SlabState
             /\ slab' = [slab EXCEPT ![s] = slab'[s]]
             /\ slab'[s].freeCount = slab[s].freeCount - 1
             /\ freeStack' = IF slab'[s].freeCount = 0 THEN Front(stack) ELSE stack
             /\ \E list \in FreeLists(s) : IsFreeList(s, list)'
<1>1. PICK list \in FreeLists(s) : IsFreeList(s, list)
  BY DEF ChunksAccountedFor
<1>2. /\ Len(list) \in Nat /\ Len(list) <= slab[s].bump
      /\ list \in [1..Len(list) -> {s} \X (0..ChunksPerSlab - 1)]
      /\ DOMAIN list = 1..Len(list)
  BY <1>1, FreeListType
<1>3. slab \in [Slab -> SlabState] /\ slab[s] \in SlabState
  BY DEF TypeOK, SlabState
<1> DEFINE item == IF slab[s].freeList # NULL THEN slab[s].freeList ELSE <<s, slab[s].bump>>
           after == [freeList  |-> IF slab[s].freeList # NULL THEN word[item] ELSE NULL,
                     bump      |-> IF slab[s].freeList # NULL THEN slab[s].bump
                                   ELSE slab[s].bump + 1,
                     freeCount |-> slab[s].freeCount - 1]
<1>4. /\ slab' = [slab EXCEPT ![s] = after]
      /\ freeStack' = IF after.freeCount = 0 THEN Front(stack) ELSE stack
      /\ word' = [word EXCEPT ![item] = s]
      /\ held' = held \cup {item}
  BY <1>3 DEF TakeChunk, NextFree, NextBump, StackAfterAlloc, SlabPtr, SlabState
<1>5. slab'[s] = after
  BY <1>3, <1>4
<1> HIDE DEF item, after
<1>6. after.freeCount = slab[s].freeCount - 1
  BY DEF after
<1>7. word \in [Chunk -> Slab \cup Chunk \cup {NULL}]
  BY DEF TypeOK
<1>8. SUFFICES /\ item \in Chunk \ held
               /\ item[1] = s
               /\ after \in SlabState
               /\ \E l \in FreeLists(s) : IsFreeList(s, l)'
  BY <1>4, <1>5, <1>6
<1>9. slab[s].bump \in 0..ChunksPerSlab /\ slab[s].freeCount \in 1..ChunksPerSlab
  BY <1>3, ClassAssumption DEF SlabState
<1>10. ChunksPerSlab \in Nat /\ ChunksPerSlab > 0
  BY ClassAssumption
<1>11. /\ IsInjective(list)
       /\ slab[s].freeList = IF list = <<>> THEN NULL ELSE list[1]
       /\ slab[s].freeCount = Len(list) + (ChunksPerSlab - slab[s].bump)
  BY <1>1 DEF IsFreeList
<1>12. \A i \in 1..Len(list) :
         /\ word[list[i]] = IF i = Len(list) THEN NULL ELSE list[i + 1]
         /\ list[i][2] < slab[s].bump
         /\ list[i] \notin held
  BY <1>1 DEF IsFreeList
<1>13. \A i \in 1..Len(list) : list[i] \in Chunk /\ list[i][1] = s
  BY <1>2 DEF Chunk
<1>14. CASE slab[s].freeList # NULL
  <2>1. list # <<>> /\ item = list[1] /\ item = slab[s].freeList
    BY <1>1, <1>14 DEF IsFreeList, item
  <2>2. Len(list) >= 1
    <3>1. list \in Seq({s} \X (0..ChunksPerSlab - 1))
      BY <1>2, SeqDef
    <3> QED BY <2>1, <3>1, EmptySeq
  <2>13. 1 \in 1..Len(list)
    BY <1>2, <2>2
  <2>3. item \in Chunk \ held /\ item[1] = s /\ item[2] < slab[s].bump
    BY <1>12, <1>13, <2>1, <2>13
  <2>4. word[item] = IF Len(list) = 1 THEN NULL ELSE list[2]
    <3>1. word[list[1]] = IF 1 = Len(list) THEN NULL ELSE list[1 + 1]
      BY <1>12, <2>13
    <3>2. 1 + 1 = 2
      OBVIOUS
    <3> QED BY <2>1, <3>1, <3>2
  <2>5. /\ after.freeList = word[item] /\ after.bump = slab[s].bump
        /\ after = [freeList |-> after.freeList, bump |-> after.bump,
                    freeCount |-> after.freeCount]
    BY <1>14 DEF after
  <2>6. after \in SlabState
    <3>1. word[item] \in Chunk \cup {NULL}
      BY <1>2, <2>2, <2>4 DEF Chunk
    <3> QED BY <1>6, <1>9, <1>10, <2>5, <3>1 DEF SlabState
  <2> DEFINE n == Len(list) - 1
             rest == [i \in 1..n |-> list[i + 1]]
  <2>7. n \in Nat /\ n <= ChunksPerSlab
    BY <1>2, <1>9, <1>10, <2>2
  <2>14. Len(list) = n + 1
    BY <1>2
  <2>8. rest \in [1..n -> {s} \X (0..ChunksPerSlab - 1)]
    BY <1>2, <2>7
  <2>9. rest \in FreeLists(s)
    <3>1. n \in 0..ChunksPerSlab
      BY <1>10, <2>7
    <3> HIDE DEF rest, n
    <3> QED BY <2>8, <3>1 DEF FreeLists
  <2>10. Len(rest) = n
    <3>1. rest \in Seq({s} \X (0..ChunksPerSlab - 1))
      BY <2>7, <2>8, SeqDef
    <3> QED BY <2>7, <2>8, <3>1, LenProperties
  <2>11. IsFreeList(s, rest)'
    <3>1. DOMAIN rest = 1..n /\ \A i \in 1..n : rest[i] = list[i + 1]
      OBVIOUS
    <3> HIDE DEF rest
    <3>2. IsInjective(rest)
      <4>1. ASSUME NEW i \in 1..n, NEW j \in 1..n, rest[i] = rest[j] PROVE i = j
        <5>1. i + 1 \in DOMAIN list /\ j + 1 \in DOMAIN list
          BY <1>2, <2>7
        <5>2. list[i + 1] = list[j + 1]
          BY <3>1, <4>1
        <5>3. i + 1 = j + 1
          BY <1>11, <5>1, <5>2 DEF IsInjective
        <5> QED BY <5>3, <2>7
      <4> QED BY <3>1, <4>1 DEF IsInjective
    <3>3. after.freeList = IF rest = <<>> THEN NULL ELSE rest[1]
      <4>1. rest = <<>> <=> n = 0
        <5>1. rest \in Seq({s} \X (0..ChunksPerSlab - 1))
          BY <2>7, <2>8, SeqDef
        <5> QED BY <2>10, <5>1, EmptySeq
      <4>2. CASE n = 0
        <5>1. Len(list) = 1
          <6> HIDE DEF n
          <6> QED BY <2>14, <4>2
        <5> QED BY <2>4, <2>5, <4>1, <4>2, <5>1
      <4>3. CASE n # 0
        <5>1. 1 \in 1..n /\ Len(list) # 1
          <6> HIDE DEF n
          <6> QED BY <2>7, <2>14, <4>3
        <5>2. rest[1] = list[2]
          BY <3>1, <5>1
        <5> QED BY <2>4, <2>5, <4>1, <4>3, <5>1, <5>2
      <4> QED BY <4>2, <4>3
    <3>4. ASSUME NEW i \in 1..n
          PROVE  /\ word'[rest[i]] = IF i = n THEN NULL ELSE rest[i + 1]
                 /\ rest[i][2] < after.bump
                 /\ rest[i] \notin held'
      <4>1. i + 1 \in 1..Len(list) /\ i + 1 # 1 /\ 1 \in 1..Len(list)
        BY <1>2, <2>7
      <4>2. list[i + 1] # item
        BY <1>1, <1>2, <2>1, <4>1 DEF IsFreeList, IsInjective
      <4>3. list[i + 1] \in Chunk
        BY <1>2, <4>1 DEF Chunk
      <4>4. word'[list[i + 1]] = word[list[i + 1]]
        BY <1>4, <1>7, <4>2, <4>3
      <4>5. word[list[i + 1]] = IF i + 1 = Len(list) THEN NULL ELSE list[i + 2]
        <5>1. (i + 1) + 1 = i + 2
          BY <4>1
        <5> QED BY <1>12, <4>1, <5>1
      <4>6. i # n => rest[i + 1] = list[i + 2]
        BY <2>7, <3>1
      <4>7. list[i + 1][2] < slab[s].bump /\ list[i + 1] \notin held
        BY <1>1, <4>1 DEF IsFreeList
      <4> QED BY <1>4, <2>5, <3>1, <4>1, <4>2, <4>4, <4>5, <4>6, <4>7, <1>2
    <3>5. ASSUME NEW c \in Chunk, c[1] = s
          PROVE  c[2] < after.bump <=> c \in held' \/ c \in Range(rest)
      <4>1. c[2] < slab[s].bump <=> c \in held \/ c \in Range(list)
        BY <1>1, <3>5 DEF IsFreeList
      <4>2. c \in Range(list) <=> c = item \/ c \in Range(rest)
        <5>1. ASSUME c \in Range(list) PROVE c = item \/ c \in Range(rest)
          <6>1. PICK i \in 1..Len(list) : c = list[i]
            BY <1>2, <5>1 DEF Range
          <6>2. CASE i = 1
            BY <2>1, <6>1, <6>2
          <6>3. CASE i # 1
            <7>1. i - 1 \in 1..n /\ rest[i - 1] = list[i]
              BY <1>2, <3>1, <6>3
            <7> QED BY <3>1, <6>1, <7>1 DEF Range
          <6> QED BY <6>2, <6>3
        <5>2. ASSUME c \in Range(rest) PROVE c \in Range(list)
          <6>1. PICK i \in 1..n : c = list[i + 1]
            BY <3>1, <5>2 DEF Range
          <6>2. i + 1 \in DOMAIN list
            BY <1>2, <2>7
          <6> QED BY <6>1, <6>2 DEF Range
        <5>3. item \in Range(list)
          BY <1>2, <2>1, <2>13 DEF Range
        <5> QED BY <5>1, <5>2, <5>3
      <4> QED BY <1>4, <2>5, <4>1, <4>2
    <3>6. after.freeCount = n + (ChunksPerSlab - after.bump)
      <4>1. slab[s].bump \in Int /\ after.bump = slab[s].bump
        BY <1>9, <2>5
      <4> HIDE DEF n
      <4> QED BY <1>6, <1>10, <1>11, <2>7, <2>14, <4>1
    <3> QED BY <1>5, <2>10, <3>2, <3>3, <3>4, <3>5, <3>6 DEF IsFreeList
  <2> QED BY <2>3, <2>6, <2>9, <2>11
<1>15. CASE slab[s].freeList = NULL
  <2>1. item = <<s, slab[s].bump>>
    BY <1>15 DEF item
  <2>2. list = <<>>
    <3>1. CASE list # <<>>
      <4>1. list \in Seq({s} \X (0..ChunksPerSlab - 1))
        BY <1>2, SeqDef
      <4>2. 1 \in 1..Len(list)
        BY <3>1, <4>1, <1>2, EmptySeq
      <4>3. list[1] \in Chunk
        BY <1>2, <4>2 DEF Chunk
      <4> QED BY <1>1, <1>15, <3>1, <4>3, ChunkAssumption DEF IsFreeList
    <3> QED BY <3>1
  <2>3. slab[s].freeCount = ChunksPerSlab - slab[s].bump
    <3>1. slab[s].freeCount = Len(list) + (ChunksPerSlab - slab[s].bump)
      BY <1>1 DEF IsFreeList
    <3> QED BY <2>2, <3>1, <1>9, <1>10
  <2>4. slab[s].bump \in 0..ChunksPerSlab - 1
    BY <1>9, <1>10, <2>3
  <2>5. item \in Chunk /\ item[1] = s /\ item[2] = slab[s].bump
    BY <2>1, <2>4 DEF Chunk
  <2>6. Range(list) = {}
    BY <2>2 DEF Range
  <2>7. item \notin held
    BY <1>1, <1>9, <2>5, <2>6 DEF IsFreeList
  <2>8. /\ after.freeList = NULL /\ after.bump = slab[s].bump + 1
        /\ after = [freeList |-> after.freeList, bump |-> after.bump,
                    freeCount |-> after.freeCount]
    BY <1>15 DEF after
  <2>9. after \in SlabState
    BY <1>6, <1>9, <1>10, <2>4, <2>8 DEF SlabState
  <2>10. IsFreeList(s, list)'
    <3>1. ASSUME NEW c \in Chunk, c[1] = s
          PROVE  c[2] < after.bump <=> c \in held' \/ c \in Range(list)
      <4>1. c[2] < slab[s].bump <=> c \in held
        BY <1>1, <2>6, <3>1 DEF IsFreeList
      <4>2. c[2] = slab[s].bump <=> c = item
        BY <2>1, <3>1 DEF Chunk
      <4>3. c[2] \in Int /\ slab[s].bump \in Int
        BY <1>9 DEF Chunk
      <4> QED BY <1>4, <2>6, <2>8, <4>1, <4>2, <4>3
    <3>2. after.freeCount = 0 + (ChunksPerSlab - after.bump)
      BY <1>6, <1>9, <1>10, <2>3, <2>8
    <3>3. IsInjective(list) /\ Len(list) = 0
      BY <2>2 DEF IsInjective
    <3> QED BY <1>5, <2>2, <2>8, <3>1, <3>2, <3>3 DEF IsFreeList
  <2> QED BY <2>5, <2>7, <2>9, <2>10
<1> QED BY <1>14, <1>15

\* The list of the slab a chunk goes back to: the chunk becomes its head.
LEMMA FreedListGrows ==
    ASSUME TypeOK, ChunksAccountedFor, HeldKnowTheirSlab, NEW item \in held, FreeItem(item)
    PROVE  /\ item \in Chunk /\ item[1] \in Slab /\ item[1] \in Range(slabs)
           /\ held' = held \ {item}
           /\ word' = [word EXCEPT ![item] = slab[item[1]].freeList]
           /\ slab'[item[1]] \in SlabState
           /\ slab' = [slab EXCEPT ![item[1]] = slab'[item[1]]]
           /\ slab'[item[1]].freeCount = slab[item[1]].freeCount + 1
           /\ freeStack' = IF slab'[item[1]].freeCount = 1
                           THEN Append(freeStack, item[1]) ELSE freeStack
           /\ \E list \in FreeLists(item[1]) : IsFreeList(item[1], list)'
<1> DEFINE s == item[1]
           after == [freeList |-> item, bump |-> slab[s].bump,
                     freeCount |-> slab[s].freeCount + 1]
<1>1. item \in Chunk /\ s \in Slab /\ s \in Range(slabs) /\ word[item] = s
      /\ item[2] \in 0..ChunksPerSlab - 1 /\ item = <<s, item[2]>>
  BY DEF TypeOK, HeldKnowTheirSlab, Chunk
<1>2. slab \in [Slab -> SlabState] /\ slab[s] \in SlabState
  BY <1>1 DEF TypeOK, SlabState
<1>3. /\ slab' = [slab EXCEPT ![s] = after]
      /\ freeStack' = IF slab[s].freeCount + 1 = 1 THEN Append(freeStack, s) ELSE freeStack
      /\ word' = [word EXCEPT ![item] = slab[s].freeList]
      /\ held' = held \ {item}
  <2>1. slab' = [slab EXCEPT ![s].freeList = item, ![s].freeCount = @ + 1]
    BY <1>1 DEF FreeItem
  <2>2. [slab EXCEPT ![s].freeList = item, ![s].freeCount = @ + 1] = [slab EXCEPT ![s] = after]
    <3> DEFINE e == [slab EXCEPT ![s].freeList = item, ![s].freeCount = @ + 1]
               f == [slab EXCEPT ![s] = after]
    <3>1. DOMAIN e = Slab /\ DOMAIN f = Slab
      BY <1>2
    <3>2. slab[s] = [freeList |-> slab[s].freeList, bump |-> slab[s].bump,
                     freeCount |-> slab[s].freeCount]
      BY <1>2 DEF SlabState
    <3>3. e[s] = after /\ f[s] = after
      BY <1>1, <1>2, <3>2
    <3>4. \A r \in Slab : e[r] = f[r]
      BY <1>1, <1>2, <3>3
    <3>5. e = [r \in Slab |-> e[r]] /\ f = [r \in Slab |-> f[r]]
      BY <1>2
    <3> QED BY <3>4, <3>5
  <2> QED BY <1>1, <2>1, <2>2 DEF FreeItem, StackAfterFree
<1>4. slab'[s] = after
  BY <1>1, <1>2, <1>3
<1>5. /\ after.freeList = item /\ after.bump = slab[s].bump
      /\ after.freeCount = slab[s].freeCount + 1
      /\ after = [freeList |-> item, bump |-> slab[s].bump,
                  freeCount |-> slab[s].freeCount + 1]
  OBVIOUS
<1> HIDE DEF s, after
<1>6. PICK list \in FreeLists(s) : IsFreeList(s, list)
  BY <1>1 DEF ChunksAccountedFor
<1>7. /\ Len(list) \in Nat /\ Len(list) <= slab[s].bump
      /\ list \in [1..Len(list) -> {s} \X (0..ChunksPerSlab - 1)]
      /\ DOMAIN list = 1..Len(list)
  BY <1>1, <1>6, FreeListType
<1>8. /\ IsInjective(list)
      /\ slab[s].freeList = IF list = <<>> THEN NULL ELSE list[1]
      /\ slab[s].freeCount = Len(list) + (ChunksPerSlab - slab[s].bump)
  BY <1>6 DEF IsFreeList
<1>9. \A i \in 1..Len(list) :
        /\ word[list[i]] = IF i = Len(list) THEN NULL ELSE list[i + 1]
        /\ list[i][2] < slab[s].bump
        /\ list[i] \notin held
        /\ list[i] # item
  BY <1>6 DEF IsFreeList
<1>10. \A i \in 1..Len(list) : list[i] \in Chunk /\ list[i][1] = s
  BY <1>1, <1>7 DEF Chunk
<1>11. item[2] < slab[s].bump
  BY <1>1, <1>6 DEF IsFreeList, s
<1>12. slab[s].bump \in 0..ChunksPerSlab /\ slab[s].freeCount \in 0..ChunksPerSlab
       /\ ChunksPerSlab \in Nat
  BY <1>2, ClassAssumption DEF SlabState
<1> DEFINE n == Len(list) + 1
           grown == [i \in 1..n |-> IF i = 1 THEN item ELSE list[i - 1]]
<1>13. n \in Nat /\ n = Len(list) + 1 /\ n # 0
  BY <1>7
<1>14. grown \in [1..n -> {s} \X (0..ChunksPerSlab - 1)]
  <2>1. ASSUME NEW i \in 1..n PROVE grown[i] \in {s} \X (0..ChunksPerSlab - 1)
    <3>1. CASE i = 1
      BY <1>1, <3>1
    <3>2. CASE i # 1
      <4>1. i - 1 \in 1..Len(list)
        BY <1>7, <3>2
      <4> QED BY <1>7, <3>2, <4>1
    <3> QED BY <3>1, <3>2
  <2> QED BY <2>1
<1>15. /\ DOMAIN grown = 1..n /\ grown[1] = item
       /\ \A i \in 1..n : i # 1 => i - 1 \in 1..Len(list) /\ grown[i] = list[i - 1]
  BY <1>7
<1> HIDE DEF n, grown
<1>16. IsInjective(grown)
  <2>1. ASSUME NEW i \in 1..n, NEW j \in 1..n, grown[i] = grown[j] PROVE i = j
    <3>1. CASE i = 1 \/ j = 1
      BY <1>9, <1>15, <2>1, <3>1
    <3>2. CASE i # 1 /\ j # 1
      <4>1. i - 1 = j - 1
        BY <1>7, <1>8, <1>15, <2>1, <3>2 DEF IsInjective
      <4> QED BY <1>13, <4>1
    <3> QED BY <3>1, <3>2
  <2> QED BY <1>15, <2>1 DEF IsInjective
<1>17. \A i \in 1..n : grown[i] \in Chunk /\ grown[i][1] = s /\ grown[i][2] < slab[s].bump
  <2>1. ASSUME NEW i \in 1..n, i # 1
        PROVE  grown[i] \in Chunk /\ grown[i][1] = s /\ grown[i][2] < slab[s].bump
    BY <1>9, <1>10, <1>15, <2>1
  <2> QED BY <1>1, <1>11, <1>15, <2>1 DEF s
<1>18. n <= slab[s].bump
  <2>1. grown \in [1..n -> Chunk]
    BY <1>14, <1>17
  <2>2. slab[s].bump \in Nat
    BY <1>12
  <2> QED BY <1>1, <1>13, <1>16, <1>17, <2>1, <2>2, ListBounded
<1>19. grown \in FreeLists(s)
  <2>1. n \in 0..ChunksPerSlab
    BY <1>12, <1>13, <1>18
  <2> QED BY <1>14, <2>1 DEF FreeLists
<1>20. Len(grown) = n
  <2>1. grown \in Seq({s} \X (0..ChunksPerSlab - 1))
    BY <1>13, <1>14, SeqDef
  <2> QED BY <1>13, <1>14, <2>1, LenProperties
<1>21. after \in SlabState
  <2>1. slab[s].freeCount + 1 \in 0..ChunksPerSlab
    BY <1>8, <1>12, <1>13, <1>18
  <2> QED BY <1>1, <1>5, <1>12, <2>1 DEF SlabState
<1>22. IsFreeList(s, grown)'
  <2>1. word \in [Chunk -> Slab \cup Chunk \cup {NULL}]
    BY DEF TypeOK
  <2>2. after.freeList = IF grown = <<>> THEN NULL ELSE grown[1]
    <3>1. grown # <<>>
      BY <1>13, <1>20, EmptySeq
    <3> QED BY <1>5, <1>15, <3>1
  <2>3. ASSUME NEW i \in 1..n
        PROVE  /\ word'[grown[i]] = IF i = n THEN NULL ELSE grown[i + 1]
               /\ grown[i][2] < after.bump
               /\ grown[i] \notin held'
    <3>1. grown[i][2] < after.bump
      BY <1>5, <1>17
    <3>2. grown[i] \notin held'
      BY <1>3, <1>9, <1>15
    <3>3. CASE i = 1
      <4>1. word'[item] = slab[s].freeList
        BY <1>1, <1>3, <2>1
      <4>2. CASE n = 1
        <5>1. Len(list) = 0
          BY <1>7, <1>13, <4>2
        <5>2. list = <<>>
          <6>1. list \in Seq({s} \X (0..ChunksPerSlab - 1))
            BY <1>7, SeqDef
          <6> QED BY <5>1, <6>1, EmptySeq
        <5> QED BY <1>8, <1>15, <3>1, <3>2, <3>3, <4>1, <4>2, <5>2
      <4>3. CASE n # 1
        <5>1. 2 \in 1..n /\ 2 - 1 = 1 /\ 1 + 1 = 2 /\ Len(list) # 0
          BY <1>7, <1>13, <4>3
        <5>2. grown[2] = list[1]
          BY <1>15, <5>1
        <5>3. list # <<>>
          BY <5>1, EmptySeq
        <5> QED BY <1>8, <1>15, <3>1, <3>2, <3>3, <4>1, <4>3, <5>1, <5>2, <5>3
      <4> QED BY <4>2, <4>3
    <3>4. CASE i # 1
      <4>1. i - 1 \in 1..Len(list) /\ grown[i] = list[i - 1]
        BY <1>15, <3>4
      <4>2. word'[grown[i]] = word[list[i - 1]]
        BY <1>3, <1>9, <1>10, <2>1, <4>1
      <4>3. word[list[i - 1]] = IF i - 1 = Len(list) THEN NULL ELSE list[(i - 1) + 1]
        BY <1>9, <4>1
      <4>4. (i - 1 = Len(list) <=> i = n) /\ (i - 1) + 1 = i /\ (i + 1) - 1 = i
        BY <1>7, <1>13
      <4>5. i # n => grown[i + 1] = list[i]
        <5>1. i # n => i + 1 \in 1..n /\ i + 1 # 1
          BY <1>13
        <5> QED BY <1>15, <4>4, <5>1
      <4> QED BY <3>1, <3>2, <4>2, <4>3, <4>4, <4>5
    <3> QED BY <3>3, <3>4
  <2>4. ASSUME NEW c \in Chunk, c[1] = s
        PROVE  c[2] < after.bump <=> c \in held' \/ c \in Range(grown)
    <3>1. c[2] < slab[s].bump <=> c \in held \/ c \in Range(list)
      BY <1>6, <2>4 DEF IsFreeList
    <3>2. ASSUME c \in Range(grown) PROVE c = item \/ c \in Range(list)
      <4>1. PICK i \in 1..n : c = grown[i]
        BY <1>15, <3>2 DEF Range
      <4> QED BY <1>7, <1>15, <4>1 DEF Range
    <3>3. ASSUME c \in Range(list) PROVE c \in Range(grown)
      <4>1. PICK i \in 1..Len(list) : c = list[i]
        BY <1>7, <3>3 DEF Range
      <4>2. i + 1 \in 1..n /\ i + 1 # 1 /\ (i + 1) - 1 = i
        BY <1>7, <1>13
      <4>3. grown[i + 1] = c
        BY <1>15, <4>1, <4>2
      <4> QED BY <1>15, <4>2, <4>3 DEF Range
    <3>4. item \in Range(grown)
      <4>1. 1 \in 1..n
        BY <1>13, <1>7
      <4> QED BY <1>15, <4>1 DEF Range
    <3> QED BY <1>3, <1>5, <3>1, <3>2, <3>3, <3>4
  <2>5. after.freeCount = n + (ChunksPerSlab - after.bump)
    <3>1. slab[s].bump \in Int /\ Len(list) \in Int /\ after.bump = slab[s].bump
      BY <1>5, <1>7, <1>12
    <3>2. n = Len(list) + 1 /\ after.freeCount = Len(list) + (ChunksPerSlab - slab[s].bump) + 1
      BY <1>5, <1>8, <1>13
    <3> QED BY <1>12, <3>1, <3>2
  <2> QED BY <1>4, <1>16, <1>20, <2>2, <2>3, <2>4, <2>5 DEF IsFreeList
<1>23. slab[s].freeCount + 1 = 1 <=> after.freeCount = 1
  BY <1>5
<1> QED BY <1>1, <1>3, <1>4, <1>5, <1>19, <1>21, <1>22, <1>23 DEF s

-----------------------------------------------------------------------------
(***************************************************************************)
(* The invariant is inductive.                                             *)
(***************************************************************************)
\* An empty class satisfies the invariant.
LEMMA InitIInv == Init => IInv
<1> SUFFICES ASSUME Init PROVE IInv
  OBVIOUS
<1> USE DEF Init
<1>1. ChunksPerSlab \in Nat /\ ChunksPerSlab > 0 /\ InitialCap \in Nat /\ InitialCap >= 2
  BY ClassAssumption
<1>2. Range(slabs) = {} /\ Range(freeStack) = {}
  BY DEF Range
<1>3. TypeOK
  <2>1. NewSlab \in SlabState
    BY <1>1 DEF NewSlab, SlabState
  <2>2. slab \in [Slab -> SlabState]
    BY <2>1
  <2>3. slabs \in Seq(Slab) /\ freeStack \in Seq(Slab)
    BY EmptySeq
  <2> QED BY <1>1, <2>2, <2>3 DEF TypeOK, SlabState
<1>4. SlabsEnterOnce
  BY <1>2 DEF SlabsEnterOnce, IsInjective
<1>5. SlabsFit
  BY <1>1, EmptySeq DEF SlabsFit
<1>6. StackIsSlabsWithRoom
  BY <1>2 DEF StackIsSlabsWithRoom, IsInjective
<1>7. ChunksAccountedFor
  <2>1. ASSUME NEW s \in Slab PROVE \E list \in FreeLists(s) : IsFreeList(s, list)
    <3> DEFINE none == [i \in 1..0 |-> <<s, 0>>]
    <3>1. none = <<>>
      OBVIOUS
    <3>2. none \in [1..0 -> {s} \X (0..ChunksPerSlab - 1)] /\ 0 \in 0..ChunksPerSlab
      BY <1>1
    <3>3. <<>> \in FreeLists(s)
      BY <3>1, <3>2 DEF FreeLists
    <3>4. IsInjective(<<>>) /\ Range(<<>>) = {} /\ Len(<<>>) = 0
      BY DEF IsInjective, Range
    <3>5. slab[s] = NewSlab
      OBVIOUS
    <3>6. \A c \in Chunk : ~(c[2] < 0)
      BY <1>1 DEF Chunk
    <3>7. IsFreeList(s, <<>>)
      BY <1>1, <3>4, <3>5, <3>6 DEF IsFreeList, NewSlab
    <3> QED BY <3>3, <3>7
  <2> QED BY <2>1 DEF ChunksAccountedFor
<1>8. HeldKnowTheirSlab
  BY DEF HeldKnowTheirSlab
<1> QED BY <1>3, <1>4, <1>5, <1>6, <1>7, <1>8 DEF IInv

\* What an allocation from slab s leaves true, wherever s came from.
LEMMA TakeKeepsChunks ==
    ASSUME IInv, NEW s \in Slab, NEW stack, slab[s].freeCount > 0, TakeChunk(s, stack),
           s \in Range(slabs)', Range(slabs) \subseteq Range(slabs)'
    PROVE  /\ slab' \in [Slab -> SlabState]
           /\ word' \in [Chunk -> Slab \cup Chunk \cup {NULL}]
           /\ held' \subseteq Chunk
           /\ ChunksAccountedFor' /\ HeldKnowTheirSlab'
           /\ slab'[s].freeCount = slab[s].freeCount - 1
           /\ \A r \in Slab : r # s => slab'[r] = slab[r]
           /\ freeStack' = IF slab'[s].freeCount = 0 THEN Front(stack) ELSE stack
<1>1. PICK item \in Chunk \ held :
        /\ item[1] = s
        /\ held' = held \cup {item}
        /\ word' = [word EXCEPT ![item] = s]
        /\ slab'[s] \in SlabState
        /\ slab' = [slab EXCEPT ![s] = slab'[s]]
        /\ slab'[s].freeCount = slab[s].freeCount - 1
        /\ freeStack' = IF slab'[s].freeCount = 0 THEN Front(stack) ELSE stack
        /\ \E list \in FreeLists(s) : IsFreeList(s, list)'
  BY TakenListShrinks DEF IInv
<1>2. /\ slab \in [Slab -> SlabState] /\ held \subseteq Chunk
      /\ word \in [Chunk -> Slab \cup Chunk \cup {NULL}]
  BY DEF IInv, TypeOK, SlabState
<1>3. slab' \in [Slab -> SlabState] /\ \A r \in Slab : r # s => slab'[r] = slab[r]
  <2>1. PICK state \in SlabState : slab' = [slab EXCEPT ![s] = state]
    BY <1>1
  <2> QED BY <1>2, <2>1
<1>4. word' \in [Chunk -> Slab \cup Chunk \cup {NULL}] /\ held' \subseteq Chunk
  BY <1>1, <1>2
<1>5. ChunksAccountedFor'
  <2>1. ASSUME NEW r \in Slab, r # s PROVE \E list \in FreeLists(r) : IsFreeList(r, list)'
    <3>1. PICK list \in FreeLists(r) : IsFreeList(r, list)
      BY DEF IInv, ChunksAccountedFor
    <3>2. \A c \in Chunk : c[1] # s => word'[c] = word[c] /\ (c \in held' <=> c \in held)
      BY <1>1, <1>2
    <3>3. IsFreeList(r, list)'
      BY <1>3, <2>1, <3>1, <3>2, OtherListsUntouched
    <3> QED BY <3>3
  <2>2. \A r \in Slab : \E list \in FreeLists(r) : IsFreeList(r, list)'
    BY <1>1, <2>1
  <2> QED BY <2>2 DEF ChunksAccountedFor, FreeLists
<1>6. HeldKnowTheirSlab'
  <2>1. ASSUME NEW c \in held' PROVE word'[c] = c[1] /\ c[1] \in Range(slabs)'
    <3>1. CASE c = item
      BY <1>1, <1>2, <3>1
    <3>2. CASE c # item
      BY <1>1, <1>2, <3>2 DEF IInv, HeldKnowTheirSlab
    <3> QED BY <3>1, <3>2
  <2> QED BY <2>1 DEF HeldKnowTheirSlab
<1> QED BY <1>1, <1>3, <1>4, <1>5, <1>6

\* Growing the class and taking the first chunk of the new slab keeps it.
LEMMA AllocFromNewSlabKeepsIInv == IInv /\ AllocFromNewSlab => IInv'
<1> SUFFICES ASSUME IInv, AllocFromNewSlab PROVE IInv'
  OBVIOUS
<1>1. PICK s \in Slab \ Range(slabs) :
        /\ slabsCap' = GrownCap(Len(slabs), slabsCap)
        /\ slabs' = Append(slabs, s)
        /\ TakeChunk(s, <<s>>)
  BY DEF AllocFromNewSlab
<1>2. freeStack = <<>> /\ Range(freeStack) = {}
  BY DEF AllocFromNewSlab, Range
<1>3. slabs \in Seq(Slab) /\ slabsCap \in Nat /\ IsInjective(slabs)
  BY DEF IInv, TypeOK, SlabsEnterOnce
<1>4. /\ slabs' \in Seq(Slab) /\ IsInjective(slabs')
      /\ Range(slabs') = Range(slabs) \cup {s} /\ Len(slabs') = Len(slabs) + 1
  BY <1>1, <1>3, AppendInjectiveSeq
<1>5. slab[s] = NewSlab /\ slab[s].freeCount > 0 /\ slab[s].freeCount = ChunksPerSlab
  BY <1>1, ClassAssumption DEF IInv, SlabsEnterOnce, NewSlab
<1>6. Range(slabs)' = Range(slabs')
  BY DEF Range
<1>7. /\ slab' \in [Slab -> SlabState]
      /\ word' \in [Chunk -> Slab \cup Chunk \cup {NULL}]
      /\ held' \subseteq Chunk
      /\ ChunksAccountedFor' /\ HeldKnowTheirSlab'
      /\ slab'[s].freeCount = slab[s].freeCount - 1
      /\ \A r \in Slab : r # s => slab'[r] = slab[r]
      /\ freeStack' = IF slab'[s].freeCount = 0 THEN Front(<<s>>) ELSE <<s>>
  BY <1>1, <1>4, <1>5, <1>6, TakeKeepsChunks
<1>8. \A r \in Range(slabs) : slab[r].freeCount = 0
  <2>1. \A r \in Range(slabs) : r \in Slab /\ ~(slab[r].freeCount > 0)
    BY <1>2, <1>3, RangeOfSeq DEF IInv, StackIsSlabsWithRoom
  <2>2. \A r \in Slab : slab[r].freeCount \in Nat
    BY ClassAssumption DEF IInv, TypeOK
  <2> QED BY <2>1, <2>2
<1>9. /\ <<s>> \in Seq(Slab) /\ IsInjective(<<s>>) /\ <<s>> # <<>>
      /\ Last(<<s>>) = s /\ Range(<<s>>) = {s}
  <2>1. <<s>> \in Seq(Slab) /\ <<s>> # <<>> /\ Last(<<s>>) = s /\ IsInjective(<<s>>)
    BY DEF Last, IsInjective
  <2>2. Range(<<s>>) = {s}
    BY DEF Range
  <2> QED BY <2>1, <2>2
<1>10. /\ Front(<<s>>) \in Seq(Slab) /\ IsInjective(Front(<<s>>))
       /\ Range(Front(<<s>>)) = {}
  BY <1>9, FrontInjectiveSeq
<1>11. TypeOK'
  <2>1. slabsCap' \in Nat
    BY <1>1, <1>3 DEF GrownCap
  <2>2. freeStack' \in Seq(Slab)
    BY <1>7, <1>9, <1>10
  <2> QED BY <1>4, <1>7, <2>1, <2>2 DEF TypeOK, SlabState
<1>12. SlabsEnterOnce'
  BY <1>4, <1>6, <1>7, <1>1 DEF IInv, SlabsEnterOnce
<1>13. SlabsFit'
  <2>1. slabsCap >= 2 /\ Len(slabs) <= slabsCap /\ Len(slabs) \in Nat
    BY <1>3, LenProperties DEF IInv, SlabsFit
  <2>2. slabsCap' >= 2 /\ Len(slabs) + 1 <= slabsCap'
    <3>1. slabsCap' = IF Len(slabs) = slabsCap THEN slabsCap + slabsCap \div 2 ELSE slabsCap
      BY <1>1 DEF GrownCap
    <3>2. slabsCap \div 2 >= 1 /\ slabsCap \div 2 \in Nat
      BY <1>3, <2>1
    <3> QED BY <1>3, <2>1, <3>1, <3>2
  <2> QED BY <1>4, <2>2 DEF SlabsFit
<1>14. StackIsSlabsWithRoom'
  <2>1. IsInjective(freeStack')
    BY <1>7, <1>9, <1>10
  <2>2. slab'[s].freeCount \in Nat
    BY <1>1, <1>7, ClassAssumption DEF SlabState
  <2>3. \A r \in Range(slabs') : slab'[r].freeCount > 0 <=> r = s /\ slab'[s].freeCount # 0
    <3>1. ASSUME NEW r \in Range(slabs), r # s PROVE ~(slab'[r].freeCount > 0)
      <4>1. r \in Slab
        BY <1>3, RangeOfSeq
      <4> QED BY <1>7, <1>8, <3>1, <4>1
    <3> QED BY <1>4, <2>2, <3>1
  <2>4. Range(freeStack') = {r \in Range(slabs') : slab'[r].freeCount > 0}
    BY <1>4, <1>7, <1>9, <1>10, <2>3
  <2> QED BY <1>6, <2>1, <2>4 DEF StackIsSlabsWithRoom, Range
<1> QED BY <1>7, <1>11, <1>12, <1>13, <1>14 DEF IInv

\* So does taking a chunk of the slab on top of the stack.
LEMMA AllocFromTopKeepsIInv == IInv /\ AllocFromTop => IInv'
<1> SUFFICES ASSUME IInv, AllocFromTop PROVE IInv'
  OBVIOUS
<1> DEFINE s == Last(freeStack)
<1>1. freeStack # <<>> /\ TakeChunk(s, freeStack) /\ slabs' = slabs /\ slabsCap' = slabsCap
  BY DEF AllocFromTop
<1>2. freeStack \in Seq(Slab) /\ IsInjective(freeStack) /\ slabs \in Seq(Slab)
  BY DEF IInv, TypeOK, StackIsSlabsWithRoom
<1>3. /\ Front(freeStack) \in Seq(Slab) /\ IsInjective(Front(freeStack))
      /\ s \in Range(freeStack)
      /\ Range(Front(freeStack)) = Range(freeStack) \ {s}
  BY <1>1, <1>2, FrontInjectiveSeq
<1>4. s \in Range(slabs) /\ slab[s].freeCount > 0
  BY <1>3 DEF IInv, StackIsSlabsWithRoom
<1>5. s \in Slab
  BY <1>2, <1>4, RangeOfSeq
<1>6. Range(slabs)' = Range(slabs)
  BY <1>1 DEF Range
<1> HIDE DEF s
<1>7. /\ slab' \in [Slab -> SlabState]
      /\ word' \in [Chunk -> Slab \cup Chunk \cup {NULL}]
      /\ held' \subseteq Chunk
      /\ ChunksAccountedFor' /\ HeldKnowTheirSlab'
      /\ slab'[s].freeCount = slab[s].freeCount - 1
      /\ \A r \in Slab : r # s => slab'[r] = slab[r]
      /\ freeStack' = IF slab'[s].freeCount = 0 THEN Front(freeStack) ELSE freeStack
  BY <1>1, <1>4, <1>5, <1>6, TakeKeepsChunks
<1>8. TypeOK'
  BY <1>1, <1>2, <1>3, <1>7 DEF IInv, TypeOK, SlabState
<1>9. SlabsEnterOnce'
  BY <1>1, <1>4, <1>6, <1>7 DEF IInv, SlabsEnterOnce
<1>10. SlabsFit'
  BY <1>1 DEF IInv, SlabsFit
<1>11. StackIsSlabsWithRoom'
  <2>1. IsInjective(freeStack')
    BY <1>2, <1>3, <1>7
  <2>2. slab'[s].freeCount \in Nat
    BY <1>5, <1>7, ClassAssumption DEF SlabState
  <2>3. \A r \in Range(slabs) : slab'[r].freeCount > 0 <=>
          IF r = s THEN slab'[s].freeCount # 0 ELSE slab[r].freeCount > 0
    <3>1. \A r \in Range(slabs) : r \in Slab
      BY <1>2, RangeOfSeq
    <3>2. slab'[s].freeCount > 0 <=> slab'[s].freeCount # 0
      BY <2>2
    <3>3. ASSUME NEW r \in Range(slabs), r # s PROVE slab'[r] = slab[r]
      BY <1>7, <3>1, <3>3
    <3> QED BY <3>2, <3>3
  <2>4. Range(freeStack) = {r \in Range(slabs) : slab[r].freeCount > 0}
    BY DEF IInv, StackIsSlabsWithRoom
  <2>5. Range(freeStack') = {r \in Range(slabs) : slab'[r].freeCount > 0}
    <3>1. CASE slab'[s].freeCount = 0
      <4>1. Range(freeStack') = Range(freeStack) \ {s}
        BY <1>3, <1>7, <3>1
      <4> QED BY <2>3, <2>4, <3>1, <4>1
    <3>2. CASE slab'[s].freeCount # 0
      <4>1. freeStack' = freeStack
        BY <1>7, <3>2
      <4> QED BY <1>4, <2>3, <2>4, <3>2, <4>1
    <3> QED BY <3>1, <3>2
  <2> QED BY <1>6, <2>1, <2>5 DEF StackIsSlabsWithRoom, Range
<1> QED BY <1>7, <1>8, <1>9, <1>10, <1>11 DEF IInv

\* So does giving any held item back, in any order.
LEMMA FreeItemKeepsIInv == ASSUME IInv, NEW item \in held, FreeItem(item) PROVE IInv'
<1> DEFINE s == item[1]
<1>1. /\ item \in Chunk /\ s \in Slab /\ s \in Range(slabs)
      /\ held' = held \ {item}
      /\ word' = [word EXCEPT ![item] = slab[s].freeList]
      /\ slab'[s] \in SlabState
      /\ slab' = [slab EXCEPT ![s] = slab'[s]]
      /\ slab'[s].freeCount = slab[s].freeCount + 1
      /\ freeStack' = IF slab'[s].freeCount = 1 THEN Append(freeStack, s) ELSE freeStack
      /\ \E list \in FreeLists(s) : IsFreeList(s, list)'
  BY FreedListGrows DEF IInv
<1>2. slabs' = slabs /\ slabsCap' = slabsCap /\ Range(slabs)' = Range(slabs)
  BY DEF FreeItem, Range
<1> HIDE DEF s
<1>3. /\ slab \in [Slab -> SlabState] /\ held \subseteq Chunk
      /\ word \in [Chunk -> Slab \cup Chunk \cup {NULL}]
      /\ freeStack \in Seq(Slab) /\ IsInjective(freeStack)
      /\ Range(freeStack) = {r \in Range(slabs) : slab[r].freeCount > 0}
  BY DEF IInv, TypeOK, SlabState, StackIsSlabsWithRoom
<1>4. slab' \in [Slab -> SlabState] /\ \A r \in Slab : r # s => slab'[r] = slab[r]
  <2>1. PICK state \in SlabState : slab' = [slab EXCEPT ![s] = state]
    BY <1>1
  <2> QED BY <1>3, <2>1
<1>5. slab[s].freeCount \in Nat /\ slab'[s].freeCount \in Nat
  BY <1>1, <1>3, ClassAssumption DEF SlabState
<1>6. slab'[s].freeCount = 1 <=> s \notin Range(freeStack)
  BY <1>1, <1>3, <1>5
<1>7. /\ freeStack' \in Seq(Slab) /\ IsInjective(freeStack')
      /\ Range(freeStack') = Range(freeStack) \cup {s}
  <2>1. CASE slab'[s].freeCount = 1
    BY <1>1, <1>3, <1>6, <2>1, AppendInjectiveSeq
  <2>2. CASE slab'[s].freeCount # 1
    <3>1. freeStack' = freeStack
      BY <1>1, <2>2
    <3> QED BY <1>3, <1>6, <2>2, <3>1
  <2> QED BY <2>1, <2>2
<1>8. TypeOK'
  <2>1. slab[s].freeList \in Chunk \cup {NULL}
    BY <1>1, <1>3 DEF SlabState
  <2>2. word' \in [Chunk -> Slab \cup Chunk \cup {NULL}] /\ held' \subseteq Chunk
    BY <1>1, <1>3, <2>1
  <2> QED BY <1>2, <1>4, <1>7, <2>2 DEF IInv, TypeOK, SlabState
<1>9. SlabsEnterOnce'
  BY <1>1, <1>2, <1>4 DEF IInv, SlabsEnterOnce
<1>10. SlabsFit'
  BY <1>2 DEF IInv, SlabsFit
<1>11. StackIsSlabsWithRoom'
  <2>1. \A r \in Range(slabs) : r \in Slab
    BY RangeOfSeq DEF IInv, TypeOK
  <2>2. slab'[s].freeCount > 0
    BY <1>1, <1>5
  <2>3. ASSUME NEW r \in Range(slabs), r # s PROVE slab'[r] = slab[r]
    BY <1>4, <2>1, <2>3
  <2>4. Range(freeStack') = {r \in Range(slabs) : slab'[r].freeCount > 0}
    BY <1>1, <1>3, <1>7, <2>2, <2>3
  <2> QED BY <1>2, <1>7, <2>4 DEF StackIsSlabsWithRoom, Range
<1>12. ChunksAccountedFor'
  <2>1. ASSUME NEW r \in Slab, r # s PROVE \E list \in FreeLists(r) : IsFreeList(r, list)'
    <3>1. PICK list \in FreeLists(r) : IsFreeList(r, list)
      BY DEF IInv, ChunksAccountedFor
    <3>2. \A c \in Chunk : c[1] # s => word'[c] = word[c] /\ (c \in held' <=> c \in held)
      BY <1>1, <1>3 DEF s
    <3>3. IsFreeList(r, list)'
      BY <1>1, <1>4, <2>1, <3>1, <3>2, OtherListsUntouched
    <3> QED BY <3>3
  <2>2. \A r \in Slab : \E list \in FreeLists(r) : IsFreeList(r, list)'
    BY <1>1, <2>1
  <2> QED BY <2>2 DEF ChunksAccountedFor, FreeLists
<1>13. HeldKnowTheirSlab'
  BY <1>1, <1>2, <1>3 DEF IInv, HeldKnowTheirSlab
<1> QED BY <1>8, <1>9, <1>10, <1>11, <1>12, <1>13 DEF IInv

\* Every step of the class keeps the invariant.
LEMMA NextIInv == IInv /\ [Next]_vars => IInv'
<1> SUFFICES ASSUME IInv, [Next]_vars PROVE IInv'
  OBVIOUS
<1>1. CASE AllocItem
  BY <1>1, AllocFromNewSlabKeepsIInv, AllocFromTopKeepsIInv DEF AllocItem
<1>2. CASE \E item \in held : FreeItem(item)
  BY <1>2, FreeItemKeepsIInv
<1>3. CASE UNCHANGED vars
  <2>1. /\ slabs' = slabs /\ slabsCap' = slabsCap /\ freeStack' = freeStack
        /\ slab' = slab /\ word' = word /\ held' = held
    BY <1>3 DEF vars
  <2>2. TypeOK' /\ SlabsFit'
    BY <2>1 DEF IInv, TypeOK, SlabsFit
  <2>3. SlabsEnterOnce' /\ StackIsSlabsWithRoom' /\ HeldKnowTheirSlab'
    BY <2>1 DEF IInv, SlabsEnterOnce, StackIsSlabsWithRoom, HeldKnowTheirSlab, Range, IsInjective
  <2>4. ChunksAccountedFor'
    BY <2>1 DEF IInv, ChunksAccountedFor, IsFreeList, FreeLists
  <2> QED BY <2>2, <2>3, <2>4 DEF IInv
<1> QED BY <1>1, <1>2, <1>3 DEF Next

\* The inductive invariant holds in every reachable state.
THEOREM Invariance == Spec => []IInv
<1> QED BY InitIInv, NextIInv, PTL DEF Spec

-----------------------------------------------------------------------------
(***************************************************************************)
(* The results.                                                            *)
(***************************************************************************)

\* free_count, bump and every link stay in range, in every order of calls.
THEOREM TypeCorrect == Spec => []TypeOK
<1>1. IInv => TypeOK
  BY DEF IInv
<1> QED BY <1>1, Invariance, PTL

\* The stack holds exactly the slabs with room: no slab is lost to the class
\* and an allocation never finds a full slab on top.
THEOREM StackCorrect == Spec => []StackIsSlabsWithRoom
<1>1. IInv => StackIsSlabsWithRoom
  BY DEF IInv
<1> QED BY <1>1, Invariance, PTL

\* No chunk is lost, shared or listed twice.
THEOREM ChunksCorrect == Spec => []ChunksAccountedFor
<1>1. IInv => ChunksAccountedFor
  BY DEF IInv
<1> QED BY <1>1, Invariance, PTL

\* Every held item leads slab_allocator_free_item back to its slab.
THEOREM HeldCorrect == Spec => []HeldKnowTheirSlab
<1>1. IInv => HeldKnowTheirSlab
  BY DEF IInv
<1> QED BY <1>1, Invariance, PTL

\* Neither array of the class is written past its capacity.
LEMMA IInvStackFits == IInv => StackFits
<1> SUFFICES ASSUME IInv PROVE StackFits
  OBVIOUS
<1> DEFINE n == Len(slabs)
           m == Len(freeStack)
<1>1. /\ n \in Nat /\ slabs \in [1..n -> Slab] /\ DOMAIN slabs = 1..n
      /\ m \in Nat /\ freeStack \in [1..m -> Slab] /\ DOMAIN freeStack = 1..m
  BY LenProperties DEF IInv, TypeOK
<1> HIDE DEF n, m
<1>2. slabs \in Surjection(1..n, Range(slabs))
  BY <1>1 DEF Surjection, Range
<1>3. Range(freeStack) \subseteq Range(slabs) /\ IsInjective(freeStack)
  BY DEF IInv, StackIsSlabsWithRoom
<1>4. freeStack \in Injection(1..m, Range(slabs))
  <2>1. freeStack \in [1..m -> Range(slabs)]
    BY <1>1, <1>3 DEF Range
  <2> QED BY <1>3, <2>1 DEF Injection
<1>5. IsFiniteSet(1..n) /\ Cardinality(1..n) = n /\ Cardinality(1..m) = m
  BY <1>1, FS_Interval
<1>6. IsFiniteSet(Range(slabs)) /\ Cardinality(Range(slabs)) <= n
  BY <1>2, <1>5, FS_Surjection
<1>7. m <= Cardinality(Range(slabs))
  BY <1>4, <1>5, <1>6, FS_Injection
<1>8. Cardinality(Range(slabs)) \in Nat
  BY <1>6, FS_CardinalityType
<1>9. m <= n
  BY <1>1, <1>6, <1>7, <1>8
<1>10. slabsCap \in Nat /\ n <= slabsCap
  BY DEF IInv, TypeOK, SlabsFit, n
<1> QED BY <1>1, <1>9, <1>10 DEF StackFits, n, m

\* The pushes and appends of slab_class_free_item and slab_class_grow, which do
\* not look at the capacity, never write past it.
THEOREM ArraysCorrect == Spec => []StackFits
<1> QED BY IInvStackFits, Invariance, PTL

\* A class that grows has every chunk of every slab in its callers' hands.
LEMMA GrowingClassIsFull ==
    IInv /\ [Next]_vars =>
        [slabs' # slabs => held = Range(slabs) \X (0..ChunksPerSlab - 1)]_vars
<1> SUFFICES ASSUME IInv, Next, slabs' # slabs
             PROVE  held = Range(slabs) \X (0..ChunksPerSlab - 1)
  OBVIOUS
<1>1. freeStack = <<>>
  BY DEF Next, AllocItem, AllocFromNewSlab, AllocFromTop, FreeItem
<1>2. \A s \in Range(slabs) : s \in Slab
  BY RangeOfSeq DEF IInv, TypeOK
<1>3. ASSUME NEW s \in Range(slabs) PROVE slab[s].freeCount = 0
  <2>1. ~(slab[s].freeCount > 0)
    BY <1>1 DEF IInv, StackIsSlabsWithRoom, Range
  <2>2. slab[s].freeCount \in Nat
    BY <1>2, ClassAssumption DEF IInv, TypeOK
  <2> QED BY <2>1, <2>2
<1>4. ASSUME NEW s \in Range(slabs), NEW i \in 0..ChunksPerSlab - 1 PROVE <<s, i>> \in held
  <2>1. PICK list \in FreeLists(s) : IsFreeList(s, list)
    BY <1>2 DEF IInv, ChunksAccountedFor
  <2>2. DOMAIN list = 1..Len(list)
    BY <1>2, <2>1, FreeListType DEF IInv
  <2>3. Len(list) \in Nat
    BY <1>2, <2>1, FreeListType DEF IInv
  <2>4. 0 = Len(list) + (ChunksPerSlab - slab[s].bump)
    BY <1>3, <2>1 DEF IsFreeList
  <2>5. slab[s].bump \in 0..ChunksPerSlab /\ ChunksPerSlab \in Nat
    BY <1>2, ClassAssumption DEF IInv, TypeOK
  <2>6. Len(list) = 0 /\ slab[s].bump = ChunksPerSlab
    BY <2>3, <2>4, <2>5
  <2>7. Range(list) = {}
    BY <2>2, <2>6 DEF Range
  <2>8. <<s, i>> \in Chunk /\ <<s, i>>[1] = s /\ <<s, i>>[2] = i /\ i < slab[s].bump
    BY <1>2, <2>5, <2>6 DEF Chunk
  <2> QED BY <2>1, <2>7, <2>8 DEF IsFreeList
<1>5. ASSUME NEW c \in held PROVE c \in Range(slabs) \X (0..ChunksPerSlab - 1)
  BY DEF IInv, TypeOK, HeldKnowTheirSlab, Chunk
<1> QED BY <1>4, <1>5

\* slab_class_grow asks the system for memory only when no chunk is left.
THEOREM GrowthCorrect == Spec => GrowsOnlyWhenFull
<1>1. IInv /\ [Next]_vars => [slabs' # slabs => held = Range(slabs) \X (0..ChunksPerSlab - 1)]_vars
  BY GrowingClassIsFull
<1> QED BY <1>1, Invariance, PTL DEF Spec, GrowsOnlyWhenFull

\* The chunks a slab has out are those it does not count as free: its count
\* moves against free_count, and no other slab's moves.
LEMMA CountFollows ==
    ASSUME TypeOK, TypeOK', NEW item \in Chunk, item[1] \in Slab,
           slab' = [slab EXCEPT ![item[1]] = slab'[item[1]]]
    PROVE  LET inUse == [s \in Slab |-> ChunksPerSlab - slab[s].freeCount]
               slabOf == [c \in Chunk |-> c[1]]
           IN  /\ slab'[item[1]].freeCount = slab[item[1]].freeCount - 1 =>
                    inUse' = [inUse EXCEPT ![slabOf[item]] = @ + 1]
               /\ slab'[item[1]].freeCount = slab[item[1]].freeCount + 1 =>
                    inUse' = [inUse EXCEPT ![slabOf[item]] = @ - 1]
<1> DEFINE inUse == [s \in Slab |-> ChunksPerSlab - slab[s].freeCount]
           slabOf == [c \in Chunk |-> c[1]]
<1>1. slabOf[item] = item[1]
  OBVIOUS
<1>2. \A s \in Slab : slab[s].freeCount \in Nat /\ slab'[s].freeCount \in Nat
  BY ClassAssumption DEF TypeOK
<1>3. \A s \in Slab : s # item[1] => slab'[s].freeCount = slab[s].freeCount
  BY DEF TypeOK
<1>4. ASSUME slab'[item[1]].freeCount = slab[item[1]].freeCount - 1
      PROVE  inUse' = [inUse EXCEPT ![item[1]] = @ + 1]
  BY <1>2, <1>3, <1>4, ClassAssumption
<1>5. ASSUME slab'[item[1]].freeCount = slab[item[1]].freeCount + 1
      PROVE  inUse' = [inUse EXCEPT ![item[1]] = @ - 1]
  BY <1>2, <1>3, <1>5, ClassAssumption
<1> QED BY <1>1, <1>4, <1>5

\* The bump index, the linked lists and the stack implement an allocator that
\* gives nobody a chunk that is in use.
THEOREM Refinement == Spec => ImplementsPool
<1> DEFINE slabOf == [c \in Chunk |-> c[1]]
           inUse == [s \in Slab |-> ChunksPerSlab - slab[s].freeCount]
<1>1. Init => Pool!Init
  <2> SUFFICES ASSUME Init PROVE Pool!Init
    OBVIOUS
  <2>1. inUse = [s \in Slab |-> 0]
    BY ClassAssumption DEF Init, NewSlab
  <2> QED BY <2>1 DEF Init, Pool!Init
<1>2. IInv /\ [Next]_vars => [Pool!Next]_(Pool!vars)
  <2> SUFFICES ASSUME IInv, [Next]_vars PROVE [Pool!Next]_(Pool!vars)
    OBVIOUS
  <2>0. IInv'
    BY NextIInv
  <2>1. ASSUME NEW s \in Slab, NEW stack, slab[s].freeCount > 0, TakeChunk(s, stack), IInv'
        PROVE  Pool!Next
    <3>1. PICK item \in Chunk \ held :
            /\ item[1] = s
            /\ held' = held \cup {item}
            /\ slab' = [slab EXCEPT ![s] = slab'[s]]
            /\ slab'[s].freeCount = slab[s].freeCount - 1
      BY <2>1, TakenListShrinks DEF IInv
    <3>2. inUse' = [inUse EXCEPT ![slabOf[item]] = @ + 1]
      BY <2>1, <3>1, CountFollows DEF IInv
    <3> QED BY <3>1, <3>2 DEF Pool!Next, Pool!Alloc
  <2>2. CASE AllocFromNewSlab
    <3>1. PICK s \in Slab \ Range(slabs) : TakeChunk(s, <<s>>)
      BY <2>2 DEF AllocFromNewSlab
    <3>2. slab[s].freeCount > 0
      BY ClassAssumption DEF IInv, SlabsEnterOnce, NewSlab
    <3> QED BY <2>0, <2>1, <3>1, <3>2
  <2>3. CASE AllocFromTop
    <3>1. freeStack # <<>> /\ TakeChunk(Last(freeStack), freeStack)
      BY <2>3 DEF AllocFromTop
    <3>2. freeStack \in Seq(Slab) /\ IsInjective(freeStack)
      BY DEF IInv, TypeOK, StackIsSlabsWithRoom
    <3>3. Last(freeStack) \in Range(freeStack)
      BY <3>1, <3>2, FrontInjectiveSeq
    <3>4. Last(freeStack) \in Slab /\ slab[Last(freeStack)].freeCount > 0
      BY <3>2, <3>3, RangeOfSeq DEF IInv, StackIsSlabsWithRoom
    <3> QED BY <2>0, <2>1, <3>1, <3>4
  <2>4. CASE \E item \in held : FreeItem(item)
    <3>1. PICK item \in held : FreeItem(item)
      BY <2>4
    <3>2. /\ item \in Chunk
          /\ item[1] \in Slab
          /\ held' = held \ {item}
          /\ slab' = [slab EXCEPT ![item[1]] = slab'[item[1]]]
          /\ slab'[item[1]].freeCount = slab[item[1]].freeCount + 1
      BY <3>1, FreedListGrows DEF IInv
    <3>3. inUse' = [inUse EXCEPT ![slabOf[item]] = @ - 1]
      BY <2>0, <3>2, CountFollows DEF IInv
    <3> QED BY <3>1, <3>2, <3>3 DEF Pool!Next, Pool!Free
  <2>5. CASE UNCHANGED vars
    BY <2>5 DEF vars, Pool!vars
  <2> QED BY <2>2, <2>3, <2>4, <2>5 DEF Next, AllocItem
<1> QED BY <1>1, <1>2, Invariance, PTL DEF Spec, ImplementsPool, Pool!Spec
=============================================================================
