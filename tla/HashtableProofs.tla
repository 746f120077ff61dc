--------------------------- MODULE HashtableProofs ---------------------------
(***************************************************************************)
(* Proofs about the hash table, for any keys, items, hashes, tags, bucket  *)
(* sizes and capacities.                                                   *)
(*                                                                         *)
(* The argument has three layers. A half of the table is the set of the    *)
(* items in its busy slots (Contents): a write, a delete and a move change *)
(* that set by one item, whatever chain and slot they find (SetHalfIs,     *)
(* DeleteHalfIs, EmptiedIs). The table is the union of its two halves      *)
(* (Items): moving a bucket leaves the union alone (BucketMoves, StepIs),  *)
(* and a call touches the items of its own key only (SetIs, GetIs,         *)
(* DeleteIs). The state machine is then the map from a key to its one      *)
(* item.                                                                   *)
(*                                                                         *)
(* TableOK is what keeps the layers together: every half is well formed,   *)
(* and the migration position divides the keys between the halves. It has  *)
(* a clause no property states: a free slot that a write may still claim   *)
(* holds no pointer, so that hashtable_set hands out NULL for a new key. A *)
(* moved bucket keeps its pointers behind, and no write looks into it any  *)
(* more.                                                                   *)
(*                                                                         *)
(* Tag matching and bucket migration are recursive functions of the slot   *)
(* index; that they exist, and what they yield, is shown by induction on   *)
(* sets of numbers (Induction).                                            *)
(***************************************************************************)
EXTENDS Hashtable, TLAPS, FiniteSetTheorems, SequenceTheorems, WellFoundedInduction
-----------------------------------------------------------------------------
(***************************************************************************)
(* Numbers.                                                                *)
(***************************************************************************)

\* A set of numbers that is not empty has a least element.
LEMMA LeastElement ==
    ASSUME NEW T \in SUBSET Nat, T # {}
    PROVE  \E x \in T : \A y \in T : x <= y
<1>1. \E x \in T : \A y \in T : ~(<<y, x>> \in OpToRel(<, Nat))
  BY NatLessThanWellFounded, WFMin
<1>2. PICK x \in T : \A y \in T : ~(<<y, x>> \in OpToRel(<, Nat))
  BY <1>1
<1>3. \A y \in T : ~(y < x)
  BY <1>2, Zenon DEF OpToRel
<1>4. \A y \in T : x <= y
  BY <1>3
<1> QED BY <1>4

\* A set of numbers that has 0 and the successor of each of its members is
\* Nat.
LEMMA Induction ==
    ASSUME NEW S \in SUBSET Nat, 0 \in S, \A n \in S : n + 1 \in S
    PROVE  S = Nat
<1>1. SUFFICES ASSUME Nat \ S # {} PROVE FALSE
  OBVIOUS
<1>2. PICK x \in Nat \ S : \A y \in Nat \ S : x <= y
  BY <1>1, LeastElement
<1>3. x - 1 \in Nat /\ x - 1 \notin Nat \ S
  BY <1>2
<1> QED BY <1>2, <1>3

\* What Min yields on a set of numbers: the slot probing stops at.
LEMMA MinIs ==
    ASSUME NEW T \in SUBSET Nat, T # {}
    PROVE  Min(T) \in T /\ \A y \in T : Min(T) <= y
<1>1. \E x \in T : \A y \in T : x <= y
  BY LeastElement
<1> QED BY <1>1 DEF Min

-----------------------------------------------------------------------------
(***************************************************************************)
(* Probing: the recursion of the tag match exists, and reports every slot  *)
(* that has the tag.                                                       *)
(***************************************************************************)

\* Whether the subtraction reports byte i, by what it said of the byte
\* before.
MatchAt(chain, tag, f, i) ==
    \/ chain[i].tag = tag
    \/ (i - 1) % BucketSlots # 0 /\ f[i - 1] /\ OneBitApart(chain[i].tag, tag)

\* f is the report on the first n bytes of a chain.
Matches(chain, tag, f, n) == f = [i \in 1..n |-> MatchAt(chain, tag, f, i)]

\* The report exists for any number of bytes.
LEMMA MatchDefined ==
    ASSUME NEW chain, NEW tag, NEW n \in Nat
    PROVE  \E f : Matches(chain, tag, f, n)
<1> DEFINE Done == {m \in Nat : \E f : Matches(chain, tag, f, m)}
<1>1. 0 \in Done
  <2> DEFINE f == [i \in 1..0 |-> TRUE]
  <2>1. Matches(chain, tag, f, 0)
    BY DEF Matches
  <2> QED BY <2>1
<1>2. ASSUME NEW m \in Done PROVE m + 1 \in Done
  <2>1. PICK f : Matches(chain, tag, f, m)
    OBVIOUS
  <2> DEFINE g == [i \in 1..m+1 |-> IF i = m + 1 THEN MatchAt(chain, tag, f, i) ELSE f[i]]
  <2>2. ASSUME NEW i \in 1..m+1 PROVE g[i] = MatchAt(chain, tag, g, i)
    <3>1. (i - 1) % BucketSlots # 0 => i - 1 \in 1..m
      BY SizeAssumption
    <3>2. MatchAt(chain, tag, g, i) = MatchAt(chain, tag, f, i)
      BY <3>1 DEF MatchAt
    <3> QED BY <2>1, <3>2 DEF Matches
  <2>3. Matches(chain, tag, g, m + 1)
    BY <2>2 DEF Matches
  <2> QED BY <2>3
<1>3. n \in Done
  <2> HIDE DEF Done
  <2>1. Done \in SUBSET Nat
    BY DEF Done
  <2> QED BY <1>1, <1>2, <2>1, Induction
<1> QED BY <1>3

\* The tag match may report too much and never too little: every slot with
\* the tag is among its candidates.
LEMMA TagsAreReported ==
    ASSUME NEW chain \in Seq(Slot), NEW tag
    PROVE  /\ Reported(chain, tag) \subseteq DOMAIN chain
           /\ \A i \in DOMAIN chain : chain[i].tag = tag => i \in Reported(chain, tag)
<1> DEFINE f == CHOOSE g : Matches(chain, tag, g, Len(chain))
<1>1. DOMAIN chain = 1..Len(chain) /\ Len(chain) \in Nat
  BY LenProperties
<1>2. Matches(chain, tag, f, Len(chain))
  BY <1>1, MatchDefined, Zenon
<1>3. Reported(chain, tag) = {j \in DOMAIN chain : f[j]}
  BY <1>1, Zenon DEF Reported, Matches, MatchAt
<1> HIDE DEF f
<1>4. \A i \in DOMAIN chain : chain[i].tag = tag => f[i]
  BY <1>1, <1>2, Zenon DEF Matches, MatchAt
<1> QED BY <1>3, <1>4

-----------------------------------------------------------------------------
(***************************************************************************)
(* Chains: where a key is found, where a write puts it, what a slot that   *)
(* is filled or emptied makes of the chain.                                *)
(***************************************************************************)

\* A busy slot holds an item, under the tag of the item's key.
WellTagged(c) ==
    /\ c \in Chain
    /\ \A i \in DOMAIN c :
        c[i].busy => c[i].item \in Item /\ c[i].tag = Tag[ItemKey[c[i].item]]

\* A key has at most one busy slot in a chain.
OncePerKey(c) ==
    \A i, j \in DOMAIN c :
        c[i].busy /\ c[j].busy /\ ItemKey[c[i].item] = ItemKey[c[j].item] => i = j

\* The free slots of a chain hold no pointer left from an earlier item.
Clean(c) == \A i \in DOMAIN c : ~c[i].busy => c[i].item = NULL

\* The busy slots of a key.
Places(c, key) == {i \in DOMAIN c : c[i].busy /\ ItemKey[c[i].item] = key}

\* A chain is a sequence of slots, a whole bucket at least.
LEMMA ChainIsSeq ==
    ASSUME NEW c \in Chain
    PROVE  /\ c \in Seq(Slot) /\ Len(c) \in Nat /\ DOMAIN c = 1..Len(c)
           /\ \A i \in DOMAIN c : c[i] \in Slot
           /\ BucketSlots <= Len(c) /\ BucketSlots \in Nat \ {0}
<1>1. c \in Seq(Slot) /\ Len(c) \in Nat /\ DOMAIN c = 1..Len(c)
  BY LenProperties DEF Chain
<1>2. PICK n \in 1..Len(c) : Len(c) = n * BucketSlots
  BY DEF Chain
<1>3. n * BucketSlots >= BucketSlots
  BY <1>1, <1>2, SizeAssumption
<1>4. \A i \in DOMAIN c : c[i] \in Slot
  BY <1>1, ElementOfSeq
<1> QED BY <1>1, <1>2, <1>3, <1>4, SizeAssumption

\* Probing a well formed chain finds exactly the busy slots of the key: the
\* slots a false report adds are weeded out by the comparison of keys.
LEMMA HoldingIs ==
    ASSUME NEW c, WellTagged(c), NEW key \in Key
    PROVE  Holding(c, key) = Places(c, key)
<1>1. c \in Seq(Slot)
  BY DEF WellTagged, Chain
<1>2. /\ Reported(c, Tag[key]) \subseteq DOMAIN c
      /\ \A i \in DOMAIN c : c[i].tag = Tag[key] => i \in Reported(c, Tag[key])
  BY <1>1, TagsAreReported
<1> QED BY <1>2 DEF Holding, MatchTag, Places, WellTagged

\* A zeroed bucket is a chain.
LEMMA EmptyBucketIsChain ==
    /\ EmptySlot \in Slot
    /\ EmptyBucket \in Chain /\ EmptyBucket \in Seq(Slot) /\ Len(EmptyBucket) = BucketSlots
    /\ \A i \in 1..BucketSlots : EmptyBucket[i] = EmptySlot
<1>1. EmptySlot \in Slot
  BY DEF EmptySlot, Slot
<1>2. EmptyBucket \in Seq(Slot)
  BY <1>1, SizeAssumption, SeqDef DEF EmptyBucket
<1>3. Len(EmptyBucket) = BucketSlots
  <2>1. DOMAIN EmptyBucket = 1..BucketSlots
    BY DEF EmptyBucket
  <2>2. DOMAIN EmptyBucket = 1..Len(EmptyBucket) /\ Len(EmptyBucket) \in Nat
    BY <1>2, LenProperties
  <2> QED BY <2>1, <2>2, SizeAssumption
<1>4. EmptyBucket \in Chain
  <2>1. 1 \in 1..Len(EmptyBucket) /\ Len(EmptyBucket) = 1 * BucketSlots
    BY <1>3, SizeAssumption
  <2> QED BY <1>2, <2>1 DEF Chain
<1> QED BY <1>1, <1>2, <1>3, <1>4 DEF EmptyBucket

\* Chaining a bucket keeps the slots there are and adds empty ones.
LEMMA ExtendedChain ==
    ASSUME NEW c \in Chain
    PROVE  /\ c \o EmptyBucket \in Chain
           /\ Len(c \o EmptyBucket) = Len(c) + BucketSlots
           /\ \A i \in 1..Len(c) : (c \o EmptyBucket)[i] = c[i]
           /\ \A i \in Len(c) + 1..Len(c) + BucketSlots : (c \o EmptyBucket)[i] = EmptySlot
<1>1. c \in Seq(Slot) /\ Len(c) \in Nat
  BY ChainIsSeq
<1>2. /\ c \o EmptyBucket \in Seq(Slot)
      /\ Len(c \o EmptyBucket) = Len(c) + Len(EmptyBucket)
      /\ \A i \in 1..Len(c) + Len(EmptyBucket) : (c \o EmptyBucket)[i] =
            IF i <= Len(c) THEN c[i] ELSE EmptyBucket[i - Len(c)]
  BY <1>1, EmptyBucketIsChain, ConcatProperties
<1>3. c \o EmptyBucket \in Chain
  <2>1. PICK n \in 1..Len(c) : Len(c) = n * BucketSlots
    BY DEF Chain
  <2>2. (n + 1) * BucketSlots = n * BucketSlots + BucketSlots
    BY <1>1, <2>1, SizeAssumption
  <2>3. n + 1 \in 1..Len(c) + BucketSlots
    BY <1>1, <2>1, SizeAssumption
  <2> QED BY <1>2, <2>1, <2>2, <2>3, EmptyBucketIsChain DEF Chain
<1> QED BY <1>1, <1>2, <1>3, EmptyBucketIsChain, SizeAssumption

\* A write claims the slot of the key if it has one, else a free slot, if
\* need be of a bucket it chains.
LEMMA ClaimIs ==
    ASSUME NEW c, WellTagged(c), NEW key \in Key,
           NEW pos, pos = FindItemSlotOrNextFreeSlot(c, key),
           NEW d, d = InitChain(c, pos)
    PROVE  /\ d \in Chain /\ pos \in DOMAIN d /\ DOMAIN c \subseteq DOMAIN d
           /\ \A i \in DOMAIN c : d[i] = c[i]
           /\ \A i \in DOMAIN d \ DOMAIN c : d[i] = EmptySlot
           /\ IF Places(c, key) # {} THEN pos \in Places(c, key)
              ELSE ~d[pos].busy
<1>1. Holding(c, key) = Places(c, key)
  BY HoldingIs
<1>2. /\ c \in Chain /\ c \in Seq(Slot) /\ Len(c) \in Nat /\ DOMAIN c = 1..Len(c)
      /\ BucketSlots \in Nat \ {0}
  BY ChainIsSeq DEF WellTagged
<1>3. Places(c, key) \in SUBSET Nat /\ FreeSlots(c) \in SUBSET Nat
  BY <1>2 DEF Places, FreeSlots
<1>4. CASE Places(c, key) # {}
  <2>1. pos \in Places(c, key)
    BY <1>1, <1>3, <1>4, MinIs DEF FindItemSlotOrNextFreeSlot
  <2>2. pos \in DOMAIN c /\ d = c
    BY <2>1 DEF Places, InitChain
  <2> QED BY <1>2, <1>4, <2>1, <2>2
<1>5. CASE Places(c, key) = {} /\ FreeSlots(c) # {}
  <2>1. pos \in FreeSlots(c)
    BY <1>1, <1>3, <1>5, MinIs DEF FindItemSlotOrNextFreeSlot
  <2>2. pos \in DOMAIN c /\ d = c /\ ~c[pos].busy
    BY <2>1 DEF FreeSlots, InitChain
  <2> QED BY <1>2, <1>5, <2>2
<1>6. CASE Places(c, key) = {} /\ FreeSlots(c) = {}
  <2>1. pos = Len(c) + 1
    BY <1>1, <1>6 DEF FindItemSlotOrNextFreeSlot
  <2>2. d = c \o EmptyBucket
    <3>1. pos \notin DOMAIN c
      BY <1>2, <2>1
    <3> QED BY <3>1 DEF InitChain
  <2>3. /\ d \in Chain /\ DOMAIN d = 1..Len(c) + BucketSlots
        /\ \A i \in 1..Len(c) : d[i] = c[i]
        /\ \A i \in Len(c) + 1..Len(c) + BucketSlots : d[i] = EmptySlot
    BY <1>2, <2>2, ExtendedChain, ChainIsSeq
  <2>4. pos \in Len(c) + 1..Len(c) + BucketSlots
    BY <1>2, <2>1
  <2>5. DOMAIN d \ DOMAIN c = Len(c) + 1..Len(c) + BucketSlots
    BY <1>2, <2>3
  <2>6. DOMAIN c \subseteq DOMAIN d /\ pos \in DOMAIN d
    BY <1>2, <2>3, <2>4
  <2> QED BY <1>2, <1>6, <2>3, <2>4, <2>5, <2>6 DEF EmptySlot
<1> QED BY <1>4, <1>5, <1>6

\* Storing an item through the claimed slot keeps the chain well formed and
\* changes no other slot.
LEMMA StoredIs ==
    ASSUME NEW c, WellTagged(c), OncePerKey(c),
           NEW key \in Key, NEW item \in Item, ItemKey[item] = key,
           NEW pos, pos = FindItemSlotOrNextFreeSlot(c, key),
           NEW d, d = Stored(InitChain(c, pos), pos, key, item)
    PROVE  /\ WellTagged(d) /\ OncePerKey(d)
           /\ pos \in DOMAIN d /\ DOMAIN c \subseteq DOMAIN d
           /\ \A i \in DOMAIN c \ {pos} : d[i] = c[i]
           /\ \A i \in (DOMAIN d \ DOMAIN c) \ {pos} : d[i] = EmptySlot
           /\ d[pos].busy /\ d[pos].item = item
           /\ IF Places(c, key) # {} THEN pos \in Places(c, key)
              ELSE pos \notin DOMAIN c \/ ~c[pos].busy
<1> DEFINE e == InitChain(c, pos)
<1>1. /\ e \in Chain /\ pos \in DOMAIN e /\ DOMAIN c \subseteq DOMAIN e
      /\ \A i \in DOMAIN c : e[i] = c[i]
      /\ \A i \in DOMAIN e \ DOMAIN c : e[i] = EmptySlot
      /\ IF Places(c, key) # {} THEN pos \in Places(c, key) ELSE ~e[pos].busy
  BY ClaimIs
<1> HIDE DEF e
<1>2. /\ e \in Seq(Slot) /\ Len(e) \in Nat /\ DOMAIN e = 1..Len(e)
      /\ \A i \in DOMAIN e : e[i] \in Slot
  BY <1>1, ChainIsSeq
<1>3. e[pos].busy => pos \in Places(c, key) /\ pos \in DOMAIN c /\ e[pos] = c[pos]
  BY <1>1 DEF Places
<1>4. e[pos].busy => e[pos].tag = Tag[key]
  BY <1>3 DEF Places, WellTagged
<1> DEFINE s == [busy |-> TRUE, tag |-> Tag[key], item |-> item]
<1>5. d = [e EXCEPT ![pos] = s]
  BY <1>4 DEF Stored, e
<1>6. s \in Slot
  BY HashAssumption DEF Slot
<1>7. /\ d \in Seq(Slot) /\ Len(d) = Len(e) /\ DOMAIN d = DOMAIN e
      /\ d[pos] = s
      /\ \A i \in DOMAIN e \ {pos} : d[i] = e[i]
  BY <1>1, <1>2, <1>5, <1>6, ExceptSeq
<1>8. d \in Chain
  BY <1>1, <1>7 DEF Chain
<1>9. s.busy = TRUE /\ s.tag = Tag[key] /\ s.item = item
  OBVIOUS
<1> HIDE DEF s
<1>10. \A i \in DOMAIN d \ {pos} : d[i].busy => i \in DOMAIN c /\ d[i] = c[i]
  BY <1>1, <1>7 DEF EmptySlot
<1>11. \A i \in DOMAIN d \ {pos} : d[i].busy => ItemKey[d[i].item] # key
  <2> SUFFICES ASSUME NEW i \in DOMAIN d \ {pos}, d[i].busy, ItemKey[d[i].item] = key
               PROVE  FALSE
    OBVIOUS
  <2>1. i \in Places(c, key)
    BY <1>10 DEF Places
  <2>2. pos \in Places(c, key)
    BY <1>1, <2>1
  <2> QED BY <2>1, <2>2 DEF Places, OncePerKey
<1>12. WellTagged(d)
  BY <1>7, <1>8, <1>9, <1>10 DEF WellTagged
<1>13. OncePerKey(d)
  BY <1>7, <1>9, <1>10, <1>11 DEF OncePerKey
<1>14. \A i \in DOMAIN c \ {pos} : d[i] = c[i]
  BY <1>1, <1>7
<1>15. \A i \in (DOMAIN d \ DOMAIN c) \ {pos} : d[i] = EmptySlot
  BY <1>1, <1>7
<1>16. IF Places(c, key) # {} THEN pos \in Places(c, key) ELSE pos \notin DOMAIN c \/ ~c[pos].busy
  BY <1>1
<1> QED BY <1>1, <1>7, <1>9, <1>12, <1>13, <1>14, <1>15, <1>16

\* So does emptying a slot.
LEMMA ClearedIs ==
    ASSUME NEW c, WellTagged(c), OncePerKey(c), NEW pos \in DOMAIN c,
           NEW content \in Slot, ~content.busy,
           NEW d, d = [c EXCEPT ![pos] = content]
    PROVE  /\ WellTagged(d) /\ OncePerKey(d) /\ DOMAIN d = DOMAIN c
           /\ \A i \in DOMAIN c \ {pos} : d[i] = c[i]
           /\ d[pos] = content
<1>1. c \in Seq(Slot) /\ c \in Chain /\ DOMAIN c = 1..Len(c)
  BY ChainIsSeq DEF WellTagged
<1>2. /\ d \in Seq(Slot) /\ Len(d) = Len(c) /\ DOMAIN d = DOMAIN c
      /\ \A i \in DOMAIN c \ {pos} : d[i] = c[i]
      /\ d[pos] = content
  BY <1>1, ExceptSeq
<1>3. d \in Chain
  BY <1>1, <1>2 DEF Chain
<1> QED BY <1>2, <1>3 DEF WellTagged, OncePerKey

-----------------------------------------------------------------------------
(***************************************************************************)
(* Halves, seen as the set of the items in their busy slots.               *)
(***************************************************************************)

\* A half is well formed: every chain is, every item is in the chain its key
\* hashes to, and the size is the number of busy slots.
HalfOK(h) ==
    /\ h.count \in Nat /\ h \in Half(h.count)
    /\ \A b \in 0..h.count - 1 :
        /\ WellTagged(h.buckets[b]) /\ OncePerKey(h.buckets[b])
        /\ \A i \in DOMAIN h.buckets[b] :
            h.buckets[b][i].busy => b = BucketIndex(h, ItemKey[h.buckets[b][i].item])
    /\ IsFiniteSet(BusySlots(h)) /\ h.size = Cardinality(BusySlots(h))

\* The items of a half.
Contents(h) == {SlotAt(h, p).item : p \in BusySlots(h)}

\* The busy slots, by bucket and position.
LEMMA BusySlotsAre ==
    ASSUME NEW h
    PROVE  /\ \A b, i : <<b, i>> \in BusySlots(h) <=>
                /\ b \in 0..h.count - 1 /\ i \in DOMAIN h.buckets[b] /\ h.buckets[b][i].busy
           /\ \A p \in BusySlots(h) : p = <<p[1], p[2]>>
<1>1. \A b, i : <<b, i>> \in Positions(h) <=> b \in 0..h.count - 1 /\ i \in DOMAIN h.buckets[b]
  BY DEF Positions
<1>2. \A p \in Positions(h) : p = <<p[1], p[2]>>
  BY DEF Positions
<1> QED BY <1>1, <1>2 DEF BusySlots, SlotAt

\* The items of a half, by bucket and position.
LEMMA ContentsAre ==
    ASSUME NEW h
    PROVE  \A x : x \in Contents(h) <=>
                \E b \in 0..h.count - 1 : \E i \in DOMAIN h.buckets[b] :
                    h.buckets[b][i].busy /\ h.buckets[b][i].item = x
<1>1. ASSUME NEW x \in Contents(h)
      PROVE  \E b \in 0..h.count - 1 : \E i \in DOMAIN h.buckets[b] :
                h.buckets[b][i].busy /\ h.buckets[b][i].item = x
  <2>1. PICK p \in BusySlots(h) : x = SlotAt(h, p).item
    BY DEF Contents
  <2>2. <<p[1], p[2]>> \in BusySlots(h)
    BY BusySlotsAre
  <2> QED BY <2>1, <2>2, BusySlotsAre DEF SlotAt
<1>2. ASSUME NEW b \in 0..h.count - 1, NEW i \in DOMAIN h.buckets[b], h.buckets[b][i].busy
      PROVE  h.buckets[b][i].item \in Contents(h)
  <2>1. <<b, i>> \in BusySlots(h)
    BY <1>2, BusySlotsAre
  <2>2. SlotAt(h, <<b, i>>) = h.buckets[b][i]
    BY DEF SlotAt
  <2> QED BY <2>1, <2>2 DEF Contents
<1> QED BY <1>1, <1>2

\* The items of a half are items.
LEMMA ContentsAreItems ==
    ASSUME NEW h, HalfOK(h)
    PROVE  \A x \in Contents(h) : x \in Item /\ ItemKey[x] \in Key
<1> SUFFICES ASSUME NEW x \in Contents(h) PROVE x \in Item
  BY ItemAssumption
<1>1. PICK b \in 0..h.count - 1 : \E i \in DOMAIN h.buckets[b] :
          h.buckets[b][i].busy /\ h.buckets[b][i].item = x
  BY ContentsAre
<1>2. PICK i \in DOMAIN h.buckets[b] : h.buckets[b][i].busy /\ h.buckets[b][i].item = x
  BY <1>1
<1> QED BY <1>2 DEF HalfOK, WellTagged

\* The bucket of a key is a bucket.
LEMMA IndexIs ==
    ASSUME NEW h, HalfOK(h), h.count # 0, NEW key \in Key
    PROVE  BucketIndex(h, key) \in 0..h.count - 1 /\ BucketIndex(h, key) \in Nat /\ h.count \in Nat
BY HashAssumption DEF BucketIndex, HalfOK

\* A half with one chain replaced.
LEMMA WithChainIs ==
    ASSUME NEW h, h.count \in Nat, h \in Half(h.count), NEW b \in 0..h.count - 1,
           NEW d \in Chain, NEW size \in Nat, NEW g, g = WithChain(h, b, d, size)
    PROVE  /\ g \in Half(g.count) /\ g.count = h.count /\ g.bytes = h.bytes /\ g.size = size
           /\ g.buckets[b] = d
           /\ \A c \in 0..h.count - 1 : c # b => g.buckets[c] = h.buckets[c]
           /\ \A key : BucketIndex(g, key) = BucketIndex(h, key)
BY DEF WithChain, Half, BucketIndex

\* A write into one half replaces the item of the key by the new one, and the
\* size counts a new key.
LEMMA SetHalfIs ==
    ASSUME NEW h, HalfOK(h), h.count # 0, NEW key \in Key, NEW item \in Item, ItemKey[item] = key,
           NEW g, g = SetHalf(h, key, item)
    PROVE  /\ HalfOK(g) /\ g.count = h.count /\ g.bytes = h.bytes
           /\ g.size = IF \E x \in Contents(h) : ItemKey[x] = key THEN h.size ELSE h.size + 1
           /\ Contents(g) = {x \in Contents(h) : ItemKey[x] # key} \cup {item}
           /\ \A b \in 0..h.count - 1 : b # BucketIndex(h, key) => g.buckets[b] = h.buckets[b]
           /\ BucketIndex(h, key) \in 0..h.count - 1
           /\ Clean(h.buckets[BucketIndex(h, key)]) => Clean(g.buckets[BucketIndex(h, key)])
<1> DEFINE b   == BucketIndex(h, key)
           c   == h.buckets[b]
           pos == FindItemSlotOrNextFreeSlot(c, key)
           d   == Stored(InitChain(c, pos), pos, key, item)
<1>1. b \in 0..h.count - 1
  BY HashAssumption DEF BucketIndex, HalfOK
<1>2. WellTagged(c) /\ OncePerKey(c)
  BY <1>1 DEF HalfOK
<1>3. /\ WellTagged(d) /\ OncePerKey(d)
      /\ pos \in DOMAIN d /\ DOMAIN c \subseteq DOMAIN d
      /\ \A i \in DOMAIN c \ {pos} : d[i] = c[i]
      /\ \A i \in (DOMAIN d \ DOMAIN c) \ {pos} : d[i] = EmptySlot
      /\ d[pos].busy /\ d[pos].item = item
      /\ IF Places(c, key) # {} THEN pos \in Places(c, key)
         ELSE pos \notin DOMAIN c \/ ~c[pos].busy
  BY <1>2, StoredIs
<1>4. HasKey(h, key) <=> Places(c, key) # {}
  BY <1>2, HoldingIs DEF HasKey
<1>5. g = WithChain(h, b, d, IF Places(c, key) # {} THEN h.size ELSE h.size + 1)
  BY <1>4 DEF SetHalf, ClaimedChain, ClaimedPosition
<1> HIDE DEF d, pos, c, b
<1>6. h.count \in Nat /\ h \in Half(h.count) /\ h.size \in Nat
  BY DEF HalfOK, Half
<1>7. d \in Chain
  BY <1>3 DEF WellTagged
<1>8. /\ g \in Half(g.count) /\ g.count = h.count /\ g.bytes = h.bytes
      /\ g.size = IF Places(c, key) # {} THEN h.size ELSE h.size + 1
      /\ g.buckets[b] = d
      /\ \A e \in 0..h.count - 1 : e # b => g.buckets[e] = h.buckets[e]
      /\ \A k : BucketIndex(g, k) = BucketIndex(h, k)
  BY <1>1, <1>5, <1>6, <1>7, WithChainIs
<1>9. \A i \in DOMAIN d : d[i].busy => i = pos \/ (i \in DOMAIN c /\ d[i] = c[i])
  BY <1>3 DEF EmptySlot
<1>10. BusySlots(g) = BusySlots(h) \cup {<<b, pos>>}
  <2>1. ASSUME NEW e, NEW i, <<e, i>> \in BusySlots(g)
        PROVE  <<e, i>> \in BusySlots(h) \cup {<<b, pos>>}
    BY <1>1, <1>8, <1>9, <2>1, BusySlotsAre DEF c
  <2>2. ASSUME NEW e, NEW i, <<e, i>> \in BusySlots(h)
        PROVE  <<e, i>> \in BusySlots(g)
    BY <1>1, <1>3, <1>8, <2>2, BusySlotsAre DEF c
  <2>3. <<b, pos>> \in BusySlots(g)
    BY <1>1, <1>3, <1>8, BusySlotsAre
  <2> QED BY <2>1, <2>2, <2>3, BusySlotsAre
<1>11. <<b, pos>> \in BusySlots(h) <=> Places(c, key) # {}
  BY <1>1, <1>3, BusySlotsAre DEF c, Places
<1>12. IsFiniteSet(BusySlots(g)) /\ g.size = Cardinality(BusySlots(g))
  BY <1>8, <1>10, <1>11, FS_AddElement DEF HalfOK
<1>13. ASSUME NEW e \in 0..h.count - 1
       PROVE  /\ WellTagged(g.buckets[e]) /\ OncePerKey(g.buckets[e])
              /\ \A i \in DOMAIN g.buckets[e] :
                    g.buckets[e][i].busy => e = BucketIndex(g, ItemKey[g.buckets[e][i].item])
  <2>1. CASE e = b
    BY <1>1, <1>3, <1>8, <1>9, <2>1 DEF HalfOK, b, c
  <2>2. CASE e # b
    BY <1>8, <2>2 DEF HalfOK
  <2> QED BY <2>1, <2>2
<1>14. HalfOK(g)
  BY <1>6, <1>8, <1>12, <1>13 DEF HalfOK
<1>15. \A x \in Contents(h) : ItemKey[x] = key => Places(c, key) # {} /\ x = c[pos].item
  <2> SUFFICES ASSUME NEW x \in Contents(h), ItemKey[x] = key
               PROVE  Places(c, key) # {} /\ x = c[pos].item
    OBVIOUS
  <2>1. PICK e \in 0..h.count - 1 : \E i \in DOMAIN h.buckets[e] :
            h.buckets[e][i].busy /\ h.buckets[e][i].item = x
    BY ContentsAre
  <2>2. PICK i \in DOMAIN h.buckets[e] : h.buckets[e][i].busy /\ h.buckets[e][i].item = x
    BY <2>1
  <2>3. e = b
    BY <2>2 DEF HalfOK, b
  <2>4. i \in Places(c, key)
    BY <2>2, <2>3 DEF Places, c
  <2>5. i = pos
    BY <1>2, <1>3, <2>4 DEF OncePerKey, Places
  <2> QED BY <2>2, <2>3, <2>4, <2>5 DEF c
<1>16. Places(c, key) # {} => c[pos].item \in Contents(h) /\ ItemKey[c[pos].item] = key
  BY <1>1, <1>3, ContentsAre DEF Places, c
<1>17. ASSUME NEW x \in Contents(g) PROVE x = item \/ (x \in Contents(h) /\ ItemKey[x] # key)
  <2>1. PICK e \in 0..g.count - 1 : \E i \in DOMAIN g.buckets[e] :
            g.buckets[e][i].busy /\ g.buckets[e][i].item = x
    BY ContentsAre
  <2>2. PICK i \in DOMAIN g.buckets[e] : g.buckets[e][i].busy /\ g.buckets[e][i].item = x
    BY <2>1
  <2>3. CASE e = b /\ i = pos
    BY <1>3, <1>8, <2>2, <2>3
  <2>4. CASE e = b /\ i # pos
    <3>1. x \in Contents(h)
      BY <1>1, <1>8, <1>9, <2>2, <2>4, ContentsAre DEF c
    <3>2. ItemKey[x] # key
      BY <1>3, <1>8, <2>2, <2>4 DEF OncePerKey
    <3> QED BY <3>1, <3>2
  <2>5. CASE e # b
    <3>1. x \in Contents(h)
      BY <1>8, <2>2, <2>5, ContentsAre
    <3>2. e = BucketIndex(h, ItemKey[x])
      BY <1>8, <2>2, <2>5 DEF HalfOK
    <3> QED BY <2>5, <3>1, <3>2 DEF b
  <2> QED BY <2>3, <2>4, <2>5
<1>18. ASSUME NEW x \in Contents(h), ItemKey[x] # key PROVE x \in Contents(g)
  <2>1. PICK e \in 0..h.count - 1 : \E i \in DOMAIN h.buckets[e] :
            h.buckets[e][i].busy /\ h.buckets[e][i].item = x
    BY ContentsAre
  <2>2. PICK i \in DOMAIN h.buckets[e] : h.buckets[e][i].busy /\ h.buckets[e][i].item = x
    BY <2>1
  <2>3. CASE e = b
    <3>1. i # pos
      BY <1>3, <1>18, <2>2, <2>3 DEF c, Places
    <3> QED BY <1>1, <1>3, <1>8, <2>2, <2>3, <3>1, ContentsAre DEF c
  <2>4. CASE e # b
    BY <1>8, <2>2, <2>4, ContentsAre
  <2> QED BY <2>3, <2>4
<1>19. item \in Contents(g)
  BY <1>1, <1>3, <1>8, ContentsAre
<1>20. Contents(g) = {x \in Contents(h) : ItemKey[x] # key} \cup {item}
  BY <1>17, <1>18, <1>19
<1>21. Places(c, key) # {} <=> \E x \in Contents(h) : ItemKey[x] = key
  BY <1>15, <1>16
<1>22. Clean(c) => Clean(d)
  BY <1>3 DEF Clean, EmptySlot
<1> QED BY <1>1, <1>8, <1>14, <1>20, <1>21, <1>22 DEF b, c

\* Emptying a busy slot takes its item from the half.
LEMMA EmptiedIs ==
    ASSUME NEW h, HalfOK(h), NEW b \in 0..h.count - 1,
           NEW pos \in DOMAIN h.buckets[b], h.buckets[b][pos].busy,
           NEW content \in Slot, ~content.busy,
           NEW g, g = Emptied(h, b, pos, content)
    PROVE  /\ HalfOK(g) /\ g.count = h.count /\ g.bytes = h.bytes /\ g.size = h.size - 1
           /\ Contents(g) = Contents(h) \ {h.buckets[b][pos].item}
           /\ \A e \in 0..h.count - 1 : e # b => g.buckets[e] = h.buckets[e]
           /\ DOMAIN g.buckets[b] = DOMAIN h.buckets[b] /\ g.buckets[b][pos] = content
           /\ \A i \in DOMAIN h.buckets[b] \ {pos} : g.buckets[b][i] = h.buckets[b][i]
<1> DEFINE c == h.buckets[b]
           d == [c EXCEPT ![pos] = content]
<1>1. WellTagged(c) /\ OncePerKey(c)
  BY DEF HalfOK
<1>2. /\ WellTagged(d) /\ OncePerKey(d) /\ DOMAIN d = DOMAIN c
      /\ \A i \in DOMAIN c \ {pos} : d[i] = c[i]
      /\ d[pos] = content
  BY <1>1, ClearedIs
<1>3. g = WithChain(h, b, d, h.size - 1)
  BY DEF Emptied
<1>4. c[pos].busy /\ pos \in DOMAIN c
  OBVIOUS
<1>5. <<b, pos>> \in BusySlots(h)
  BY BusySlotsAre
<1> HIDE DEF d, c
<1>6. h.count \in Nat /\ h \in Half(h.count) /\ h.size \in Nat
  BY DEF HalfOK, Half
<1>7. h.size # 0
  BY <1>5, FS_EmptySet DEF HalfOK
<1>8. d \in Chain
  BY <1>2 DEF WellTagged
<1>9. /\ g \in Half(g.count) /\ g.count = h.count /\ g.bytes = h.bytes /\ g.size = h.size - 1
      /\ g.buckets[b] = d
      /\ \A e \in 0..h.count - 1 : e # b => g.buckets[e] = h.buckets[e]
      /\ \A k : BucketIndex(g, k) = BucketIndex(h, k)
  <2>1. h.size - 1 \in Nat
    BY <1>6, <1>7
  <2> QED BY <1>3, <1>6, <1>8, <2>1, WithChainIs
<1>10. BusySlots(g) = BusySlots(h) \ {<<b, pos>>}
  <2>1. ASSUME NEW e, NEW i, <<e, i>> \in BusySlots(g)
        PROVE  <<e, i>> \in BusySlots(h) \ {<<b, pos>>}
    <3>1. e \in 0..h.count - 1 /\ i \in DOMAIN g.buckets[e] /\ g.buckets[e][i].busy
      BY <1>9, <2>1, BusySlotsAre
    <3>2. <<e, i>> # <<b, pos>>
      BY <1>2, <1>9, <3>1
    <3>3. i \in DOMAIN h.buckets[e] /\ h.buckets[e][i].busy
      BY <1>2, <1>9, <3>1, <3>2 DEF c
    <3> QED BY <3>1, <3>2, <3>3, BusySlotsAre
  <2>2. ASSUME NEW e, NEW i, <<e, i>> \in BusySlots(h), <<e, i>> # <<b, pos>>
        PROVE  <<e, i>> \in BusySlots(g)
    <3>1. e \in 0..h.count - 1 /\ i \in DOMAIN h.buckets[e] /\ h.buckets[e][i].busy
      BY <2>2, BusySlotsAre
    <3>2. i \in DOMAIN g.buckets[e] /\ g.buckets[e][i].busy
      BY <1>2, <1>9, <2>2, <3>1 DEF c
    <3> QED BY <1>9, <3>1, <3>2, BusySlotsAre
  <2> QED BY <2>1, <2>2, BusySlotsAre
<1>11. IsFiniteSet(BusySlots(g)) /\ g.size = Cardinality(BusySlots(g))
  <2>1. IsFiniteSet(BusySlots(h)) /\ h.size = Cardinality(BusySlots(h))
    BY DEF HalfOK
  <2>2. /\ IsFiniteSet(BusySlots(h) \ {<<b, pos>>})
        /\ Cardinality(BusySlots(h) \ {<<b, pos>>}) = Cardinality(BusySlots(h)) - 1
    BY <1>5, <2>1, FS_RemoveElement
  <2> QED BY <1>9, <1>10, <2>1, <2>2
<1>12. ASSUME NEW e \in 0..h.count - 1
       PROVE  /\ WellTagged(g.buckets[e]) /\ OncePerKey(g.buckets[e])
              /\ \A i \in DOMAIN g.buckets[e] :
                    g.buckets[e][i].busy => e = BucketIndex(g, ItemKey[g.buckets[e][i].item])
  <2>1. CASE e = b
    BY <1>2, <1>9, <2>1 DEF HalfOK, c
  <2>2. CASE e # b
    BY <1>9, <2>2 DEF HalfOK
  <2> QED BY <2>1, <2>2
<1>13. HalfOK(g)
  BY <1>6, <1>9, <1>11, <1>12 DEF HalfOK
<1>14. ASSUME NEW x \in Contents(g) PROVE x \in Contents(h) /\ x # c[pos].item
  <2>1. PICK e \in 0..h.count - 1 : \E i \in DOMAIN g.buckets[e] :
            g.buckets[e][i].busy /\ g.buckets[e][i].item = x
    BY <1>9, ContentsAre
  <2>2. PICK i \in DOMAIN g.buckets[e] : g.buckets[e][i].busy /\ g.buckets[e][i].item = x
    BY <2>1
  <2>3. /\ i \in DOMAIN h.buckets[e] /\ h.buckets[e][i] = g.buckets[e][i]
        /\ e # b \/ i # pos
    BY <1>2, <1>9, <2>2 DEF c
  <2>4. x \in Contents(h)
    BY <2>2, <2>3, ContentsAre
  <2>5. x # c[pos].item
    <3>1. CASE e = b
      BY <1>1, <1>4, <2>2, <2>3, <3>1 DEF OncePerKey, c
    <3>2. CASE e # b
      BY <1>4, <2>2, <2>3, <3>2 DEF HalfOK, c
    <3> QED BY <3>1, <3>2
  <2> QED BY <2>4, <2>5
<1>15. ASSUME NEW x \in Contents(h), x # c[pos].item PROVE x \in Contents(g)
  <2>1. PICK e \in 0..h.count - 1 : \E i \in DOMAIN h.buckets[e] :
            h.buckets[e][i].busy /\ h.buckets[e][i].item = x
    BY ContentsAre
  <2>2. PICK i \in DOMAIN h.buckets[e] : h.buckets[e][i].busy /\ h.buckets[e][i].item = x
    BY <2>1
  <2>3. i \in DOMAIN g.buckets[e] /\ g.buckets[e][i] = h.buckets[e][i]
    BY <1>2, <1>9, <1>15, <2>2 DEF c
  <2> QED BY <1>9, <2>2, <2>3, ContentsAre
<1>16. Contents(g) = Contents(h) \ {c[pos].item}
  BY <1>14, <1>15
<1> QED BY <1>2, <1>9, <1>13, <1>16 DEF c

\* A lookup finds the slot of the key if and only if the half has an item of
\* it.
LEMMA FoundIs ==
    ASSUME NEW h, HalfOK(h), h.count # 0, NEW key \in Key,
           NEW b, b = BucketIndex(h, key), NEW c, c = h.buckets[b],
           NEW pos, pos = FindItemSlot(c, key)
    PROVE  /\ b \in 0..h.count - 1
           /\ HasKey(h, key) <=> \E x \in Contents(h) : ItemKey[x] = key
           /\ HasKey(h, key) <=> Places(c, key) # {}
           /\ HasKey(h, key) => /\ pos \in DOMAIN c /\ c[pos].busy /\ pos # NotFound
                                /\ c[pos].item \in Contents(h) /\ ItemKey[c[pos].item] = key
           /\ ~HasKey(h, key) => pos = NotFound
           /\ \A x \in Contents(h) : ItemKey[x] = key => x = c[pos].item
           /\ \A i \in Places(c, key) : i = pos
<1>1. b \in 0..h.count - 1
  BY HashAssumption DEF BucketIndex, HalfOK
<1>2. WellTagged(c) /\ OncePerKey(c)
  BY <1>1 DEF HalfOK
<1>3. Holding(c, key) = Places(c, key) /\ (HasKey(h, key) <=> Places(c, key) # {})
  BY <1>2, HoldingIs DEF HasKey
<1>4. Places(c, key) \in SUBSET Nat /\ 0 \notin Places(c, key)
  BY <1>2, ChainIsSeq DEF Places, WellTagged
<1>5. HasKey(h, key) => pos \in Places(c, key) /\ pos # NotFound
  BY <1>3, <1>4, MinIs DEF FindItemSlot, NotFound
<1>6. ~HasKey(h, key) => pos = NotFound
  BY <1>3 DEF FindItemSlot
<1>7. \A i \in Places(c, key) : i = pos
  BY <1>2, <1>3, <1>5 DEF OncePerKey, Places
<1>8. HasKey(h, key) => c[pos].item \in Contents(h) /\ ItemKey[c[pos].item] = key
  BY <1>1, <1>5, ContentsAre DEF Places
<1>9. ASSUME NEW x \in Contents(h), ItemKey[x] = key
      PROVE  HasKey(h, key) /\ x = c[pos].item
  <2>1. PICK e \in 0..h.count - 1 : \E i \in DOMAIN h.buckets[e] :
            h.buckets[e][i].busy /\ h.buckets[e][i].item = x
    BY ContentsAre
  <2>2. PICK i \in DOMAIN h.buckets[e] : h.buckets[e][i].busy /\ h.buckets[e][i].item = x
    BY <2>1
  <2>3. e = b
    BY <1>9, <2>2 DEF HalfOK
  <2>4. i \in Places(c, key)
    BY <1>9, <2>2, <2>3 DEF Places
  <2> QED BY <1>3, <1>7, <2>2, <2>3, <2>4
<1> QED BY <1>1, <1>3, <1>5, <1>6, <1>7, <1>8, <1>9 DEF Places

\* The same, of the question whether the key is there.
LEMMA HasKeyIs ==
    ASSUME NEW h, HalfOK(h), h.count # 0, NEW key \in Key
    PROVE  HasKey(h, key) <=> \E x \in Contents(h) : ItemKey[x] = key
<1> DEFINE b   == BucketIndex(h, key)
           c   == h.buckets[b]
           pos == FindItemSlot(c, key)
<1> QED BY FoundIs

\* A half has one item of a key at most.
LEMMA OneItemPerKey ==
    ASSUME NEW h, HalfOK(h), h.count # 0,
           NEW x \in Contents(h), NEW y \in Contents(h), ItemKey[x] = ItemKey[y]
    PROVE  x = y
<1> DEFINE key == ItemKey[x]
           b   == BucketIndex(h, key)
           c   == h.buckets[b]
           pos == FindItemSlot(c, key)
<1>1. key \in Key
  BY ContentsAreItems
<1> QED BY <1>1, FoundIs

\* A read of one half answers with the item of the key.
LEMMA GetHalfIs ==
    ASSUME NEW h, HalfOK(h), h.count # 0, NEW key \in Key
    PROVE  /\ (\E x \in Contents(h) : ItemKey[x] = key) =>
                GetHalf(h, key) \in Contents(h) /\ ItemKey[GetHalf(h, key)] = key
           /\ (\A x \in Contents(h) : ItemKey[x] # key) => GetHalf(h, key) = NULL
BY FoundIs DEF GetHalf

\* A write is answered with the item it is about to replace, and with NULL
\* for a new key, where the chain is clean.
LEMMA ClaimedItemIs ==
    ASSUME NEW h, HalfOK(h), h.count # 0, NEW key \in Key, Clean(h.buckets[BucketIndex(h, key)])
    PROVE  /\ (\E x \in Contents(h) : ItemKey[x] = key) =>
                ClaimedItem(h, key) \in Contents(h) /\ ItemKey[ClaimedItem(h, key)] = key
           /\ (\A x \in Contents(h) : ItemKey[x] # key) => ClaimedItem(h, key) = NULL
<1> DEFINE b   == BucketIndex(h, key)
           c   == h.buckets[b]
           pos == FindItemSlotOrNextFreeSlot(c, key)
           d   == InitChain(c, pos)
<1>1. /\ b \in 0..h.count - 1
      /\ HasKey(h, key) <=> \E x \in Contents(h) : ItemKey[x] = key
      /\ HasKey(h, key) <=> Places(c, key) # {}
  BY FoundIs
<1>2. WellTagged(c)
  BY <1>1 DEF HalfOK
<1>3. /\ pos \in DOMAIN d /\ DOMAIN c \subseteq DOMAIN d
      /\ \A i \in DOMAIN c : d[i] = c[i]
      /\ \A i \in DOMAIN d \ DOMAIN c : d[i] = EmptySlot
      /\ IF Places(c, key) # {} THEN pos \in Places(c, key) ELSE ~d[pos].busy
  BY <1>2, ClaimIs
<1>4. ClaimedItem(h, key) = d[pos].item
  BY DEF ClaimedItem, ClaimedChain, ClaimedPosition
<1>5. Clean(c)
  OBVIOUS
<1> HIDE DEF d, pos
<1>6. CASE HasKey(h, key)
  <2>1. pos \in DOMAIN c /\ c[pos].busy /\ ItemKey[c[pos].item] = key /\ d[pos] = c[pos]
    BY <1>1, <1>3, <1>6 DEF Places
  <2> QED BY <1>1, <1>4, <1>6, <2>1, ContentsAre
<1>7. CASE ~HasKey(h, key)
  <2>1. d[pos].item = NULL
    BY <1>1, <1>3, <1>5, <1>7 DEF Clean, EmptySlot
  <2> QED BY <1>1, <1>4, <1>7, <2>1
<1> QED BY <1>6, <1>7

\* A delete from one half takes the item of the key, and the size counts it.
LEMMA DeleteHalfIs ==
    ASSUME NEW h, HalfOK(h), h.count # 0, NEW key \in Key, NEW g, g = DeleteHalf(h, key)
    PROVE  /\ HalfOK(g) /\ g.count = h.count /\ g.bytes = h.bytes
           /\ g.size = IF \E x \in Contents(h) : ItemKey[x] = key THEN h.size - 1 ELSE h.size
           /\ Contents(g) = {x \in Contents(h) : ItemKey[x] # key}
           /\ \A b \in 0..h.count - 1 : b # BucketIndex(h, key) => g.buckets[b] = h.buckets[b]
           /\ BucketIndex(h, key) \in 0..h.count - 1
           /\ Clean(h.buckets[BucketIndex(h, key)]) => Clean(g.buckets[BucketIndex(h, key)])
<1> DEFINE b   == BucketIndex(h, key)
           c   == h.buckets[b]
           pos == FindItemSlot(c, key)
<1>1. /\ b \in 0..h.count - 1
      /\ HasKey(h, key) <=> \E x \in Contents(h) : ItemKey[x] = key
      /\ HasKey(h, key) => pos \in DOMAIN c /\ c[pos].busy /\ ItemKey[c[pos].item] = key
      /\ \A x \in Contents(h) : ItemKey[x] = key => x = c[pos].item
  BY FoundIs
<1>2. CASE HasKey(h, key)
  <2>1. g = Emptied(h, b, pos, EmptySlot)
    BY <1>2 DEF DeleteHalf
  <2>2. EmptySlot \in Slot /\ ~EmptySlot.busy /\ EmptySlot.item = NULL
    BY EmptyBucketIsChain DEF EmptySlot
  <2>3. /\ HalfOK(g) /\ g.count = h.count /\ g.bytes = h.bytes /\ g.size = h.size - 1
        /\ Contents(g) = Contents(h) \ {c[pos].item}
        /\ \A e \in 0..h.count - 1 : e # b => g.buckets[e] = h.buckets[e]
        /\ DOMAIN g.buckets[b] = DOMAIN c /\ g.buckets[b][pos] = EmptySlot
        /\ \A i \in DOMAIN c \ {pos} : g.buckets[b][i] = c[i]
    BY <1>1, <1>2, <2>1, <2>2, EmptiedIs
  <2>4. Contents(g) = {x \in Contents(h) : ItemKey[x] # key}
    BY <1>1, <1>2, <2>3
  <2>5. Clean(c) => Clean(g.buckets[b])
    BY <2>2, <2>3 DEF Clean
  <2> QED BY <1>1, <1>2, <2>3, <2>4, <2>5
<1>3. CASE ~HasKey(h, key)
  <2>1. g = h
    BY <1>3 DEF DeleteHalf
  <2> QED BY <1>1, <1>3, <2>1
<1> QED BY <1>2, <1>3

\* The byte count kept beside an array says nothing of what is in the array:
\* finish_migration leaves it behind.
LEMMA BytesDoNotMatter ==
    ASSUME NEW h, HalfOK(h), NEW n \in Nat, NEW g, g = [h EXCEPT !.bytes = n]
    PROVE  /\ HalfOK(g) /\ Contents(g) = Contents(h)
           /\ g.size = h.size /\ g.count = h.count /\ g.buckets = h.buckets /\ g.bytes = n
<1>1. /\ g.size = h.size /\ g.count = h.count /\ g.buckets = h.buckets /\ g.bytes = n
      /\ g \in Half(h.count)
  BY DEF HalfOK, Half
<1>2. BusySlots(g) = BusySlots(h)
  BY <1>1 DEF BusySlots, Positions, SlotAt
<1>3. Contents(g) = Contents(h)
  BY <1>1, <1>2 DEF Contents, SlotAt
<1>4. \A key : BucketIndex(g, key) = BucketIndex(h, key)
  BY <1>1 DEF BucketIndex
<1> QED BY <1>1, <1>2, <1>3, <1>4 DEF HalfOK

\* A half of zeroed buckets is well formed and has no items.
LEMMA EmptyHalfIs ==
    ASSUME NEW h, h.count \in Nat, h \in Half(h.count), h.size = 0,
           \A b \in 0..h.count - 1 : h.buckets[b] = EmptyBucket
    PROVE  /\ HalfOK(h) /\ Contents(h) = {}
           /\ \A b \in 0..h.count - 1 : Clean(h.buckets[b])
<1>1. \A i \in DOMAIN EmptyBucket : ~EmptyBucket[i].busy /\ EmptyBucket[i].item = NULL
  BY DEF EmptyBucket, EmptySlot
<1>2. BusySlots(h) = {}
  BY <1>1, BusySlotsAre
<1>3. IsFiniteSet(BusySlots(h)) /\ Cardinality(BusySlots(h)) = 0
  BY <1>2, FS_EmptySet
<1>4. WellTagged(EmptyBucket) /\ OncePerKey(EmptyBucket) /\ Clean(EmptyBucket)
  BY <1>1, EmptyBucketIsChain DEF WellTagged, OncePerKey, Clean
<1> QED BY <1>1, <1>2, <1>3, <1>4 DEF HalfOK, Contents

\* No new array is a half without items.
LEMMA NoHalfIs ==
    ASSUME NEW n \in Nat, NEW h, h = [NoHalf EXCEPT !.bytes = n]
    PROVE  HalfOK(h) /\ Contents(h) = {} /\ h.count = 0 /\ h.size = 0 /\ h.bytes = n
<1>1. \A b \in 0..-1 : FALSE
  OBVIOUS
<1>2. NoHalf \in Half(0) /\ NoHalf.count = 0 /\ NoHalf.size = 0
  BY <1>1 DEF NoHalf, Half
<1>3. HalfOK(NoHalf) /\ Contents(NoHalf) = {}
  BY <1>1, <1>2, EmptyHalfIs
<1> QED BY <1>2, <1>3, BytesDoNotMatter

\* An array takes a number of bytes.
LEMMA ArrayBytesIsNat ==
    ASSUME NEW count \in Nat
    PROVE  ArrayBytes(count) \in Nat
<1>1. count * BucketBytes \in Nat
  BY SizeAssumption
<1>2. ASSUME NEW bytes \in Nat, NEW align \in Nat \ {0} PROVE AlignUp(bytes, align) \in Nat
  <2>1. (bytes + align - 1) \div align \in Nat
    BY <1>2
  <2> QED BY <2>1 DEF AlignUp
<1>3. \A bytes \in Nat : PagesMapBytes(bytes) \in Nat
  BY <1>2, SizeAssumption DEF PagesMapBytes
<1> QED BY <1>1, <1>3 DEF ArrayBytes

\* A freshly mapped array is a half without items.
LEMMA NewHalfIs ==
    ASSUME NEW count \in Nat, NEW h, h = NewHalf(count)
    PROVE  /\ HalfOK(h) /\ Contents(h) = {} /\ h.count = count /\ h.size = 0
           /\ \A b \in 0..h.count - 1 : Clean(h.buckets[b])
<1>1. h.count = count /\ h.size = 0 /\ h \in Half(h.count)
      /\ \A b \in 0..h.count - 1 : h.buckets[b] = EmptyBucket
  BY EmptyBucketIsChain, ArrayBytesIsNat DEF NewHalf, Half
<1> QED BY <1>1, EmptyHalfIs

-----------------------------------------------------------------------------
(***************************************************************************)
(* Tables, and the write's maintenance: slot by slot, then bucket by       *)
(* bucket, then the change of arrays.                                      *)
(***************************************************************************)

\* A table between two calls. The migration position divides the keys: an
\* item is in the old array from there on and in the new one below. Moved
\* buckets have no chain, and every chain a write may claim a slot of is
\* clean.
TableOK(t) ==
    /\ t \in [scaleAtSize : Nat, migrationPos : Nat, old : {t.old}, new : {t.new}]
    /\ HalfOK(t.old) /\ HalfOK(t.new) /\ t.old.count # 0
    /\ IF MigrationRunning(t) THEN t.migrationPos < t.old.count ELSE t.migrationPos = 0
    /\ \A x \in Contents(t.old) : BucketIndex(t.old, ItemKey[x]) >= t.migrationPos
    /\ \A x \in Contents(t.new) : BucketIndex(t.old, ItemKey[x]) < t.migrationPos
    /\ \A b \in 0..t.old.count - 1 :
        IF b < t.migrationPos THEN Len(t.old.buckets[b]) = BucketSlots ELSE Clean(t.old.buckets[b])
    /\ \A b \in 0..t.new.count - 1 : Clean(t.new.buckets[b])

\* The items of a table.
Items(t) == Contents(t.old) \cup Contents(t.new)

\* f is the table after each of the first n slots of bucket b has been moved.
MigratedTo(t, b, f, n) ==
    f = [i \in 0..n |-> IF i = 0 THEN t ELSE MigrateSlot(f[i - 1], b, i)]

\* The sequence of these tables exists for any number of slots.
LEMMA MigrationDefined ==
    ASSUME NEW t, NEW b, NEW n \in Nat
    PROVE  \E f : MigratedTo(t, b, f, n)
<1> DEFINE Done == {m \in Nat : \E f : MigratedTo(t, b, f, m)}
<1>1. 0 \in Done
  <2> DEFINE f == [i \in 0..0 |-> t]
  <2>1. MigratedTo(t, b, f, 0)
    BY DEF MigratedTo
  <2> QED BY <2>1
<1>2. ASSUME NEW m \in Done PROVE m + 1 \in Done
  <2>1. PICK f : MigratedTo(t, b, f, m)
    OBVIOUS
  <2> DEFINE g == [i \in 0..m+1 |-> IF i = m + 1 THEN MigrateSlot(f[m], b, m + 1) ELSE f[i]]
  <2>2. \A i \in 0..m+1 : g[i] = IF i = 0 THEN t ELSE MigrateSlot(g[i - 1], b, i)
    BY <2>1 DEF MigratedTo
  <2>3. MigratedTo(t, b, g, m + 1)
    BY <2>2 DEF MigratedTo
  <2> QED BY <2>3
<1>3. n \in Done
  <2> HIDE DEF Done
  <2>1. Done \in SUBSET Nat
    BY DEF Done
  <2> QED BY <1>1, <1>2, <2>1, Induction
<1> QED BY <1>3

\* Moving a bucket is moving all its slots and freeing its chain.
LEMMA MigrateBucketIs ==
    ASSUME NEW t, NEW b, Len(t.old.buckets[b]) \in Nat
    PROVE  \E f : /\ MigratedTo(t, b, f, Len(t.old.buckets[b]))
                  /\ MigrateBucket(t, b) = Unchained(f[Len(t.old.buckets[b])], b)
<1> DEFINE n == Len(t.old.buckets[b])
           f == CHOOSE g : MigratedTo(t, b, g, n)
<1>1. \E g : MigratedTo(t, b, g, n)
  BY MigrationDefined
<1>2. MigratedTo(t, b, f, n)
  BY <1>1, Zenon
<1>3. MigrateBucket(t, b) = Unchained(f[n], b)
  BY Zenon DEF MigrateBucket, MigratedTo
<1> QED BY <1>2, <1>3

\* The table while bucket migrationPos is being moved and the first n slots
\* of its chain are done.
Moving(t, n) ==
    /\ t \in [scaleAtSize : Nat, migrationPos : Nat, old : {t.old}, new : {t.new}]
    /\ HalfOK(t.old) /\ HalfOK(t.new)
    /\ MigrationRunning(t) /\ t.migrationPos < t.old.count
    /\ \A x \in Contents(t.old) : BucketIndex(t.old, ItemKey[x]) >= t.migrationPos
    /\ \A x \in Contents(t.new) : BucketIndex(t.old, ItemKey[x]) <= t.migrationPos
    /\ \A x \in Contents(t.old), y \in Contents(t.new) : ItemKey[x] # ItemKey[y]
    /\ \A b \in 0..t.old.count - 1 :
        /\ b < t.migrationPos => Len(t.old.buckets[b]) = BucketSlots
        /\ b > t.migrationPos => Clean(t.old.buckets[b])
    /\ \A i \in DOMAIN t.old.buckets[t.migrationPos] :
        i <= n => ~t.old.buckets[t.migrationPos][i].busy
    /\ \A b \in 0..t.new.count - 1 : Clean(t.new.buckets[b])

\* u is t with items moved from one half to the other.
SameButMoved(t, u) ==
    /\ u.scaleAtSize = t.scaleAtSize /\ u.migrationPos = t.migrationPos
    /\ u.old.count = t.old.count /\ u.new.count = t.new.count
    /\ u.old.bytes = t.old.bytes /\ u.new.bytes = t.new.bytes
    /\ Items(u) = Items(t) /\ HashtableLen(u) = HashtableLen(t)

\* A table between two calls is one whose bucket is about to be moved.
LEMMA MoveStarts ==
    ASSUME NEW t, TableOK(t), MigrationRunning(t)
    PROVE  Moving(t, 0)
<1>1. \A i \in DOMAIN t.old.buckets[t.migrationPos] : ~(i <= 0)
  <2>1. t.migrationPos \in 0..t.old.count - 1
    BY DEF TableOK, HalfOK
  <2>2. t.old.buckets[t.migrationPos] \in Chain
    BY <2>1 DEF TableOK, HalfOK, WellTagged
  <2> QED BY <2>2, ChainIsSeq
<1>2. \A x \in Contents(t.old), y \in Contents(t.new) : ItemKey[x] # ItemKey[y]
  <2> SUFFICES ASSUME NEW x \in Contents(t.old), NEW y \in Contents(t.new), ItemKey[x] = ItemKey[y]
               PROVE  FALSE
    OBVIOUS
  <2>1. ItemKey[x] \in Key
    BY ContentsAreItems DEF TableOK
  <2>2. BucketIndex(t.old, ItemKey[x]) \in Nat /\ t.migrationPos \in Nat
    BY <2>1, IndexIs DEF TableOK
  <2> QED BY <2>2 DEF TableOK
<1>3. \A x \in Contents(t.new) : BucketIndex(t.old, ItemKey[x]) <= t.migrationPos
  <2> SUFFICES ASSUME NEW x \in Contents(t.new) PROVE BucketIndex(t.old, ItemKey[x]) <= t.migrationPos
    OBVIOUS
  <2>1. ItemKey[x] \in Key
    BY ContentsAreItems DEF TableOK
  <2>2. BucketIndex(t.old, ItemKey[x]) \in Nat /\ t.migrationPos \in Nat
    BY <2>1, IndexIs DEF TableOK
  <2> QED BY <2>2 DEF TableOK
<1>4. \A b \in 0..t.old.count - 1 :
        /\ b < t.migrationPos => Len(t.old.buckets[b]) = BucketSlots
        /\ b > t.migrationPos => Clean(t.old.buckets[b])
  BY DEF TableOK, HalfOK
<1> QED BY <1>1, <1>2, <1>3, <1>4 DEF Moving, TableOK

\* Moving one slot: a key that is moved is in the old half only, so its item
\* gets a slot of its own in the new one.
LEMMA SlotMoves ==
    ASSUME NEW t, NEW n \in Nat, Moving(t, n),
           NEW b, b = t.migrationPos, n + 1 \in DOMAIN t.old.buckets[b],
           NEW u, u = MigrateSlot(t, b, n + 1)
    PROVE  /\ Moving(u, n + 1) /\ SameButMoved(t, u)
           /\ DOMAIN u.old.buckets[b] = DOMAIN t.old.buckets[b]
<1> DEFINE c    == t.old.buckets[b]
           item == c[n + 1].item
           gone == [c[n + 1] EXCEPT !.busy = FALSE]
           old  == Emptied(t.old, b, n + 1, gone)
           new  == SetHalf(t.new, ItemKey[item], item)
<1>1. b \in 0..t.old.count - 1 /\ b \in Nat
  BY DEF Moving, HalfOK
<1>2. WellTagged(c) /\ c \in Chain
  BY <1>1 DEF Moving, HalfOK, WellTagged
<1>3. DOMAIN c \in SUBSET Nat /\ \A i \in DOMAIN c : c[i] \in Slot
  BY <1>2, ChainIsSeq
<1>4. CASE ~c[n + 1].busy
  <2>1. u = t
    BY <1>4 DEF MigrateSlot
  <2>2. \A i \in DOMAIN c : i <= n + 1 => ~c[i].busy
    BY <1>3, <1>4 DEF Moving
  <2>3. Moving(u, n + 1)
    BY <2>1, <2>2 DEF Moving
  <2> QED BY <2>1, <2>3 DEF SameButMoved
<1>5. CASE c[n + 1].busy
  <2>1. /\ gone \in Slot /\ ~gone.busy
    BY <1>3 DEF Slot
  <2>2. item \in Item /\ ItemKey[item] \in Key
    BY <1>2, <1>5, ItemAssumption DEF WellTagged
  <2>3. item \in Contents(t.old) /\ b = BucketIndex(t.old, ItemKey[item])
    BY <1>1, <1>5, ContentsAre DEF Moving, HalfOK
  <2>4. \A x \in Contents(t.new) : ItemKey[x] # ItemKey[item]
    BY <2>3 DEF Moving
  <2>5. HalfOK(t.old) /\ HalfOK(t.new) /\ t.new.count # 0
    BY DEF Moving, MigrationRunning
  <2>6. ~HasKey(t.new, ItemKey[item])
    BY <2>2, <2>4, <2>5, HasKeyIs
  <2>7. u = [scaleAtSize |-> t.scaleAtSize, migrationPos |-> t.migrationPos,
             old |-> old, new |-> new]
    BY <1>5, <2>6 DEF MigrateSlot, MovedInto
  <2>8. /\ HalfOK(old) /\ old.count = t.old.count /\ old.bytes = t.old.bytes
        /\ old.size = t.old.size - 1
        /\ Contents(old) = Contents(t.old) \ {item}
        /\ \A e \in 0..t.old.count - 1 : e # b => old.buckets[e] = t.old.buckets[e]
        /\ DOMAIN old.buckets[b] = DOMAIN c /\ old.buckets[b][n + 1] = gone
        /\ \A i \in DOMAIN c \ {n + 1} : old.buckets[b][i] = c[i]
    <3> HIDE DEF gone
    <3> QED BY <1>1, <1>5, <2>1, <2>5, EmptiedIs
  <2>9. /\ HalfOK(new) /\ new.count = t.new.count /\ new.bytes = t.new.bytes
        /\ new.size = t.new.size + 1
        /\ Contents(new) = Contents(t.new) \cup {item}
        /\ \A e \in 0..t.new.count - 1 : Clean(t.new.buckets[e]) => Clean(new.buckets[e])
    <3>1. /\ HalfOK(new) /\ new.count = t.new.count /\ new.bytes = t.new.bytes
          /\ new.size = IF \E x \in Contents(t.new) : ItemKey[x] = ItemKey[item]
                        THEN t.new.size ELSE t.new.size + 1
          /\ Contents(new) = {x \in Contents(t.new) : ItemKey[x] # ItemKey[item]} \cup {item}
          /\ \A e \in 0..t.new.count - 1 :
                e # BucketIndex(t.new, ItemKey[item]) => new.buckets[e] = t.new.buckets[e]
          /\ Clean(t.new.buckets[BucketIndex(t.new, ItemKey[item])])
                => Clean(new.buckets[BucketIndex(t.new, ItemKey[item])])
      <4> HIDE DEF item
      <4> QED BY <2>2, <2>5, SetHalfIs
    <3> HIDE DEF new
    <3> QED BY <2>4, <3>1
  <2> HIDE DEF old, new, gone, item
  <2>10. /\ u.scaleAtSize = t.scaleAtSize /\ u.migrationPos = t.migrationPos
         /\ u.old = old /\ u.new = new
         /\ u \in [scaleAtSize : Nat, migrationPos : Nat, old : {u.old}, new : {u.new}]
    BY <2>7 DEF Moving
  <2>11. \A key : BucketIndex(u.old, key) = BucketIndex(t.old, key)
    BY <2>8, <2>10 DEF BucketIndex
  <2>12. \A x \in Contents(u.old) : BucketIndex(u.old, ItemKey[x]) >= u.migrationPos
    BY <2>8, <2>10, <2>11 DEF Moving
  <2>13. \A x \in Contents(u.new) : BucketIndex(u.old, ItemKey[x]) <= u.migrationPos
    BY <1>1, <2>3, <2>9, <2>10, <2>11 DEF Moving
  <2>14. \A x \in Contents(u.old), y \in Contents(u.new) : ItemKey[x] # ItemKey[y]
    <3>1. \A x \in Contents(t.old) : ItemKey[x] = ItemKey[item] => x = item
      BY <1>1, <2>3, <2>5, OneItemPerKey
    <3> QED BY <2>8, <2>9, <2>10, <3>1 DEF Moving
  <2>15. \A e \in 0..u.old.count - 1 :
            /\ e < u.migrationPos => Len(u.old.buckets[e]) = BucketSlots
            /\ e > u.migrationPos => Clean(u.old.buckets[e])
    BY <1>1, <2>8, <2>10 DEF Moving
  <2>16. \A i \in DOMAIN u.old.buckets[u.migrationPos] :
            i <= n + 1 => ~u.old.buckets[u.migrationPos][i].busy
    BY <1>3, <2>1, <2>8, <2>10 DEF Moving
  <2>17. \A e \in 0..u.new.count - 1 : Clean(u.new.buckets[e])
    BY <2>9, <2>10 DEF Moving
  <2>18. MigrationRunning(u) /\ u.migrationPos < u.old.count
    BY <2>8, <2>9, <2>10 DEF Moving, MigrationRunning
  <2>19. Moving(u, n + 1)
    BY <2>8, <2>9, <2>10, <2>12, <2>13, <2>14, <2>15, <2>16, <2>17, <2>18 DEF Moving
  <2>20. SameButMoved(t, u)
    <3>1. t.old.size \in Nat /\ t.new.size \in Nat
      BY <2>5 DEF HalfOK, Half
    <3>2. Items(u) = Items(t)
      BY <2>3, <2>8, <2>9, <2>10 DEF Items
    <3> QED BY <2>8, <2>9, <2>10, <3>1, <3>2 DEF SameButMoved, HashtableLen
  <2> QED BY <2>8, <2>10, <2>19, <2>20
<1> QED BY <1>4, <1>5

\* Moving all slots of the bucket, by induction on their number.
LEMMA SlotsMove ==
    ASSUME NEW t, Moving(t, 0), NEW b, b = t.migrationPos,
           NEW len, len = Len(t.old.buckets[b]), NEW f, MigratedTo(t, b, f, len)
    PROVE  /\ len \in Nat
           /\ Moving(f[len], len) /\ SameButMoved(t, f[len])
           /\ DOMAIN f[len].old.buckets[b] = 1..len
<1>1. b \in 0..t.old.count - 1
  BY DEF Moving, HalfOK
<1>2. DOMAIN t.old.buckets[b] = 1..len /\ len \in Nat
  BY <1>1, ChainIsSeq DEF Moving, HalfOK, WellTagged
<1> DEFINE Done == {n \in Nat : n <= len =>
                        /\ Moving(f[n], n) /\ SameButMoved(t, f[n])
                        /\ DOMAIN f[n].old.buckets[b] = 1..len}
<1>3. 0 \in Done
  <2>1. f[0] = t
    BY <1>2 DEF MigratedTo
  <2> QED BY <1>2, <2>1 DEF SameButMoved
<1>4. ASSUME NEW n \in Done PROVE n + 1 \in Done
  <2> SUFFICES ASSUME n + 1 <= len
               PROVE  /\ Moving(f[n + 1], n + 1) /\ SameButMoved(t, f[n + 1])
                      /\ DOMAIN f[n + 1].old.buckets[b] = 1..len
    OBVIOUS
  <2>1. /\ n \in Nat /\ n <= len
        /\ Moving(f[n], n) /\ SameButMoved(t, f[n]) /\ DOMAIN f[n].old.buckets[b] = 1..len
    BY <1>2
  <2>2. f[n + 1] = MigrateSlot(f[n], b, n + 1)
    <3>1. n + 1 \in 0..len /\ n + 1 # 0 /\ (n + 1) - 1 = n
      BY <1>2, <2>1
    <3> QED BY <3>1 DEF MigratedTo
  <2>3. b = f[n].migrationPos /\ n + 1 \in DOMAIN f[n].old.buckets[b]
    BY <1>2, <2>1 DEF SameButMoved
  <2>4. /\ Moving(f[n + 1], n + 1) /\ SameButMoved(f[n], f[n + 1])
        /\ DOMAIN f[n + 1].old.buckets[b] = DOMAIN f[n].old.buckets[b]
    <3> DEFINE v == f[n]
               w == f[n + 1]
    <3>1. n \in Nat /\ Moving(v, n) /\ b = v.migrationPos /\ n + 1 \in DOMAIN v.old.buckets[b]
          /\ w = MigrateSlot(v, b, n + 1)
      BY <2>1, <2>2, <2>3
    <3> HIDE DEF v, w, Done
    <3>2. /\ Moving(w, n + 1) /\ SameButMoved(v, w)
          /\ DOMAIN w.old.buckets[b] = DOMAIN v.old.buckets[b]
      BY <3>1, SlotMoves
    <3> QED BY <3>2 DEF v, w
  <2> QED BY <2>1, <2>4 DEF SameButMoved
<1>5. Done = Nat
  <2> HIDE DEF Done
  <2>1. Done \in SUBSET Nat
    BY DEF Done
  <2> QED BY <1>3, <1>4, <2>1, Induction
<1> QED BY <1>2, <1>5

\* After the move, with its chain freed, the bucket is one of the moved ones.
LEMMA BucketMoves ==
    ASSUME NEW t, TableOK(t), MigrationRunning(t),
           NEW b, b = t.migrationPos, NEW u, u = MigrateBucket(t, b)
    PROVE  /\ SameButMoved(t, u)
           /\ u \in [scaleAtSize : Nat, migrationPos : Nat, old : {u.old}, new : {u.new}]
           /\ HalfOK(u.old) /\ HalfOK(u.new)
           /\ b \in 0..u.old.count - 1
           /\ \A x \in Contents(u.old) : BucketIndex(u.old, ItemKey[x]) > b
           /\ \A x \in Contents(u.new) : BucketIndex(u.old, ItemKey[x]) <= b
           /\ \A e \in 0..u.old.count - 1 :
                IF e <= b THEN Len(u.old.buckets[e]) = BucketSlots ELSE Clean(u.old.buckets[e])
           /\ \A e \in 0..u.new.count - 1 : Clean(u.new.buckets[e])
<1>1. Moving(t, 0)
  BY MoveStarts
<1>2. b \in 0..t.old.count - 1 /\ t.old.buckets[b] \in Chain
  <2>1. t.migrationPos \in Nat /\ t.old.count \in Nat /\ t.migrationPos < t.old.count
    BY <1>1 DEF Moving, HalfOK
  <2>2. b \in 0..t.old.count - 1
    BY <2>1
  <2> QED BY <1>1, <2>2 DEF Moving, HalfOK, WellTagged
<1> DEFINE len == Len(t.old.buckets[b])
<1>3. len \in Nat
  BY <1>2, ChainIsSeq
<1>4. PICK f : MigratedTo(t, b, f, len) /\ u = Unchained(f[len], b)
  BY <1>3, MigrateBucketIs
<1> DEFINE m == f[len]
           c == m.old.buckets[b]
           d == SubSeq(c, 1, BucketSlots)
<1>5. Moving(m, len) /\ SameButMoved(t, m) /\ DOMAIN c = 1..len
  <2> HIDE DEF len
  <2> QED BY <1>1, <1>4, SlotsMove DEF len
<1>6. u = [m EXCEPT !.old = WithChain(m.old, b, d, m.old.size)]
  BY <1>4 DEF Unchained
<1> HIDE DEF m, len
<1>7. b \in 0..m.old.count - 1 /\ b = m.migrationPos /\ b \in Nat
  BY <1>2, <1>5 DEF SameButMoved
<1>8. WellTagged(c) /\ c \in Chain /\ \A i \in DOMAIN c : ~c[i].busy
  <2>1. WellTagged(c) /\ c \in Chain
    BY <1>5, <1>7 DEF Moving, HalfOK, WellTagged
  <2>2. DOMAIN c = 1..len /\ \A i \in DOMAIN c : i <= len => ~c[i].busy
    BY <1>5, <1>7 DEF Moving
  <2>3. \A i \in 1..len : i <= len
    BY <1>3
  <2> QED BY <2>1, <2>2, <2>3
<1>9. /\ c \in Seq(Slot) /\ Len(c) \in Nat /\ DOMAIN c = 1..Len(c)
      /\ \A i \in DOMAIN c : c[i] \in Slot
      /\ BucketSlots <= Len(c) /\ BucketSlots \in Nat \ {0}
  BY <1>8, ChainIsSeq
<1>10. /\ d \in Seq(Slot) /\ Len(d) = BucketSlots
       /\ \A i \in 1..BucketSlots : d[i] = c[i]
  <2>1. \A i \in 1..BucketSlots : i \in DOMAIN c
    BY <1>9
  <2>2. \A i \in 1..BucketSlots : c[i] \in Slot
    BY <1>9, <2>1
  <2> HIDE DEF c
  <2> QED BY <1>9, <2>2, SubSeqProperties
<1>11. DOMAIN d = 1..BucketSlots
  BY <1>10, LenProperties
<1>12. \A i \in DOMAIN d : ~d[i].busy
  BY <1>8, <1>9, <1>10, <1>11
<1>13. d \in Chain
  <2>1. 1 \in 1..Len(d) /\ Len(d) = 1 * BucketSlots
    BY <1>9, <1>10
  <2> QED BY <1>10, <2>1 DEF Chain
<1>14. WellTagged(d) /\ OncePerKey(d)
  BY <1>12, <1>13 DEF WellTagged, OncePerKey
<1> HIDE DEF d
<1>15. HalfOK(m.old) /\ HalfOK(m.new) /\ m.old.count \in Nat /\ m.old \in Half(m.old.count)
       /\ m.old.size \in Nat
  BY <1>5 DEF Moving, HalfOK, Half
<1>16. /\ u.old = WithChain(m.old, b, d, m.old.size) /\ u.new = m.new
       /\ u.scaleAtSize = m.scaleAtSize /\ u.migrationPos = m.migrationPos
       /\ u \in [scaleAtSize : Nat, migrationPos : Nat, old : {u.old}, new : {u.new}]
  BY <1>5, <1>6 DEF Moving
<1>17. /\ u.old \in Half(u.old.count) /\ u.old.count = m.old.count
       /\ u.old.bytes = m.old.bytes /\ u.old.size = m.old.size
       /\ u.old.buckets[b] = d
       /\ \A e \in 0..m.old.count - 1 : e # b => u.old.buckets[e] = m.old.buckets[e]
       /\ \A key : BucketIndex(u.old, key) = BucketIndex(m.old, key)
  BY <1>7, <1>13, <1>15, <1>16, WithChainIs
<1>18. BusySlots(u.old) = BusySlots(m.old)
  <2>1. ASSUME NEW e, NEW i, <<e, i>> \in BusySlots(u.old)
        PROVE  <<e, i>> \in BusySlots(m.old)
    BY <1>12, <1>17, <2>1, BusySlotsAre
  <2>2. ASSUME NEW e, NEW i, <<e, i>> \in BusySlots(m.old)
        PROVE  <<e, i>> \in BusySlots(u.old)
    BY <1>8, <1>17, <2>2, BusySlotsAre
  <2>3. ASSUME NEW p PROVE p \in BusySlots(u.old) <=> p \in BusySlots(m.old)
    BY <2>1, <2>2, BusySlotsAre
  <2> QED BY <2>3
<1>19. Contents(u.old) = Contents(m.old)
  <2>1. \A p \in BusySlots(m.old) : SlotAt(u.old, p) = SlotAt(m.old, p)
    <3>1. \A e, i : <<e, i>> \in BusySlots(m.old) => SlotAt(u.old, <<e, i>>) = SlotAt(m.old, <<e, i>>)
      BY <1>8, <1>17, BusySlotsAre DEF SlotAt
    <3> QED BY <3>1, BusySlotsAre
  <2> QED BY <1>18, <2>1 DEF Contents
<1>20. HalfOK(u.old)
  <2>1. ASSUME NEW e \in 0..u.old.count - 1
        PROVE  /\ WellTagged(u.old.buckets[e]) /\ OncePerKey(u.old.buckets[e])
               /\ \A i \in DOMAIN u.old.buckets[e] :
                    u.old.buckets[e][i].busy => e = BucketIndex(u.old, ItemKey[u.old.buckets[e][i].item])
    <3>1. CASE e = b
      BY <1>12, <1>14, <1>17, <3>1
    <3>2. CASE e # b
      BY <1>15, <1>17, <3>2 DEF HalfOK
    <3> QED BY <3>1, <3>2
  <2>2. IsFiniteSet(BusySlots(u.old)) /\ u.old.size = Cardinality(BusySlots(u.old))
    BY <1>15, <1>17, <1>18 DEF HalfOK
  <2> QED BY <1>15, <1>17, <2>1, <2>2 DEF HalfOK
<1>21. \A x \in Contents(m.old) : BucketIndex(m.old, ItemKey[x]) # b
  <2> SUFFICES ASSUME NEW x \in Contents(m.old), BucketIndex(m.old, ItemKey[x]) = b PROVE FALSE
    OBVIOUS
  <2>1. PICK e \in 0..m.old.count - 1 : \E i \in DOMAIN m.old.buckets[e] :
            m.old.buckets[e][i].busy /\ m.old.buckets[e][i].item = x
    BY ContentsAre
  <2>2. PICK i \in DOMAIN m.old.buckets[e] : m.old.buckets[e][i].busy /\ m.old.buckets[e][i].item = x
    BY <2>1
  <2>3. e = b
    BY <1>15, <2>2 DEF HalfOK
  <2> QED BY <1>8, <2>2, <2>3
<1>22. \A x \in Contents(u.old) : BucketIndex(u.old, ItemKey[x]) > b
  <2> SUFFICES ASSUME NEW x \in Contents(m.old) PROVE BucketIndex(m.old, ItemKey[x]) > b
    BY <1>17, <1>19
  <2>1. ItemKey[x] \in Key /\ m.old.count # 0
    BY <1>7, <1>15, ContentsAreItems
  <2>2. BucketIndex(m.old, ItemKey[x]) \in Nat
    BY <1>15, <2>1, IndexIs
  <2>3. BucketIndex(m.old, ItemKey[x]) >= b
    BY <1>5, <1>7 DEF Moving
  <2> QED BY <1>7, <1>21, <2>2, <2>3
<1>23. \A x \in Contents(u.new) : BucketIndex(u.old, ItemKey[x]) <= b
  BY <1>5, <1>7, <1>16, <1>17 DEF Moving
<1>24. ASSUME NEW e \in 0..u.old.count - 1
       PROVE  IF e <= b THEN Len(u.old.buckets[e]) = BucketSlots ELSE Clean(u.old.buckets[e])
  <2>1. CASE e = b
    BY <1>7, <1>10, <1>17, <2>1
  <2>2. CASE e # b
    BY <1>5, <1>7, <1>17, <2>2 DEF Moving
  <2> QED BY <2>1, <2>2
<1>25. \A e \in 0..u.new.count - 1 : Clean(u.new.buckets[e])
  BY <1>5, <1>16 DEF Moving
<1>26. SameButMoved(t, u)
  BY <1>5, <1>16, <1>17, <1>19 DEF SameButMoved, Items, HashtableLen
<1> QED BY <1>7, <1>15, <1>16, <1>17, <1>20, <1>22, <1>23, <1>24, <1>25, <1>26

\* A write moves a bucket and, with the last one, changes arrays: the table
\* keeps its items and their number.
LEMMA StepIs ==
    ASSUME NEW t, TableOK(t), MigrationRunning(t), NEW u, u = ProcessMigrationStep(t)
    PROVE  /\ TableOK(u) /\ Items(u) = Items(t) /\ HashtableLen(u) = HashtableLen(t)
           /\ IF FinishesMigration(t)
              THEN /\ ~MigrationRunning(u) /\ u.old.count = t.new.count
                   /\ u.scaleAtSize = ScaleAt(u.old.count)
              ELSE /\ MigrationRunning(u) /\ u.migrationPos = t.migrationPos + 1
                   /\ u.old.count = t.old.count /\ u.new.count = t.new.count
                   /\ u.scaleAtSize = t.scaleAtSize
<1> DEFINE b == t.migrationPos
           m == MigrateBucket(t, b)
           p == [m EXCEPT !.migrationPos = @ + 1]
<1>1. /\ SameButMoved(t, m)
      /\ m \in [scaleAtSize : Nat, migrationPos : Nat, old : {m.old}, new : {m.new}]
      /\ HalfOK(m.old) /\ HalfOK(m.new)
      /\ b \in 0..m.old.count - 1
      /\ \A x \in Contents(m.old) : BucketIndex(m.old, ItemKey[x]) > b
      /\ \A x \in Contents(m.new) : BucketIndex(m.old, ItemKey[x]) <= b
      /\ \A e \in 0..m.old.count - 1 :
            IF e <= b THEN Len(m.old.buckets[e]) = BucketSlots ELSE Clean(m.old.buckets[e])
      /\ \A e \in 0..m.new.count - 1 : Clean(m.new.buckets[e])
  BY BucketMoves
<1>2. u = IF b + 1 = t.old.count THEN FinishMigration(p) ELSE p
  <2>1. m.migrationPos = b /\ m.old.count = t.old.count
    BY <1>1 DEF SameButMoved
  <2> HIDE DEF m
  <2> QED BY <2>1 DEF ProcessMigrationStep, Advanced, m
<1>3. FinishesMigration(t) <=> b + 1 = t.old.count
  BY DEF FinishesMigration
<1> HIDE DEF m
<1>4. /\ p.scaleAtSize = m.scaleAtSize /\ p.migrationPos = b + 1
      /\ p.old = m.old /\ p.new = m.new
      /\ p \in [scaleAtSize : Nat, migrationPos : Nat, old : {p.old}, new : {p.new}]
  BY <1>1 DEF SameButMoved
<1> HIDE DEF p, b
<1>5. /\ m.old.count = t.old.count /\ m.new.count = t.new.count /\ m.scaleAtSize = t.scaleAtSize
      /\ Items(m) = Items(t) /\ HashtableLen(m) = HashtableLen(t)
  BY <1>1 DEF SameButMoved
<1>6. /\ m.old.count \in Nat /\ b \in Nat /\ t.new.count \in Nat /\ t.new.count # 0
      /\ m.old.bytes \in Nat /\ m.new.bytes \in Nat /\ m.old.size \in Nat /\ m.new.size \in Nat
  BY <1>1, <1>5 DEF HalfOK, Half, MigrationRunning
<1>7. \A x \in Contents(m.old) : BucketIndex(m.old, ItemKey[x]) \in 0..m.old.count - 1
  <2> SUFFICES ASSUME NEW x \in Contents(m.old)
               PROVE  BucketIndex(m.old, ItemKey[x]) \in 0..m.old.count - 1
    OBVIOUS
  <2>1. ItemKey[x] \in Key
    BY <1>1, ContentsAreItems
  <2> QED BY <1>1, <1>6, <2>1, IndexIs
<1>8. CASE b + 1 # t.old.count
  <2>1. u = p
    BY <1>2, <1>8
  <2>2. b + 1 < m.old.count
    BY <1>1, <1>5, <1>6, <1>8
  <2>3. \A x \in Contents(u.old) : BucketIndex(u.old, ItemKey[x]) >= u.migrationPos
    BY <1>1, <1>4, <1>6, <1>7, <2>1
  <2>4. \A x \in Contents(u.new) : BucketIndex(u.old, ItemKey[x]) < u.migrationPos
    <3> SUFFICES ASSUME NEW x \in Contents(m.new) PROVE BucketIndex(m.old, ItemKey[x]) < b + 1
      BY <1>4, <2>1
    <3>1. ItemKey[x] \in Key
      BY <1>1, ContentsAreItems
    <3>2. BucketIndex(m.old, ItemKey[x]) \in Nat
      BY <1>1, <1>6, <3>1, IndexIs
    <3> QED BY <1>1, <1>6, <3>2
  <2>5. \A e \in 0..u.old.count - 1 :
            IF e < u.migrationPos THEN Len(u.old.buckets[e]) = BucketSlots ELSE Clean(u.old.buckets[e])
    BY <1>1, <1>4, <1>6, <2>1
  <2>6. MigrationRunning(u) /\ u.migrationPos < u.old.count
    BY <1>4, <1>5, <1>6, <2>1, <2>2 DEF MigrationRunning
  <2>7. TableOK(u)
    BY <1>1, <1>4, <1>6, <2>1, <2>3, <2>4, <2>5, <2>6 DEF TableOK
  <2>8. Items(u) = Items(t) /\ HashtableLen(u) = HashtableLen(t)
    BY <1>4, <1>5, <2>1 DEF Items, HashtableLen
  <2> QED BY <1>3, <1>4, <1>5, <1>8, <2>1, <2>6, <2>7, <2>8 DEF b
<1>9. CASE b + 1 = t.old.count
  <2> DEFINE old == [p.new EXCEPT !.bytes = p.old.bytes]
             new == [NoHalf EXCEPT !.bytes = p.new.bytes]
  <2>1. u = [scaleAtSize |-> ScaleAt(p.new.count), migrationPos |-> 0, old |-> old, new |-> new]
    BY <1>2, <1>9 DEF FinishMigration
  <2>2. /\ HalfOK(old) /\ Contents(old) = Contents(m.new)
        /\ old.size = m.new.size /\ old.count = m.new.count /\ old.buckets = m.new.buckets
    BY <1>1, <1>4, <1>6, BytesDoNotMatter
  <2>3. HalfOK(new) /\ Contents(new) = {} /\ new.count = 0 /\ new.size = 0
    BY <1>4, <1>6, NoHalfIs
  <2> HIDE DEF old, new
  <2>4. Contents(m.old) = {}
    <3> SUFFICES ASSUME NEW x \in Contents(m.old) PROVE FALSE
      OBVIOUS
    <3> QED BY <1>1, <1>5, <1>6, <1>7, <1>9
  <2>5. m.old.size = 0
    <3>1. BusySlots(m.old) = {}
      BY <2>4 DEF Contents
    <3> QED BY <1>1, <3>1, FS_EmptySet DEF HalfOK
  <2>6. ScaleAt(p.new.count) \in Nat
    <3>1. t.new.count * BucketSlots \in Nat
      BY <1>6, SizeAssumption
    <3>2. (t.new.count * BucketSlots * 6) \div 8 \in Nat
      BY <3>1
    <3> QED BY <1>4, <1>5, <3>2 DEF ScaleAt
  <2>7. /\ u.old = old /\ u.new = new /\ u.migrationPos = 0 /\ u.scaleAtSize = ScaleAt(p.new.count)
        /\ u \in [scaleAtSize : Nat, migrationPos : Nat, old : {u.old}, new : {u.new}]
    BY <2>1, <2>6
  <2>8. \A x \in Contents(u.old) : BucketIndex(u.old, ItemKey[x]) >= u.migrationPos
    <3> SUFFICES ASSUME NEW x \in Contents(old) PROVE BucketIndex(old, ItemKey[x]) >= 0
      BY <2>7
    <3>1. ItemKey[x] \in Key
      BY <2>2, ContentsAreItems
    <3> QED BY <1>5, <1>6, <2>2, <3>1, IndexIs
  <2>9. ~MigrationRunning(u)
    BY <2>3, <2>7 DEF MigrationRunning
  <2>10. \A e \in 0..u.old.count - 1 :
            IF e < u.migrationPos THEN Len(u.old.buckets[e]) = BucketSlots ELSE Clean(u.old.buckets[e])
    BY <1>1, <2>2, <2>7
  <2>11. TableOK(u)
    BY <1>5, <1>6, <2>2, <2>3, <2>7, <2>8, <2>9, <2>10 DEF TableOK
  <2>12. Items(u) = Items(t)
    BY <1>5, <2>2, <2>3, <2>4, <2>7 DEF Items
  <2>13. HashtableLen(u) = HashtableLen(t)
    BY <1>5, <1>6, <2>2, <2>3, <2>5, <2>7 DEF HashtableLen
  <2> QED BY <1>3, <1>4, <1>5, <1>9, <2>2, <2>7, <2>9, <2>11, <2>12, <2>13
<1> QED BY <1>8, <1>9

\* So does the maintenance of any write.
LEMMA MaintenanceIs ==
    ASSUME NEW t, TableOK(t), NEW u, u = Maintenance(t)
    PROVE  /\ TableOK(u) /\ Items(u) = Items(t) /\ HashtableLen(u) = HashtableLen(t)
BY StepIs DEF Maintenance

\* Starting a migration changes no item either.
LEMMA PreparedIs ==
    ASSUME NEW t, TableOK(t), NEW key \in Key, NEW ok, NEW u, u = Prepared(t, key, ok)
    PROVE  TableOK(u) /\ Items(u) = Items(t) /\ HashtableLen(u) = HashtableLen(t)
<1>1. CASE u = t
  BY <1>1
<1>2. CASE u # t
  <2>1. /\ ~MigrationRunning(t) /\ ~(t.old.size < t.scaleAtSize)
        /\ u = [t EXCEPT !.new = NewHalf(2 * t.old.count)]
    BY <1>2 DEF Prepared, CheckInitMigration
  <2>2. /\ t.old.count \in Nat /\ 2 * t.old.count \in Nat /\ t.old.count # 0
        /\ t.old.size \in Nat /\ t.scaleAtSize \in Nat /\ t.migrationPos = 0 /\ t.new.count = 0
        /\ t.new.size \in Nat
    BY <2>1 DEF TableOK, HalfOK, Half, MigrationRunning
  <2> DEFINE new == NewHalf(2 * t.old.count)
  <2>3. /\ HalfOK(new) /\ Contents(new) = {} /\ new.count = 2 * t.old.count /\ new.size = 0
        /\ \A e \in 0..new.count - 1 : Clean(new.buckets[e])
    BY <2>2, NewHalfIs
  <2> HIDE DEF new
  <2>4. /\ u.new = new /\ u.old = t.old /\ u.migrationPos = 0 /\ u.scaleAtSize = t.scaleAtSize
        /\ u \in [scaleAtSize : Nat, migrationPos : Nat, old : {u.old}, new : {u.new}]
    BY <2>1, <2>2 DEF TableOK, new
  <2>5. MigrationRunning(u) /\ u.migrationPos < u.old.count
    BY <2>2, <2>3, <2>4 DEF MigrationRunning
  <2>6. TableOK(u)
    BY <2>2, <2>3, <2>4, <2>5 DEF TableOK
  <2>7. Contents(t.new) = {}
    <3>1. BusySlots(t.new) = {}
      BY <2>2, BusySlotsAre
    <3> QED BY <3>1 DEF Contents
  <2>8. t.new.size = 0
    <3>1. BusySlots(t.new) = {}
      BY <2>7 DEF Contents
    <3> QED BY <3>1, FS_EmptySet DEF TableOK, HalfOK
  <2>9. Items(u) = Items(t) /\ HashtableLen(u) = HashtableLen(t)
    BY <2>2, <2>3, <2>4, <2>7, <2>8 DEF Items, HashtableLen
  <2> QED BY <2>1, <2>2, <2>3, <2>4, <2>5, <2>6, <2>9
<1> QED BY <1>1, <1>2

-----------------------------------------------------------------------------
(***************************************************************************)
(* The public operations.                                                  *)
(***************************************************************************)

\* The routing rule is where a key lives: the half it is not routed to has no
\* item of it.
LEMMA WhereKeyIs ==
    ASSUME NEW t, TableOK(t), NEW key \in Key
    PROVE  /\ t.old.count # 0 /\ HalfOK(t.old) /\ HalfOK(t.new)
           /\ BucketIndex(t.old, key) \in 0..t.old.count - 1
           /\ IF ItemInNewBucket(t, key)
              THEN /\ t.new.count # 0 /\ BucketIndex(t.old, key) < t.migrationPos
                   /\ \A x \in Contents(t.old) : ItemKey[x] # key
              ELSE /\ BucketIndex(t.old, key) >= t.migrationPos
                   /\ \A x \in Contents(t.new) : ItemKey[x] # key
<1>1. t.old.count # 0 /\ HalfOK(t.old) /\ HalfOK(t.new) /\ t.migrationPos \in Nat
  BY DEF TableOK
<1>2. BucketIndex(t.old, key) \in 0..t.old.count - 1 /\ BucketIndex(t.old, key) \in Nat
  BY <1>1, IndexIs
<1>3. CASE ItemInNewBucket(t, key)
  <2>1. t.new.count # 0 /\ BucketIndex(t.old, key) < t.migrationPos
    BY <1>3 DEF ItemInNewBucket, MigrationRunning
  <2>2. \A x \in Contents(t.old) : ItemKey[x] # key
    BY <1>1, <1>2, <2>1 DEF TableOK
  <2> QED BY <1>1, <1>2, <1>3, <2>1, <2>2
<1>4. CASE ~ItemInNewBucket(t, key)
  <2>1. BucketIndex(t.old, key) >= t.migrationPos
    BY <1>1, <1>2, <1>4 DEF ItemInNewBucket, TableOK
  <2>2. \A x \in Contents(t.new) : ItemKey[x] # key
    BY <1>1, <1>2, <2>1 DEF TableOK
  <2> QED BY <1>1, <1>2, <1>4, <2>1, <2>2
<1> QED BY <1>3, <1>4

\* The items of a table are items.
LEMMA ItemsAreItems ==
    ASSUME NEW t, TableOK(t)
    PROVE  \A x \in Items(t) : x \in Item /\ ItemKey[x] \in Key
BY ContentsAreItems DEF Items, TableOK

\* A table has one item of a key at most, over both halves.
LEMMA OneItemOfKey ==
    ASSUME NEW t, TableOK(t), NEW x \in Items(t), NEW y \in Items(t), ItemKey[x] = ItemKey[y]
    PROVE  x = y
<1> DEFINE key == ItemKey[x]
<1>1. key \in Key
  BY ItemsAreItems
<1> HIDE DEF key
<1>2. CASE ItemInNewBucket(t, key)
  <2>1. x \in Contents(t.new) /\ y \in Contents(t.new)
    BY <1>1, <1>2, WhereKeyIs DEF Items, key
  <2> QED BY <1>1, <1>2, <2>1, WhereKeyIs, OneItemPerKey
<1>3. CASE ~ItemInNewBucket(t, key)
  <2>1. x \in Contents(t.old) /\ y \in Contents(t.old)
    BY <1>1, <1>3, WhereKeyIs DEF Items, key
  <2> QED BY <1>1, <2>1, WhereKeyIs, OneItemPerKey
<1> QED BY <1>2, <1>3

\* u is t after a call on the slot of one key.
SameShape(t, u) ==
    /\ u.scaleAtSize = t.scaleAtSize /\ u.migrationPos = t.migrationPos
    /\ u.old.count = t.old.count /\ u.new.count = t.new.count
    /\ u.old.bytes = t.old.bytes /\ u.new.bytes = t.new.bytes

\* Whether one of the items has the key.
Has(items, key) == \E x \in items : ItemKey[x] = key

\* The items of the other keys.
Others(items, key) == {x \in items : ItemKey[x] # key}

\* The old half, changed at the slot of one key, put back into its table.
LEMMA OldChanged ==
    ASSUME NEW t, TableOK(t), NEW key \in Key, ~ItemInNewBucket(t, key),
           NEW h, HalfOK(h), h.count = t.old.count, h.bytes = t.old.bytes,
           NEW added \in SUBSET Item, \A x \in added : ItemKey[x] = key,
           Contents(h) = Others(Contents(t.old), key) \cup added,
           \A b \in 0..t.old.count - 1 :
                b # BucketIndex(t.old, key) => h.buckets[b] = t.old.buckets[b],
           Clean(t.old.buckets[BucketIndex(t.old, key)]) => Clean(h.buckets[BucketIndex(t.old, key)]),
           NEW u, u = [t EXCEPT !.old = h]
    PROVE  TableOK(u) /\ SameShape(t, u) /\ Items(u) = Others(Items(t), key) \cup added
           /\ u.old = h /\ u.new = t.new
<1> DEFINE b == BucketIndex(t.old, key)
<1>1. /\ b \in 0..t.old.count - 1 /\ b >= t.migrationPos
      /\ \A x \in Contents(t.new) : ItemKey[x] # key
      /\ t.old.count # 0 /\ HalfOK(t.new) /\ t.migrationPos \in Nat
  BY WhereKeyIs DEF TableOK
<1>2. /\ u.old = h /\ u.new = t.new /\ u.scaleAtSize = t.scaleAtSize /\ u.migrationPos = t.migrationPos
      /\ u \in [scaleAtSize : Nat, migrationPos : Nat, old : {u.old}, new : {u.new}]
  BY DEF TableOK
<1>3. \A k : BucketIndex(u.old, k) = BucketIndex(t.old, k)
  BY <1>2 DEF BucketIndex
<1>4. \A x \in Contents(u.old) : BucketIndex(u.old, ItemKey[x]) >= u.migrationPos
  BY <1>1, <1>2, <1>3 DEF TableOK, Others
<1>5. \A x \in Contents(u.new) : BucketIndex(u.old, ItemKey[x]) < u.migrationPos
  BY <1>2, <1>3 DEF TableOK
<1>6. \A e \in 0..u.old.count - 1 :
        IF e < u.migrationPos THEN Len(u.old.buckets[e]) = BucketSlots ELSE Clean(u.old.buckets[e])
  <2> SUFFICES ASSUME NEW e \in 0..t.old.count - 1
               PROVE  IF e < t.migrationPos THEN Len(h.buckets[e]) = BucketSlots ELSE Clean(h.buckets[e])
    BY <1>2
  <2>1. t.old.count \in Nat
    BY DEF TableOK, HalfOK
  <2>2. CASE e = b
    BY <1>1, <2>1, <2>2 DEF TableOK
  <2>3. CASE e # b
    BY <2>3 DEF TableOK
  <2> QED BY <2>2, <2>3
<1>7. TableOK(u)
  BY <1>1, <1>2, <1>4, <1>5, <1>6 DEF TableOK, MigrationRunning
<1>8. Items(u) = Others(Items(t), key) \cup added
  BY <1>1, <1>2 DEF Items, Others
<1> QED BY <1>2, <1>7, <1>8 DEF SameShape

\* The same of the new half.
LEMMA NewChanged ==
    ASSUME NEW t, TableOK(t), NEW key \in Key, ItemInNewBucket(t, key),
           NEW h, HalfOK(h), h.count = t.new.count, h.bytes = t.new.bytes,
           NEW added \in SUBSET Item, \A x \in added : ItemKey[x] = key,
           Contents(h) = Others(Contents(t.new), key) \cup added,
           \A b \in 0..t.new.count - 1 :
                b # BucketIndex(t.new, key) => h.buckets[b] = t.new.buckets[b],
           Clean(t.new.buckets[BucketIndex(t.new, key)]) => Clean(h.buckets[BucketIndex(t.new, key)]),
           NEW u, u = [t EXCEPT !.new = h]
    PROVE  TableOK(u) /\ SameShape(t, u) /\ Items(u) = Others(Items(t), key) \cup added
           /\ u.old = t.old /\ u.new = h
<1>1. /\ BucketIndex(t.old, key) < t.migrationPos
      /\ \A x \in Contents(t.old) : ItemKey[x] # key
      /\ t.new.count # 0 /\ HalfOK(t.new) /\ HalfOK(t.old)
  BY WhereKeyIs
<1>2. /\ u.old = t.old /\ u.new = h /\ u.scaleAtSize = t.scaleAtSize /\ u.migrationPos = t.migrationPos
      /\ u \in [scaleAtSize : Nat, migrationPos : Nat, old : {u.old}, new : {u.new}]
  BY DEF TableOK
<1>3. \A x \in Contents(u.new) : BucketIndex(u.old, ItemKey[x]) < u.migrationPos
  BY <1>1, <1>2 DEF TableOK, Others
<1>4. BucketIndex(t.new, key) \in 0..t.new.count - 1
  BY <1>1, IndexIs
<1>5. \A e \in 0..u.new.count - 1 : Clean(u.new.buckets[e])
  BY <1>2, <1>4 DEF TableOK
<1>6. TableOK(u)
  BY <1>1, <1>2, <1>3, <1>5 DEF TableOK, MigrationRunning
<1>7. Items(u) = Others(Items(t), key) \cup added
  BY <1>1, <1>2 DEF Items, Others
<1> QED BY <1>2, <1>6, <1>7 DEF SameShape

\* hashtable_set and its caller's store: the item of the key is replaced, the
\* length counts a new key, and the pointer handed out points at the item
\* that was there.
LEMMA SetIs ==
    ASSUME NEW t, TableOK(t), NEW key \in Key, NEW item \in Item, ItemKey[item] = key,
           NEW u, u = HashtableSet(t, key, item), NEW r, r = HashtableSetReads(t, key)
    PROVE  /\ TableOK(u) /\ SameShape(t, u)
           /\ Items(u) = Others(Items(t), key) \cup {item}
           /\ HashtableLen(u) = IF Has(Items(t), key) THEN HashtableLen(t) ELSE HashtableLen(t) + 1
           /\ IF Has(Items(t), key) THEN r \in Items(t) /\ ItemKey[r] = key ELSE r = NULL
<1>1. /\ t.old.count # 0 /\ HalfOK(t.old) /\ HalfOK(t.new)
      /\ t.old.size \in Nat /\ t.new.size \in Nat
      /\ BucketIndex(t.old, key) \in 0..t.old.count - 1
  BY WhereKeyIs DEF HalfOK, Half
<1>2. CASE ItemInNewBucket(t, key)
  <2> DEFINE h == SetHalf(t.new, key, item)
  <2>1. t.new.count # 0 /\ \A x \in Contents(t.old) : ItemKey[x] # key
    BY <1>2, WhereKeyIs
  <2>2. /\ HalfOK(h) /\ h.count = t.new.count /\ h.bytes = t.new.bytes
        /\ h.size = IF \E x \in Contents(t.new) : ItemKey[x] = key THEN t.new.size ELSE t.new.size + 1
        /\ Contents(h) = {x \in Contents(t.new) : ItemKey[x] # key} \cup {item}
        /\ \A b \in 0..t.new.count - 1 : b # BucketIndex(t.new, key) => h.buckets[b] = t.new.buckets[b]
        /\ BucketIndex(t.new, key) \in 0..t.new.count - 1
        /\ Clean(t.new.buckets[BucketIndex(t.new, key)]) => Clean(h.buckets[BucketIndex(t.new, key)])
    BY <1>1, <2>1, SetHalfIs
  <2>3. u = [t EXCEPT !.new = h] /\ r = ClaimedItem(t.new, key)
    BY <1>2 DEF HashtableSet, HashtableSetReads
  <2> HIDE DEF h
  <2>4. Contents(h) = Others(Contents(t.new), key) \cup {item}
    BY <2>2 DEF Others
  <2>5. /\ TableOK(u) /\ SameShape(t, u) /\ Items(u) = Others(Items(t), key) \cup {item}
        /\ u.old = t.old /\ u.new = h
    <3> DEFINE added == {item}
    <3>1. added \in SUBSET Item /\ \A x \in added : ItemKey[x] = key
      OBVIOUS
    <3>2. Contents(h) = Others(Contents(t.new), key) \cup added
      BY <2>4
    <3> HIDE DEF added
    <3>3. /\ TableOK(u) /\ SameShape(t, u) /\ Items(u) = Others(Items(t), key) \cup added
          /\ u.old = t.old /\ u.new = h
      <4>1. /\ HalfOK(h) /\ h.count = t.new.count /\ h.bytes = t.new.bytes
            /\ \A b \in 0..t.new.count - 1 : b # BucketIndex(t.new, key) => h.buckets[b] = t.new.buckets[b]
            /\ Clean(t.new.buckets[BucketIndex(t.new, key)]) => Clean(h.buckets[BucketIndex(t.new, key)])
        BY <2>2
      <4>2. u = [t EXCEPT !.new = h]
        BY <2>3
      <4> QED BY <1>2, <3>1, <3>2, <4>1, <4>2, NewChanged
    <3> QED BY <3>3 DEF added
  <2>6. Clean(t.new.buckets[BucketIndex(t.new, key)])
    BY <2>2 DEF TableOK
  <2>7. /\ (\E x \in Contents(t.new) : ItemKey[x] = key) => r \in Contents(t.new) /\ ItemKey[r] = key
        /\ (\A x \in Contents(t.new) : ItemKey[x] # key) => r = NULL
    BY <1>1, <2>1, <2>3, <2>6, ClaimedItemIs
  <2>8. Has(Items(t), key) <=> \E x \in Contents(t.new) : ItemKey[x] = key
    BY <2>1 DEF Has, Items
  <2>9. HashtableLen(u) = IF Has(Items(t), key) THEN HashtableLen(t) ELSE HashtableLen(t) + 1
    BY <1>1, <2>2, <2>5, <2>8 DEF HashtableLen
  <2>10. IF Has(Items(t), key) THEN r \in Items(t) /\ ItemKey[r] = key ELSE r = NULL
    BY <2>7, <2>8 DEF Items
  <2> QED BY <2>5, <2>9, <2>10
<1>3. CASE ~ItemInNewBucket(t, key)
  <2> DEFINE h == SetHalf(t.old, key, item)
  <2>1. \A x \in Contents(t.new) : ItemKey[x] # key
    BY <1>3, WhereKeyIs
  <2>2. /\ HalfOK(h) /\ h.count = t.old.count /\ h.bytes = t.old.bytes
        /\ h.size = IF \E x \in Contents(t.old) : ItemKey[x] = key THEN t.old.size ELSE t.old.size + 1
        /\ Contents(h) = {x \in Contents(t.old) : ItemKey[x] # key} \cup {item}
        /\ \A b \in 0..t.old.count - 1 : b # BucketIndex(t.old, key) => h.buckets[b] = t.old.buckets[b]
        /\ Clean(t.old.buckets[BucketIndex(t.old, key)]) => Clean(h.buckets[BucketIndex(t.old, key)])
    BY <1>1, SetHalfIs
  <2>3. u = [t EXCEPT !.old = h] /\ r = ClaimedItem(t.old, key)
    BY <1>3 DEF HashtableSet, HashtableSetReads
  <2> HIDE DEF h
  <2>4. Contents(h) = Others(Contents(t.old), key) \cup {item}
    BY <2>2 DEF Others
  <2>5. /\ TableOK(u) /\ SameShape(t, u) /\ Items(u) = Others(Items(t), key) \cup {item}
        /\ u.old = h /\ u.new = t.new
    <3> DEFINE added == {item}
    <3>1. added \in SUBSET Item /\ \A x \in added : ItemKey[x] = key
      OBVIOUS
    <3>2. Contents(h) = Others(Contents(t.old), key) \cup added
      BY <2>4
    <3> HIDE DEF added
    <3>3. /\ TableOK(u) /\ SameShape(t, u) /\ Items(u) = Others(Items(t), key) \cup added
          /\ u.old = h /\ u.new = t.new
      BY <1>3, <2>2, <2>3, <3>1, <3>2, OldChanged
    <3> QED BY <3>3 DEF added
  <2>6. Clean(t.old.buckets[BucketIndex(t.old, key)])
    <3>1. BucketIndex(t.old, key) >= t.migrationPos
      BY <1>3, WhereKeyIs
    <3>2. t.migrationPos \in Nat /\ BucketIndex(t.old, key) \in Nat
      BY <1>1, IndexIs DEF TableOK
    <3>3. ~(BucketIndex(t.old, key) < t.migrationPos)
      BY <3>1, <3>2
    <3> QED BY <1>1, <3>3 DEF TableOK
  <2>7. /\ (\E x \in Contents(t.old) : ItemKey[x] = key) => r \in Contents(t.old) /\ ItemKey[r] = key
        /\ (\A x \in Contents(t.old) : ItemKey[x] # key) => r = NULL
    BY <1>1, <2>3, <2>6, ClaimedItemIs
  <2>8. Has(Items(t), key) <=> \E x \in Contents(t.old) : ItemKey[x] = key
    BY <2>1 DEF Has, Items
  <2>9. HashtableLen(u) = IF Has(Items(t), key) THEN HashtableLen(t) ELSE HashtableLen(t) + 1
    BY <1>1, <2>2, <2>5, <2>8 DEF HashtableLen
  <2>10. IF Has(Items(t), key) THEN r \in Items(t) /\ ItemKey[r] = key ELSE r = NULL
    BY <2>7, <2>8 DEF Items
  <2> QED BY <2>5, <2>9, <2>10
<1> QED BY <1>2, <1>3

\* hashtable_get answers with the item of the key.
LEMMA GetIs ==
    ASSUME NEW t, TableOK(t), NEW key \in Key, NEW r, r = HashtableGet(t, key)
    PROVE  IF Has(Items(t), key) THEN r \in Items(t) /\ ItemKey[r] = key ELSE r = NULL
<1>1. t.old.count # 0 /\ HalfOK(t.old) /\ HalfOK(t.new)
  BY WhereKeyIs
<1>2. CASE ItemInNewBucket(t, key)
  <2>1. t.new.count # 0 /\ \A x \in Contents(t.old) : ItemKey[x] # key
    BY <1>2, WhereKeyIs
  <2>2. r = GetHalf(t.new, key)
    BY <1>2 DEF HashtableGet
  <2> QED BY <1>1, <2>1, <2>2, GetHalfIs DEF Has, Items
<1>3. CASE ~ItemInNewBucket(t, key)
  <2>1. \A x \in Contents(t.new) : ItemKey[x] # key
    BY <1>3, WhereKeyIs
  <2>2. r = GetHalf(t.old, key)
    BY <1>3 DEF HashtableGet
  <2> QED BY <1>1, <2>1, <2>2, GetHalfIs DEF Has, Items
<1> QED BY <1>2, <1>3

\* hashtable_delete takes the item of the key, and the length counts it.
LEMMA DeleteIs ==
    ASSUME NEW t, TableOK(t), NEW key \in Key, NEW u, u = HashtableDelete(t, key)
    PROVE  /\ TableOK(u) /\ SameShape(t, u)
           /\ Items(u) = Others(Items(t), key)
           /\ HashtableLen(u) = IF Has(Items(t), key) THEN HashtableLen(t) - 1 ELSE HashtableLen(t)
<1>1. /\ t.old.count # 0 /\ HalfOK(t.old) /\ HalfOK(t.new)
      /\ t.old.size \in Nat /\ t.new.size \in Nat
  BY WhereKeyIs DEF HalfOK, Half
<1>2. CASE ItemInNewBucket(t, key)
  <2> DEFINE h == DeleteHalf(t.new, key)
  <2>1. t.new.count # 0 /\ \A x \in Contents(t.old) : ItemKey[x] # key
    BY <1>2, WhereKeyIs
  <2>2. /\ HalfOK(h) /\ h.count = t.new.count /\ h.bytes = t.new.bytes
        /\ h.size = IF \E x \in Contents(t.new) : ItemKey[x] = key THEN t.new.size - 1 ELSE t.new.size
        /\ Contents(h) = {x \in Contents(t.new) : ItemKey[x] # key}
        /\ \A b \in 0..t.new.count - 1 : b # BucketIndex(t.new, key) => h.buckets[b] = t.new.buckets[b]
        /\ Clean(t.new.buckets[BucketIndex(t.new, key)]) => Clean(h.buckets[BucketIndex(t.new, key)])
    BY <1>1, <2>1, DeleteHalfIs
  <2>3. u = [t EXCEPT !.new = h]
    BY <1>2 DEF HashtableDelete
  <2> HIDE DEF h
  <2>4. Contents(h) = Others(Contents(t.new), key) \cup {}
    BY <2>2 DEF Others
  <2>5. /\ TableOK(u) /\ SameShape(t, u) /\ Items(u) = Others(Items(t), key) \cup {}
        /\ u.old = t.old /\ u.new = h
    <3> DEFINE added == {}
    <3>1. added \in SUBSET Item /\ \A x \in added : ItemKey[x] = key
      OBVIOUS
    <3>2. Contents(h) = Others(Contents(t.new), key) \cup added
      BY <2>4
    <3> HIDE DEF added
    <3>3. /\ TableOK(u) /\ SameShape(t, u) /\ Items(u) = Others(Items(t), key) \cup added
          /\ u.old = t.old /\ u.new = h
      BY <1>2, <2>2, <2>3, <3>1, <3>2, NewChanged
    <3> QED BY <3>3 DEF added
  <2>6. Has(Items(t), key) <=> \E x \in Contents(t.new) : ItemKey[x] = key
    BY <2>1 DEF Has, Items
  <2>7. HashtableLen(u) = IF Has(Items(t), key) THEN HashtableLen(t) - 1 ELSE HashtableLen(t)
    BY <1>1, <2>2, <2>5, <2>6 DEF HashtableLen
  <2> QED BY <2>5, <2>7
<1>3. CASE ~ItemInNewBucket(t, key)
  <2> DEFINE h == DeleteHalf(t.old, key)
  <2>1. \A x \in Contents(t.new) : ItemKey[x] # key
    BY <1>3, WhereKeyIs
  <2>2. /\ HalfOK(h) /\ h.count = t.old.count /\ h.bytes = t.old.bytes
        /\ h.size = IF \E x \in Contents(t.old) : ItemKey[x] = key THEN t.old.size - 1 ELSE t.old.size
        /\ Contents(h) = {x \in Contents(t.old) : ItemKey[x] # key}
        /\ \A b \in 0..t.old.count - 1 : b # BucketIndex(t.old, key) => h.buckets[b] = t.old.buckets[b]
        /\ Clean(t.old.buckets[BucketIndex(t.old, key)]) => Clean(h.buckets[BucketIndex(t.old, key)])
    BY <1>1, DeleteHalfIs
  <2>3. u = [t EXCEPT !.old = h]
    BY <1>3 DEF HashtableDelete
  <2> HIDE DEF h
  <2>4. Contents(h) = Others(Contents(t.old), key) \cup {}
    BY <2>2 DEF Others
  <2>5. /\ TableOK(u) /\ SameShape(t, u) /\ Items(u) = Others(Items(t), key) \cup {}
        /\ u.old = h /\ u.new = t.new
    <3> DEFINE added == {}
    <3>1. added \in SUBSET Item /\ \A x \in added : ItemKey[x] = key
      OBVIOUS
    <3>2. Contents(h) = Others(Contents(t.old), key) \cup added
      BY <2>4
    <3> HIDE DEF added
    <3>3. /\ TableOK(u) /\ SameShape(t, u) /\ Items(u) = Others(Items(t), key) \cup added
          /\ u.old = h /\ u.new = t.new
      BY <1>3, <2>2, <2>3, <3>1, <3>2, OldChanged
    <3> QED BY <3>3 DEF added
  <2>6. Has(Items(t), key) <=> \E x \in Contents(t.old) : ItemKey[x] = key
    BY <2>1 DEF Has, Items
  <2>7. HashtableLen(u) = IF Has(Items(t), key) THEN HashtableLen(t) - 1 ELSE HashtableLen(t)
    BY <1>1, <2>2, <2>5, <2>6 DEF HashtableLen
  <2> QED BY <2>5, <2>7
<1> QED BY <1>2, <1>3

-----------------------------------------------------------------------------
(***************************************************************************)
(* The invariant, and the properties that follow from it alone.            *)
(***************************************************************************)

\* The inductive invariant.
IInv ==
    /\ TableOK(table)
    /\ alive \in BOOLEAN
    /\ mapped \in Int
    /\ ret \in Item \cup {NULL}

\* The growth threshold is a number.
LEMMA ScaleIsNat ==
    ASSUME NEW count \in Nat
    PROVE  ScaleAt(count) \in Nat
<1>1. count * BucketSlots \in Nat
  BY SizeAssumption
<1> DEFINE slots == count * BucketSlots
<1>2. ScaleAt(count) = (slots * 6) \div 8
  BY DEF ScaleAt
<1> HIDE DEF slots
<1>3. slots \in Nat
  BY <1>1 DEF slots
<1> QED BY <1>2, <1>3

\* A new table has no items.
LEMMA InitIs ==
    ASSUME NEW cap \in Nat \ {0}, NEW t, t = HashtableInit(cap)
    PROVE  /\ TableOK(t) /\ Items(t) = {} /\ HashtableLen(t) = 0
           /\ ~MigrationRunning(t) /\ t.old.count = cap /\ t.scaleAtSize = ScaleAt(cap)
<1>1. /\ HalfOK(NewHalf(cap)) /\ Contents(NewHalf(cap)) = {}
      /\ NewHalf(cap).count = cap /\ NewHalf(cap).size = 0
      /\ \A b \in 0..cap - 1 : Clean(NewHalf(cap).buckets[b])
  BY NewHalfIs
<1>2. HalfOK(NoHalf) /\ Contents(NoHalf) = {} /\ NoHalf.count = 0 /\ NoHalf.size = 0
  <2>1. NoHalf.count = 0 /\ NoHalf.size = 0 /\ NoHalf \in Half(NoHalf.count)
    <3>1. \A b \in 0..-1 : FALSE
      OBVIOUS
    <3> QED BY <3>1 DEF NoHalf, Half
  <2> QED BY <2>1, EmptyHalfIs
<1>3. /\ t.old = NewHalf(cap) /\ t.new = NoHalf /\ t.migrationPos = 0 /\ t.scaleAtSize = ScaleAt(cap)
      /\ t \in [scaleAtSize : Nat, migrationPos : Nat, old : {t.old}, new : {t.new}]
  BY ScaleIsNat DEF HashtableInit
<1>4. ~MigrationRunning(t)
  BY <1>2, <1>3 DEF MigrationRunning
<1>5. \A b \in 0..t.old.count - 1 :
        IF b < t.migrationPos THEN Len(t.old.buckets[b]) = BucketSlots ELSE Clean(t.old.buckets[b])
  BY <1>1, <1>3
<1>6. TableOK(t)
  BY <1>1, <1>2, <1>3, <1>4, <1>5 DEF TableOK
<1>7. Items(t) = {} /\ HashtableLen(t) = 0
  BY <1>1, <1>2, <1>3 DEF Items, HashtableLen
<1> QED BY <1>1, <1>3, <1>4, <1>6, <1>7

\* The initial states have the invariant.
LEMMA InitOK == Init => IInv /\ Items(table) = {} /\ HashtableLen(table) = 0
<1> SUFFICES ASSUME Init PROVE IInv /\ Items(table) = {} /\ HashtableLen(table) = 0
  OBVIOUS
<1>1. PICK cap \in Caps : /\ table = HashtableInit(EffectiveCap(cap))
                          /\ mapped = ArrayBytes(EffectiveCap(cap)) /\ alive = TRUE /\ ret = NULL
  BY DEF Init
<1>2. EffectiveCap(cap) \in Nat \ {0}
  BY CapAssumption DEF EffectiveCap
<1> QED BY <1>1, <1>2, InitIs, ArrayBytesIsNat DEF IInv

\* The byte counts are numbers.
LEMMA BytesAreNat ==
    ASSUME NEW t, TableOK(t)
    PROVE  t.old.bytes \in Nat /\ t.new.bytes \in Nat
BY DEF TableOK, HalfOK, Half

\* Every reachable state has the invariant.
LEMMA Invariance == Spec => []IInv
<1>1. Init => IInv
  BY InitOK
<1>2. IInv /\ [Next]_vars => IInv'
  <2> SUFFICES ASSUME IInv, [Next]_vars PROVE IInv'
    OBVIOUS
  <2>1. Unmapped \in Nat
    BY BytesAreNat DEF IInv, Unmapped
  <2>2. ASSUME NEW key \in Key, NEW item \in Item, Set(key, item) PROVE IInv'
    <3>1. PICK ok : \E t \in {Prepared(Maintenance(table), key, ok)} :
                        /\ table' = HashtableSet(t, key, item)
                        /\ ret' = HashtableSetReads(t, key)
                        /\ mapped' = mapped - Unmapped + NewlyMapped(t)
      BY <2>2 DEF Set
    <3> DEFINE m == Maintenance(table)
               t == Prepared(m, key, ok)
    <3>2. TableOK(m)
      BY MaintenanceIs DEF IInv
    <3> HIDE DEF m
    <3>3. TableOK(t)
      BY <3>2, PreparedIs
    <3>4. /\ table' = HashtableSet(t, key, item) /\ ret' = HashtableSetReads(t, key)
          /\ mapped' = mapped - Unmapped + NewlyMapped(t)
          /\ ItemKey[item] = key /\ alive' = alive
      BY <2>2, <3>1 DEF Set, m
    <3> HIDE DEF t
    <3>5. TableOK(table') /\ ret' \in Items(t) \cup {NULL}
      BY <3>3, <3>4, SetIs
    <3>6. ret' \in Item \cup {NULL}
      BY <3>3, <3>5, ItemsAreItems
    <3>7. mapped' \in Int
      BY <2>1, <3>3, <3>4, BytesAreNat DEF IInv, NewlyMapped
    <3> QED BY <3>4, <3>5, <3>6, <3>7 DEF IInv
  <2>3. ASSUME NEW key \in Key, Delete(key) PROVE IInv'
    <3> DEFINE t == Maintenance(table)
    <3>1. TableOK(t)
      BY MaintenanceIs DEF IInv
    <3>2. /\ table' = HashtableDelete(t, key) /\ ret' = HashtableGet(t, key)
          /\ mapped' = mapped - Unmapped /\ alive' = alive
      BY <2>3 DEF Delete
    <3> HIDE DEF t
    <3>3. TableOK(table')
      BY <3>1, <3>2, DeleteIs
    <3>4. ret' \in Item \cup {NULL}
      BY <3>1, <3>2, GetIs, ItemsAreItems
    <3> QED BY <2>1, <3>2, <3>3, <3>4 DEF IInv
  <2>4. ASSUME NEW key \in Key, Get(key) PROVE IInv'
    <3>1. TableOK(table) /\ ret' = HashtableGet(table, key) /\ UNCHANGED <<table, alive, mapped>>
      BY <2>4 DEF Get, IInv
    <3>2. ret' \in Item \cup {NULL}
      BY <3>1, GetIs, ItemsAreItems
    <3> QED BY <3>1, <3>2 DEF IInv
  <2>5. ASSUME Destroy PROVE IInv'
    <3>1. /\ table' = table /\ ret' = ret /\ alive' = FALSE
          /\ mapped' = mapped - table.old.bytes - (IF MigrationRunning(table) THEN table.new.bytes ELSE 0)
      BY <2>5 DEF Destroy
    <3> DEFINE n == IF MigrationRunning(table) THEN table.new.bytes ELSE 0
    <3>2. table.old.bytes \in Nat /\ n \in Nat /\ mapped \in Int
      BY BytesAreNat DEF IInv
    <3>3. mapped' = mapped - table.old.bytes - n
      BY <3>1
    <3> HIDE DEF n
    <3>4. mapped' \in Int
      BY <3>2, <3>3
    <3> QED BY <3>1, <3>4 DEF IInv
  <2>6. CASE UNCHANGED vars
    BY <2>6 DEF IInv, vars
  <2> QED BY <2>2, <2>3, <2>4, <2>5, <2>6 DEF Next, Write
<1> QED BY <1>1, <1>2, PTL DEF Spec

\* A well formed half has its type.
LEMMA HalfIsHalf ==
    ASSUME NEW h, HalfOK(h)
    PROVE  h.count \in Nat /\ h \in Half(h.count)
BY DEF HalfOK

\* Every field of the table stays in its range, whatever is written, read and
\* deleted: in particular the sizes never wrap below zero and the migration
\* position is an index of the old array.
THEOREM TypeCorrect == Spec => []TypeOK
<1>1. IInv => TypeOK
  <2> SUFFICES ASSUME IInv PROVE TypeOK
    OBVIOUS
  <2>1. table.old.count \in Nat \ {0} /\ table.old \in Half(table.old.count)
        /\ table.new.count \in Nat /\ table.new \in Half(table.new.count)
    BY HalfIsHalf DEF IInv, TableOK
  <2>2. table.scaleAtSize \in Nat /\ table.migrationPos \in Nat
    BY DEF IInv, TableOK
  <2>3. /\ MigrationRunning(table) => table.migrationPos < table.old.count
        /\ ~MigrationRunning(table) => table.migrationPos = 0
    BY DEF IInv, TableOK
  <2> QED BY <2>1, <2>2, <2>3 DEF IInv, TypeOK
<1> QED BY <1>1, Invariance, PTL

\* A busy slot, seen from its place.
LEMMA BusySlotIs ==
    ASSUME NEW h, HalfOK(h), NEW p \in BusySlots(h)
    PROVE  /\ p[1] \in 0..h.count - 1 /\ p[2] \in DOMAIN h.buckets[p[1]] /\ p = <<p[1], p[2]>>
           /\ SlotAt(h, p) = h.buckets[p[1]][p[2]] /\ SlotAt(h, p).busy
           /\ SlotAt(h, p).item \in Contents(h) /\ SlotAt(h, p).item \in Item
           /\ SlotAt(h, p).tag = Tag[ItemKey[SlotAt(h, p).item]]
           /\ p[1] = BucketIndex(h, ItemKey[SlotAt(h, p).item])
<1>1. p = <<p[1], p[2]>> /\ <<p[1], p[2]>> \in BusySlots(h)
  BY BusySlotsAre
<1>2. p[1] \in 0..h.count - 1 /\ p[2] \in DOMAIN h.buckets[p[1]] /\ h.buckets[p[1]][p[2]].busy
  BY <1>1, BusySlotsAre
<1>3. SlotAt(h, p) = h.buckets[p[1]][p[2]]
  BY DEF SlotAt
<1>4. SlotAt(h, p).item \in Contents(h)
  BY DEF Contents
<1>5. /\ SlotAt(h, p).item \in Item
      /\ SlotAt(h, p).tag = Tag[ItemKey[SlotAt(h, p).item]]
      /\ p[1] = BucketIndex(h, ItemKey[SlotAt(h, p).item])
  <2> DEFINE b == p[1]
             i == p[2]
  <2>1. b \in 0..h.count - 1 /\ i \in DOMAIN h.buckets[b] /\ h.buckets[b][i].busy
    BY <1>2
  <2>2. /\ WellTagged(h.buckets[b])
        /\ b = BucketIndex(h, ItemKey[h.buckets[b][i].item])
    <3> HIDE DEF b, i
    <3> QED BY <2>1 DEF HalfOK
  <2>3. /\ h.buckets[b][i].item \in Item
        /\ h.buckets[b][i].tag = Tag[ItemKey[h.buckets[b][i].item]]
    <3> HIDE DEF b, i
    <3> QED BY <2>1, <2>2 DEF WellTagged
  <2> QED BY <1>3, <2>2, <2>3
<1> QED BY <1>1, <1>2, <1>3, <1>4, <1>5

\* Every item stored can be found again: it is in the array and in the chain
\* that the routing rule of the code looks into, under its tag.
THEOREM ReachableCorrect == Spec => []EveryItemReachable
<1>1. IInv => EveryItemReachable
  <2> SUFFICES ASSUME IInv PROVE EveryItemReachable
    OBVIOUS
  <2>1. TableOK(table) /\ HalfOK(table.old) /\ HalfOK(table.new)
    BY DEF IInv, TableOK
  <2>2. ASSUME NEW p \in BusySlots(table.old)
        PROVE  /\ SlotAt(table.old, p).item \in Item
               /\ SlotAt(table.old, p).tag = Tag[ItemKey[SlotAt(table.old, p).item]]
               /\ p[1] = BucketIndex(table.old, ItemKey[SlotAt(table.old, p).item])
               /\ p[1] >= table.migrationPos
    BY <2>1, BusySlotIs DEF TableOK
  <2>3. ASSUME NEW p \in BusySlots(table.new)
        PROVE  /\ SlotAt(table.new, p).item \in Item
               /\ SlotAt(table.new, p).tag = Tag[ItemKey[SlotAt(table.new, p).item]]
               /\ p[1] = BucketIndex(table.new, ItemKey[SlotAt(table.new, p).item])
               /\ BucketIndex(table.old, ItemKey[SlotAt(table.new, p).item]) < table.migrationPos
    BY <2>1, BusySlotIs DEF TableOK
  <2> QED BY <2>2, <2>3 DEF EveryItemReachable
<1> QED BY <1>1, Invariance, PTL

\* Within a half a key has one slot.
LEMMA OneSlotPerKey ==
    ASSUME NEW h, HalfOK(h), NEW p \in BusySlots(h), NEW q \in BusySlots(h),
           ItemKey[SlotAt(h, p).item] = ItemKey[SlotAt(h, q).item]
    PROVE  p = q
<1>1. p[1] = q[1]
  BY BusySlotIs
<1>2. p[2] = q[2]
  BY <1>1, BusySlotIs DEF HalfOK, OncePerKey
<1> QED BY <1>1, <1>2, BusySlotIs

\* No key ever has two items, in one array or split over both while the table
\* grows.
THEOREM CopiesCorrect == Spec => []OneCopyPerKey
<1>1. IInv => OneCopyPerKey
  <2> SUFFICES ASSUME IInv PROVE OneCopyPerKey
    OBVIOUS
  <2>1. TableOK(table) /\ HalfOK(table.old) /\ HalfOK(table.new)
    BY DEF IInv, TableOK
  <2>2. ASSUME NEW p \in BusySlots(table.old), NEW q \in BusySlots(table.new)
        PROVE  ItemKey[SlotAt(table.old, p).item] # ItemKey[SlotAt(table.new, q).item]
    <3> DEFINE x == SlotAt(table.old, p).item
               y == SlotAt(table.new, q).item
    <3>1. x \in Contents(table.old) /\ y \in Contents(table.new) /\ ItemKey[x] \in Key
      BY <2>1, BusySlotIs, ItemAssumption
    <3> HIDE DEF x, y
    <3>2. ItemKey[x] # ItemKey[y]
      BY <2>1, <3>1, WhereKeyIs
    <3> QED BY <3>2 DEF x, y
  <2>3. ASSUME NEW p \in BusySlots(table.old), NEW q \in BusySlots(table.old),
               ItemKey[SlotAt(table.old, p).item] = ItemKey[SlotAt(table.old, q).item]
        PROVE  p = q
    BY <2>1, <2>3, OneSlotPerKey
  <2>4. ASSUME NEW p \in BusySlots(table.new), NEW q \in BusySlots(table.new),
               ItemKey[SlotAt(table.new, p).item] = ItemKey[SlotAt(table.new, q).item]
        PROVE  p = q
    BY <2>1, <2>4, OneSlotPerKey
  <2>5. table["old"] = table.old /\ table["new"] = table.new
    OBVIOUS
  <2> QED BY <2>2, <2>3, <2>4, <2>5 DEF OneCopyPerKey
<1> QED BY <1>1, Invariance, PTL

\* The sizes count the busy slots exactly, through overwrites, misses,
\* chaining and migration.
THEOREM SizesCorrect == Spec => []SizesExact
<1>1. IInv => SizesExact
  BY DEF IInv, TableOK, HalfOK, SizesExact
<1> QED BY <1>1, Invariance, PTL

\* A moved bucket has lost its chain and its items before the array it is in
\* goes.
THEOREM MovedCorrect == Spec => []MovedBucketsEmpty
<1>1. IInv => MovedBucketsEmpty
  <2> SUFFICES ASSUME IInv, NEW b \in 0..table.old.count - 1, b < table.migrationPos
               PROVE  /\ Len(table.old.buckets[b]) = BucketSlots
                      /\ \A i \in DOMAIN table.old.buckets[b] : ~table.old.buckets[b][i].busy
    BY DEF MovedBucketsEmpty
  <2>1. TableOK(table) /\ HalfOK(table.old) /\ table.migrationPos \in Nat /\ table.old.count \in Nat
    BY DEF IInv, TableOK, HalfOK
  <2>2. Len(table.old.buckets[b]) = BucketSlots
    BY <2>1 DEF TableOK
  <2>3. ASSUME NEW i \in DOMAIN table.old.buckets[b], table.old.buckets[b][i].busy PROVE FALSE
    <3> DEFINE x == table.old.buckets[b][i].item
    <3>1. x \in Contents(table.old)
      BY <2>3, ContentsAre
    <3>2. b = BucketIndex(table.old, ItemKey[x])
      BY <2>1, <2>3 DEF HalfOK
    <3>3. b >= table.migrationPos
      BY <2>1, <3>1, <3>2 DEF TableOK
    <3> QED BY <2>1, <3>3
  <2> QED BY <2>2, <2>3
<1> QED BY <1>1, Invariance, PTL

-----------------------------------------------------------------------------
(***************************************************************************)
(* The load of the table.                                                  *)
(***************************************************************************)

\* The threshold belongs to the old array, which a migration doubles.
Sized(t) ==
    /\ t.scaleAtSize = ScaleAt(t.old.count)
    /\ MigrationRunning(t) => t.new.count = 2 * t.old.count

\* The load between two calls.
LoadOK(t) ==
    /\ Sized(t)
    /\ IF MigrationRunning(t) THEN HashtableLen(t) <= t.scaleAtSize + 1 + t.migrationPos
       ELSE HashtableLen(t) <= t.scaleAtSize

\* The load once the write's maintenance is done and growth decided: there is
\* room for one more item.
RoomIn(t) ==
    /\ Sized(t)
    /\ IF MigrationRunning(t) THEN HashtableLen(t) <= t.scaleAtSize + t.migrationPos
       ELSE HashtableLen(t) < t.scaleAtSize

\* The numbers of a table.
LEMMA LenIsNat ==
    ASSUME NEW t, TableOK(t)
    PROVE  HashtableLen(t) \in Nat /\ t.scaleAtSize \in Nat /\ t.migrationPos \in Nat
           /\ t.old.count \in Nat \ {0} /\ t.new.count \in Nat /\ t.old.size \in Nat
BY DEF TableOK, HalfOK, Half, HashtableLen

\* A table at rest has all its items in the old half.
LEMMA LenAtRest ==
    ASSUME NEW t, TableOK(t), ~MigrationRunning(t)
    PROVE  HashtableLen(t) = t.old.size
<1>1. t.new.count = 0 /\ t.new.size = Cardinality(BusySlots(t.new)) /\ t.old.size \in Nat
  BY DEF MigrationRunning, TableOK, HalfOK, Half
<1>2. BusySlots(t.new) = {}
  BY <1>1, BusySlotsAre
<1> QED BY <1>1, <1>2, FS_EmptySet DEF HashtableLen

\* Twice the buckets have a threshold that is higher by more than the writes
\* it took to move there, if a bucket has two slots or more.
LEMMA ThresholdsApart ==
    ASSUME BucketSlots >= 2, NEW count \in Nat
    PROVE  ScaleAt(count) + count <= ScaleAt(2 * count)
<1> DEFINE slots == count * BucketSlots
<1>1. slots \in Nat /\ 2 * count <= slots
  <2>1. BucketSlots - 2 \in Nat
    BY SizeAssumption
  <2>2. count * (BucketSlots - 2) \in Nat
    BY <2>1
  <2>3. slots = count * (BucketSlots - 2) + 2 * count
    BY SizeAssumption
  <2> DEFINE rest == count * (BucketSlots - 2)
  <2> HIDE DEF rest, slots
  <2> QED BY <2>2, <2>3 DEF rest
<1>2. 2 * count * BucketSlots = 2 * slots
  BY SizeAssumption
<1>3. ScaleAt(count) = (slots * 6) \div 8 /\ ScaleAt(2 * count) = (2 * slots * 6) \div 8
  BY <1>2 DEF ScaleAt
<1> HIDE DEF slots
<1> QED BY <1>1, <1>3

\* Each write that moves a bucket gains room for the item it may add, and the
\* larger array has room for all of them.
LEMMA MaintenanceLoad ==
    ASSUME BucketSlots >= 2, NEW t, TableOK(t), LoadOK(t), NEW u, u = Maintenance(t)
    PROVE  Sized(u) /\ HashtableLen(u) <= u.scaleAtSize + u.migrationPos
<1>1. TableOK(u)
  BY MaintenanceIs
<1>2. CASE ~MigrationRunning(t)
  <2>1. u = t
    BY <1>2 DEF Maintenance
  <2> QED BY <1>1, <1>2, <2>1, LenIsNat DEF LoadOK
<1>3. CASE MigrationRunning(t)
  <2>1. u = ProcessMigrationStep(t)
    BY <1>3 DEF Maintenance
  <2>2. /\ HashtableLen(u) = HashtableLen(t)
        /\ IF FinishesMigration(t)
           THEN /\ ~MigrationRunning(u) /\ u.old.count = t.new.count
                /\ u.scaleAtSize = ScaleAt(u.old.count)
           ELSE /\ MigrationRunning(u) /\ u.migrationPos = t.migrationPos + 1
                /\ u.old.count = t.old.count /\ u.new.count = t.new.count
                /\ u.scaleAtSize = t.scaleAtSize
    BY <1>3, <2>1, StepIs
  <2>3. /\ HashtableLen(t) <= t.scaleAtSize + 1 + t.migrationPos
        /\ t.scaleAtSize = ScaleAt(t.old.count) /\ t.new.count = 2 * t.old.count
    BY <1>3 DEF LoadOK, Sized
  <2>4. CASE ~FinishesMigration(t)
    <3>1. Sized(u)
      BY <2>2, <2>3, <2>4 DEF Sized
    <3> QED BY <2>2, <2>3, <2>4, <3>1, LenIsNat
  <2>5. CASE FinishesMigration(t)
    <3>1. t.migrationPos + 1 = t.old.count
      BY <2>5 DEF FinishesMigration
    <3>2. Sized(u)
      BY <2>2, <2>5 DEF Sized
    <3>3. u.migrationPos = 0
      BY <1>1, <2>2, <2>5 DEF TableOK
    <3>4. u.scaleAtSize = ScaleAt(2 * t.old.count)
      BY <2>2, <2>3, <2>5
    <3>5. ScaleAt(t.old.count) + t.old.count <= ScaleAt(2 * t.old.count)
      BY LenIsNat, ThresholdsApart
    <3>6. ScaleAt(t.old.count) \in Nat /\ ScaleAt(2 * t.old.count) \in Nat
      BY LenIsNat, <1>1, <2>3, <3>4
    <3> QED BY <2>2, <2>3, <3>1, <3>2, <3>3, <3>4, <3>5, <3>6, LenIsNat
  <2> QED BY <2>4, <2>5
<1> QED BY <1>2, <1>3

\* A table at its threshold starts to grow.
LEMMA PreparedLoad ==
    ASSUME NEW t, TableOK(t), Sized(t), HashtableLen(t) <= t.scaleAtSize + t.migrationPos,
           NEW key \in Key, NEW u, u = Prepared(t, key, TRUE)
    PROVE  RoomIn(u)
<1>1. TableOK(u) /\ HashtableLen(u) = HashtableLen(t)
  BY PreparedIs
<1>2. CASE MigrationRunning(t)
  <2>1. u = t
    BY <1>2 DEF Prepared, CheckInitMigration
  <2> QED BY <1>2, <2>1, LenIsNat DEF RoomIn
<1>3. CASE ~MigrationRunning(t)
  <2>1. t.migrationPos = 0 /\ HashtableLen(t) = t.old.size
    BY <1>3, LenAtRest DEF TableOK
  <2>2. CASE t.old.size < t.scaleAtSize
    <3>1. u = t
      BY <1>3, <2>2 DEF Prepared, CheckInitMigration
    <3> QED BY <1>3, <2>1, <2>2, <3>1, LenIsNat DEF RoomIn
  <2>3. CASE ~(t.old.size < t.scaleAtSize)
    <3>1. u = [t EXCEPT !.new = NewHalf(2 * t.old.count)]
      BY <1>3, <2>3 DEF Prepared, CheckInitMigration, ItemInNewBucket
    <3> DEFINE n == NewHalf(2 * t.old.count)
    <3>2. n.count = 2 * t.old.count
      BY DEF NewHalf
    <3> HIDE DEF n
    <3>3. /\ u.new = n /\ u.old = t.old /\ u.migrationPos = t.migrationPos
          /\ u.scaleAtSize = t.scaleAtSize
      BY <3>1 DEF TableOK, n
    <3>4. Sized(u)
      BY <3>2, <3>3 DEF Sized
    <3>5. MigrationRunning(u)
      <4>1. t.old.count \in Nat \ {0}
        BY LenIsNat
      <4>2. 2 * t.old.count # 0
        BY <4>1
      <4> QED BY <3>2, <3>3, <4>2 DEF MigrationRunning
    <3> QED BY <1>1, <2>1, <3>3, <3>4, <3>5, LenIsNat DEF RoomIn
  <2> QED BY <2>2, <2>3
<1> QED BY <1>2, <1>3

\* As long as pages_map does not fail, growth keeps ahead of insertion: the
\* load stays within the threshold, exceeded by at most the writes that moved
\* a bucket while the table grows. With one slot per bucket it can fail; the
\* code has eight.
THEOREM LoadCorrect ==
    ASSUME BucketSlots >= 2, MapMayFail = FALSE
    PROVE  Spec => []LoadBounded
<1>1. Init => LoadOK(table)
  <2> SUFFICES ASSUME Init PROVE LoadOK(table)
    OBVIOUS
  <2>1. PICK cap \in Caps : table = HashtableInit(EffectiveCap(cap))
    BY DEF Init
  <2>2. EffectiveCap(cap) \in Nat \ {0}
    BY CapAssumption DEF EffectiveCap
  <2>3. /\ HashtableLen(table) = 0 /\ ~MigrationRunning(table)
        /\ table.scaleAtSize = ScaleAt(table.old.count) /\ table.scaleAtSize \in Nat
    BY <2>1, <2>2, InitIs, LenIsNat
  <2> QED BY <2>3 DEF LoadOK, Sized
<1>2. IInv /\ LoadOK(table) /\ [Next]_vars => LoadOK(table)'
  <2> SUFFICES ASSUME IInv, LoadOK(table), [Next]_vars PROVE LoadOK(table')
    OBVIOUS
  <2>1. TableOK(table)
    BY DEF IInv
  <2>2. ASSUME NEW key \in Key, NEW item \in Item, Set(key, item) PROVE LoadOK(table')
    <3> DEFINE m == Maintenance(table)
               t == Prepared(m, key, TRUE)
    <3>1. TableOK(m) /\ Sized(m) /\ HashtableLen(m) <= m.scaleAtSize + m.migrationPos
      BY <2>1, MaintenanceIs, MaintenanceLoad
    <3>2. table' = HashtableSet(t, key, item) /\ ItemKey[item] = key
      BY <2>2 DEF Set, PagesMapOutcomes
    <3> HIDE DEF m
    <3>3. TableOK(t) /\ RoomIn(t)
      BY <3>1, PreparedIs, PreparedLoad
    <3> HIDE DEF t
    <3>4. /\ SameShape(t, table') /\ TableOK(table')
          /\ HashtableLen(table') = IF Has(Items(t), key) THEN HashtableLen(t) ELSE HashtableLen(t) + 1
      BY <3>2, <3>3, SetIs
    <3>5. Sized(table') /\ (MigrationRunning(table') <=> MigrationRunning(t))
      BY <3>3, <3>4 DEF RoomIn, Sized, SameShape, MigrationRunning
    <3>6. HashtableLen(table') <= HashtableLen(t) + 1
      BY <3>3, <3>4, LenIsNat
    <3> QED BY <3>3, <3>4, <3>5, <3>6, LenIsNat DEF RoomIn, LoadOK, SameShape
  <2>3. ASSUME NEW key \in Key, Delete(key) PROVE LoadOK(table')
    <3> DEFINE t == Maintenance(table)
    <3>1. TableOK(t) /\ Sized(t) /\ HashtableLen(t) <= t.scaleAtSize + t.migrationPos
      BY <2>1, MaintenanceIs, MaintenanceLoad
    <3>2. table' = HashtableDelete(t, key)
      BY <2>3 DEF Delete
    <3> HIDE DEF t
    <3>3. /\ SameShape(t, table') /\ TableOK(table')
          /\ HashtableLen(table') = IF Has(Items(t), key) THEN HashtableLen(t) - 1 ELSE HashtableLen(t)
      BY <3>1, <3>2, DeleteIs
    <3>4. Sized(table') /\ (MigrationRunning(table') <=> MigrationRunning(t))
      BY <3>1, <3>3 DEF Sized, SameShape, MigrationRunning
    <3>5. ~MigrationRunning(t) => t.migrationPos = 0
      BY <3>1 DEF TableOK
    <3>6. HashtableLen(table') <= HashtableLen(t)
      BY <3>1, <3>3, LenIsNat
    <3> QED BY <3>1, <3>3, <3>4, <3>5, <3>6, LenIsNat DEF LoadOK, SameShape
  <2>4. ASSUME NEW key \in Key, Get(key) PROVE LoadOK(table')
    BY <2>4 DEF Get
  <2>5. CASE Destroy
    BY <2>5 DEF Destroy
  <2>6. CASE UNCHANGED vars
    BY <2>6 DEF vars
  <2> QED BY <2>2, <2>3, <2>4, <2>5, <2>6 DEF Next, Write
<1>3. LoadOK(table) => LoadBounded
  BY DEF LoadOK, LoadBounded
<1> QED BY <1>1, <1>2, <1>3, Invariance, PTL DEF Spec

-----------------------------------------------------------------------------
(***************************************************************************)
(* The table is a map.                                                     *)
(***************************************************************************)

\* What a table stores under a key.
ItemOf(t, key) ==
    LET own == {it \in Items(t) : ItemKey[it] = key}
    IN  IF own = {} THEN NULL ELSE CHOOSE it \in own : TRUE

\* The map a table stands for.
MapOf(t) == [key \in Key |-> ItemOf(t, key)]

\* It is the item of the key, NULL if there is none.
LEMMA ItemOfIs ==
    ASSUME NEW t, TableOK(t), NEW key \in Key
    PROVE  IF Has(Items(t), key)
           THEN ItemOf(t, key) \in Items(t) /\ ItemKey[ItemOf(t, key)] = key /\ ItemOf(t, key) # NULL
           ELSE ItemOf(t, key) = NULL
<1> DEFINE own == {it \in Items(t) : ItemKey[it] = key}
<1>1. ItemOf(t, key) = IF own = {} THEN NULL ELSE CHOOSE it \in own : TRUE
  BY DEF ItemOf
<1>2. (own = {}) <=> ~Has(Items(t), key)
  BY DEF Has
<1>3. CASE own = {}
  BY <1>1, <1>2, <1>3
<1>4. CASE own # {}
  <2>1. ItemOf(t, key) \in own
    BY <1>1, <1>4
  <2>2. ItemOf(t, key) \in Item
    BY <2>1, ItemsAreItems
  <2> QED BY <1>2, <1>4, <2>1, <2>2, ItemAssumption
<1> QED BY <1>3, <1>4

\* An answer that is the item of the key is what the map has.
LEMMA AnswerIs ==
    ASSUME NEW t, TableOK(t), NEW key \in Key, NEW r,
           IF Has(Items(t), key) THEN r \in Items(t) /\ ItemKey[r] = key ELSE r = NULL
    PROVE  r = ItemOf(t, key)
BY ItemOfIs, OneItemOfKey

\* A call that replaces the items of one key changes the map at that key.
LEMMA MapChanges ==
    ASSUME NEW t, TableOK(t), NEW u, TableOK(u), NEW key \in Key,
           NEW added \in SUBSET Item, \A x \in added : ItemKey[x] = key,
           Items(u) = Others(Items(t), key) \cup added,
           NEW v, \/ added = {} /\ v = NULL
                  \/ v \in added
    PROVE  MapOf(u) = [MapOf(t) EXCEPT ![key] = v]
<1>1. ASSUME NEW k \in Key, k # key PROVE ItemOf(u, k) = ItemOf(t, k)
  <2> DEFINE r == ItemOf(t, k)
  <2>1. IF Has(Items(t), k) THEN r \in Items(t) /\ ItemKey[r] = k ELSE r = NULL
    BY ItemOfIs
  <2> HIDE DEF r
  <2>2. IF Has(Items(u), k) THEN r \in Items(u) /\ ItemKey[r] = k ELSE r = NULL
    BY <1>1, <2>1 DEF Has, Others
  <2>3. r = ItemOf(u, k)
    BY <2>2, AnswerIs
  <2> QED BY <2>3 DEF r
<1>2. ItemOf(u, key) = v
  <2>1. IF Has(Items(u), key) THEN v \in Items(u) /\ ItemKey[v] = key ELSE v = NULL
    BY DEF Has, Others
  <2> QED BY <2>1, AnswerIs
<1> QED BY <1>1, <1>2 DEF MapOf

\* The map of the refinement is the map a table stands for, before and after
\* a step.
LEMMA MapIs ==
    /\ [key \in Key |-> StoredItem(key)] = MapOf(table)
    /\ [key \in Key |-> StoredItem(key)]' = MapOf(table')
<1>1. \A key \in Key : StoredItem(key) = ItemOf(table, key)
  BY DEF StoredItem, ItemOf, Items, Contents
<1>2. \A key \in Key : StoredItem(key)' = ItemOf(table', key)
  BY DEF StoredItem, ItemOf, Items, Contents, BusySlots, Positions, SlotAt
<1> QED BY <1>1, <1>2 DEF MapOf

\* The table is the map its callers believe it to be: every set, get and
\* delete answers what the map answers, and the length is the number of its
\* keys, wherever the migration stands.
THEOREM Refinement == Spec => ImplementsMap
<1>1. Init => KVM!Init
  <2> SUFFICES ASSUME Init PROVE KVM!Init
    OBVIOUS
  <2>1. IInv /\ Items(table) = {} /\ HashtableLen(table) = 0 /\ ret = NULL
    BY InitOK DEF Init
  <2>2. MapOf(table) = [k \in Key |-> NULL]
    BY <2>1 DEF MapOf, ItemOf
  <2> QED BY <2>1, <2>2, MapIs DEF KVM!Init
<1>2. IInv /\ IInv' /\ [Next]_vars => [KVM!Next]_KVM!vars
  <2> SUFFICES ASSUME IInv, IInv', [Next]_vars PROVE [KVM!Next]_KVM!vars
    OBVIOUS
  <2>1. TableOK(table) /\ TableOK(table')
    BY DEF IInv
  <2> DEFINE map == [key \in Key |-> StoredItem(key)]
  <2>2. map = MapOf(table) /\ map' = MapOf(table')
    BY MapIs
  <2>3. ASSUME NEW key \in Key PROVE map[key] = ItemOf(table, key)
    BY <2>2 DEF MapOf
  <2>4. ASSUME NEW key \in Key, NEW item \in Item, Set(key, item) PROVE KVM!Set(key, item)
    <3>1. PICK ok : \E t \in {Prepared(Maintenance(table), key, ok)} :
                        /\ table' = HashtableSet(t, key, item)
                        /\ ret' = HashtableSetReads(t, key)
      BY <2>4 DEF Set
    <3> DEFINE m == Maintenance(table)
               t == Prepared(m, key, ok)
    <3>2. TableOK(m) /\ Items(m) = Items(table) /\ HashtableLen(m) = HashtableLen(table)
      BY <2>1, MaintenanceIs
    <3>3. table' = HashtableSet(t, key, item) /\ ret' = HashtableSetReads(t, key) /\ ItemKey[item] = key
      BY <2>4, <3>1 DEF Set
    <3> HIDE DEF m
    <3>4. TableOK(t) /\ Items(t) = Items(table) /\ HashtableLen(t) = HashtableLen(table)
      BY <3>2, PreparedIs
    <3> HIDE DEF t
    <3>5. /\ Items(table') = Others(Items(t), key) \cup {item}
          /\ HashtableLen(table') = IF Has(Items(t), key) THEN HashtableLen(t) ELSE HashtableLen(t) + 1
          /\ IF Has(Items(t), key) THEN ret' \in Items(t) /\ ItemKey[ret'] = key ELSE ret' = NULL
      BY <3>3, <3>4, SetIs
    <3>6. ret' = ItemOf(table, key)
      BY <2>1, <3>4, <3>5, AnswerIs
    <3>7. map' = [map EXCEPT ![key] = item]
      <4> DEFINE added == {item}
      <4>1. /\ added \in SUBSET Item /\ (\A x \in added : ItemKey[x] = key)
            /\ Items(table') = Others(Items(table), key) \cup added
            /\ item \in added
        BY <3>3, <3>4, <3>5
      <4> HIDE DEF added
      <4>2. MapOf(table') = [MapOf(table) EXCEPT ![key] = item]
        BY <2>1, <4>1, MapChanges
      <4> QED BY <2>2, <4>2
    <3>8. HashtableLen(table') = IF ItemOf(table, key) = NULL THEN HashtableLen(table) + 1
                                 ELSE HashtableLen(table)
      BY <2>1, <3>4, <3>5, ItemOfIs
    <3> QED BY <2>3, <3>3, <3>6, <3>7, <3>8 DEF KVM!Set
  <2>5. ASSUME NEW key \in Key, Get(key) PROVE KVM!Get(key)
    <3>1. ret' = HashtableGet(table, key) /\ table' = table
      BY <2>5 DEF Get
    <3>2. ret' = ItemOf(table, key)
      BY <2>1, <3>1, GetIs, AnswerIs
    <3>3. map' = map /\ HashtableLen(table') = HashtableLen(table)
      BY <2>2, <3>1
    <3> QED BY <2>3, <3>2, <3>3 DEF KVM!Get
  <2>6. ASSUME NEW key \in Key, Delete(key) PROVE KVM!Delete(key)
    <3> DEFINE t == Maintenance(table)
    <3>1. TableOK(t) /\ Items(t) = Items(table) /\ HashtableLen(t) = HashtableLen(table)
      BY <2>1, MaintenanceIs
    <3>2. table' = HashtableDelete(t, key) /\ ret' = HashtableGet(t, key)
      BY <2>6 DEF Delete
    <3> HIDE DEF t
    <3>3. /\ Items(table') = Others(Items(t), key)
          /\ HashtableLen(table') = IF Has(Items(t), key) THEN HashtableLen(t) - 1 ELSE HashtableLen(t)
      BY <3>1, <3>2, DeleteIs
    <3>4. IF Has(Items(t), key) THEN ret' \in Items(t) /\ ItemKey[ret'] = key ELSE ret' = NULL
      BY <3>1, <3>2, GetIs
    <3>5. ret' = ItemOf(table, key)
      BY <2>1, <3>1, <3>4, AnswerIs
    <3>6. map' = [map EXCEPT ![key] = NULL]
      <4> DEFINE added == {}
      <4>1. /\ added \in SUBSET Item /\ (\A x \in added : ItemKey[x] = key)
            /\ Items(table') = Others(Items(table), key) \cup added
            /\ added = {}
        BY <3>1, <3>3
      <4> HIDE DEF added
      <4>2. MapOf(table') = [MapOf(table) EXCEPT ![key] = NULL]
        BY <2>1, <4>1, MapChanges
      <4> QED BY <2>2, <4>2
    <3>7. HashtableLen(table') = IF ItemOf(table, key) = NULL THEN HashtableLen(table)
                                 ELSE HashtableLen(table) - 1
      BY <2>1, <3>1, <3>3, ItemOfIs
    <3> QED BY <2>3, <3>5, <3>6, <3>7 DEF KVM!Delete
  <2>7. CASE Destroy
    <3>1. table' = table /\ ret' = ret
      BY <2>7 DEF Destroy
    <3> QED BY <2>2, <3>1 DEF KVM!vars
  <2>8. CASE UNCHANGED vars
    <3>1. table' = table /\ ret' = ret
      BY <2>8 DEF vars
    <3> QED BY <2>2, <3>1 DEF KVM!vars
  <2> QED BY <2>4, <2>5, <2>6, <2>7, <2>8 DEF Next, Write, KVM!Next
<1> QED BY <1>1, <1>2, Invariance, PTL DEF Spec, ImplementsMap, KVM!Spec
=============================================================================
