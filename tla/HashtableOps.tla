----------------------------- MODULE HashtableOps -----------------------------
(***************************************************************************)
(* The data structure of src/hashtable.c and its operations as operators   *)
(* on a table value; module Hashtable drives them as a state machine.      *)
(*                                                                         *)
(* A table is two halves, the old bucket array and, while the table grows, *)
(* the new one it migrates into.  A bucket array maps an index to a chain: *)
(* the head bucket and its calloc'ed successors, as the sequence of their  *)
(* slots in probing order, BucketSlots slots per bucket.                   *)
(***************************************************************************)
EXTENDS Integers, Sequences, FiniteSets, FiniteSetsExt

CONSTANTS
    Key,          \* the keys of the callers
    Item,         \* item_t objects, named by their address
    ItemKey,      \* ItemKey[it] is the key stored inside item `it`
    NULL,         \* the null item_t pointer
    Hash,         \* Hash[k] is XXH3_64bits(k) >> SHARD_BITS
    Tag,          \* Tag[k] is XXH3_64bits(k) >> 56
    BucketSlots,  \* HASHTABLE_BUCKET_SLOTS (8 in the code)
    BucketBytes,  \* sizeof(hashtable_bucket_t)
    PageBytes,    \* sysconf(_SC_PAGESIZE)
    HugePageBytes \* PAGES_HUGE

ASSUME ItemAssumption ==
    /\ ItemKey \in [Item -> Key]
    /\ NULL \notin Item

ASSUME HashAssumption ==
    /\ Hash \in [Key -> Nat]
    /\ Tag \in [Key -> Nat]

ASSUME SizeAssumption ==
    /\ BucketSlots \in Nat \ {0}
    /\ BucketBytes \in Nat \ {0}
    /\ PageBytes \in Nat \ {0}
    /\ HugePageBytes \in Nat \ {0}

-----------------------------------------------------------------------------
(***************************************************************************)
(* Pages (src/pages.c): pages_map rounds a request up to whole pages, huge *)
(* ones from HugePageBytes on, and reports the rounded size.               *)
(***************************************************************************)
AlignUp(bytes, align) == ((bytes + align - 1) \div align) * align

PagesMapBytes(bytes) ==
    AlignUp(bytes, IF bytes >= HugePageBytes THEN HugePageBytes ELSE PageBytes)

ArrayBytes(count) == PagesMapBytes(count * BucketBytes)

-----------------------------------------------------------------------------
(***************************************************************************)
(* Slots, chains and halves.                                               *)
(***************************************************************************)
Slot == [busy : BOOLEAN, tag : Nat, item : Item \cup {NULL}]

EmptySlot == [busy |-> FALSE, tag |-> 0, item |-> NULL]

EmptyBucket == [i \in 1..BucketSlots |-> EmptySlot]

\* A chain is one bucket or more, never part of a bucket.
Chain == {c \in Seq(Slot) : \E n \in 1..Len(c) : Len(c) = n * BucketSlots}

\* A half of the table with `count` head buckets: the old_* or the new_*
\* fields of struct hashtable.
Half(count) == [size : Nat, bytes : Nat, count : {count}, buckets : [0..count-1 -> Chain]]

\* A freshly mapped array is zeroed memory.
NewHalf(count) ==
    [size |-> 0, bytes |-> ArrayBytes(count), count |-> count,
     buckets |-> [b \in 0..count-1 |-> EmptyBucket]]

\* new_buckets == NULL: no migration is running.
NoHalf == [size |-> 0, bytes |-> 0, count |-> 0, buckets |-> [b \in 0..-1 |-> EmptyBucket]]

\* scale_at_size: three quarters of the slots of the head buckets.
ScaleAt(count) == (count * BucketSlots * 6) \div 8

HashtableInit(cap) ==
    [scaleAtSize |-> ScaleAt(cap), migrationPos |-> 0, old |-> NewHalf(cap), new |-> NoHalf]

BucketIndex(half, key) == Hash[key] % half.count

-----------------------------------------------------------------------------
(***************************************************************************)
(* Probing.  match_tag subtracts one from every byte of the tags xor'ed    *)
(* with the tag sought, all at once: a byte that matches borrows from the  *)
(* next one in its bucket, which is then reported when it differs from the *)
(* tag by its lowest bit.  Tags of free slots take part, left from before. *)
(***************************************************************************)
NotFound == 0

\* Two tags whose difference is at most the lowest bit.
OneBitApart(tag1, tag2) == tag1 \div 2 = tag2 \div 2

\* Which bytes of a chain the subtraction reports, bucket by bucket.
Reported(chain, tag) ==
    LET zero[i \in DOMAIN chain] ==
            \/ chain[i].tag = tag
            \/ (i - 1) % BucketSlots # 0 /\ zero[i - 1] /\ OneBitApart(chain[i].tag, tag)
    IN  {i \in DOMAIN chain : zero[i]}

\* hashtable_bucket_match_tag: the candidates.
MatchTag(chain, tag) == {i \in Reported(chain, tag) : chain[i].busy}

\* Mutated form: a candidate is taken for the key without a look at the item.
HoldingByTag(chain, key) == MatchTag(chain, Tag[key])

\* The candidates whose item has the key.
Holding(chain, key) ==
    {i \in MatchTag(chain, Tag[key]) : ItemKey[chain[i].item] = key}

FreeSlots(chain) == {i \in DOMAIN chain : ~chain[i].busy}

FindItemSlot(chain, key) ==
    IF Holding(chain, key) = {} THEN NotFound ELSE Min(Holding(chain, key))

\* Mutated form: takes the first free slot without probing the rest of the chain.
EagerFreeSlot(chain, key) ==
    IF FreeSlots(chain) # {} THEN Min(FreeSlots(chain)) ELSE Len(chain) + 1

\* The slot of the key, else the first free one, else the first slot of a
\* bucket to be chained behind the last.
FindItemSlotOrNextFreeSlot(chain, key) ==
    IF Holding(chain, key) # {} THEN Min(Holding(chain, key))
    ELSE IF FreeSlots(chain) # {} THEN Min(FreeSlots(chain))
    ELSE Len(chain) + 1

\* hashtable_bucket_init_chain, when the position asked for is not there yet.
InitChain(chain, pos) ==
    IF pos \in DOMAIN chain THEN chain ELSE chain \o EmptyBucket

-----------------------------------------------------------------------------
(***************************************************************************)
(* One half: claiming the slot of a key, storing through the pointer that  *)
(* a claim returns, reading and deleting.                                  *)
(***************************************************************************)
ClaimedPosition(half, key) ==
    FindItemSlotOrNextFreeSlot(half.buckets[BucketIndex(half, key)], key)

ClaimedChain(half, key) ==
    InitChain(half.buckets[BucketIndex(half, key)], ClaimedPosition(half, key))

\* Whether the slot claimed is busy: it is the key's own, or a free one.
HasKey(half, key) == Holding(half.buckets[BucketIndex(half, key)], key) # {}

\* *item_slot_ptr as hashtable_set hands it to its caller.
ClaimedItem(half, key) == ClaimedChain(half, key)[ClaimedPosition(half, key)].item

\* An item stored at position `pos` of a chain: a free slot becomes busy under
\* the tag of the key, a busy one only changes its item.
Stored(chain, pos, key, item) ==
    [chain EXCEPT ![pos] = [busy |-> TRUE,
                            tag  |-> IF chain[pos].busy THEN chain[pos].tag ELSE Tag[key],
                            item |-> item]]

\* A half after a call that touches the chain of bucket b and the size.
WithChain(half, b, chain, size) ==
    [size |-> size, bytes |-> half.bytes, count |-> half.count,
     buckets |-> [half.buckets EXCEPT ![b] = chain]]

\* hashtable_set_old and hashtable_set_new, which leave the item pointer
\* alone, followed by the caller's *item_slot_ptr = item.
SetHalf(half, key, item) ==
    WithChain(half, BucketIndex(half, key),
              Stored(ClaimedChain(half, key), ClaimedPosition(half, key), key, item),
              IF HasKey(half, key) THEN half.size ELSE half.size + 1)

GetHalf(half, key) ==
    LET chain == half.buckets[BucketIndex(half, key)]
        pos   == FindItemSlot(chain, key)
    IN  IF pos = NotFound THEN NULL ELSE chain[pos].item

\* Slot `pos` of bucket b emptied, by the content it gets.
Emptied(half, b, pos, content) ==
    WithChain(half, b, [half.buckets[b] EXCEPT ![pos] = content], half.size - 1)

\* Mutated form: the size is decremented whether or not the key was found.
DeleteHalfAlwaysCounting(half, key) ==
    IF HasKey(half, key)
    THEN Emptied(half, BucketIndex(half, key),
                 FindItemSlot(half.buckets[BucketIndex(half, key)], key), EmptySlot)
    ELSE [half EXCEPT !.size = IF @ = 0 THEN 0 ELSE @ - 1]

DeleteHalf(half, key) ==
    IF HasKey(half, key)
    THEN Emptied(half, BucketIndex(half, key),
                 FindItemSlot(half.buckets[BucketIndex(half, key)], key), EmptySlot)
    ELSE half

-----------------------------------------------------------------------------
(***************************************************************************)
(* Migration: every write to a growing table first moves one bucket.       *)
(***************************************************************************)
MigrationRunning(t) == t.new.count # 0

\* Mutated form: off by one, the bucket being moved next counts as moved.
ItemInNewBucketTooEarly(t, key) ==
    MigrationRunning(t) /\ BucketIndex(t.old, key) <= t.migrationPos

ItemInNewBucket(t, key) ==
    MigrationRunning(t) /\ BucketIndex(t.old, key) < t.migrationPos

\* `mapped` says whether pages_map succeeded; when it fails the table goes
\* on without growing.
CheckInitMigration(t, mapped) ==
    IF t.old.size < t.scaleAtSize \/ MigrationRunning(t) \/ ~mapped
    THEN t
    ELSE [t EXCEPT !.new = NewHalf(2 * t.old.count)]

\* Mutated form: the threshold is not recomputed for the larger array.
FinishMigrationKeepingThreshold(t) ==
    [scaleAtSize  |-> t.scaleAtSize,
     migrationPos |-> 0,
     old          |-> [t.new EXCEPT !.bytes = t.old.bytes],
     new          |-> [NoHalf EXCEPT !.bytes = t.new.bytes]]

\* Mutated form: the position is left where the last migration ended.
FinishMigrationKeepingPosition(t) ==
    [scaleAtSize  |-> ScaleAt(t.new.count),
     migrationPos |-> t.migrationPos,
     old          |-> [t.new EXCEPT !.bytes = t.old.bytes],
     new          |-> [NoHalf EXCEPT !.bytes = t.new.bytes]]

\* The new array becomes the old one.  old_bytes and new_bytes keep their values.
FinishMigration(t) ==
    [scaleAtSize  |-> ScaleAt(t.new.count),
     migrationPos |-> 0,
     old          |-> [t.new EXCEPT !.bytes = t.old.bytes],
     new          |-> [NoHalf EXCEPT !.bytes = t.new.bytes]]

\* The new array with an item moved into it, unless its key is there already.
MovedInto(new, item) ==
    IF HasKey(new, ItemKey[item]) THEN new ELSE SetHalf(new, ItemKey[item], item)

\* A busy slot is emptied, its tag and pointer left behind, and its item goes
\* to the new array.
MigrateSlot(t, b, i) ==
    IF t.old.buckets[b][i].busy
    THEN [scaleAtSize  |-> t.scaleAtSize,
          migrationPos |-> t.migrationPos,
          old |-> Emptied(t.old, b, i, [t.old.buckets[b][i] EXCEPT !.busy = FALSE]),
          new |-> MovedInto(t.new, t.old.buckets[b][i].item)]
    ELSE t

\* The table with the chain of bucket b cut down to its head bucket.
Unchained(t, b) ==
    [t EXCEPT !.old = WithChain(t.old, b, SubSeq(t.old.buckets[b], 1, BucketSlots), t.old.size)]

\* Mutated form: only the head bucket of a chain is moved before the chain is freed.
MigrateHeadOnly(t, b) ==
    LET migrated[i \in 0..BucketSlots] ==
            IF i = 0 THEN t ELSE MigrateSlot(migrated[i - 1], b, i)
    IN  Unchained(migrated[BucketSlots], b)

\* Mutated form: the chained buckets stay linked behind the head.
MigrateBucketKeepingChain(t, b) ==
    LET chain == t.old.buckets[b]
        migrated[i \in 0..Len(chain)] ==
            IF i = 0 THEN t ELSE MigrateSlot(migrated[i - 1], b, i)
    IN  migrated[Len(chain)]

\* All slots of the chain in order; the chained buckets are freed.
MigrateBucket(t, b) ==
    LET chain == t.old.buckets[b]
        migrated[i \in 0..Len(chain)] ==
            IF i = 0 THEN t ELSE MigrateSlot(migrated[i - 1], b, i)
    IN  Unchained(migrated[Len(chain)], b)

\* The migration ends with the last bucket.
Advanced(t, step) ==
    IF t.migrationPos + step = t.old.count
    THEN FinishMigration([t EXCEPT !.migrationPos = @ + step])
    ELSE [t EXCEPT !.migrationPos = @ + step]

\* Mutated form: the position advances only past buckets that held items.
ProcessMigrationStepOfBusyBuckets(t) ==
    Advanced(MigrateBucket(t, t.migrationPos),
             IF FreeSlots(t.old.buckets[t.migrationPos]) = DOMAIN t.old.buckets[t.migrationPos]
             THEN 0 ELSE 1)

ProcessMigrationStep(t) == Advanced(MigrateBucket(t, t.migrationPos), 1)

Maintenance(t) == IF MigrationRunning(t) THEN ProcessMigrationStep(t) ELSE t

\* Whether the next write moves the last bucket and so drops the old array.
FinishesMigration(t) == MigrationRunning(t) /\ t.migrationPos + 1 = t.old.count

-----------------------------------------------------------------------------
(***************************************************************************)
(* The public operations, on the table as hashtable_maintenance left it.   *)
(***************************************************************************)

\* hashtable_set up to the claim of a slot.
Prepared(t, key, mapped) ==
    IF ItemInNewBucket(t, key) THEN t ELSE CheckInitMigration(t, mapped)

\* hashtable_set followed by the caller's store.
HashtableSet(t, key, item) ==
    IF ItemInNewBucket(t, key)
    THEN [t EXCEPT !.new = SetHalf(t.new, key, item)]
    ELSE [t EXCEPT !.old = SetHalf(t.old, key, item)]

\* What the caller reads through the returned pointer.
HashtableSetReads(t, key) ==
    ClaimedItem(IF ItemInNewBucket(t, key) THEN t.new ELSE t.old, key)

HashtableGet(t, key) ==
    IF ItemInNewBucket(t, key) THEN GetHalf(t.new, key) ELSE GetHalf(t.old, key)

HashtableDelete(t, key) ==
    IF ItemInNewBucket(t, key)
    THEN [t EXCEPT !.new = DeleteHalf(t.new, key)]
    ELSE [t EXCEPT !.old = DeleteHalf(t.old, key)]

HashtableLen(t) == t.old.size + t.new.size
=============================================================================
