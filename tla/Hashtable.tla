------------------------------ MODULE Hashtable ------------------------------
(***************************************************************************)
(* One hash table (src/hashtable.c) under its public operations, each call *)
(* a step.  hashtable_set returns a pointer to the item slot of the key    *)
(* and every caller stores its item there at once, so the store is part of *)
(* Set.                                                                    *)
(***************************************************************************)
EXTENDS HashtableOps

CONSTANTS
    Caps,        \* the capacities callers pass to hashtable_init
    DefaultCap,  \* HASHTABLE_INIT_CAP
    MapMayFail   \* whether pages_map may refuse memory for a larger array

ASSUME CapAssumption ==
    /\ Caps \subseteq Nat
    /\ DefaultCap \in Nat \ {0}
    /\ MapMayFail \in BOOLEAN

VARIABLES
    table,   \* struct hashtable
    alive,   \* FALSE once hashtable_destroy has run
    mapped,  \* bytes of address space the table's arrays hold in the kernel
    ret      \* what the last operation answered its caller

vars == <<table, alive, mapped, ret>>

-----------------------------------------------------------------------------
IsPowerOfTwo(n) == \E e \in 0..n : n = 2^e

\* hashtable_init(0) asks for the default capacity.
EffectiveCap(cap) == IF cap = 0 THEN DefaultCap ELSE cap

\* A capacity that is no power of two gives no table.
Init ==
    \E cap \in Caps :
        /\ IsPowerOfTwo(EffectiveCap(cap))
        /\ table = HashtableInit(EffectiveCap(cap))
        /\ mapped = ArrayBytes(EffectiveCap(cap))
        /\ alive = TRUE
        /\ ret = NULL

PagesMapOutcomes == IF MapMayFail THEN BOOLEAN ELSE {TRUE}

\* The bytes of the old array go back when its last bucket is moved.
Unmapped == IF FinishesMigration(table) THEN table.old.bytes ELSE 0

\* The bytes of the new array of table t, when this write mapped it.
NewlyMapped(t) ==
    IF MigrationRunning(t) /\ (MigrationRunning(table) => FinishesMigration(table))
    THEN t.new.bytes ELSE 0

Set(key, item) ==
    /\ alive
    /\ ItemKey[item] = key
    /\ \E t \in {Prepared(Maintenance(table), key, ok) : ok \in PagesMapOutcomes} :
        /\ table' = HashtableSet(t, key, item)
        /\ ret' = HashtableSetReads(t, key)
        /\ mapped' = mapped - Unmapped + NewlyMapped(t)
    /\ UNCHANGED alive

Get(key) ==
    /\ alive
    /\ ret' = HashtableGet(table, key)
    /\ UNCHANGED <<table, alive, mapped>>

\* A delete answers with the item it removes.
Delete(key) ==
    /\ alive
    /\ \E t \in {Maintenance(table)} :
        /\ table' = HashtableDelete(t, key)
        /\ ret' = HashtableGet(t, key)
    /\ mapped' = mapped - Unmapped
    /\ UNCHANGED alive

\* Frees the chains and unmaps each array with the byte count kept beside it.
Destroy ==
    /\ alive
    /\ alive' = FALSE
    /\ mapped' = mapped - table.old.bytes
                 - (IF MigrationRunning(table) THEN table.new.bytes ELSE 0)
    /\ UNCHANGED <<table, ret>>

Write(key) == (\E item \in Item : Set(key, item)) \/ Delete(key)

Next == (\E key \in Key : Write(key) \/ Get(key)) \/ Destroy

Spec == Init /\ [][Next]_vars

\* Callers that keep writing: the only fairness under which a table grows,
\* since nothing but a write moves buckets.
FairSpec == Spec /\ []<><<\E key \in Key : Write(key)>>_vars

-----------------------------------------------------------------------------
(***************************************************************************)
(* Properties.                                                             *)
(***************************************************************************)

\* Every field of struct hashtable stays in its range: sizes do not wrap
\* below zero, chains are whole buckets, the migration position is an index
\* of the old array and is used only while there is a new one.
TypeOK ==
    /\ table.scaleAtSize \in Nat
    /\ table.migrationPos \in Nat
    /\ table.old.count \in Nat \ {0} /\ table.old \in Half(table.old.count)
    /\ table.new.count \in Nat /\ table.new \in Half(table.new.count)
    /\ MigrationRunning(table) => table.migrationPos < table.old.count
    /\ ~MigrationRunning(table) => table.migrationPos = 0
    /\ alive \in BOOLEAN
    /\ mapped \in Int
    /\ ret \in Item \cup {NULL}

Positions(half) == UNION {{b} \X DOMAIN half.buckets[b] : b \in 0..half.count - 1}

SlotAt(half, p) == half.buckets[p[1]][p[2]]

BusySlots(half) == {p \in Positions(half) : SlotAt(half, p).busy}

\* The code's routing rule is where a key lives: a busy slot of either array
\* holds an item of the table, under the tag of its key, in the chain the
\* key hashes to; the old array holds only keys of buckets still to be moved
\* and the new one only keys of buckets already moved.  A slot that breaks it
\* is an item no lookup reaches.
EveryItemReachable ==
    /\ \A p \in BusySlots(table.old) :
        LET slot == SlotAt(table.old, p) IN
        /\ slot.item \in Item
        /\ slot.tag = Tag[ItemKey[slot.item]]
        /\ p[1] = BucketIndex(table.old, ItemKey[slot.item])
        /\ p[1] >= table.migrationPos
    /\ \A p \in BusySlots(table.new) :
        LET slot == SlotAt(table.new, p) IN
        /\ slot.item \in Item
        /\ slot.tag = Tag[ItemKey[slot.item]]
        /\ p[1] = BucketIndex(table.new, ItemKey[slot.item])
        /\ BucketIndex(table.old, ItemKey[slot.item]) < table.migrationPos

\* No key has two copies, in one array or split over both: a second copy
\* would come back to life once the first is deleted.
OneCopyPerKey ==
    \A h1, h2 \in {"old", "new"} :
        \A p \in BusySlots(table[h1]), q \in BusySlots(table[h2]) :
            ItemKey[SlotAt(table[h1], p).item] = ItemKey[SlotAt(table[h2], q).item]
                => h1 = h2 /\ p = q

\* old_size and new_size count the busy slots of their array exactly, through
\* overwrites, misses, chaining and migration: hashtable_len is their sum and
\* the growth decision reads old_size.
SizesExact ==
    /\ table.old.size = Cardinality(BusySlots(table.old))
    /\ table.new.size = Cardinality(BusySlots(table.new))

\* As long as memory can be had, growth keeps ahead of insertion: a table at
\* rest never holds more items than its threshold and a growing one exceeds
\* it by at most the writes that moved its buckets.  A migration therefore
\* ends below the next threshold and two never overlap.
LoadBounded ==
    IF MigrationRunning(table)
    THEN HashtableLen(table) <= table.scaleAtSize + 1 + table.migrationPos
    ELSE HashtableLen(table) <= table.scaleAtSize

\* The chained buckets of a moved bucket are freed with the move and nothing
\* is left in it: finish_migration unmaps the head buckets only.
MovedBucketsEmpty ==
    \A b \in 0..table.old.count - 1 :
        b < table.migrationPos =>
            /\ Len(table.old.buckets[b]) = BucketSlots
            /\ \A i \in DOMAIN table.old.buckets[b] : ~table.old.buckets[b][i].busy

\* The table is the map its callers believe it to be, however its items are
\* spread over the two arrays and whatever a write migrates on the way.
StoredItem(key) ==
    LET items == {SlotAt(table.old, p).item : p \in BusySlots(table.old)}
                 \cup {SlotAt(table.new, p).item : p \in BusySlots(table.new)}
        own   == {it \in items : ItemKey[it] = key}
    IN  IF own = {} THEN NULL ELSE CHOOSE it \in own : TRUE

KVM == INSTANCE KeyValueMap WITH
    map <- [key \in Key |-> StoredItem(key)],
    len <- HashtableLen(table),
    ret <- ret

ImplementsMap == KVM!Spec

\* Growth ends: when callers keep writing, the array that is being left is
\* dropped (unless the table is destroyed first).  Reads alone never end it.
MigrationEnds == MigrationRunning(table) ~> (~MigrationRunning(table) \/ ~alive)

\* The comment beside the tag match (hashtable.c:50): a byte is reported if
\* and only if it is the tag.
ReportedIffTag ==
    \A half \in {table.old, table.new}, key \in Key : \A b \in DOMAIN half.buckets :
        Reported(half.buckets[b], Tag[key]) =
            {i \in DOMAIN half.buckets[b] : half.buckets[b][i].tag = Tag[key]}

\* hashtable_destroy pairs each array with the byte count kept beside it
\* (hashtable.c:198, :201), so that nothing stays mapped afterwards.
NothingLeftMapped == ~alive => mapped = 0
=============================================================================
