---------------------------------- MODULE Kv ----------------------------------
(***************************************************************************)
(* The key-value store of src/kv.c under concurrent callers: keys spread   *)
(* over shards, a mutex, a table and an allocator per shard.  Threads take *)
(* the steps of kv_shard_get, kv_shard_set and kv_shard_delete one access  *)
(* to shared memory at a time.  The table is taken at its word (KeyValueMap,*)
(* which Hashtable implements) and so is the allocator (ChunkPool, which   *)
(* SlabClass implements).                                                  *)
(***************************************************************************)
EXTENDS Integers, FiniteSets

CONSTANTS
    Thread,
    Key,
    Value,
    Size,      \* Size[v]: value_len of value v; keys are of one length
    MaxSize,   \* the longest value an item can hold beside its key
    DstSizes,  \* the buffer sizes callers of kv_get pass
    Shard,
    ShardOf,   \* ShardOf[k] is XXH3_64bits(k) & KV_SHARD_MASK
    Chunk,     \* the item memory of the allocators
    Capacity,  \* Capacity[c]: data_size of chunk c, less the length of a key
    Home,      \* Home[c]: the shard whose allocator owns chunk c
    None,      \* nobody, nothing
    NULL,      \* a null pointer: the item of a slot claimed and not filled
    Absent     \* no slot in the table holds the key

ASSUME KvAssumption ==
    /\ Size \in [Value -> Nat] /\ MaxSize \in Nat
    /\ DstSizes \subseteq Nat
    /\ ShardOf \in [Key -> Shard] /\ Home \in [Chunk -> Shard]
    /\ Capacity \in [Chunk -> 0..MaxSize]
    /\ None \notin Thread \cup Key \cup Value
    /\ NULL \notin Chunk /\ Absent \notin Chunk \cup {NULL}

VARIABLES
    lock,       \* lock[s]: the thread that holds shard s
    pc,         \* the step each thread takes next
    req,        \* the arguments of its call
    resp,       \* the answer it has put together
    item,       \* its local item pointer
    index,      \* the tables: the item pointer in the slot of each key
    mem,        \* the item stored in each chunk, field by field
    allocated,  \* the chunks the allocators have handed out
    crashed,    \* the process died of a null dereference
    store       \* history: the map as the calls that returned have made it

vars == <<lock, pc, req, resp, item, index, mem, allocated, crashed, store>>

-----------------------------------------------------------------------------
Request ==
    [op : {"get"}, key : Key, dst : DstSizes] \cup
    [op : {"set"}, key : Key, value : Value] \cup
    [op : {"delete"}, key : Key]

\* The error code and what the out parameters of the call point to by then.
Answer(code) == [code |-> code, value |-> None, meta |-> None, len |-> None]

Reply == [code : {"none", "OK", "NOT_FOUND", "NO_MEM", "TOO_LARGE"},
          value : Value \cup {None}, meta : Value \cup {None}, len : Nat \cup {None}]

\* A chunk nobody wrote to since it was allocated or freed.
Garbage == [key |-> None, value |-> None, meta |-> None]

Init ==
    /\ lock = [s \in Shard |-> None]
    /\ pc = [t \in Thread |-> "idle"]
    /\ req = [t \in Thread |-> [op |-> "none"]]
    /\ resp = [t \in Thread |-> Answer("none")]
    /\ item = [t \in Thread |-> NULL]
    /\ index = [k \in Key |-> Absent]
    /\ mem = [c \in Chunk |-> Garbage]
    /\ allocated = {}
    /\ crashed = FALSE
    /\ store = [k \in Key |-> None]

ShardFor(t) == ShardOf[req[t].key]

Goto(t, step) == pc' = [pc EXCEPT ![t] = step]

Respond(t, answer) == resp' = [resp EXCEPT ![t] = answer]

\* Mutated form: the lookup of the smallest class forgets the data length.
AllocatableAnySize(s, size) ==
    {c \in Chunk \ allocated : Home[c] = s /\ size <= MaxSize}

\* Mutated form: one allocator serves all shards.
AllocatableAnywhere(s, size) ==
    {c \in Chunk \ allocated :
        /\ size <= Capacity[c]
        /\ \A d \in Chunk : size <= Capacity[d] => Capacity[c] <= Capacity[d]}

\* slab_allocator_alloc_item: a free chunk of the smallest class that holds
\* the data, none when no class does.  (The code grows the class as needed:
\* a model gives every class as many chunks as its keys can ask for.)
Allocatable(s, size) ==
    {c \in Chunk \ allocated :
        /\ Home[c] = s
        /\ size <= Capacity[c]
        /\ \A d \in Chunk : Home[d] = s /\ size <= Capacity[d] => Capacity[c] <= Capacity[d]}

-----------------------------------------------------------------------------
(***************************************************************************)
(* Entering a call.                                                        *)
(***************************************************************************)
Call(t, r) ==
    /\ pc[t] = "idle"
    /\ req' = [req EXCEPT ![t] = r]
    /\ Respond(t, Answer("none"))
    /\ Goto(t, "lock")
    /\ UNCHANGED <<lock, item, index, mem, allocated, crashed, store>>

\* pthread_mutex_lock on the shard of the key; the pc is the name of the
\* operation from here.
Lock(t) ==
    /\ pc[t] = "lock"
    /\ lock[ShardFor(t)] = None
    /\ lock' = [lock EXCEPT ![ShardFor(t)] = t]
    /\ Goto(t, req[t].op)
    /\ UNCHANGED <<req, resp, item, index, mem, allocated, crashed, store>>

\* Mutated form: the lock is kept when a value does not fit the buffer.
LockAfterUnlessTooLarge(t) ==
    IF resp[t].code = "TOO_LARGE" THEN lock ELSE [lock EXCEPT ![ShardFor(t)] = None]

LockAfter(t) == [lock EXCEPT ![ShardFor(t)] = None]

\* pthread_mutex_unlock and the return: the call now counts as made.
Unlock(t) ==
    /\ pc[t] = "unlock"
    /\ lock' = LockAfter(t)
    /\ Goto(t, "idle")
    /\ store' = [store EXCEPT ![req[t].key] =
                    CASE resp[t].code # "OK" \/ req[t].op = "get" -> @
                      [] resp[t].code = "OK" /\ req[t].op = "set" -> req[t].value
                      [] resp[t].code = "OK" /\ req[t].op = "delete" -> None]
    /\ item' = [item EXCEPT ![t] = NULL]
    /\ UNCHANGED <<req, resp, index, mem, allocated, crashed>>

-----------------------------------------------------------------------------
(***************************************************************************)
(* kv_shard_get.                                                           *)
(***************************************************************************)
GetFind(t) ==
    /\ pc[t] = "get"
    /\ LET found == index[req[t].key]
       IN  IF found = Absent
           THEN Respond(t, Answer("NOT_FOUND")) /\ Goto(t, "unlock") /\ UNCHANGED item
           ELSE /\ item' = [item EXCEPT ![t] = found]
                /\ Goto(t, "get_check")
                /\ UNCHANGED resp
    /\ UNCHANGED <<lock, req, index, mem, allocated, crashed, store>>

\* Mutated form: the shard is released before the value is copied out.
GetCheckReleasing(t) ==
    /\ pc[t] = "get_check"
    /\ LET len == Size[mem[item[t]].value]
       IN  IF len > req[t].dst
           THEN Respond(t, [Answer("TOO_LARGE") EXCEPT !.len = len]) /\ Goto(t, "unlock")
           ELSE Respond(t, [resp[t] EXCEPT !.len = len]) /\ Goto(t, "get_copy")
    /\ lock' = [lock EXCEPT ![ShardFor(t)] = None]
    /\ UNCHANGED <<req, item, index, mem, allocated, crashed, store>>

\* The length is reported in any case: a caller whose buffer is too small
\* learns what it needs.
GetCheck(t) ==
    /\ pc[t] = "get_check"
    /\ LET len == Size[mem[item[t]].value]
       IN  IF len > req[t].dst
           THEN Respond(t, [Answer("TOO_LARGE") EXCEPT !.len = len]) /\ Goto(t, "unlock")
           ELSE Respond(t, [resp[t] EXCEPT !.len = len]) /\ Goto(t, "get_copy")
    /\ UNCHANGED <<lock, req, item, index, mem, allocated, crashed, store>>

\* Flags and expiry first, then the bytes of the value.
GetCopy(t) ==
    /\ pc[t] = "get_copy"
    /\ LET stored == mem[item[t]]
       IN  Respond(t, [code |-> "OK", value |-> stored.value, meta |-> stored.meta, len |-> resp[t].len])
    /\ Goto(t, "unlock")
    /\ UNCHANGED <<lock, req, item, index, mem, allocated, crashed, store>>

-----------------------------------------------------------------------------
(***************************************************************************)
(* kv_shard_set.                                                           *)
(***************************************************************************)

\* hashtable_set: an absent key gets a slot whose item is NULL.
SetClaim(t) ==
    /\ pc[t] = "set"
    /\ LET found == index[req[t].key]
           claim == IF found = Absent THEN NULL ELSE found
       IN  /\ index' = [index EXCEPT ![req[t].key] = claim]
           /\ item' = [item EXCEPT ![t] = claim]
           /\ Goto(t, IF claim = NULL THEN "set_alloc" ELSE "set_grow")
    /\ UNCHANGED <<lock, req, resp, mem, allocated, crashed, store>>

\* An item for the new slot.  Without one the code calls hashtable_delete for
\* the slot it has just claimed, which compares the key with the item of that
\* slot: a null dereference.
SetAlloc(t) ==
    /\ pc[t] = "set_alloc"
    /\ LET chunks == Allocatable(ShardFor(t), Size[req[t].value])
       IN  \/ /\ chunks = {} /\ Size[req[t].value] > MaxSize
              /\ crashed' = TRUE
              /\ UNCHANGED <<pc, item, index, allocated>>
           \/ \E c \in chunks :
              /\ allocated' = allocated \cup {c}
              /\ item' = [item EXCEPT ![t] = c]
              /\ index' = [index EXCEPT ![req[t].key] = c]
              /\ Goto(t, "set_grow")
              /\ UNCHANGED crashed
    /\ UNCHANGED <<lock, req, resp, mem, store>>

\* Mutated form: the old item is not given back.
AllocatedAfterGrowLeaking(t, fresh) == allocated \cup {fresh}

AllocatedAfterGrow(t, fresh) == (allocated \cup {fresh}) \ {item[t]}

\* Mutated form: the slot keeps pointing at the item that was given back.
IndexAfterGrowDangling(t, fresh) == index

IndexAfterGrow(t, fresh) == [index EXCEPT ![req[t].key] = fresh]

\* An item too small for the data is replaced: the fresh one is taken before
\* the old one is given back, so a refusal leaves the old value in place.
SetGrow(t) ==
    /\ pc[t] = "set_grow"
    /\ LET size   == Size[req[t].value]
           chunks == Allocatable(ShardFor(t), size)
       IN  \/ /\ Capacity[item[t]] >= size
              /\ Goto(t, "set_meta")
              /\ UNCHANGED <<resp, item, index, mem, allocated>>
           \/ /\ Capacity[item[t]] < size /\ size > MaxSize
              /\ Respond(t, Answer("NO_MEM"))
              /\ Goto(t, "unlock")
              /\ UNCHANGED <<item, index, mem, allocated>>
           \/ /\ Capacity[item[t]] < size
              /\ \E fresh \in chunks :
                 /\ allocated' = AllocatedAfterGrow(t, fresh)
                 /\ index' = IndexAfterGrow(t, fresh)
                 /\ item' = [item EXCEPT ![t] = fresh]
              /\ mem' = [mem EXCEPT ![item[t]] = Garbage]
              /\ Goto(t, "set_meta")
              /\ UNCHANGED resp
    /\ UNCHANGED <<lock, req, crashed, store>>

\* Expiry and flags, the key, the value.
SetMeta(t) ==
    /\ pc[t] = "set_meta"
    /\ mem' = [mem EXCEPT ![item[t]].meta = req[t].value]
    /\ Goto(t, "set_key")
    /\ UNCHANGED <<lock, req, resp, item, index, allocated, crashed, store>>

SetKey(t) ==
    /\ pc[t] = "set_key"
    /\ mem' = [mem EXCEPT ![item[t]].key = req[t].key]
    /\ Goto(t, "set_value")
    /\ UNCHANGED <<lock, req, resp, item, index, allocated, crashed, store>>

SetValue(t) ==
    /\ pc[t] = "set_value"
    /\ mem' = [mem EXCEPT ![item[t]].value = req[t].value]
    /\ Respond(t, Answer("OK"))
    /\ Goto(t, "unlock")
    /\ UNCHANGED <<lock, req, item, index, allocated, crashed, store>>

-----------------------------------------------------------------------------
(***************************************************************************)
(* kv_shard_delete.                                                        *)
(***************************************************************************)

\* Mutated form: a lookup that found nothing is not told from one that did.
DeleteFindUnchecked(t) ==
    /\ pc[t] = "delete"
    /\ index' = [index EXCEPT ![req[t].key] = Absent]
    /\ item' = [item EXCEPT ![t] = index[req[t].key]]
    /\ Goto(t, "delete_free")
    /\ UNCHANGED <<lock, req, resp, mem, allocated, crashed, store>>

DeleteFind(t) ==
    /\ pc[t] = "delete"
    /\ LET found == index[req[t].key]
       IN  IF found = Absent
           THEN /\ Respond(t, Answer("NOT_FOUND"))
                /\ Goto(t, "unlock")
                /\ UNCHANGED <<item, index>>
           ELSE /\ index' = [index EXCEPT ![req[t].key] = Absent]
                /\ item' = [item EXCEPT ![t] = found]
                /\ Goto(t, "delete_free")
                /\ UNCHANGED resp
    /\ UNCHANGED <<lock, req, mem, allocated, crashed, store>>

DeleteFree(t) ==
    /\ pc[t] = "delete_free"
    /\ allocated' = allocated \ {item[t]}
    /\ mem' = [mem EXCEPT ![item[t]] = Garbage]
    /\ Respond(t, Answer("OK"))
    /\ Goto(t, "unlock")
    /\ UNCHANGED <<lock, req, item, index, crashed, store>>

-----------------------------------------------------------------------------
\* The steps of a thread that holds the lock of its shard.
HolderStep(t) ==
    \/ GetFind(t) \/ GetCheck(t) \/ GetCopy(t)
    \/ SetClaim(t) \/ SetAlloc(t) \/ SetGrow(t)
    \/ SetMeta(t) \/ SetKey(t) \/ SetValue(t)
    \/ DeleteFind(t) \/ DeleteFree(t)
    \/ Unlock(t)

Step(t) == (\E r \in Request : Call(t, r)) \/ Lock(t) \/ HolderStep(t)

\* Nothing runs in a process that has died.
Dead == crashed /\ UNCHANGED vars

Next == (~crashed /\ \E t \in Thread : Step(t)) \/ Dead

Spec == Init /\ [][Next]_vars

\* The scheduler runs every thread that can run.  Nothing is assumed of who
\* gets a contended mutex, which is no queue.
FairSpec == Spec /\ \A t \in Thread : WF_vars(~crashed /\ HolderStep(t))

-----------------------------------------------------------------------------
(***************************************************************************)
(* Properties.                                                             *)
(***************************************************************************)
Steps == {"idle", "lock", "unlock", "get", "get_check", "get_copy",
          "set", "set_alloc", "set_grow", "set_meta", "set_key", "set_value",
          "delete", "delete_free"}

\* Pointers name chunks or nothing, fields hold keys and values.
TypeOK ==
    /\ lock \in [Shard -> Thread \cup {None}]
    /\ pc \in [Thread -> Steps]
    /\ req \in [Thread -> Request \cup {[op |-> "none"]}]
    /\ \A t \in Thread : pc[t] # "idle" => req[t] \in Request
    /\ resp \in [Thread -> Reply]
    /\ item \in [Thread -> Chunk \cup {NULL}]
    /\ index \in [Key -> Chunk \cup {NULL, Absent}]
    /\ mem \in [Chunk -> [key : Key \cup {None}, value : Value \cup {None}, meta : Value \cup {None}]]
    /\ allocated \subseteq Chunk
    /\ crashed \in BOOLEAN
    /\ store \in [Key -> Value \cup {None}]

\* Between calls a shard holds what the calls that returned have put there:
\* under each key an item of its own, from the shard's allocator, large
\* enough, with the key, the flags and the value of the same set.  A reader
\* that enters next sees no half-written item and no chunk given back.
Content(k) == IF index[k] = Absent THEN Garbage ELSE mem[index[k]]

UnlockedShardsConsistent ==
    \A k \in Key : lock[ShardOf[k]] = None =>
        /\ index[k] # NULL
        /\ index[k] = Absent <=> store[k] = None
        /\ index[k] # Absent =>
            /\ index[k] \in allocated
            /\ Home[index[k]] = ShardOf[k]
            /\ Size[store[k]] <= Capacity[index[k]]
            /\ mem[index[k]] = [key |-> k, value |-> store[k], meta |-> store[k]]

\* Memory is neither lost nor shared: every chunk handed out hangs in the slot
\* of exactly one key, or is on its way back to the allocator.
NoChunkLostOrShared ==
    /\ \A c \in allocated :
        \/ \E k \in Key : index[k] = c
        \/ \E t \in Thread : pc[t] = "delete_free" /\ item[t] = c
    /\ \A k1, k2 \in Key : index[k1] = index[k2] /\ index[k1] \in Chunk => k1 = k2

\* No thread touches an item that is not handed out, and none writes more
\* than the item holds.
TouchesOnlyItems ==
    \A t \in Thread :
        /\ pc[t] \in {"get_check", "get_copy", "set_grow", "set_meta", "set_key", "set_value",
                      "delete_free"} => item[t] \in allocated
        /\ pc[t] \in {"set_meta", "set_key", "set_value"} =>
            Size[req[t].value] <= Capacity[item[t]]

\* kv_get, kv_set and kv_delete are atomic: each answers as if it ran alone at
\* one moment of its call.
KVS == INSTANCE KvStore WITH
    busy <- {t \in Thread : pc[t] # "idle"},
    resp <- [t \in Thread |-> IF pc[t] = "idle" THEN resp[t] ELSE Answer("none")]

ImplementsStore == KVS!Spec

\* Whoever takes a shard gives it back, on every path out of the three
\* operations: the shard never blocks its other callers for good.
LocksReleased ==
    \A s \in Shard : (lock[s] # None) ~> (lock[s] = None \/ crashed)

\* A set that cannot get memory answers KV_ERR_NO_MEM (kv.h:12, kv.c:109)
\* rather than bring the process down.
SetRefusedSafely == ~crashed
=============================================================================
