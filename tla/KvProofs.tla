------------------------------ MODULE KvProofs ------------------------------
(***************************************************************************)
(* Proofs about the store, for any number of threads, keys, shards, values *)
(* and chunks.                                                             *)
(*                                                                         *)
(* The inductive invariant says, for a thread between lock and unlock, how *)
(* far its operation has come, and for a key nobody works on, that its item *)
(* is whole.  What a thread relies on is a function of its own variables   *)
(* and of the slot, the item and the history of its key (Point), so that a *)
(* step of another thread, which has another key, disturbs none of it.     *)
(***************************************************************************)
EXTENDS Kv, TLAPS

Inside(t) == pc[t] \notin {"idle", "lock"}

\* The item in the slot of a key.
Stored(k) == IF index[k] \in Chunk THEN mem[index[k]] ELSE Garbage

\* Slot x with content m holds value v under key k.
Holds(k, x, m, v) ==
    /\ x # NULL
    /\ x = Absent <=> v = None
    /\ x # Absent => /\ Size[v] <= Capacity[x]
                     /\ m = [key |-> k, value |-> v, meta |-> v]

\* What a store with value v under the key answers to r, and what is there
\* after r.
Answered(r, v) ==
    CASE r.op = "get" /\ v = None -> Answer("NOT_FOUND")
      [] r.op = "get" /\ v # None ->
            IF Size[v] > r.dst THEN [Answer("TOO_LARGE") EXCEPT !.len = Size[v]]
            ELSE [code |-> "OK", value |-> v, meta |-> v, len |-> Size[v]]
      [] r.op = "set" -> Answer(IF Size[r.value] > MaxSize THEN "NO_MEM" ELSE "OK")
      [] r.op = "delete" -> Answer(IF v = None THEN "NOT_FOUND" ELSE "OK")

After(r, v) ==
    CASE r.op = "get" -> v
      [] r.op = "set" -> IF Size[r.value] > MaxSize THEN v ELSE r.value
      [] r.op = "delete" -> None

\* How far a thread at step p has come with request r, answer a and item i,
\* when the slot of its key is x with content m and the history says v.
Point(p, r, a, i, x, m, v) ==
    /\ p \in {"get", "set", "delete"} => r.op = p /\ Holds(r.key, x, m, v)
    /\ p \in {"get_check", "get_copy"} =>
        r.op = "get" /\ i = x /\ x \in Chunk /\ Holds(r.key, x, m, v)
    /\ p = "get_copy" => a.len = Size[v] /\ Size[v] <= r.dst
    /\ p \in {"set_alloc", "set_grow", "set_meta", "set_key", "set_value"} => r.op = "set"
    /\ p = "set_alloc" => x = NULL /\ v = None
    /\ p \in {"set_grow", "set_meta", "set_key", "set_value"} => i = x /\ x \in Chunk
    /\ p = "set_grow" => Size[r.value] <= Capacity[x] \/ Holds(r.key, x, m, v)
    /\ p \in {"set_meta", "set_key", "set_value"} => Size[r.value] <= Capacity[x]
    /\ p \in {"set_key", "set_value"} => m.meta = r.value
    /\ p = "set_value" => m.key = r.key
    /\ p = "delete_free" => r.op = "delete" /\ x = Absent /\ v # None /\ i \in Chunk
    /\ p = "unlock" => a = Answered(r, v) /\ Holds(r.key, x, m, After(r, v))

PointOf(t) ==
    Point(pc[t], req[t], resp[t], item[t],
          index[req[t].key], Stored(req[t].key), store[req[t].key])

\* Between lock and unlock a thread has its shard to itself.
InsideHoldsLock == \A t \in Thread : Inside(t) => lock[ShardFor(t)] = t

OperationsOnTrack == \A t \in Thread : Inside(t) => PointOf(t)

\* A key nobody works on is as the calls that returned have left it.
Settled(k) == Holds(k, index[k], Stored(k), store[k])

OthersSettled ==
    \A k \in Key : (\A t \in Thread : Inside(t) => req[t].key # k) => Settled(k)

ItemsOwned ==
    \A k \in Key : index[k] \in Chunk => index[k] \in allocated /\ Home[index[k]] = ShardOf[k]

\* An item on its way back to the allocator is out of the table.
FreedUnreachable ==
    \A t \in Thread : pc[t] = "delete_free" =>
        /\ item[t] \in allocated
        /\ Home[item[t]] = ShardFor(t)
        /\ \A k \in Key : index[k] # item[t]

IInv ==
    /\ TypeOK
    /\ InsideHoldsLock
    /\ OperationsOnTrack
    /\ OthersSettled
    /\ ItemsOwned
    /\ NoChunkLostOrShared
    /\ FreedUnreachable

-----------------------------------------------------------------------------
(***************************************************************************)
(* Requests, answers and the abstract store.                               *)
(***************************************************************************)

\* What a request is made of.
LEMMA RequestFields ==
    ASSUME NEW r \in Request
    PROVE  /\ r.key \in Key
           /\ r.op \in {"get", "set", "delete"}
           /\ r.op = "get" => r.dst \in DstSizes
           /\ r.op = "set" => r.value \in Value
<1>1. CASE r \in [op : {"get"}, key : Key, dst : DstSizes]
  BY <1>1
<1>2. CASE r \in [op : {"set"}, key : Key, value : Value]
  BY <1>2
<1>3. CASE r \in [op : {"delete"}, key : Key]
  BY <1>3
<1> QED BY <1>1, <1>2, <1>3 DEF Request

\* The answers the operations put together.
LEMMA Replies ==
    /\ \A code \in {"OK", "NOT_FOUND", "NO_MEM", "TOO_LARGE"} : Answer(code) \in Reply
    /\ \A n \in Nat : [Answer("TOO_LARGE") EXCEPT !.len = n] \in Reply
    /\ \A n \in Nat, a \in Reply : [a EXCEPT !.len = n] \in Reply
<1>1. \A code \in {"OK", "NOT_FOUND", "NO_MEM", "TOO_LARGE"} : Answer(code) \in Reply
  BY DEF Answer, Reply
<1>2. ASSUME NEW n \in Nat PROVE [Answer("TOO_LARGE") EXCEPT !.len = n] \in Reply
  BY DEF Answer, Reply
<1>3. ASSUME NEW n \in Nat, NEW a \in Reply PROVE [a EXCEPT !.len = n] \in Reply
  BY DEF Reply
<1> QED BY <1>1, <1>2, <1>3

\* A thread inside a call has a request, and its shard is a shard.
LEMMA InsideRequest ==
    ASSUME TypeOK, NEW t \in Thread, Inside(t)
    PROVE  req[t] \in Request /\ req[t].key \in Key /\ ShardFor(t) \in Shard
<1>1. req[t] \in Request
  BY DEF TypeOK, Inside
<1>2. req[t].key \in Key
  BY <1>1, RequestFields
<1> QED BY <1>1, <1>2, KvAssumption DEF ShardFor

-----------------------------------------------------------------------------
(***************************************************************************)
(* Threads do not disturb each other.                                      *)
(***************************************************************************)

\* Two threads inside work on different shards, hence on different keys.
LEMMA InsideApart ==
    ASSUME InsideHoldsLock, NEW t \in Thread, NEW u \in Thread, Inside(t), Inside(u), t # u
    PROVE  ShardFor(t) # ShardFor(u) /\ req[t].key # req[u].key
<1>1. lock[ShardFor(t)] = t /\ lock[ShardFor(u)] = u
  BY DEF InsideHoldsLock
<1>2. ShardFor(t) # ShardFor(u)
  BY <1>1
<1> QED BY <1>2 DEF ShardFor

\* A step of a thread inside that changes nothing but its own variables, its
\* lock and what belongs to its key, keeps every other thread on track and
\* every other key settled.
LEMMA OthersUndisturbed ==
    ASSUME TypeOK, InsideHoldsLock, OperationsOnTrack, OthersSettled,
           NEW t \in Thread, NEW k, k = req[t].key, Inside(t),
           req' = req,
           \A u \in Thread \ {t} : pc'[u] = pc[u] /\ resp'[u] = resp[u] /\ item'[u] = item[u],
           \A s \in Shard \ {ShardOf[k]} : lock'[s] = lock[s],
           \A j \in Key \ {k} : index'[j] = index[j] /\ store'[j] = store[j],
           \A j \in Key \ {k} : index[j] \in Chunk => mem'[index[j]] = mem[index[j]],
           \/ Inside(t)' /\ lock' = lock /\ PointOf(t)'
           \/ ~Inside(t)' /\ Settled(k)'
    PROVE  InsideHoldsLock' /\ OperationsOnTrack' /\ OthersSettled'
<1>1. \A j \in Key \ {k} : Stored(j)' = Stored(j)
  BY DEF Stored
<1>2. ASSUME NEW u \in Thread \ {t}, Inside(u)'
      PROVE  lock'[ShardFor(u)'] = u /\ PointOf(u)'
  <2>1. Inside(u)
    BY <1>2 DEF Inside
  <2>2. req[u].key \in Key \ {k} /\ ShardFor(u) \in Shard \ {ShardOf[k]}
    BY <2>1, InsideApart, InsideRequest DEF ShardFor
  <2>3. lock'[ShardFor(u)'] = u
    BY <2>1, <2>2 DEF InsideHoldsLock, ShardFor
  <2>4. PointOf(u)
    BY <2>1 DEF OperationsOnTrack
  <2>5. PointOf(u)'
    BY <1>1, <2>2, <2>4 DEF PointOf
  <2> QED BY <2>3, <2>5
<1>3. InsideHoldsLock'
  <2> SUFFICES ASSUME NEW u \in Thread, Inside(u)' PROVE lock'[ShardFor(u)'] = u
    BY DEF InsideHoldsLock
  <2>1. CASE u = t
    BY <2>1 DEF InsideHoldsLock, ShardFor
  <2> QED BY <1>2, <2>1
<1>4. OperationsOnTrack'
  BY <1>2 DEF OperationsOnTrack
<1>5. OthersSettled'
  <2> SUFFICES ASSUME NEW j \in Key, \A u \in Thread : Inside(u)' => req'[u].key # j
               PROVE  Settled(j)'
    BY DEF OthersSettled
  <2>1. CASE j = k
    BY <2>1
  <2>2. CASE j # k
    <3>1. ASSUME NEW u \in Thread, Inside(u) PROVE req[u].key # j
      BY <2>2, <3>1 DEF Inside
    <3>2. Settled(j)
      BY <3>1 DEF OthersSettled
    <3> QED BY <1>1, <2>2, <3>2 DEF Settled
  <2> QED BY <2>1, <2>2
<1> QED BY <1>3, <1>4, <1>5

\* A step that moves no item leaves the memory as it was.
LEMMA MemoryUndisturbed ==
    ASSUME ItemsOwned, NoChunkLostOrShared, FreedUnreachable,
           UNCHANGED <<req, index, allocated>>,
           \A u \in Thread : pc'[u] = "delete_free" <=> pc[u] = "delete_free",
           \A u \in Thread : pc[u] = "delete_free" => item'[u] = item[u]
    PROVE  ItemsOwned' /\ NoChunkLostOrShared' /\ FreedUnreachable'
<1>1. ItemsOwned'
  BY DEF ItemsOwned
<1>2. NoChunkLostOrShared'
  BY DEF NoChunkLostOrShared
<1>3. FreedUnreachable'
  BY DEF FreedUnreachable, ShardFor
<1> QED BY <1>1, <1>2, <1>3

\* Inside a call, at step p of it.
LEMMA AtPoint ==
    ASSUME IInv, NEW t \in Thread, Inside(t)
    PROVE  /\ req[t] \in Request /\ req[t].key \in Key /\ ShardFor(t) \in Shard
           /\ lock[ShardFor(t)] = t
           /\ PointOf(t)
BY InsideRequest DEF IInv, InsideHoldsLock, OperationsOnTrack

-----------------------------------------------------------------------------
(***************************************************************************)
(* kv_shard_get.                                                           *)
(***************************************************************************)
LEMMA GetFindKeeps ==
    ASSUME IInv, NEW t \in Thread, GetFind(t)
    PROVE  IInv'
<1> DEFINE k == req[t].key
<1>1. pc[t] = "get" /\ Inside(t)
  BY DEF GetFind, Inside
<1>2. req[t] \in Request /\ k \in Key /\ PointOf(t)
  BY <1>1, AtPoint
<1>3. req[t].op = "get" /\ Holds(k, index[k], Stored(k), store[k])
  BY <1>1, <1>2 DEF PointOf, Point
<1>4. TypeOK'
  <2>1. CASE index[k] = Absent
    BY <2>1, Replies DEF IInv, TypeOK, GetFind, Respond, Goto, Steps
  <2>2. CASE index[k] # Absent
    <3>1. index[k] \in Chunk
      BY <1>2, <1>3, <2>2 DEF IInv, TypeOK, Holds
    <3> QED BY <2>2, <3>1 DEF IInv, TypeOK, GetFind, Goto, Steps
  <2> QED BY <2>1, <2>2
<1>5. Inside(t)' /\ PointOf(t)'
  <2>1. Stored(k)' = Stored(k)
    BY DEF GetFind, Stored
  <2>2. CASE index[k] = Absent
    <3>1. pc'[t] = "unlock" /\ resp'[t] = Answer("NOT_FOUND")
      BY <2>2 DEF GetFind, Respond, Goto, IInv, TypeOK
    <3>2. resp'[t] = Answered(req[t], store[k]) /\ After(req[t], store[k]) = store[k]
      BY <1>3, <2>2, <3>1 DEF Holds, Answered, After
    <3> QED BY <1>3, <2>1, <3>1, <3>2 DEF GetFind, PointOf, Point, Inside
  <2>3. CASE index[k] # Absent
    <3>1. pc'[t] = "get_check" /\ item'[t] = index[k] /\ index[k] \in Chunk
      BY <1>2, <1>3, <2>3 DEF GetFind, Goto, IInv, TypeOK, Holds
    <3> QED BY <1>3, <2>1, <3>1 DEF GetFind, PointOf, Point, Inside
  <2> QED BY <2>2, <2>3
<1>6. InsideHoldsLock' /\ OperationsOnTrack' /\ OthersSettled'
  BY <1>1, <1>2, <1>5, OthersUndisturbed DEF IInv, TypeOK, GetFind, Respond, Goto
<1>7. ItemsOwned' /\ NoChunkLostOrShared' /\ FreedUnreachable'
  BY <1>1, MemoryUndisturbed DEF IInv, TypeOK, GetFind, Goto
<1> QED BY <1>4, <1>6, <1>7 DEF IInv

LEMMA GetCheckKeeps ==
    ASSUME IInv, NEW t \in Thread, GetCheck(t)
    PROVE  IInv'
<1> DEFINE k   == req[t].key
           len == Size[mem[item[t]].value]
<1>1. pc[t] = "get_check" /\ Inside(t)
  BY DEF GetCheck, Inside
<1>2. req[t] \in Request /\ k \in Key /\ PointOf(t)
  BY <1>1, AtPoint
<1>3. /\ req[t].op = "get" /\ item[t] = index[k] /\ index[k] \in Chunk
      /\ Holds(k, index[k], Stored(k), store[k])
  BY <1>1, <1>2 DEF PointOf, Point
<1>4. store[k] \in Value /\ len = Size[store[k]] /\ len \in Nat /\ req[t].dst \in Nat
  <2>1. store[k] \in Value
    BY <1>2, <1>3, KvAssumption DEF Holds, IInv, TypeOK
  <2>2. len = Size[store[k]]
    BY <1>3, KvAssumption DEF Holds, Stored
  <2>3. req[t].dst \in Nat
    BY <1>2, <1>3, RequestFields, KvAssumption
  <2> QED BY <2>1, <2>2, <2>3, KvAssumption
<1> HIDE DEF len
<1>5. resp' \in [Thread -> Reply]
  <2>1. [Answer("TOO_LARGE") EXCEPT !.len = len] \in Reply /\ [resp[t] EXCEPT !.len = len] \in Reply
    BY <1>4, Replies DEF IInv, TypeOK
  <2>2. \E a \in Reply : resp' = [resp EXCEPT ![t] = a]
    BY <2>1 DEF GetCheck, Respond, len
  <2> QED BY <2>2 DEF IInv, TypeOK
<1>6. TypeOK'
  BY <1>5 DEF IInv, TypeOK, GetCheck, Goto, Steps
<1>7. Inside(t)' /\ PointOf(t)'
  <2>1. Stored(k)' = Stored(k)
    BY DEF GetCheck, Stored
  <2>2. CASE len > req[t].dst
    <3>1. pc'[t] = "unlock" /\ resp'[t] = [Answer("TOO_LARGE") EXCEPT !.len = len]
      BY <2>2 DEF GetCheck, Respond, Goto, IInv, TypeOK, len
    <3>2. resp'[t] = Answered(req[t], store[k]) /\ After(req[t], store[k]) = store[k]
      BY <1>3, <1>4, <2>2, <3>1, KvAssumption DEF Answered, After
    <3> QED BY <1>3, <2>1, <3>1, <3>2 DEF GetCheck, PointOf, Point, Inside
  <2>3. CASE ~(len > req[t].dst)
    <3>1. pc'[t] = "get_copy" /\ resp'[t].len = len
      BY <2>3 DEF GetCheck, Respond, Goto, IInv, TypeOK, Reply, len
    <3>2. Size[store[k]] <= req[t].dst
      BY <1>4, <2>3
    <3> QED BY <1>3, <1>4, <2>1, <3>1, <3>2 DEF GetCheck, PointOf, Point, Inside
  <2> QED BY <2>2, <2>3
<1>8. InsideHoldsLock' /\ OperationsOnTrack' /\ OthersSettled'
  BY <1>1, <1>2, <1>7, OthersUndisturbed DEF IInv, TypeOK, GetCheck, Respond, Goto
<1>9. ItemsOwned' /\ NoChunkLostOrShared' /\ FreedUnreachable'
  BY <1>1, MemoryUndisturbed DEF IInv, TypeOK, GetCheck, Goto
<1> QED BY <1>6, <1>8, <1>9 DEF IInv

LEMMA GetCopyKeeps ==
    ASSUME IInv, NEW t \in Thread, GetCopy(t)
    PROVE  IInv'
<1> DEFINE k == req[t].key
<1>1. pc[t] = "get_copy" /\ Inside(t)
  BY DEF GetCopy, Inside
<1>2. req[t] \in Request /\ k \in Key /\ PointOf(t)
  BY <1>1, AtPoint
<1>3. /\ req[t].op = "get" /\ item[t] = index[k] /\ index[k] \in Chunk
      /\ Holds(k, index[k], Stored(k), store[k])
      /\ resp[t].len = Size[store[k]] /\ Size[store[k]] <= req[t].dst
  BY <1>1, <1>2 DEF PointOf, Point
<1>4. /\ store[k] \in Value /\ Size[store[k]] \in Nat /\ req[t].dst \in Nat
      /\ mem[item[t]].value = store[k] /\ mem[item[t]].meta = store[k]
  <2>1. store[k] \in Value
    BY <1>2, <1>3, KvAssumption DEF Holds, IInv, TypeOK
  <2>2. req[t].dst \in Nat
    BY <1>2, <1>3, RequestFields, KvAssumption
  <2>3. mem[item[t]].value = store[k] /\ mem[item[t]].meta = store[k]
    BY <1>3, KvAssumption DEF Holds, Stored
  <2> QED BY <2>1, <2>2, <2>3, KvAssumption
<1> DEFINE answer == [code |-> "OK", value |-> store[k], meta |-> store[k], len |-> Size[store[k]]]
<1>5. resp' = [resp EXCEPT ![t] = answer]
  BY <1>3, <1>4 DEF GetCopy, Respond
<1>6. TypeOK'
  <2>1. answer \in Reply
    BY <1>4 DEF Reply
  <2> HIDE DEF answer
  <2> QED BY <1>5, <2>1 DEF IInv, TypeOK, GetCopy, Goto, Steps
<1>7. Inside(t)' /\ PointOf(t)'
  <2>1. Stored(k)' = Stored(k)
    BY DEF GetCopy, Stored
  <2>2. pc'[t] = "unlock"
    BY DEF GetCopy, Goto, IInv, TypeOK
  <2>3. resp'[t] = answer
    BY <1>5 DEF IInv, TypeOK
  <2>4. resp'[t] = Answered(req[t], store[k]) /\ After(req[t], store[k]) = store[k]
    BY <1>3, <1>4, <2>3, KvAssumption DEF Answered, After
  <2> QED BY <1>3, <2>1, <2>2, <2>4 DEF GetCopy, PointOf, Point, Inside
<1>8. InsideHoldsLock' /\ OperationsOnTrack' /\ OthersSettled'
  BY <1>1, <1>2, <1>7, OthersUndisturbed DEF IInv, TypeOK, GetCopy, Respond, Goto
<1>9. ItemsOwned' /\ NoChunkLostOrShared' /\ FreedUnreachable'
  BY <1>1, MemoryUndisturbed DEF IInv, TypeOK, GetCopy, Goto
<1> QED BY <1>6, <1>8, <1>9 DEF IInv

-----------------------------------------------------------------------------
(***************************************************************************)
(* kv_shard_set.                                                           *)
(***************************************************************************)
LEMMA SetClaimKeeps ==
    ASSUME IInv, NEW t \in Thread, SetClaim(t)
    PROVE  IInv'
<1> DEFINE k     == req[t].key
           claim == IF index[k] = Absent THEN NULL ELSE index[k]
<1>1. pc[t] = "set" /\ Inside(t)
  BY DEF SetClaim, Inside
<1>2. req[t] \in Request /\ k \in Key /\ PointOf(t)
  BY <1>1, AtPoint
<1>3. req[t].op = "set" /\ Holds(k, index[k], Stored(k), store[k])
  BY <1>1, <1>2 DEF PointOf, Point
<1>4. /\ claim \in Chunk \cup {NULL}
      /\ claim \in Chunk => index[k] = claim
      /\ claim = NULL => store[k] = None
  BY <1>2, <1>3, KvAssumption DEF Holds, IInv, TypeOK
<1>5. /\ index' = [index EXCEPT ![k] = claim] /\ item' = [item EXCEPT ![t] = claim]
      /\ pc' = [pc EXCEPT ![t] = IF claim = NULL THEN "set_alloc" ELSE "set_grow"]
      /\ UNCHANGED <<lock, req, resp, mem, allocated, crashed, store>>
  BY DEF SetClaim, Goto
<1> HIDE DEF claim
<1>6. TypeOK'
  BY <1>2, <1>4, <1>5 DEF IInv, TypeOK, Steps
<1>7. index'[k] = claim /\ item'[t] = claim /\ \A j \in Key \ {k} : index'[j] = index[j]
  BY <1>2, <1>5 DEF IInv, TypeOK
<1>8. Inside(t)' /\ PointOf(t)'
  <2>1. CASE claim = NULL
    <3>1. pc'[t] = "set_alloc"
      BY <1>5, <2>1 DEF IInv, TypeOK
    <3> QED BY <1>3, <1>4, <1>5, <1>7, <2>1, <3>1 DEF PointOf, Point, Inside
  <2>2. CASE claim # NULL
    <3>1. pc'[t] = "set_grow" /\ claim \in Chunk /\ index[k] = claim
      BY <1>4, <1>5, <2>2 DEF IInv, TypeOK
    <3>2. Stored(k)' = Stored(k)
      BY <1>5, <1>7, <3>1 DEF Stored
    <3> QED BY <1>3, <1>5, <1>7, <3>1, <3>2 DEF PointOf, Point, Inside
  <2> QED BY <2>1, <2>2
<1>9. InsideHoldsLock' /\ OperationsOnTrack' /\ OthersSettled'
  BY <1>1, <1>2, <1>5, <1>7, <1>8, OthersUndisturbed DEF IInv, TypeOK
<1>10. \A j \in Key : index'[j] \in Chunk => index'[j] = index[j]
  BY <1>4, <1>7, KvAssumption
<1>11. \A j \in Key : index[j] \in Chunk => index'[j] = index[j]
  BY <1>4, <1>7, KvAssumption DEF claim
<1>12. ItemsOwned'
  BY <1>5, <1>10 DEF IInv, ItemsOwned
<1>13. NoChunkLostOrShared'
  <2>1. ASSUME NEW c \in allocated'
        PROVE  \/ \E j \in Key : index'[j] = c
               \/ \E u \in Thread : pc'[u] = "delete_free" /\ item'[u] = c
    <3>1. c \in allocated /\ c \in Chunk
      BY <1>5, <2>1 DEF IInv, TypeOK
    <3>2. CASE \E j \in Key : index[j] = c
      BY <1>11, <3>1, <3>2
    <3>3. CASE \E u \in Thread : pc[u] = "delete_free" /\ item[u] = c
      <4>1. PICK u \in Thread : pc[u] = "delete_free" /\ item[u] = c
        BY <3>3
      <4> QED BY <1>1, <1>5, <4>1 DEF IInv, TypeOK
    <3> QED BY <3>1, <3>2, <3>3 DEF IInv, NoChunkLostOrShared
  <2>2. \A k1, k2 \in Key : index'[k1] = index'[k2] /\ index'[k1] \in Chunk => k1 = k2
    BY <1>10 DEF IInv, NoChunkLostOrShared
  <2> QED BY <2>1, <2>2 DEF NoChunkLostOrShared
<1>14. FreedUnreachable'
  <2> SUFFICES ASSUME NEW u \in Thread, pc'[u] = "delete_free"
               PROVE  /\ item'[u] \in allocated' /\ Home[item'[u]] = ShardFor(u)'
                      /\ \A j \in Key : index'[j] # item'[u]
    BY DEF FreedUnreachable
  <2>1. pc[u] = "delete_free" /\ item'[u] = item[u]
    BY <1>5 DEF IInv, TypeOK
  <2>2. /\ item[u] \in allocated /\ item[u] \in Chunk /\ Home[item[u]] = ShardFor(u)
        /\ \A j \in Key : index[j] # item[u]
    BY <2>1 DEF IInv, FreedUnreachable, TypeOK
  <2> QED BY <1>5, <1>10, <2>1, <2>2 DEF ShardFor
<1> QED BY <1>6, <1>9, <1>12, <1>13, <1>14 DEF IInv

LEMMA SetAllocKeeps ==
    ASSUME IInv, NEW t \in Thread, SetAlloc(t)
    PROVE  IInv'
<1> DEFINE k == req[t].key
<1>1. pc[t] = "set_alloc" /\ Inside(t)
  BY DEF SetAlloc, Inside
<1>2. req[t] \in Request /\ k \in Key /\ PointOf(t)
  BY <1>1, AtPoint
<1>3. req[t].op = "set" /\ index[k] = NULL /\ store[k] = None
  BY <1>1, <1>2 DEF PointOf, Point
<1>4. CASE UNCHANGED <<lock, pc, req, resp, item, index, mem, allocated, store>> /\ crashed' = TRUE
  <2>1. TypeOK' /\ InsideHoldsLock'
    BY <1>4 DEF IInv, TypeOK, InsideHoldsLock, Inside, ShardFor
  <2>2. OperationsOnTrack' /\ OthersSettled'
    BY <1>4 DEF IInv, OperationsOnTrack, OthersSettled, PointOf, Settled, Stored, Inside
  <2>3. ItemsOwned' /\ NoChunkLostOrShared' /\ FreedUnreachable'
    BY <1>4 DEF IInv, ItemsOwned, NoChunkLostOrShared, FreedUnreachable, ShardFor
  <2> QED BY <2>1, <2>2, <2>3 DEF IInv
<1>5. ASSUME NEW c \in Allocatable(ShardFor(t), Size[req[t].value]),
             allocated' = allocated \cup {c},
             item' = [item EXCEPT ![t] = c],
             index' = [index EXCEPT ![k] = c],
             pc' = [pc EXCEPT ![t] = "set_grow"],
             UNCHANGED <<lock, req, resp, mem, crashed, store>>
      PROVE  IInv'
  <2>1. /\ c \in Chunk /\ c \notin allocated /\ Home[c] = ShardOf[k]
        /\ Size[req[t].value] <= Capacity[c]
    BY DEF Allocatable, ShardFor
  <2>2. TypeOK'
    BY <1>2, <1>5, <2>1 DEF IInv, TypeOK, Steps
  <2>3. /\ index'[k] = c /\ item'[t] = c /\ pc'[t] = "set_grow"
        /\ \A j \in Key \ {k} : index'[j] = index[j]
    BY <1>2, <1>5 DEF IInv, TypeOK
  <2>4. Inside(t)' /\ PointOf(t)'
    BY <1>3, <1>5, <2>1, <2>3 DEF PointOf, Point, Inside
  <2>5. InsideHoldsLock' /\ OperationsOnTrack' /\ OthersSettled'
    BY <1>1, <1>2, <1>5, <2>3, <2>4, OthersUndisturbed DEF IInv, TypeOK
  <2>6. ItemsOwned'
    BY <1>5, <2>1, <2>3 DEF IInv, ItemsOwned
  <2>7. NoChunkLostOrShared'
    <3>1. ASSUME NEW d \in allocated'
          PROVE  \/ \E j \in Key : index'[j] = d
                 \/ \E u \in Thread : pc'[u] = "delete_free" /\ item'[u] = d
      <4>1. CASE d = c
        BY <1>2, <2>3, <4>1
      <4>2. CASE d # c
        <5>1. d \in allocated /\ d \in Chunk
          BY <1>5, <3>1, <4>2 DEF IInv, TypeOK
        <5>2. CASE \E j \in Key : index[j] = d
          BY <1>3, <2>3, <5>1, <5>2, KvAssumption
        <5>3. CASE \E u \in Thread : pc[u] = "delete_free" /\ item[u] = d
          <6>1. PICK u \in Thread : pc[u] = "delete_free" /\ item[u] = d
            BY <5>3
          <6> QED BY <1>1, <1>5, <6>1 DEF IInv, TypeOK
        <5> QED BY <5>1, <5>2, <5>3 DEF IInv, NoChunkLostOrShared
      <4> QED BY <4>1, <4>2
    <3>2. \A j \in Key \ {k} : index'[j] # c
      BY <2>1, <2>3 DEF IInv, ItemsOwned
    <3>3. \A k1, k2 \in Key : index'[k1] = index'[k2] /\ index'[k1] \in Chunk => k1 = k2
      BY <2>3, <3>2 DEF IInv, NoChunkLostOrShared
    <3> QED BY <3>1, <3>3 DEF NoChunkLostOrShared
  <2>8. FreedUnreachable'
    <3> SUFFICES ASSUME NEW u \in Thread, pc'[u] = "delete_free"
                 PROVE  /\ item'[u] \in allocated' /\ Home[item'[u]] = ShardFor(u)'
                        /\ \A j \in Key : index'[j] # item'[u]
      BY DEF FreedUnreachable
    <3>1. u # t /\ pc[u] = "delete_free" /\ item'[u] = item[u]
      BY <1>5, <2>3 DEF IInv, TypeOK
    <3>2. /\ item[u] \in allocated /\ Home[item[u]] = ShardFor(u)
          /\ \A j \in Key : index[j] # item[u]
      BY <3>1 DEF IInv, FreedUnreachable
    <3> QED BY <1>5, <2>1, <2>3, <3>1, <3>2 DEF ShardFor
  <2> QED BY <2>2, <2>5, <2>6, <2>7, <2>8 DEF IInv
<1> QED BY <1>4, <1>5 DEF SetAlloc, Goto

LEMMA SetGrowKeeps ==
    ASSUME IInv, NEW t \in Thread, SetGrow(t)
    PROVE  IInv'
<1> DEFINE k    == req[t].key
           size == Size[req[t].value]
           i    == item[t]
<1>1. pc[t] = "set_grow" /\ Inside(t)
  BY DEF SetGrow, Inside
<1>2. req[t] \in Request /\ k \in Key /\ PointOf(t)
  BY <1>1, AtPoint
<1>3. /\ req[t].op = "set" /\ i = index[k] /\ i \in Chunk
      /\ size <= Capacity[i] \/ Holds(k, index[k], Stored(k), store[k])
  BY <1>1, <1>2 DEF PointOf, Point
<1>4. size \in Nat /\ Capacity[i] \in Nat /\ MaxSize \in Nat
  BY <1>2, <1>3, RequestFields, KvAssumption
<1>5. CASE /\ Capacity[i] >= size
           /\ pc' = [pc EXCEPT ![t] = "set_meta"]
           /\ UNCHANGED <<lock, req, resp, item, index, mem, allocated, crashed, store>>
  <2>1. TypeOK'
    BY <1>2, <1>5 DEF IInv, TypeOK, Steps
  <2>2. Inside(t)' /\ PointOf(t)'
    <3>1. pc'[t] = "set_meta" /\ size <= Capacity[i]
      BY <1>4, <1>5 DEF IInv, TypeOK
    <3> QED BY <1>3, <1>5, <3>1 DEF PointOf, Point, Inside
  <2>3. InsideHoldsLock' /\ OperationsOnTrack' /\ OthersSettled'
    BY <1>1, <1>2, <1>5, <2>2, OthersUndisturbed DEF IInv, TypeOK
  <2>4. ItemsOwned' /\ NoChunkLostOrShared' /\ FreedUnreachable'
    BY <1>1, <1>5, MemoryUndisturbed DEF IInv, TypeOK
  <2> QED BY <2>1, <2>3, <2>4 DEF IInv
<1>6. CASE /\ Capacity[i] < size /\ size > MaxSize
           /\ resp' = [resp EXCEPT ![t] = Answer("NO_MEM")]
           /\ pc' = [pc EXCEPT ![t] = "unlock"]
           /\ UNCHANGED <<lock, req, item, index, mem, allocated, crashed, store>>
  <2>1. TypeOK'
    BY <1>2, <1>6, Replies DEF IInv, TypeOK, Steps
  <2>2. Inside(t)' /\ PointOf(t)'
    <3>1. pc'[t] = "unlock" /\ resp'[t] = Answer("NO_MEM")
      BY <1>6 DEF IInv, TypeOK
    <3>2. Holds(k, index[k], Stored(k), store[k])
      BY <1>3, <1>4, <1>6
    <3>3. resp'[t] = Answered(req[t], store[k]) /\ After(req[t], store[k]) = store[k]
      BY <1>3, <1>6, <3>1 DEF Answered, After
    <3>4. Stored(k)' = Stored(k)
      BY <1>6 DEF Stored
    <3> QED BY <1>3, <1>6, <3>1, <3>2, <3>3, <3>4 DEF PointOf, Point, Inside
  <2>3. InsideHoldsLock' /\ OperationsOnTrack' /\ OthersSettled'
    BY <1>1, <1>2, <1>6, <2>2, OthersUndisturbed DEF IInv, TypeOK
  <2>4. ItemsOwned' /\ NoChunkLostOrShared' /\ FreedUnreachable'
    BY <1>1, <1>6, MemoryUndisturbed DEF IInv, TypeOK
  <2> QED BY <2>1, <2>3, <2>4 DEF IInv
<1>7. ASSUME NEW c \in Allocatable(ShardFor(t), size),
             allocated' = (allocated \cup {c}) \ {i},
             index' = [index EXCEPT ![k] = c],
             item' = [item EXCEPT ![t] = c],
             mem' = [mem EXCEPT ![i] = Garbage],
             pc' = [pc EXCEPT ![t] = "set_meta"],
             UNCHANGED <<lock, req, resp, crashed, store>>
      PROVE  IInv'
  <2>1. c \in Chunk /\ c \notin allocated /\ Home[c] = ShardOf[k] /\ size <= Capacity[c]
    BY DEF Allocatable, ShardFor
  <2>2. i \in allocated /\ i # c /\ \A j \in Key \ {k} : index[j] # i /\ index[j] # c
    BY <1>2, <1>3, <2>1 DEF IInv, ItemsOwned, NoChunkLostOrShared
  <2>3. TypeOK'
    <3>1. Garbage \in [key : Key \cup {None}, value : Value \cup {None}, meta : Value \cup {None}]
      BY DEF Garbage
    <3> QED BY <1>2, <1>7, <2>1, <3>1 DEF IInv, TypeOK, Steps
  <2>4. /\ index'[k] = c /\ item'[t] = c /\ pc'[t] = "set_meta"
        /\ \A j \in Key \ {k} : index'[j] = index[j]
        /\ \A d \in Chunk \ {i} : mem'[d] = mem[d]
    BY <1>2, <1>7 DEF IInv, TypeOK
  <2>5. Inside(t)' /\ PointOf(t)'
    BY <1>3, <1>7, <2>1, <2>4 DEF PointOf, Point, Inside
  <2>6. InsideHoldsLock' /\ OperationsOnTrack' /\ OthersSettled'
    <3>1. \A j \in Key \ {k} : index[j] \in Chunk => mem'[index[j]] = mem[index[j]]
      BY <2>2, <2>4
    <3> QED BY <1>1, <1>2, <1>7, <2>4, <2>5, <3>1, OthersUndisturbed DEF IInv, TypeOK
  <2>7. ItemsOwned'
    BY <1>7, <2>1, <2>2, <2>4 DEF IInv, ItemsOwned
  <2>8. NoChunkLostOrShared'
    <3>1. ASSUME NEW d \in allocated'
          PROVE  \/ \E j \in Key : index'[j] = d
                 \/ \E u \in Thread : pc'[u] = "delete_free" /\ item'[u] = d
      <4>1. CASE d = c
        BY <1>2, <2>4, <4>1
      <4>2. CASE d # c
        <5>1. d \in allocated /\ d # i
          BY <1>7, <3>1, <4>2
        <5>2. CASE \E j \in Key : index[j] = d
          BY <1>3, <2>4, <5>1, <5>2
        <5>3. CASE \E u \in Thread : pc[u] = "delete_free" /\ item[u] = d
          <6>1. PICK u \in Thread : pc[u] = "delete_free" /\ item[u] = d
            BY <5>3
          <6> QED BY <1>1, <1>7, <6>1 DEF IInv, TypeOK
        <5> QED BY <5>1, <5>2, <5>3 DEF IInv, NoChunkLostOrShared
      <4> QED BY <4>1, <4>2
    <3>2. \A k1, k2 \in Key : index'[k1] = index'[k2] /\ index'[k1] \in Chunk => k1 = k2
      BY <2>2, <2>4 DEF IInv, NoChunkLostOrShared
    <3> QED BY <3>1, <3>2 DEF NoChunkLostOrShared
  <2>9. FreedUnreachable'
    <3> SUFFICES ASSUME NEW u \in Thread, pc'[u] = "delete_free"
                 PROVE  /\ item'[u] \in allocated' /\ Home[item'[u]] = ShardFor(u)'
                        /\ \A j \in Key : index'[j] # item'[u]
      BY DEF FreedUnreachable
    <3>1. u # t /\ pc[u] = "delete_free" /\ item'[u] = item[u]
      BY <1>7, <2>4 DEF IInv, TypeOK
    <3>2. /\ item[u] \in allocated /\ Home[item[u]] = ShardFor(u)
          /\ \A j \in Key : index[j] # item[u]
      BY <3>1 DEF IInv, FreedUnreachable
    <3>3. item[u] # i /\ item[u] # c
      BY <1>2, <1>3, <2>1, <3>2
    <3> QED BY <1>7, <2>1, <2>4, <3>1, <3>2, <3>3 DEF ShardFor
  <2> QED BY <2>3, <2>6, <2>7, <2>8, <2>9 DEF IInv
<1> QED BY <1>5, <1>6, <1>7 DEF SetGrow, AllocatedAfterGrow, IndexAfterGrow, Goto, Respond

\* The stores into an item: only the item of the thread's key changes, and
\* where the step takes the thread is justified by what the item holds then.
LEMMA StoreKeeps ==
    ASSUME IInv, NEW t \in Thread, pc[t] \in {"set_meta", "set_key", "set_value"},
           NEW m \in [key : Key \cup {None}, value : Value \cup {None}, meta : Value \cup {None}],
           NEW p \in {"set_key", "set_value", "unlock"}, NEW a \in Reply,
           mem' = [mem EXCEPT ![item[t]] = m],
           pc' = [pc EXCEPT ![t] = p],
           resp' = [resp EXCEPT ![t] = a],
           UNCHANGED <<lock, req, item, index, allocated, crashed, store>>,
           Point(p, req[t], a, item[t], index[req[t].key], m, store[req[t].key])
    PROVE  IInv'
<1> DEFINE k == req[t].key
<1>1. Inside(t)
  BY DEF Inside
<1>2. req[t] \in Request /\ k \in Key /\ PointOf(t)
  BY <1>1, AtPoint
<1>3. item[t] = index[k] /\ index[k] \in Chunk
  BY <1>2 DEF PointOf, Point
<1>4. TypeOK'
  BY <1>2 DEF IInv, TypeOK, Steps
<1>5. pc'[t] = p /\ resp'[t] = a /\ mem'[item[t]] = m /\ \A c \in Chunk \ {item[t]} : mem'[c] = mem[c]
  BY <1>3 DEF IInv, TypeOK
<1>6. Inside(t)' /\ PointOf(t)'
  <2>1. Stored(k)' = m
    BY <1>3, <1>5 DEF Stored
  <2> QED BY <1>5, <2>1 DEF PointOf, Inside
<1>7. \A j \in Key \ {k} : index[j] \in Chunk => mem'[index[j]] = mem[index[j]]
  BY <1>2, <1>3, <1>5 DEF IInv, NoChunkLostOrShared
<1>8. InsideHoldsLock' /\ OperationsOnTrack' /\ OthersSettled'
  BY <1>1, <1>2, <1>6, <1>7, OthersUndisturbed DEF IInv, TypeOK
<1>9. ItemsOwned' /\ NoChunkLostOrShared' /\ FreedUnreachable'
  BY MemoryUndisturbed DEF IInv, TypeOK
<1> QED BY <1>4, <1>8, <1>9 DEF IInv

\* What a thread relies on while it fills its item.
LEMMA AtStore ==
    ASSUME IInv, NEW t \in Thread, pc[t] \in {"set_meta", "set_key", "set_value"}
    PROVE  /\ req[t].op = "set" /\ req[t].key \in Key /\ req[t].value \in Value
           /\ item[t] = index[req[t].key] /\ item[t] \in Chunk
           /\ mem[item[t]] \in [key : Key \cup {None}, value : Value \cup {None},
                                meta : Value \cup {None}]
           /\ resp[t] \in Reply
           /\ Size[req[t].value] <= Capacity[item[t]]
           /\ pc[t] \in {"set_key", "set_value"} => mem[item[t]].meta = req[t].value
           /\ pc[t] = "set_value" => mem[item[t]].key = req[t].key
<1>1. Inside(t)
  BY DEF Inside
<1>2. req[t] \in Request /\ req[t].key \in Key /\ PointOf(t)
  BY <1>1, AtPoint
<1>3. req[t].op = "set" /\ item[t] = index[req[t].key] /\ item[t] \in Chunk
  BY <1>2 DEF PointOf, Point
<1>4. Stored(req[t].key) = mem[item[t]]
  BY <1>3 DEF Stored
<1>5. /\ Size[req[t].value] <= Capacity[item[t]]
      /\ pc[t] \in {"set_key", "set_value"} => mem[item[t]].meta = req[t].value
      /\ pc[t] = "set_value" => mem[item[t]].key = req[t].key
  BY <1>2, <1>3, <1>4 DEF PointOf, Point
<1> QED BY <1>2, <1>3, <1>5, RequestFields DEF IInv, TypeOK

LEMMA SetMetaKeeps ==
    ASSUME IInv, NEW t \in Thread, SetMeta(t)
    PROVE  IInv'
<1> DEFINE m == [mem[item[t]] EXCEPT !.meta = req[t].value]
<1>1. pc[t] = "set_meta"
  BY DEF SetMeta
<1>2. /\ m \in [key : Key \cup {None}, value : Value \cup {None}, meta : Value \cup {None}]
      /\ m.meta = req[t].value
  BY <1>1, AtStore
<1>3. mem' = [mem EXCEPT ![item[t]] = m] /\ resp' = [resp EXCEPT ![t] = resp[t]]
  BY DEF SetMeta, IInv, TypeOK
<1> HIDE DEF m
<1>4. Point("set_key", req[t], resp[t], item[t], index[req[t].key], m, store[req[t].key])
  BY <1>1, <1>2, AtStore DEF Point
<1>5. resp[t] \in Reply
  BY <1>1, AtStore
<1> QED BY <1>1, <1>2, <1>3, <1>4, <1>5, StoreKeeps DEF SetMeta, Goto

LEMMA SetKeyKeeps ==
    ASSUME IInv, NEW t \in Thread, SetKey(t)
    PROVE  IInv'
<1> DEFINE m == [mem[item[t]] EXCEPT !.key = req[t].key]
<1>1. pc[t] = "set_key"
  BY DEF SetKey
<1>2. /\ m \in [key : Key \cup {None}, value : Value \cup {None}, meta : Value \cup {None}]
      /\ m.meta = req[t].value /\ m.key = req[t].key
  BY <1>1, AtStore
<1>3. mem' = [mem EXCEPT ![item[t]] = m] /\ resp' = [resp EXCEPT ![t] = resp[t]]
  BY DEF SetKey, IInv, TypeOK
<1> HIDE DEF m
<1>4. Point("set_value", req[t], resp[t], item[t], index[req[t].key], m, store[req[t].key])
  BY <1>1, <1>2, AtStore DEF Point
<1>5. resp[t] \in Reply
  BY <1>1, AtStore
<1> QED BY <1>1, <1>2, <1>3, <1>4, <1>5, StoreKeeps DEF SetKey, Goto

LEMMA SetValueKeeps ==
    ASSUME IInv, NEW t \in Thread, SetValue(t)
    PROVE  IInv'
<1> DEFINE v == req[t].value
           k == req[t].key
           m == [mem[item[t]] EXCEPT !.value = v]
<1>1. pc[t] = "set_value"
  BY DEF SetValue
<1>2. v \in Value /\ k \in Key /\ m = [key |-> k, value |-> v, meta |-> v]
  BY <1>1, AtStore
<1>3. mem' = [mem EXCEPT ![item[t]] = m] /\ resp' = [resp EXCEPT ![t] = Answer("OK")]
  BY DEF SetValue, Respond
<1> HIDE DEF m
<1>4. Answer("OK") = Answered(req[t], store[k]) /\ After(req[t], store[k]) = v
  <2>1. ~(Size[v] > MaxSize)
    <3>1. Size[v] \in Nat /\ Capacity[item[t]] \in 0..MaxSize /\ Size[v] <= Capacity[item[t]]
      BY <1>1, <1>2, AtStore, KvAssumption
    <3> QED BY <3>1, KvAssumption
  <2> QED BY <1>1, <2>1, AtStore DEF Answered, After
<1>5. Holds(k, index[k], m, v)
  BY <1>1, <1>2, AtStore, KvAssumption DEF Holds
<1>6. Point("unlock", req[t], Answer("OK"), item[t], index[k], m, store[k])
  BY <1>4, <1>5 DEF Point
<1>7. m \in [key : Key \cup {None}, value : Value \cup {None}, meta : Value \cup {None}]
  BY <1>2
<1> QED BY <1>1, <1>3, <1>6, <1>7, Replies, StoreKeeps DEF SetValue, Goto

-----------------------------------------------------------------------------
(***************************************************************************)
(* kv_shard_delete.                                                        *)
(***************************************************************************)
LEMMA DeleteFindKeeps ==
    ASSUME IInv, NEW t \in Thread, DeleteFind(t)
    PROVE  IInv'
<1> DEFINE k == req[t].key
           i == index[k]
<1>1. pc[t] = "delete" /\ Inside(t)
  BY DEF DeleteFind, Inside
<1>2. req[t] \in Request /\ k \in Key /\ PointOf(t)
  BY <1>1, AtPoint
<1>3. req[t].op = "delete" /\ Holds(k, i, Stored(k), store[k])
  BY <1>1, <1>2 DEF PointOf, Point
<1>4. CASE /\ i = Absent
           /\ resp' = [resp EXCEPT ![t] = Answer("NOT_FOUND")]
           /\ pc' = [pc EXCEPT ![t] = "unlock"]
           /\ UNCHANGED <<lock, req, item, index, mem, allocated, crashed, store>>
  <2>1. TypeOK'
    BY <1>2, <1>4, Replies DEF IInv, TypeOK, Steps
  <2>2. Inside(t)' /\ PointOf(t)'
    <3>1. pc'[t] = "unlock" /\ resp'[t] = Answer("NOT_FOUND")
      BY <1>4 DEF IInv, TypeOK
    <3>2. store[k] = None /\ Stored(k)' = Stored(k)
      BY <1>3, <1>4 DEF Holds, Stored
    <3>3. resp'[t] = Answered(req[t], store[k]) /\ After(req[t], store[k]) = store[k]
      BY <1>3, <3>1, <3>2 DEF Answered, After
    <3> QED BY <1>3, <1>4, <3>1, <3>2, <3>3 DEF PointOf, Point, Inside
  <2>3. InsideHoldsLock' /\ OperationsOnTrack' /\ OthersSettled'
    BY <1>1, <1>2, <1>4, <2>2, OthersUndisturbed DEF IInv, TypeOK
  <2>4. ItemsOwned' /\ NoChunkLostOrShared' /\ FreedUnreachable'
    BY <1>1, <1>4, MemoryUndisturbed DEF IInv, TypeOK
  <2> QED BY <2>1, <2>3, <2>4 DEF IInv
<1>5. CASE /\ i # Absent
           /\ index' = [index EXCEPT ![k] = Absent]
           /\ item' = [item EXCEPT ![t] = i]
           /\ pc' = [pc EXCEPT ![t] = "delete_free"]
           /\ UNCHANGED <<lock, req, resp, mem, allocated, crashed, store>>
  <2>1. i \in Chunk /\ store[k] # None
    BY <1>2, <1>3, <1>5 DEF Holds, IInv, TypeOK
  <2>2. TypeOK'
    BY <1>2, <1>5, <2>1 DEF IInv, TypeOK, Steps
  <2>3. /\ index'[k] = Absent /\ item'[t] = i /\ pc'[t] = "delete_free"
        /\ \A j \in Key \ {k} : index'[j] = index[j] /\ index[j] # i
    BY <1>2, <1>5, <2>1 DEF IInv, TypeOK, NoChunkLostOrShared
  <2>4. Inside(t)' /\ PointOf(t)'
    BY <1>3, <1>5, <2>1, <2>3 DEF PointOf, Point, Inside
  <2>5. InsideHoldsLock' /\ OperationsOnTrack' /\ OthersSettled'
    BY <1>1, <1>2, <1>5, <2>3, <2>4, OthersUndisturbed DEF IInv, TypeOK
  <2>6. ItemsOwned'
    BY <1>5, <2>3, KvAssumption DEF IInv, ItemsOwned
  <2>7. NoChunkLostOrShared'
    <3>1. ASSUME NEW d \in allocated'
          PROVE  \/ \E j \in Key : index'[j] = d
                 \/ \E u \in Thread : pc'[u] = "delete_free" /\ item'[u] = d
      <4>1. CASE d = i
        BY <2>3, <4>1
      <4>2. CASE d # i
        <5>1. d \in allocated
          BY <1>5, <3>1
        <5>2. CASE \E j \in Key : index[j] = d
          BY <2>3, <4>2, <5>2
        <5>3. CASE \E u \in Thread : pc[u] = "delete_free" /\ item[u] = d
          <6>1. PICK u \in Thread : pc[u] = "delete_free" /\ item[u] = d
            BY <5>3
          <6> QED BY <1>1, <1>5, <6>1 DEF IInv, TypeOK
        <5> QED BY <5>1, <5>2, <5>3 DEF IInv, NoChunkLostOrShared
      <4> QED BY <4>1, <4>2
    <3>2. \A k1, k2 \in Key : index'[k1] = index'[k2] /\ index'[k1] \in Chunk => k1 = k2
      BY <2>3, KvAssumption DEF IInv, NoChunkLostOrShared
    <3> QED BY <3>1, <3>2 DEF NoChunkLostOrShared
  <2>8. FreedUnreachable'
    <3> SUFFICES ASSUME NEW u \in Thread, pc'[u] = "delete_free"
                 PROVE  /\ item'[u] \in allocated' /\ Home[item'[u]] = ShardFor(u)'
                        /\ \A j \in Key : index'[j] # item'[u]
      BY DEF FreedUnreachable
    <3>1. CASE u = t
      <4>1. i \in allocated /\ Home[i] = ShardOf[k]
        BY <1>2, <2>1 DEF IInv, ItemsOwned
      <4> QED BY <1>5, <2>1, <2>3, <3>1, <4>1, KvAssumption DEF ShardFor
    <3>2. CASE u # t
      <4>1. pc[u] = "delete_free" /\ item'[u] = item[u]
        BY <1>5, <3>2 DEF IInv, TypeOK
      <4>2. /\ item[u] \in allocated /\ item[u] \in Chunk /\ Home[item[u]] = ShardFor(u)
            /\ \A j \in Key : index[j] # item[u]
        BY <4>1 DEF IInv, FreedUnreachable, TypeOK
      <4> QED BY <1>5, <2>3, <4>1, <4>2, KvAssumption DEF ShardFor
    <3> QED BY <3>1, <3>2
  <2> QED BY <2>2, <2>5, <2>6, <2>7, <2>8 DEF IInv
<1> QED BY <1>4, <1>5 DEF DeleteFind, Goto, Respond

LEMMA DeleteFreeKeeps ==
    ASSUME IInv, NEW t \in Thread, DeleteFree(t)
    PROVE  IInv'
<1> DEFINE k == req[t].key
           i == item[t]
<1>1. pc[t] = "delete_free" /\ Inside(t)
  BY DEF DeleteFree, Inside
<1>2. req[t] \in Request /\ k \in Key /\ PointOf(t)
  BY <1>1, AtPoint
<1>3. req[t].op = "delete" /\ index[k] = Absent /\ store[k] # None /\ i \in Chunk
  BY <1>1, <1>2 DEF PointOf, Point
<1>4. i \in allocated /\ Home[i] = ShardFor(t) /\ \A j \in Key : index[j] # i
  BY <1>1 DEF IInv, FreedUnreachable
<1>5. /\ allocated' = allocated \ {i} /\ mem' = [mem EXCEPT ![i] = Garbage]
      /\ resp' = [resp EXCEPT ![t] = Answer("OK")] /\ pc' = [pc EXCEPT ![t] = "unlock"]
      /\ UNCHANGED <<lock, req, item, index, crashed, store>>
  BY DEF DeleteFree, Respond, Goto
<1>6. TypeOK'
  <2>1. Garbage \in [key : Key \cup {None}, value : Value \cup {None}, meta : Value \cup {None}]
    BY DEF Garbage
  <2> QED BY <1>2, <1>3, <1>5, <2>1, Replies DEF IInv, TypeOK, Steps
<1>7. pc'[t] = "unlock" /\ resp'[t] = Answer("OK") /\ \A c \in Chunk \ {i} : mem'[c] = mem[c]
  BY <1>5 DEF IInv, TypeOK
<1>8. Inside(t)' /\ PointOf(t)'
  <2>1. resp'[t] = Answered(req[t], store[k]) /\ After(req[t], store[k]) = None
    BY <1>3, <1>7 DEF Answered, After
  <2>2. Holds(k, index[k], Stored(k)', None)
    BY <1>3, KvAssumption DEF Holds
  <2> QED BY <1>5, <1>7, <2>1, <2>2 DEF PointOf, Point, Inside
<1>9. InsideHoldsLock' /\ OperationsOnTrack' /\ OthersSettled'
  <2>1. \A j \in Key \ {k} : index[j] \in Chunk => mem'[index[j]] = mem[index[j]]
    BY <1>4, <1>7
  <2> QED BY <1>1, <1>2, <1>5, <1>8, <2>1, OthersUndisturbed DEF IInv, TypeOK
<1>10. ItemsOwned'
  BY <1>4, <1>5 DEF IInv, ItemsOwned
<1>11. NoChunkLostOrShared'
  <2>1. ASSUME NEW d \in allocated'
        PROVE  \/ \E j \in Key : index'[j] = d
               \/ \E u \in Thread : pc'[u] = "delete_free" /\ item'[u] = d
    <3>1. d \in allocated /\ d # i
      BY <1>5, <2>1
    <3>2. CASE \E j \in Key : index[j] = d
      BY <1>5, <3>2
    <3>3. CASE \E u \in Thread : pc[u] = "delete_free" /\ item[u] = d
      <4>1. PICK u \in Thread : pc[u] = "delete_free" /\ item[u] = d
        BY <3>3
      <4> QED BY <1>5, <3>1, <4>1 DEF IInv, TypeOK
    <3> QED BY <3>1, <3>2, <3>3 DEF IInv, NoChunkLostOrShared
  <2>2. \A k1, k2 \in Key : index'[k1] = index'[k2] /\ index'[k1] \in Chunk => k1 = k2
    BY <1>5 DEF IInv, NoChunkLostOrShared
  <2> QED BY <2>1, <2>2 DEF NoChunkLostOrShared
<1>12. FreedUnreachable'
  <2> SUFFICES ASSUME NEW u \in Thread, pc'[u] = "delete_free"
               PROVE  /\ item'[u] \in allocated' /\ Home[item'[u]] = ShardFor(u)'
                      /\ \A j \in Key : index'[j] # item'[u]
    BY DEF FreedUnreachable
  <2>1. u # t /\ pc[u] = "delete_free" /\ item'[u] = item[u]
    BY <1>5, <1>7 DEF IInv, TypeOK
  <2>2. /\ item[u] \in allocated /\ Home[item[u]] = ShardFor(u)
        /\ \A j \in Key : index[j] # item[u]
    BY <2>1 DEF IInv, FreedUnreachable
  <2>3. item[u] # i
    <3>1. Inside(u)
      BY <2>1 DEF Inside
    <3>2. ShardFor(u) # ShardFor(t)
      BY <1>1, <2>1, <3>1, InsideApart DEF IInv
    <3> QED BY <1>4, <2>2, <3>2
  <2> QED BY <1>5, <2>1, <2>2, <2>3 DEF ShardFor
<1> QED BY <1>6, <1>9, <1>10, <1>11, <1>12 DEF IInv

-----------------------------------------------------------------------------
(***************************************************************************)
(* Entering and leaving.                                                   *)
(***************************************************************************)
LEMMA CallKeeps ==
    ASSUME IInv, NEW t \in Thread, NEW r \in Request, Call(t, r)
    PROVE  IInv'
<1>1. /\ pc[t] = "idle" /\ pc' = [pc EXCEPT ![t] = "lock"]
      /\ req' = [req EXCEPT ![t] = r] /\ resp' = [resp EXCEPT ![t] = Answer("none")]
      /\ UNCHANGED <<lock, item, index, mem, allocated, crashed, store>>
  BY DEF Call, Respond, Goto
<1>2. TypeOK'
  <2>1. Answer("none") \in Reply
    BY DEF Answer, Reply
  <2> QED BY <1>1, <2>1 DEF IInv, TypeOK, Steps
<1>3. /\ ~Inside(t) /\ ~Inside(t)'
      /\ \A u \in Thread \ {t} : pc'[u] = pc[u] /\ req'[u] = req[u] /\ resp'[u] = resp[u]
  BY <1>1 DEF IInv, TypeOK, Inside
<1>4. \A k \in Key : Stored(k)' = Stored(k)
  BY <1>1 DEF Stored
<1>5. InsideHoldsLock'
  BY <1>1, <1>3 DEF IInv, InsideHoldsLock, Inside, ShardFor
<1>6. OperationsOnTrack'
  <2> SUFFICES ASSUME NEW u \in Thread, Inside(u)' PROVE PointOf(u)'
    BY DEF OperationsOnTrack
  <2>1. u # t /\ Inside(u)
    BY <1>3 DEF Inside
  <2>2. PointOf(u) /\ req[u].key \in Key
    BY <2>1, AtPoint
  <2> QED BY <1>1, <1>3, <1>4, <2>1, <2>2 DEF PointOf
<1>7. OthersSettled'
  <2> SUFFICES ASSUME NEW k \in Key, \A u \in Thread : Inside(u)' => req'[u].key # k
               PROVE  Settled(k)'
    BY DEF OthersSettled
  <2>1. \A u \in Thread : Inside(u) => req[u].key # k
    BY <1>3 DEF Inside
  <2>2. Settled(k)
    BY <2>1 DEF IInv, OthersSettled
  <2> QED BY <1>1, <1>4, <2>2 DEF Settled
<1>8. ItemsOwned'
  BY <1>1 DEF IInv, ItemsOwned
<1>9. \A u \in Thread : pc'[u] = "delete_free" <=> pc[u] = "delete_free"
  BY <1>1 DEF IInv, TypeOK
<1>10. NoChunkLostOrShared'
  BY <1>1, <1>9 DEF IInv, NoChunkLostOrShared
<1>11. FreedUnreachable'
  <2> SUFFICES ASSUME NEW u \in Thread, pc'[u] = "delete_free"
               PROVE  /\ item'[u] \in allocated' /\ Home[item'[u]] = ShardFor(u)'
                      /\ \A j \in Key : index'[j] # item'[u]
    BY DEF FreedUnreachable
  <2>1. pc[u] = "delete_free" /\ u # t
    BY <1>1, <1>9
  <2> QED BY <1>1, <1>3, <2>1 DEF IInv, FreedUnreachable, ShardFor
<1> QED BY <1>2, <1>5, <1>6, <1>7, <1>8, <1>10, <1>11 DEF IInv

\* The mutex is free, so nobody works on a key of the shard: the thread finds
\* what the last call left.
LEMMA LockKeeps ==
    ASSUME IInv, NEW t \in Thread, Lock(t)
    PROVE  IInv'
<1> DEFINE k == req[t].key
<1>1. /\ pc[t] = "lock" /\ lock[ShardFor(t)] = None
      /\ lock' = [lock EXCEPT ![ShardFor(t)] = t] /\ pc' = [pc EXCEPT ![t] = req[t].op]
      /\ UNCHANGED <<req, resp, item, index, mem, allocated, crashed, store>>
  BY DEF Lock, Goto
<1>2. req[t] \in Request
  BY <1>1 DEF IInv, TypeOK
<1>3. k \in Key /\ req[t].op \in {"get", "set", "delete"} /\ ShardFor(t) \in Shard
  BY <1>2, RequestFields, KvAssumption DEF ShardFor
<1>4. TypeOK'
  BY <1>1, <1>2, <1>3 DEF IInv, TypeOK, Steps
<1>5. /\ pc'[t] = req[t].op /\ lock'[ShardFor(t)] = t
      /\ \A u \in Thread \ {t} : pc'[u] = pc[u]
      /\ \A s \in Shard \ {ShardFor(t)} : lock'[s] = lock[s]
  BY <1>1, <1>3 DEF IInv, TypeOK
<1>6. \A j \in Key : Stored(j)' = Stored(j)
  BY <1>1 DEF Stored
<1>7. ASSUME NEW u \in Thread, Inside(u)
      PROVE  ShardFor(u) \in Shard \ {ShardFor(t)} /\ req[u].key \in Key \ {k} /\ u # t
  <2>1. lock[ShardFor(u)] = u /\ ShardFor(u) \in Shard /\ req[u].key \in Key
    BY <1>7, AtPoint
  <2>2. u # None
    BY KvAssumption
  <2> QED BY <1>1, <2>1, <2>2 DEF ShardFor
<1>8. InsideHoldsLock'
  <2> SUFFICES ASSUME NEW u \in Thread, Inside(u)' PROVE lock'[ShardFor(u)'] = u
    BY DEF InsideHoldsLock
  <2>1. CASE u = t
    BY <1>1, <1>5, <2>1 DEF ShardFor
  <2>2. CASE u # t
    <3>1. Inside(u)
      BY <1>5, <2>2 DEF Inside
    <3> QED BY <1>1, <1>5, <1>7, <3>1 DEF IInv, InsideHoldsLock, ShardFor
  <2> QED BY <2>1, <2>2
<1>9. OperationsOnTrack'
  <2> SUFFICES ASSUME NEW u \in Thread, Inside(u)' PROVE PointOf(u)'
    BY DEF OperationsOnTrack
  <2>1. CASE u = t
    <3>1. \A v \in Thread : Inside(v) => req[v].key # k
      BY <1>7
    <3>2. Settled(k)
      BY <1>3, <3>1 DEF IInv, OthersSettled
    <3> QED BY <1>1, <1>3, <1>5, <1>6, <2>1, <3>2 DEF Settled, PointOf, Point
  <2>2. CASE u # t
    <3>1. Inside(u)
      BY <1>5, <2>2 DEF Inside
    <3>2. PointOf(u) /\ req[u].key \in Key
      BY <3>1, AtPoint
    <3> QED BY <1>1, <1>5, <1>6, <2>2, <3>2 DEF PointOf
  <2> QED BY <2>1, <2>2
<1>10. OthersSettled'
  <2> SUFFICES ASSUME NEW j \in Key, \A u \in Thread : Inside(u)' => req'[u].key # j
               PROVE  Settled(j)'
    BY DEF OthersSettled
  <2>1. \A u \in Thread : Inside(u) => req[u].key # j
    BY <1>1, <1>5, <1>7 DEF Inside
  <2>2. Settled(j)
    BY <2>1 DEF IInv, OthersSettled
  <2> QED BY <1>1, <1>6, <2>2 DEF Settled
<1>11. ItemsOwned' /\ NoChunkLostOrShared' /\ FreedUnreachable'
  BY <1>1, <1>3, MemoryUndisturbed DEF IInv, TypeOK
<1> QED BY <1>4, <1>8, <1>9, <1>10, <1>11 DEF IInv

\* What a returning call did to the history.
LEMMA Returned ==
    ASSUME IInv, NEW t \in Thread, Unlock(t)
    PROVE  /\ store' = [store EXCEPT ![req[t].key] = After(req[t], store[req[t].key])]
           /\ resp[t] = Answered(req[t], store[req[t].key])
<1> DEFINE k == req[t].key
<1>1. pc[t] = "unlock" /\ Inside(t)
  BY DEF Unlock, Inside
<1>2. req[t] \in Request /\ k \in Key /\ PointOf(t)
  BY <1>1, AtPoint
<1>3. resp[t] = Answered(req[t], store[k])
  BY <1>1, <1>2 DEF PointOf, Point
<1>4. CASE req[t].op = "get"
  BY <1>2, <1>3, <1>4 DEF Unlock, After
<1>5. CASE req[t].op = "set"
  <2>1. resp[t].code = IF Size[req[t].value] > MaxSize THEN "NO_MEM" ELSE "OK"
    BY <1>3, <1>5 DEF Answered, Answer
  <2> QED BY <1>2, <1>3, <1>5, <2>1 DEF Unlock, After
<1>6. CASE req[t].op = "delete"
  <2>1. resp[t].code = IF store[k] = None THEN "NOT_FOUND" ELSE "OK"
    BY <1>3, <1>6 DEF Answered, Answer
  <2> QED BY <1>2, <1>3, <1>6, <2>1 DEF Unlock, After
<1> QED BY <1>2, <1>3, <1>4, <1>5, <1>6, RequestFields

LEMMA UnlockKeeps ==
    ASSUME IInv, NEW t \in Thread, Unlock(t)
    PROVE  IInv'
<1> DEFINE k == req[t].key
<1>1. /\ pc[t] = "unlock" /\ Inside(t)
      /\ lock' = [lock EXCEPT ![ShardFor(t)] = None] /\ pc' = [pc EXCEPT ![t] = "idle"]
      /\ item' = [item EXCEPT ![t] = NULL]
      /\ UNCHANGED <<req, resp, index, mem, allocated, crashed>>
  BY DEF Unlock, LockAfter, Goto, Inside
<1>2. req[t] \in Request /\ k \in Key /\ PointOf(t)
  BY <1>1, AtPoint
<1>3. store' = [store EXCEPT ![k] = After(req[t], store[k])]
  BY Returned
<1>4. After(req[t], store[k]) \in Value \cup {None}
  BY <1>2, RequestFields DEF After, IInv, TypeOK
<1>5. TypeOK'
  BY <1>1, <1>2, <1>3, <1>4 DEF IInv, TypeOK, Steps
<1>6. Holds(k, index[k], Stored(k), After(req[t], store[k]))
  BY <1>1, <1>2 DEF PointOf, Point
<1>7. ~Inside(t)' /\ Settled(k)'
  <2>1. Stored(k)' = Stored(k)
    BY <1>1 DEF Stored
  <2> QED BY <1>1, <1>2, <1>3, <1>6, <2>1 DEF Inside, Settled, IInv, TypeOK
<1>8. InsideHoldsLock' /\ OperationsOnTrack' /\ OthersSettled'
  BY <1>1, <1>2, <1>3, <1>7, OthersUndisturbed DEF IInv, TypeOK, ShardFor
<1>9. ItemsOwned' /\ NoChunkLostOrShared' /\ FreedUnreachable'
  BY <1>1, MemoryUndisturbed DEF IInv, TypeOK
<1> QED BY <1>5, <1>8, <1>9 DEF IInv

-----------------------------------------------------------------------------
(***************************************************************************)
(* The invariants.                                                         *)
(***************************************************************************)
LEMMA InitKeeps == Init => IInv
<1> SUFFICES ASSUME Init PROVE IInv
  OBVIOUS
<1>1. TypeOK
  <2>1. Answer("none") \in Reply
    BY DEF Answer, Reply
  <2>2. Garbage \in [key : Key \cup {None}, value : Value \cup {None}, meta : Value \cup {None}]
    BY DEF Garbage
  <2> QED BY <2>1, <2>2 DEF Init, TypeOK, Steps
<1>2. \A t \in Thread : ~Inside(t) /\ pc[t] # "delete_free"
  BY DEF Init, Inside
<1>3. OthersSettled
  BY KvAssumption DEF Init, OthersSettled, Settled, Holds
<1>4. ItemsOwned /\ NoChunkLostOrShared
  BY KvAssumption DEF Init, ItemsOwned, NoChunkLostOrShared
<1> QED BY <1>1, <1>2, <1>3, <1>4
        DEF IInv, InsideHoldsLock, OperationsOnTrack, FreedUnreachable

LEMMA StutterKeeps == IInv /\ UNCHANGED vars => IInv'
<1> SUFFICES ASSUME IInv, UNCHANGED vars PROVE IInv'
  OBVIOUS
<1>1. TypeOK' /\ InsideHoldsLock'
  BY DEF vars, IInv, TypeOK, InsideHoldsLock, Inside, ShardFor
<1>2. OperationsOnTrack' /\ OthersSettled'
  BY DEF vars, IInv, OperationsOnTrack, OthersSettled, PointOf, Settled, Stored, Inside
<1>3. ItemsOwned' /\ NoChunkLostOrShared' /\ FreedUnreachable'
  BY DEF vars, IInv, ItemsOwned, NoChunkLostOrShared, FreedUnreachable, ShardFor
<1> QED BY <1>1, <1>2, <1>3 DEF IInv

LEMMA NextKeeps == IInv /\ [Next]_vars => IInv'
<1> SUFFICES ASSUME IInv, [Next]_vars PROVE IInv'
  OBVIOUS
<1>1. CASE UNCHANGED vars
  BY <1>1, StutterKeeps
<1>2. ASSUME NEW t \in Thread, Step(t) PROVE IInv'
  <2>1. CASE \E r \in Request : Call(t, r)
    BY <2>1, CallKeeps
  <2>2. CASE Lock(t)
    BY <2>2, LockKeeps
  <2>3. CASE GetFind(t) \/ GetCheck(t) \/ GetCopy(t)
    BY <2>3, GetFindKeeps, GetCheckKeeps, GetCopyKeeps
  <2>4. CASE SetClaim(t) \/ SetAlloc(t) \/ SetGrow(t)
    BY <2>4, SetClaimKeeps, SetAllocKeeps, SetGrowKeeps
  <2>5. CASE SetMeta(t) \/ SetKey(t) \/ SetValue(t)
    BY <2>5, SetMetaKeeps, SetKeyKeeps, SetValueKeeps
  <2>6. CASE DeleteFind(t) \/ DeleteFree(t) \/ Unlock(t)
    BY <2>6, DeleteFindKeeps, DeleteFreeKeeps, UnlockKeeps
  <2> QED BY <1>2, <2>1, <2>2, <2>3, <2>4, <2>5, <2>6 DEF Step, HolderStep
<1> QED BY <1>1, <1>2 DEF Next, Dead

LEMMA Inductive == Spec => []IInv
<1> QED BY InitKeeps, NextKeeps, PTL DEF Spec

\* Whatever threads do, pointers name chunks or nothing and fields hold keys
\* and values: the type invariant of the store.
THEOREM TypeCorrect == Spec => []TypeOK
<1>1. IInv => TypeOK
  BY DEF IInv
<1> QED BY <1>1, Inductive, PTL

\* Mutual exclusion: no two threads are between lock and unlock of one shard.
\* The mutex gives it as long as nobody unlocks what is not his.
OneInsidePerShard ==
    \A t, u \in Thread : Inside(t) /\ Inside(u) /\ ShardFor(t) = ShardFor(u) => t = u

THEOREM MutualExclusion == Spec => []OneInsidePerShard
<1>1. IInv => OneInsidePerShard
  BY InsideApart DEF IInv, OneInsidePerShard
<1> QED BY <1>1, Inductive, PTL

\* Between calls each key of a shard has an item of its own with the key, the
\* value and the flags of the last set, whichever threads made the calls.
THEOREM ConsistentBetweenCalls == Spec => []UnlockedShardsConsistent
<1>1. IInv => UnlockedShardsConsistent
  <2> SUFFICES ASSUME IInv, NEW k \in Key, lock[ShardOf[k]] = None
               PROVE  /\ index[k] # NULL
                      /\ index[k] = Absent <=> store[k] = None
                      /\ index[k] # Absent =>
                          /\ index[k] \in allocated
                          /\ Home[index[k]] = ShardOf[k]
                          /\ Size[store[k]] <= Capacity[index[k]]
                          /\ mem[index[k]] = [key |-> k, value |-> store[k], meta |-> store[k]]
    BY DEF UnlockedShardsConsistent
  <2>1. ASSUME NEW t \in Thread, Inside(t) PROVE req[t].key # k
    <3>1. lock[ShardFor(t)] = t /\ t # None
      BY <2>1, KvAssumption DEF IInv, InsideHoldsLock
    <3> QED BY <3>1 DEF ShardFor
  <2>2. Holds(k, index[k], Stored(k), store[k])
    BY <2>1 DEF IInv, OthersSettled, Settled
  <2>3. index[k] # Absent => index[k] \in Chunk
    BY <2>2 DEF Holds, IInv, TypeOK
  <2> QED BY <2>2, <2>3 DEF Holds, Stored, IInv, ItemsOwned
<1> QED BY <1>1, Inductive, PTL

\* No item memory is lost and none is in two slots.
THEOREM ItemsAccountedFor == Spec => []NoChunkLostOrShared
<1>1. IInv => NoChunkLostOrShared
  BY DEF IInv
<1> QED BY <1>1, Inductive, PTL

\* No thread reads or writes an item that has been given back, or past the end
\* of one.
THEOREM AccessesSafe == Spec => []TouchesOnlyItems
<1>1. IInv => TouchesOnlyItems
  <2> SUFFICES ASSUME IInv, NEW t \in Thread
               PROVE  /\ pc[t] \in {"get_check", "get_copy", "set_grow", "set_meta", "set_key",
                                    "set_value", "delete_free"} => item[t] \in allocated
                      /\ pc[t] \in {"set_meta", "set_key", "set_value"} =>
                            Size[req[t].value] <= Capacity[item[t]]
    BY DEF TouchesOnlyItems
  <2>1. CASE pc[t] \in {"get_check", "get_copy", "set_grow", "set_meta", "set_key", "set_value"}
    <3>1. req[t].key \in Key /\ PointOf(t)
      BY <2>1, AtPoint DEF Inside
    <3>2. item[t] = index[req[t].key] /\ item[t] \in Chunk
      BY <2>1, <3>1 DEF PointOf, Point
    <3>3. item[t] \in allocated
      BY <3>1, <3>2 DEF IInv, ItemsOwned
    <3>4. pc[t] \in {"set_meta", "set_key", "set_value"} => Size[req[t].value] <= Capacity[item[t]]
      BY AtStore
    <3> QED BY <2>1, <3>3, <3>4
  <2>2. CASE pc[t] = "delete_free"
    BY <2>2 DEF IInv, FreedUnreachable
  <2> QED BY <2>1, <2>2
<1> QED BY <1>1, Inductive, PTL

-----------------------------------------------------------------------------
(***************************************************************************)
(* The refinement.  A call takes effect in the abstract store when it      *)
(* returns; until then nobody sees what it has put together.               *)
(***************************************************************************)
Busy == {t \in Thread : pc[t] # "idle"}

Shown == [t \in Thread |-> IF pc[t] = "idle" THEN resp[t] ELSE Answer("none")]

\* The abstract answer and the abstract store after a request.
LEMMA AbstractCall ==
    ASSUME TypeOK, NEW r \in Request
    PROVE  /\ KVS!AnswerTo(r) = Answered(r, store[r.key])
           /\ KVS!StoreAfter(r) = [store EXCEPT ![r.key] = After(r, store[r.key])]
<1>1. r.key \in Key /\ r.op \in {"get", "set", "delete"}
  BY RequestFields
<1>2. store = [store EXCEPT ![r.key] = store[r.key]]
  BY <1>1 DEF TypeOK
<1>3. CASE r.op = "get"
  BY <1>2, <1>3 DEF KVS!AnswerTo, KVS!StoreAfter, KVS!Answer, Answered, After, Answer
<1>4. CASE r.op = "set"
  BY <1>2, <1>4 DEF KVS!AnswerTo, KVS!StoreAfter, KVS!Answer, Answered, After, Answer
<1>5. CASE r.op = "delete"
  BY <1>2, <1>5 DEF KVS!AnswerTo, KVS!StoreAfter, KVS!Answer, Answered, After, Answer
<1> QED BY <1>1, <1>3, <1>4, <1>5

\* A step that starts and ends inside a call shows nothing.
LEMMA InnerStepHidden ==
    ASSUME TypeOK, NEW t \in Thread, NEW p, p # "idle", pc[t] # "idle",
           pc' = [pc EXCEPT ![t] = p] \/ pc' = pc,
           \A u \in Thread \ {t} : resp'[u] = resp[u],
           UNCHANGED <<req, store>>
    PROVE  UNCHANGED <<store, Busy, req, Shown>>
<1>1. \A u \in Thread : pc'[u] = "idle" <=> pc[u] = "idle"
  BY DEF TypeOK
<1>2. Busy' = Busy
  BY <1>1 DEF Busy
<1>3. Shown' = Shown
  BY <1>1 DEF Shown
<1> QED BY <1>2, <1>3

\* kv_get, kv_set and kv_delete behave as if each ran alone at one moment.
THEOREM Refinement == Spec => ImplementsStore
<1>1. Init => KVS!Init
  BY DEF Init, KVS!Init, KVS!NoRequest, KVS!NoResponse, KVS!Answer, Answer
<1>2. IInv /\ [Next]_vars => [KVS!Next]_(KVS!vars)
  <2> SUFFICES ASSUME IInv, [Next]_vars PROVE [KVS!Next]_(KVS!vars)
    OBVIOUS
  <2>1. UNCHANGED <<store, Busy, req, Shown>> => UNCHANGED KVS!vars
    BY DEF KVS!vars, Busy, Shown
  <2>2. CASE UNCHANGED vars
    BY <2>2 DEF vars, KVS!vars
  <2>3. ASSUME NEW t \in Thread, NEW r \in Request, Call(t, r) PROVE KVS!Next
    <3>1. /\ pc[t] = "idle" /\ pc' = [pc EXCEPT ![t] = "lock"]
          /\ req' = [req EXCEPT ![t] = r] /\ resp' = [resp EXCEPT ![t] = Answer("none")]
          /\ store' = store
      BY <2>3 DEF Call, Respond, Goto
    <3>2. pc'[t] = "lock" /\ \A u \in Thread \ {t} : pc'[u] = pc[u] /\ resp'[u] = resp[u]
      BY <3>1 DEF IInv, TypeOK
    <3>3. t \notin Busy /\ Busy' = Busy \cup {t}
      BY <3>1, <3>2 DEF Busy
    <3>4. Shown' = [Shown EXCEPT ![t] = Answer("none")]
      BY <3>1, <3>2 DEF Shown
    <3>5. KVS!Invoke(t, r)
      BY <3>1, <3>3, <3>4 DEF KVS!Invoke, KVS!NoResponse, KVS!Answer, Answer, Busy, Shown
    <3>6. r \in KVS!Request
      BY DEF Request, KVS!Request
    <3> QED BY <3>5, <3>6 DEF KVS!Next
  <2>4. ASSUME NEW t \in Thread, Unlock(t) PROVE KVS!Next
    <3>1. /\ pc[t] = "unlock" /\ pc' = [pc EXCEPT ![t] = "idle"]
          /\ req' = req /\ resp' = resp
      BY <2>4 DEF Unlock, Goto
    <3>2. pc'[t] = "idle" /\ \A u \in Thread \ {t} : pc'[u] = pc[u]
      BY <3>1 DEF IInv, TypeOK
    <3>3. t \in Busy /\ Busy' = Busy \ {t}
      BY <3>1, <3>2 DEF Busy
    <3>4. Shown' = [Shown EXCEPT ![t] = resp[t]]
      BY <3>1, <3>2 DEF Shown
    <3>5. req[t] \in Request
      BY <3>1 DEF IInv, TypeOK
    <3>6. resp[t] = KVS!AnswerTo(req[t]) /\ store' = KVS!StoreAfter(req[t])
      BY <2>4, <3>5, Returned, AbstractCall DEF IInv
    <3>7. KVS!Return(t)
      BY <3>1, <3>3, <3>4, <3>6 DEF KVS!Return, Busy, Shown
    <3> QED BY <3>7 DEF KVS!Next
  <2>5. ASSUME NEW t \in Thread, Lock(t) PROVE UNCHANGED <<store, Busy, req, Shown>>
    <3>1. req[t] \in Request
      BY <2>5 DEF Lock, IInv, TypeOK
    <3>2. req[t].op # "idle"
      BY <3>1, RequestFields
    <3> QED BY <2>5, <3>2, InnerStepHidden DEF Lock, Goto, IInv
  <2>6. ASSUME NEW t \in Thread, GetFind(t) \/ GetCheck(t) \/ GetCopy(t)
        PROVE  UNCHANGED <<store, Busy, req, Shown>>
    <3>1. /\ pc[t] # "idle"
          /\ \E p \in Steps \ {"idle"} : pc' = [pc EXCEPT ![t] = p]
          /\ \A u \in Thread \ {t} : resp'[u] = resp[u]
          /\ UNCHANGED <<req, store>>
      BY <2>6 DEF GetFind, GetCheck, GetCopy, Goto, Respond, IInv, TypeOK, Steps
    <3> QED BY <3>1, InnerStepHidden DEF IInv
  <2>7. ASSUME NEW t \in Thread, SetClaim(t) \/ SetAlloc(t) \/ SetGrow(t)
        PROVE  UNCHANGED <<store, Busy, req, Shown>>
    <3>1. /\ pc[t] # "idle"
          /\ (\E p \in Steps \ {"idle"} : pc' = [pc EXCEPT ![t] = p]) \/ pc' = pc
          /\ \A u \in Thread \ {t} : resp'[u] = resp[u]
          /\ UNCHANGED <<req, store>>
      BY <2>7 DEF SetClaim, SetAlloc, SetGrow, Goto, Respond, IInv, TypeOK, Steps
    <3> QED BY <3>1, InnerStepHidden DEF IInv
  <2>8. ASSUME NEW t \in Thread, SetMeta(t) \/ SetKey(t) \/ SetValue(t)
        PROVE  UNCHANGED <<store, Busy, req, Shown>>
    <3>1. /\ pc[t] # "idle"
          /\ \E p \in Steps \ {"idle"} : pc' = [pc EXCEPT ![t] = p]
          /\ \A u \in Thread \ {t} : resp'[u] = resp[u]
          /\ UNCHANGED <<req, store>>
      BY <2>8 DEF SetMeta, SetKey, SetValue, Goto, Respond, IInv, TypeOK, Steps
    <3> QED BY <3>1, InnerStepHidden DEF IInv
  <2>9. ASSUME NEW t \in Thread, DeleteFind(t) \/ DeleteFree(t)
        PROVE  UNCHANGED <<store, Busy, req, Shown>>
    <3>1. /\ pc[t] # "idle"
          /\ \E p \in Steps \ {"idle"} : pc' = [pc EXCEPT ![t] = p]
          /\ \A u \in Thread \ {t} : resp'[u] = resp[u]
          /\ UNCHANGED <<req, store>>
      BY <2>9 DEF DeleteFind, DeleteFree, Goto, Respond, IInv, TypeOK, Steps
    <3> QED BY <3>1, InnerStepHidden DEF IInv
  <2>10. CASE Dead
    BY <2>2, <2>10 DEF Dead
  <2>11. ASSUME NEW t \in Thread, Step(t) PROVE KVS!Next \/ UNCHANGED KVS!vars
    BY <2>11, <2>1, <2>3, <2>4, <2>5, <2>6, <2>7, <2>8, <2>9 DEF Step, HolderStep
  <2> QED BY <2>2, <2>10, <2>11 DEF Next
<1> QED BY <1>1, <1>2, Inductive, PTL DEF Spec, ImplementsStore, KVS!Spec
=============================================================================
