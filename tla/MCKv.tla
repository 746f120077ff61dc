-------------------------------- MODULE MCKv --------------------------------
(***************************************************************************)
(* Two threads and two keys that contend for one shard of two, a value     *)
(* that needs a larger item than the other one and a value that no item    *)
(* can hold.                                                               *)
(***************************************************************************)
EXTENDS Kv

CONSTANTS t1, t2, ka, kb, small, large, huge, x, y

MCThread == {t1, t2}

MCKey == {ka, kb}
MCShardOf == [k \in Key |-> x]

MCSize == [v \in Value |-> IF v = small THEN 1 ELSE IF v = large THEN 2 ELSE 3]

\* As many chunks of each size as a shard has keys; the other shard has chunks
\* too, which nobody may take.
MCChunk == {<<k, n>> : k \in Key \cup {y}, n \in {1, 2}}
MCCapacity == [c \in Chunk |-> c[2]]
MCHome == [c \in Chunk |-> IF c[1] = y THEN y ELSE x]
=============================================================================
