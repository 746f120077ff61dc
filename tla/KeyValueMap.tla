----------------------------- MODULE KeyValueMap -----------------------------
(***************************************************************************)
(* What a hash table promises its callers: a finite map from keys to items *)
(* whose answers depend on nothing but the calls made so far.  This is the *)
(* reference that test/hashtable_test.c compares the table with.           *)
(***************************************************************************)
EXTENDS Naturals, FiniteSets

CONSTANTS Key, Item, ItemKey, NULL

VARIABLES
    map,  \* the item stored under each key, NULL when absent
    len,  \* what hashtable_len answers
    ret   \* the answer of the last call

vars == <<map, len, ret>>

Present(m) == {k \in Key : m[k] # NULL}

Init ==
    /\ map = [k \in Key |-> NULL]
    /\ len = 0
    /\ ret = NULL

\* A set answers with the item it replaces, NULL for a new key.
Set(key, item) ==
    /\ ItemKey[item] = key
    /\ map' = [map EXCEPT ![key] = item]
    /\ len' = IF map[key] = NULL THEN len + 1 ELSE len
    /\ ret' = map[key]

Get(key) ==
    /\ ret' = map[key]
    /\ UNCHANGED <<map, len>>

\* A delete answers with the item it removes.
Delete(key) ==
    /\ map' = [map EXCEPT ![key] = NULL]
    /\ len' = IF map[key] = NULL THEN len ELSE len - 1
    /\ ret' = map[key]

Next ==
    \E key \in Key :
        \/ \E item \in Item : Set(key, item)
        \/ Get(key)
        \/ Delete(key)

Spec == Init /\ [][Next]_vars
=============================================================================
