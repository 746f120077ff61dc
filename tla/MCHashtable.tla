----------------------------- MODULE MCHashtable -----------------------------
(***************************************************************************)
(* Four keys for a table that starts with one or two buckets.              *)
(***************************************************************************)
EXTENDS Hashtable

CONSTANTS k1, k2, k3, k4

MCKey == {k1, k2, k3, k4}

\* k1, k2 and k4 share every bucket of the arrays of 1 and 2 buckets, k1 and
\* k2 also their tag and the bucket of 4: chains, false tag matches, splits.
\* The tag of k4 is one bit from theirs, the one of k3 one bit from an empty slot's.
MCHash == [k \in Key |-> IF k \in {k1, k2} THEN 4 ELSE IF k = k3 THEN 1 ELSE 2]
MCTag  == [k \in Key |-> IF k \in {k1, k2} THEN 6 ELSE IF k = k3 THEN 1 ELSE 7]

MCItem1 == Key \X {1}
\* One key is overwritten, the others keep their item.
MCItemK1 == (Key \X {1}) \cup {<<k1, 2>>}

MCItemKey == [it \in Item |-> it[1]]
=============================================================================
