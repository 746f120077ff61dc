----------------------------- MODULE MCSlabSizes -----------------------------
(***************************************************************************)
(* The constants of the code: chunks of 48 bytes to 512 KiB, 24-byte item  *)
(* headers, 8-byte alignment.                                              *)
(***************************************************************************)
EXTENDS SlabSizes

\* Every boundary between two classes, as the size of a chunk and as the size
\* of the data in it, one below and one above, and the ends of the range.
MCRequests ==
    LET sizes == {SlabAllocatorInit[i] : i \in DOMAIN SlabAllocatorInit}
    IN  {0, 1, 2} \cup UNION {{s - 1, s, s + 1} : s \in sizes}
        \cup UNION {{s - 25, s - 24, s - 23} : s \in sizes}
=============================================================================
