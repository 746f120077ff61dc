----------------------------- MODULE MCSlabClass -----------------------------
(***************************************************************************)
(* Slabs of two or three chunks at interchangeable addresses, and arrays   *)
(* that have to grow after the second slab.                                *)
(***************************************************************************)
EXTENDS SlabClass, TLC

MCSymmetry == Permutations(Slab)
=============================================================================
