------------------------------ MODULE ChunkPool ------------------------------
(***************************************************************************)
(* What an allocator of equal chunks promises: a chunk handed out is real, *)
(* belongs to nobody else, and stays with its holder until it is given     *)
(* back.  Which free chunk a request gets is left open.  Every call counts *)
(* in the slab of its chunk, so that a chunk given twice does not pass for *)
(* a call that was never made.                                             *)
(***************************************************************************)
EXTENDS Integers

CONSTANTS
    Slab,
    Chunk,
    SlabOf  \* SlabOf[c]: the slab chunk c is cut from

VARIABLES
    held,   \* the chunks in the hands of callers
    inUse   \* inUse[s]: how many of them slab s counts

vars == <<held, inUse>>

Init ==
    /\ held = {}
    /\ inUse = [s \in Slab |-> 0]

Alloc(chunk) ==
    /\ chunk \notin held
    /\ held' = held \cup {chunk}
    /\ inUse' = [inUse EXCEPT ![SlabOf[chunk]] = @ + 1]

Free(chunk) ==
    /\ chunk \in held
    /\ held' = held \ {chunk}
    /\ inUse' = [inUse EXCEPT ![SlabOf[chunk]] = @ - 1]

Next == \E chunk \in Chunk : Alloc(chunk) \/ Free(chunk)

Spec == Init /\ [][Next]_vars
=============================================================================
