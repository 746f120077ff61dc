------------------------------ MODULE SlabClass ------------------------------
(***************************************************************************)
(* One size class of the slab allocator (src/slab_alloc.c): its slabs, the *)
(* stack of slabs with room, and inside every slab a bump index over the   *)
(* chunks never used and a list of the chunks given back, linked through   *)
(* the chunks themselves.  Classes share nothing, so one is modelled.      *)
(***************************************************************************)
EXTENDS Integers, Sequences, FiniteSets, SequencesExt

CONSTANTS
    Slab,           \* the addresses malloc can return for a slab
    NULL,
    ChunksPerSlab,  \* (SLAB_SIZE - sizeof(slab_t)) / chunk_size
    InitialCap      \* SLAB_CLASS_INITIAL_CAP

ASSUME SlabAssumption ==
    /\ NULL \notin Slab
    /\ IsFiniteSet(Slab)

ASSUME ClassAssumption ==
    /\ ChunksPerSlab \in Nat \ {0}
    /\ InitialCap \in Nat /\ InitialCap >= 2

\* A chunk is named by its slab and its index in the slab's memory.
Chunk == Slab \X (0..ChunksPerSlab - 1)

ASSUME ChunkAssumption == NULL \notin Chunk /\ Slab \cap Chunk = {}

VARIABLES
    slabs,      \* sc->slabs, in the order they were added
    slabsCap,   \* sc->slabs_cap, the capacity of slabs and of free_stack
    freeStack,  \* sc->free_stack, the last one is the top
    slab,       \* slab[s]: free_list, bump and free_count of slab s
    word,       \* word[c]: the first word of chunk c, its slab_ptr while it is
                \* an item and the next free chunk while it is on a free list
    held        \* the items callers hold: allocated and not freed since

vars == <<slabs, slabsCap, freeStack, slab, word, held>>

-----------------------------------------------------------------------------
\* slab_init: nothing on the list, no chunk used yet.
NewSlab == [freeList |-> NULL, bump |-> 0, freeCount |-> ChunksPerSlab]

Init ==
    /\ slabs = <<>>
    /\ slabsCap = InitialCap
    /\ freeStack = <<>>
    /\ slab = [s \in Slab |-> NewSlab]
    /\ word = [c \in Chunk |-> NULL]
    /\ held = {}

\* Mutated form: the arrays keep their capacity when they are full.
GrownCapNever(num, cap) == cap

\* slab_class_grow_slabs, when the array of slabs is full.
GrownCap(num, cap) == IF num = cap THEN cap + cap \div 2 ELSE cap

\* Mutated form: a slab leaves the stack only when an allocation finds it empty.
StackAfterAllocLate(stack, freeCount) == stack

\* slab_class_alloc_item: the slab on top leaves the stack with its last chunk.
StackAfterAlloc(stack, freeCount) ==
    IF freeCount = 0 THEN Front(stack) ELSE stack

\* Mutated form: a reused chunk leaves its link behind instead of unlinking.
NextFreeStuck(s, item) == slab[s].freeList

NextFree(s, item) == IF slab[s].freeList # NULL THEN word[item] ELSE NULL

\* Mutated form: a reused chunk uses up a new one as well.
NextBumpAlways(s) == slab[s].bump + 1

NextBump(s) == IF slab[s].freeList # NULL THEN slab[s].bump ELSE slab[s].bump + 1

\* Mutated form: an item keeps the link that its chunk held on the free list.
SlabPtrOnFirstUse(s, item) == IF slab[s].freeList # NULL THEN word[item] ELSE s

\* The slab_ptr written into every item handed out.
SlabPtr(s, item) == s

\* slab_alloc_item on slab s, the top of `stack`: a chunk given back first,
\* else the next one never used.
TakeChunk(s, stack) ==
    LET item  == IF slab[s].freeList # NULL THEN slab[s].freeList ELSE <<s, slab[s].bump>>
        after == [freeList  |-> NextFree(s, item),
                  bump      |-> NextBump(s),
                  freeCount |-> slab[s].freeCount - 1]
    IN  IF slab[s].freeCount = 0
        THEN /\ freeStack' = StackAfterAlloc(stack, 0)
             /\ UNCHANGED <<slab, word, held>>
        ELSE /\ slab' = [slab EXCEPT ![s] = after]
             /\ freeStack' = StackAfterAlloc(stack, after.freeCount)
             /\ word' = [word EXCEPT ![item] = SlabPtr(s, item)]
             /\ held' = held \cup {item}

\* slab_class_grow: a new slab becomes the top of the stack.  The chunks of a
\* model run out with Slab, those of the program with the address space.
AllocFromNewSlab ==
    /\ freeStack = <<>>
    /\ \E s \in Slab \ Range(slabs) :
        /\ slabsCap' = GrownCap(Len(slabs), slabsCap)
        /\ slabs' = Append(slabs, s)
        /\ TakeChunk(s, <<s>>)

AllocFromTop ==
    /\ freeStack # <<>>
    /\ TakeChunk(Last(freeStack), freeStack)
    /\ UNCHANGED <<slabs, slabsCap>>

AllocItem == AllocFromNewSlab \/ AllocFromTop

\* Mutated form: the test looks for the count before the chunk came back.
StackAfterFreeOffByOne(s, freeCount) ==
    IF freeCount = 0 THEN Append(freeStack, s) ELSE freeStack

\* slab_class_free_item: a slab that was full goes back on the stack.
StackAfterFree(s, freeCount) ==
    IF freeCount = 1 THEN Append(freeStack, s) ELSE freeStack

\* slab_allocator_free_item: the slab is found through the item itself.
FreeItem(item) ==
    /\ item \in held
    /\ LET s == word[item]
       IN  /\ word' = [word EXCEPT ![item] = slab[s].freeList]
           /\ slab' = [slab EXCEPT ![s].freeList = item, ![s].freeCount = @ + 1]
           /\ freeStack' = StackAfterFree(s, slab[s].freeCount + 1)
    /\ held' = held \ {item}
    /\ UNCHANGED <<slabs, slabsCap>>

Next == AllocItem \/ \E item \in held : FreeItem(item)

Spec == Init /\ [][Next]_vars

-----------------------------------------------------------------------------
(***************************************************************************)
(* Properties.                                                             *)
(***************************************************************************)

\* Counts and indices stay inside a slab, links name chunks.
TypeOK ==
    /\ slabs \in Seq(Slab)
    /\ slabsCap \in Nat
    /\ freeStack \in Seq(Slab)
    /\ slab \in [Slab -> [freeList : Chunk \cup {NULL}, bump : 0..ChunksPerSlab,
                          freeCount : 0..ChunksPerSlab]]
    /\ word \in [Chunk -> Slab \cup Chunk \cup {NULL}]
    /\ held \subseteq Chunk

\* The stack is exactly the slabs with a free chunk, each once: an allocation
\* looks no further than its top, so a slab that is missing is memory lost and
\* one too many is an allocation from a full slab.
StackIsSlabsWithRoom ==
    /\ IsInjective(freeStack)
    /\ Range(freeStack) = {s \in Range(slabs) : slab[s].freeCount > 0}

\* free_stack is written at free_top without a check against slabs_cap: the
\* two arrays grow together, and no order of frees may overtake that.
StackFits == Len(freeStack) <= slabsCap /\ Len(slabs) <= slabsCap

\* Every sequence of chunks of slab s that can be a free list.
FreeLists(s) == UNION {[1..n -> {s} \X (0..ChunksPerSlab - 1)] : n \in 0..ChunksPerSlab}

\* `list` is the free list of slab s: linked through its chunks, ending in
\* NULL, without the same chunk twice.  Together with the held chunks it makes
\* up what lies below the bump index, and free_count is its length plus what
\* lies above.
IsFreeList(s, list) ==
    /\ IsInjective(list)
    /\ slab[s].freeList = IF list = <<>> THEN NULL ELSE list[1]
    /\ \A i \in 1..Len(list) :
        /\ word[list[i]] = IF i = Len(list) THEN NULL ELSE list[i + 1]
        /\ list[i][2] < slab[s].bump
        /\ list[i] \notin held
    /\ \A c \in Chunk : c[1] = s =>
        (c[2] < slab[s].bump <=> c \in held \/ c \in Range(list))
    /\ slab[s].freeCount = Len(list) + (ChunksPerSlab - slab[s].bump)

\* Every chunk of a slab is in one place: held by a caller, on the free list,
\* or above the bump index.  Frees in any order keep it so although the links
\* live in memory the callers just wrote to.
ChunksAccountedFor == \A s \in Slab : \E list \in FreeLists(s) : IsFreeList(s, list)

\* A held item finds its way back to the slab it was cut from.
HeldKnowTheirSlab == \A c \in held : word[c] = c[1] /\ c[1] \in Range(slabs)

\* The class takes memory from the system only when it has none left to give:
\* every chunk of every slab is held.
GrowsOnlyWhenFull ==
    [][slabs' # slabs => held = Range(slabs) \X (0..ChunksPerSlab - 1)]_vars

\* Callers see an allocator: no chunk in two hands, none outside a slab, and
\* every slab counts exactly its chunks that are out.
Pool == INSTANCE ChunkPool WITH
    SlabOf <- [c \in Chunk |-> c[1]],
    inUse  <- [s \in Slab |-> ChunksPerSlab - slab[s].freeCount]

ImplementsPool == Pool!Spec
=============================================================================
