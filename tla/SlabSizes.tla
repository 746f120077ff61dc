------------------------------ MODULE SlabSizes ------------------------------
(***************************************************************************)
(* The size classes of the slab allocator (src/slab_alloc.c): how they are *)
(* laid out at start-up and how a request picks one.  Each call is a step  *)
(* that leaves its answer in `answer`.                                     *)
(***************************************************************************)
EXTENDS Integers, Sequences, FiniteSetsExt

CONSTANTS
    MinDataChunk,  \* MIN_DATA_CHUNK_SIZE
    MaxDataChunk,  \* MAX_DATA_CHUNK_SIZE
    ItemAlign,     \* alignof(item_t)
    ItemSize,      \* ITEM_SIZE, the item_t header
    Requests       \* the sizes callers ask for

ASSUME SizesAssumption ==
    /\ MinDataChunk \in Nat \ {0}
    /\ MaxDataChunk \in Nat /\ MinDataChunk < MaxDataChunk
    /\ ItemAlign \in Nat \ {0} /\ MaxDataChunk % ItemAlign = 0
    /\ ItemSize \in Nat /\ ItemSize < MinDataChunk
    /\ Requests \subseteq Nat

VARIABLES
    classes,  \* classes[i]: data_chunk_size of class i - 1
    answer    \* the last call and what it returned

vars == <<classes, answer>>

-----------------------------------------------------------------------------
AlignUp(size) == ((size + ItemAlign - 1) \div ItemAlign) * ItemAlign

\* Mutated form: the last step may overshoot the largest chunk.
NextChunkSizeUncapped(size) ==
    LET next == AlignUp((size * 5) \div 4)
    IN  IF next <= size THEN size + ItemAlign ELSE next

\* A quarter larger, at least one alignment step, at most the largest chunk.
NextChunkSize(size) ==
    LET next  == AlignUp((size * 5) \div 4)
        grown == IF next <= size THEN size + ItemAlign ELSE next
    IN  IF grown > MaxDataChunk THEN MaxDataChunk ELSE grown

\* The chunk sizes from `size` on, up to the largest: the loops of
\* count_slab_classes and slab_allocator_init.
ChunkSizesFrom[size \in 0..2 * MaxDataChunk] ==
    IF size >= MaxDataChunk THEN <<size>>
    ELSE <<size>> \o ChunkSizesFrom[NextChunkSize(size)]

SlabAllocatorInit == ChunkSizesFrom[MinDataChunk]

\* Mutated form: the search drops the middle class when it fits exactly.
FindClassStrict(size) ==
    LET search[range \in (0..Len(classes)) \X (0..Len(classes))] ==
            LET left  == range[1]
                right == range[2]
                mid   == left + (right - left) \div 2
            IN  IF left >= right THEN left
                ELSE IF classes[mid + 1] <= size
                     THEN search[<<mid + 1, right>>]
                     ELSE search[<<left, mid>>]
    IN  search[<<0, Len(classes)>>]

\* Binary search for the first class of at least `size` bytes; the number of
\* classes when there is none.
FindClass(size) ==
    LET search[range \in (0..Len(classes)) \X (0..Len(classes))] ==
            LET left  == range[1]
                right == range[2]
                mid   == left + (right - left) \div 2
            IN  IF left >= right THEN left
                ELSE IF classes[mid + 1] < size
                     THEN search[<<mid + 1, right>>]
                     ELSE search[<<left, mid>>]
    IN  search[<<0, Len(classes)>>]

\* slab_init rounds the chunks of a class up, and an item keeps what is left
\* after its header as data_size.
ChunkSize(class) == AlignUp(classes[class + 1])

NoAnswer == [op |-> "none", size |-> 0, class |-> 0, bytes |-> 0]

-----------------------------------------------------------------------------
Init ==
    /\ classes = SlabAllocatorInit
    /\ answer = NoAnswer

\* slab_allocator_alloc_item: NULL, or an item of data_size `bytes`.
AllocItem(dataLen) ==
    LET size  == dataLen + ItemSize
        class == FindClass(size)
    IN  /\ answer' = IF dataLen = 0 \/ size > MaxDataChunk \/ class = Len(classes)
                     THEN [op |-> "null", size |-> dataLen, class |-> 0, bytes |-> 0]
                     ELSE [op |-> "item", size |-> dataLen, class |-> class,
                           bytes |-> ChunkSize(class) - ItemSize]
        /\ UNCHANGED classes

\* slab_allocator_usable_size.
UsableSize(size) ==
    /\ answer' = IF size = 0 \/ size > MaxDataChunk
                 THEN [op |-> "usable", size |-> size, class |-> 0, bytes |-> 0]
                 ELSE [op |-> "usable", size |-> size, class |-> FindClass(size),
                       bytes |-> classes[FindClass(size) + 1]]
    /\ UNCHANGED classes

Next == \E n \in Requests : AllocItem(n) \/ UsableSize(n)

Spec == Init /\ [][Next]_vars

-----------------------------------------------------------------------------
(***************************************************************************)
(* Properties.                                                             *)
(***************************************************************************)

\* The classes climb strictly from the smallest to the largest chunk: the
\* order the binary search relies on, whatever rounding does to a step.
ClassesClimb ==
    /\ classes[1] = MinDataChunk
    /\ classes[Len(classes)] = MaxDataChunk
    /\ \A i \in 1..Len(classes) - 1 : classes[i] < classes[i + 1]

\* An item is refused only when header and data exceed the largest chunk, or
\* when there is no data; an item that is granted holds the data it was asked
\* for, in the smallest class that can: kv_shard_set writes the data without
\* looking again.
RequestsServed ==
    LET fitting == {i \in 1..Len(classes) : classes[i] >= answer.size + ItemSize}
    IN  /\ answer.op = "null" => answer.size = 0 \/ fitting = {}
        /\ answer.op = "item" => /\ answer.bytes >= answer.size
                                /\ answer.class + 1 = Min(fitting)

\* slab_allocator_usable_size(n) names the chunk a request of n bytes is
\* handed out: what bench/slab_bench.c takes it for.
UsableIsHandedOut ==
    answer.op = "usable" /\ answer.bytes # 0 /\ answer.size + ItemSize <= MaxDataChunk =>
        answer.class = FindClass(answer.size + ItemSize)
=============================================================================
