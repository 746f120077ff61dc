# kvx: models, checks and proofs

kvx is an in-memory key-value store in C. This directory holds TLA+ modules
translated from its source, the TLC configurations that check them on small
instances, and proofs that TLAPS checks for every instance. Line numbers refer to
the files of `src/src/`; `PROJECT.json` maps each definition to its lines.

## The system

| part | state | operations |
|---|---|---|
| hash table (`hashtable.c`) | two bucket arrays of chained buckets with eight slots each, a migration position, two sizes, the growth threshold, two byte counts | init, set (returns a pointer to the item slot), get, delete, len, destroy; every write moves one bucket while the table grows |
| pages (`pages.c`) | none | map, unmap, populate: whole pages, huge ones where they fit |
| slab classes (`slab_alloc.c`) | the ladder of chunk sizes | pick the class of a request |
| one slab class (`slab_alloc.c`) | array of slabs, stack of slabs with room; per slab a bump index, a free list linked through the free chunks, a count | alloc, free, growth |
| item (`item.h`) | header, key, data in one chunk | accessors |
| store (`kv.c`) | 256 shards, each a mutex, a table, an allocator | get, set, delete by any thread |
| connection (`conn.c`) | a socket, a read and a write buffer with two offsets each | init, attach, recv, consume, write, flush, reset, destroy |
| protocol (`protocol.c`) | none; the key iterator remembers a place in the input | parse a request out of a buffer, walk its keys, write answers into one |
| polling (`netpoll_epoll.c`, `netpoll_kqueue.c`) | a kernel object, an array for events | init, add, change and drop interest, poll, destroy |
| listeners (`listener.c`) | none beyond the descriptor it returns | create a TCP or a Unix listener |
| flags and configuration (`flag.c`, `config.c`) | the table of bound flags, the listener's address | bind, parse `argv`, take the URL apart |
| workers, server | structure definitions only (`server.c` is empty) | none yet |

Calls go downwards: `kv.c` hashes a key once, picks the shard with the low bits,
and under the shard's mutex calls the table (which takes its bucket index from the
bits above and its tag from the top byte) and the allocator. The table stores
pointers to items of the allocator and reads the keys inside them when it probes
or migrates. The allocator finds the slab of an item through the item's first word,
which is the link of the free list once the item has been given back. A connection
buffers what the protocol parser reads and what it writes; nothing in the
repository joins the parser, the connections and the store yet.

What is hard here, and where:

- **A table that grows while it is used.** Between two writes half of the keys
  live in one array and half in the other, and the boundary moves with every
  write, whatever its key.
- **Memory that changes its meaning.** The first word of a chunk is a slab pointer
  or a list link; a slot that was emptied keeps bytes a later probe could believe.
- **Shards under concurrent callers.** A set is visible in the table from the
  moment it claims a slot, long before key and value are written. Everything rests
  on the mutex and on every path releasing it.
- **Refusals half way.** Memory can be refused for a larger array, an item, a
  larger item, a buffer; each leaves something to undo.
- **Sockets** take and give any number of bytes, block, fail and are interrupted,
  and the loops around them must lose nothing and come to an end.
- **A request that arrives in pieces**, cut anywhere, with blocks of data that may look
  like requests.
- **Constructors that fail half way**, and kernel calls of which one half takes effect.
- **Boundaries**: chunk sizes, buffer limits, decimal numbers, unsigned counts.

There is no persistence, hence no crash recovery. `PROJECT.json` lists each hazard
at its line with the properties that would notice it.

## Modules

| module | models | abstract specification it implements |
|---|---|---|
| `HashtableOps`, `Hashtable` | `hashtable.c`, and `pages.c` as far as sizes go | `KeyValueMap` |
| `SlabSizes` | the class ladder and the binary search | |
| `SlabClass` | one size class | `ChunkPool` |
| `Kv` | `kv.c` and the stores of `item.h` | `KvStore` |
| `Conn` | `conn.c` | `ConnStreams` |
| `Protocol` | `protocol.c`: the parser and the writers, as operators on byte sequences | |
| `ProtocolSession` | a conversation: bytes arrive in pieces, requests are parsed, keys walked, replies written | |
| `Config` | `flag.c`, and `parse_config` of `config.c` | |
| `Listener` | `listener.c` | |
| `Netpoll` | `netpoll_epoll.c`, `netpoll_kqueue.c` | |

Each `MC...` module gives the constants of one component their values; `MCStartup` puts
`Config`, `Listener` and `Netpoll`, which share no state, side by side. Each
`...Proofs` module holds the theorems of the module it is named after
(`ProtocolProofs` those of `ProtocolSession` as well, `StartupProofs` those of `Listener` and `Netpoll`).

`Kv` composes table and allocator by what they promise (`KeyValueMap`, `ChunkPool`),
not by their insides: `index` is the map of a table, `allocated` the set of chunks
out of the pool. The refinements of `Hashtable` and `SlabClass` justify that.

### Hash table

`HashtableOps` has the data structure as values and each C function as an operator
on them; `Hashtable` has one action per public operation. A bucket array is a
function from bucket index to chain; a chain is the sequence of the slots of the
head bucket and of the calloc'ed buckets behind it, in probing order. `old` and
`new` are the fields `old_*` and `new_*`; `new.count = 0` is `new_buckets == NULL`.
A slot keeps state, tag and item separately because the code writes them
separately: migration empties a slot by its state alone, a delete clears all three.
`MigrateBucket` applies `MigrateSlot` to the slots of the chain in the code's order, as a recursive
function of the slot index, and unlinks the chain when all are done.
`hashtable_set` returns a pointer through which its caller stores at once; the store
is part of `Set`, and `ret` is what the caller reads through the pointer first.

`pages_map` may fail when `MapMayFail` says so. `mapped` counts the bytes of address
space the arrays hold; it follows `old_bytes` and `new_bytes`, which the code
keeps beside the arrays. When `calloc` has nothing for a chained bucket the code aborts
(hashtable.c:37-44), so no such failure is modelled.

`match_tag` compares the tags of a bucket at once by a subtraction that borrows from one
byte to the next. `Reported` has the borrow: a slot whose tag differs from the wanted one
in its lowest bit is reported as well when the slot before it is. Candidates are compared by key only
if they are busy, as in the code, so that a wrong report costs a comparison and not an answer.

### Slab allocator

`SlabSizes` uses the constants of the code (48 bytes to 512 KiB). `SlabClass` is one
class: `slabs` with its capacity, `freeStack`, `slab[s]` with `freeList`, `bump` and
`freeCount`, and `word[c]`, the first word of every chunk, which is either the
`slab_ptr` of an item or the link of a free chunk, so that a mix-up is possible in
the model. `held` is what callers hold. A class that has run out of `Slab` blocks;
the program would run out of address space. When `malloc` or `realloc` fails in the
allocator the code aborts, so no such failure is modelled.

### Store

In `Kv` a thread takes one shared access per step: lock, lookup, the two halves
of a get, claim, allocation, replacement of an item that is too small, the stores of
meta data, key and value, unlock. `mem` has the three parts of an item separately,
so a half-written item is a state. `Absent` is a key without slot, `NULL` a slot
whose item has not been stored. `store` is a history variable: the map as the
calls that returned made it. Expiry is stored and returned by the code and never
compared with a clock; it travels with the flags as `meta`.

### Connection

A call of `conn_recv` or `conn_flush` is a step per system call, so that the peer
acts in between; all else is one step per call, since a connection belongs to one
worker. A buffer is its memory (`data`, with what stale bytes it holds), capacity and two
offsets, and `Span` is what a reader may look at. `wire` is what waits in the
socket. `recv` and `send` move any number of bytes, block or fail; an interrupted
call is repeated and changes nothing. Attaching, allocation and growth may fail.
`conn_write` of no bytes and of a null pointer, which change nothing, are left out.
The doubling loop of `buffer_grow` is stated by its result: the least doubling of the
capacity that is enough, the limit if doubling would pass it.

### Protocol

A byte is one of the characters that the parser tells apart: digits of a small base, words
that are never taken apart (`get`, `set`, ...), a letter, a blank, CR, LF and a control
character. `ParseCommand` takes a sequence of them to an error, a command and the number of
consumed bytes, in the order of the checks in the code. Numbers are taken digit by digit
against their limit, as the code does before the product can wrap; words are found position
by position. Both are recursive functions, so that they can be proved about. Slices of the input are
kept as offset and length. `ProtocolSession` is the loop of `parse_chunked` in
`protocol_bench.c`, the only reader of a stream in the repository: more bytes arrive when the
parser asks for more, an accepted request is answered by the writers of `protocol.c`, key by
key for a get, and a refusal ends the conversation. The choice of the replies, and the
flushing of a full output, belong to a worker that does not exist yet and are external.

### Start-up

`Config` reads `argv` one flag per step. An argument is classified by what the parsers look
at (dashes, name, what follows `=`, a boolean word, a number with white space, sign, magnitude
and rest, a URL), never spelled out. Worth knowing: `parse_config` binds `listen` to a
local variable and copies the parsed address out of it; a port with a plus sign, `+80`, is accepted.

`Listener` is one system call per step, each of which may fail; `close` and `unlink` leave an
errno of their own. When a socket option fails, the next address is tried (listener.c:120-142),
whereas listener.h:13 says that option failures return -1: with one address it is the same.
A name `bind` has just made can be removed again: `unlink` fails only for a name somebody else took away.

`Netpoll` has both backends behind the variable `backend`: what `netpoll_init` holds when it
fails or goes on, with the field it tests before anybody wrote it (netpoll_epoll.c:25) as a choice,
and the kernel's table after each call: per descriptor and direction a filter, with its data, enabled or not.
One `kevent` call makes two changes in order and stops at the first that fails, so `Kevent` is
the three ways in which it can end. What is assumed of the kernel, for descriptors that are open: an add may fail at any time,
a delete fails for a filter that is not there (`ENOENT`) and for nothing else, `epoll_ctl` changes all or nothing.
`agreed`, `refused` and `dropped` are history: what the last successful call asked for, what failed calls
have asked since, and whether the last call was `netpoll_del`.

## Runs

| run | instance | what it shows |
|---|---|---|
| `hashtable` | four keys, three of which share a bucket in the arrays of one and of two buckets, two of them the tag as well; two slots per bucket; initial capacities 0 (default), 1, 2 and the rejected 3 | each key is where lookups look, once (`EveryItemReachable`, `OneCopyPerKey`); sizes are exact; growth keeps ahead of insertion; moved buckets are empty and unchained; the table is the map (`ImplementsMap`); a growth that began ends (`MigrationEnds`) |
| `hashtable_nomem` | the same keys, one slot per bucket, memory for a larger array refused at will | chains of up to four buckets, moved whole when memory comes: still the map |
| `hashtable_pages` | as `hashtable` | **violated**: `NothingLeftMapped` (finding 1) |
| `slab_sizes` | the constants of the code; every class boundary, one below and one above, as chunk and as data size | the ladder climbs; every request that fits gets the smallest class that holds it |
| `slab_usable` | the same | **violated**: `UsableIsHandedOut` (finding 2) |
| `slab_class` | four interchangeable slabs of two chunks, arrays of two | the stack is exact, the arrays are not overrun, every chunk is in one place, held items know their slab, memory is asked for only when all is held, the class is a pool |
| `hashtable_tags` | as `hashtable` | **violated**: `ReportedIffTag` (finding 4) |
| `kv` | two threads and two keys of one contended shard of two, chunks in both shards, values of sizes 1 and 2 and one that no item holds, buffers of 1 and 2 | between calls a shard is consistent, no item is lost, shared or touched when free, each call is atomic (`ImplementsStore`), and every path gives the lock back (`LocksReleased`) |
| `kv_nomem` | as `kv` | **violated**: `SetRefusedSafely` (finding 3) |
| `conn` | two byte values, buffers of one byte that grow to two and then three, a socket that holds one byte | no byte lost, repeated, reordered or left over from an earlier connection; AGAIN, EOF, FULL and refusals mean what `conn.h` says, and EOF is the answer from then on; growth only when compaction is not enough; both loops return (`CallsReturn`) |
| `protocol` | every stream of up to four of six characters; lines of every command with legal and illegal words and endings; blocks of up to two bytes, CR and LF among them, with another request behind; numbers up to 6 in base 4; every way of cutting each stream | what was answered on a part of the input stands (`CutsDoNotMatter`); requests are taken exactly, and behind a complete line only the block of a legal set is waited for (`RequestsRecognized`); a get is answered for each word once (`KeysServed`); a client reads back what was written (`RepliesReadBack`) |
| `startup` | command lines of up to three of sixteen arguments; two addresses, both platforms' options; two descriptors | flags end up as given or are refused whole (`FlagsAsGiven`); `ListenerDelivers`; a connection is woken for what was asked even where a `kevent` stopped half way (`WokenAsAgreed`), and for nothing once it is dropped (`NothingAfterDel`); `OnlyTheArrayIsLost` |

Why the bounds are enough. *Table*: with two slots per bucket, `scale_at_size` is 1,
3 and 6 for one, two and four buckets, so four keys force a growth from one to two
and from two to four buckets, a chain in the head bucket, and a bucket that splits.
One key has two items, which makes overwrites visible. *Slabs*: two chunks per slab
are the first and the last, a third slab makes the arrays grow (2 to 3), a fourth
makes them grow again. *Store*: with two threads, one inside and one
outside the lock, and two keys per shard, any item confused with another shows; a
third thread could only repeat the waiting one. Each size has as many chunks as a
shard has keys, which is what the code's growth gives. *Connection*: capacities 1, 2
and 3 are both ways in which a capacity is found, a doubling and the limit; the byte values are arbitrary, so
exchanged or repeated bytes show up in some run of the two values. Reset and attach
return to every earlier state, so any number of connections is covered. `wire` holds
one byte, since several receives in one call do what one of several bytes does.
*Protocol*: keys of at most two characters, numbers whose limit lies inside the second
digit (6 in base 4) and blocks of at most two bytes put each limit within one character of
a stream on either side of it. *Start-up*: three arguments are a flag, its value and something behind;
two addresses are the first, whose failure is followed by another, and the last.

Symmetry is used for slabs alone, which no module compares with anything but each
other. Deadlock is checked except where the system stops by design: in the
table's runs (`Destroy`) and in `startup` (a constructor returns).

### Fairness

- `Hashtable!FairSpec` assumes that writes keep coming (`[]<><<Write>>_vars`) and
  nothing about their kind or keys. Nothing else moves buckets, so nothing weaker
  would do; a table that is only read stays in the middle of its growth.
- `Kv!FairSpec` assumes that a thread inside a critical section is scheduled. Nothing
  is assumed about who gets a contended mutex: `pthread_mutex_t` is no queue, and a
  thread may starve.
- `Conn!FairSpec` assumes that system calls return and that `EINTR` does not repeat
  for ever. Sockets may refuse everything.

### Findings

1. `hashtable_finish_migration` (hashtable.c:370) hands array, count and size of the
   new array to the `old_*` fields but leaves `old_bytes`. The next growth and
   `hashtable_destroy` unmap that many bytes: part of the larger array stays mapped.
2. `slab_allocator_usable_size(n)` looks up the class of `n`, an allocation of `n`
   bytes that of `n` plus the item header; `slab_bench.c:376` takes one for the other.
3. When no item can hold the data of a new key, `kv_shard_set` undoes its claimed slot
   with `hashtable_delete` (kv.c:107). That compares keys through the item pointer of
   the slot, which is still NULL, before `KV_ERR_NO_MEM` can be answered.
4. The comment beside the tag match (hashtable.c:50) promises a bit exactly for the bytes that
   equal the tag. The subtraction borrows, so a byte that differs from the tag in one bit is reported too when it
   follows a match. Lookups compare the key afterwards and stay right (run `hashtable`).

## Proofs

| module | theorems | for every |
|---|---|---|
| `HashtableProofs` | `TypeCorrect`, `ReachableCorrect`, `CopiesCorrect`, `SizesCorrect`, `MovedCorrect`, `LoadCorrect`, `Refinement` (to `KeyValueMap`) | set of keys and items, hash, tags, bucket size, initial capacity, refusal of memory (`LoadCorrect`: two slots per bucket or more, memory never refused) |
| `SlabSizesProofs` | `ClassesCorrect`, `RequestsCorrect` | smallest and largest chunk, header size, alignment that divides the largest chunk, request |
| `SlabClassProofs` | `TypeCorrect`, `StackCorrect`, `ChunksCorrect`, `HeldCorrect`, `ArraysCorrect`, `GrowthCorrect`, `Refinement` (to `ChunkPool`) | number of slabs and chunks, initial capacity of two or more |
| `KvProofs` | `TypeCorrect`, `MutualExclusion`, `ConsistentBetweenCalls`, `ItemsAccountedFor`, `AccessesSafe`, `Refinement` (to `KvStore`) | set of threads, keys, shards, values, chunks and sizes |
| `ConnProofs` | `TypeCorrect`, `GrowthCorrect`, `Refinement` (to `ConnStreams`) | limit, first capacity, output and socket |
| `ProtocolProofs` | `AnswersStand`, `CutsCorrect`, `TypeCorrect`, `KeysCorrect`, `RequestsCorrect`, `RepliesCorrect` | base, limits (six words or more), input and way of cutting it, items, texts, output buffer |
| `ConfigProofs` | `FlagsCorrect` | flags bound before, arguments, length of the command line, ranges of numbers |
| `StartupProofs` | `ListenerCorrect`; `InterestCorrect`, `DeletionCorrect`, `ResourcesCorrect` | number of addresses, platform, errno; set of descriptors and data |

With them every property that a passing run checks is proved as well, but for liveness
(`MigrationEnds`, `LocksReleased`, `CallsReturn`). The assumptions are the named ones on the constants, which
TLC evaluates in the runs: `ItemAssumption`, `HashAssumption`, `SizeAssumption`, `CapAssumption`, `SizesAssumption`, `SlabAssumption`, `ClassAssumption`, `ChunkAssumption`, `KvAssumption`,
`ConnAssumption`, `ProtocolAssumption`, `SessionAssumption`, `ConfigAssumption`, `PollerAssumption`.
Two of them say more than a type. The digits differ from each other and from what separates words and
lines, as characters do; and a stream is no longer than `SIZE_MAX`, the length of anything in memory, so that a block
the parser refuses for its length alone is none that the stream could hold.

**Hash table.** The argument has three layers. A half of the table is the set of the items in its busy
slots (`Contents`): a set, a delete and the move of a slot change that set by one item, whatever chain
and slot they find (`SetHalfIs`, `DeleteHalfIs`, `EmptiedIs`). The table is the union of its halves
(`Items`): moving a slot, a bucket (`SlotMoves`, `SlotsMove`, `BucketMoves`) and finishing a
migration (`StepIs`) leave the union alone, and a call touches the items of its own key only (`SetIs`, `GetIs`,
`DeleteIs`). The state machine is then the map from a key to its one item, which gives the refinement. What
keeps the layers together is `TableOK`: each half is well formed, holds each key in the chain it hashes to,
under its tag, once; and the migration position divides the keys between the halves.
It needs a clause that no property states: a free slot that a write may still claim holds no pointer
(`Clean`), so that `hashtable_set` hands out `NULL` for a new key. A moved bucket keeps its pointers behind, and
is not clean, but no write looks into it again. Sizes are cardinalities of `Contents`, so they follow; load
is an arithmetic consequence of one bucket per write and the thresholds of two tables being far enough
apart (`ThresholdsApart`), which is where `LoadCorrect` needs two slots per bucket; the code has eight.

**Size classes.** The ladder is a recursive function from a size to the rest of the ladder; that it exists
is shown by how far a size is from the largest (`LadderDefined`). The search is one from a range to an
answer, by the width of the range (`SearchDefined`, `SearchFinds`): the class it looks for stays inside the range.

**Recursive functions.** The library's induction theorems take an operator as a parameter, which no installed
prover can instantiate. Induction over the natural numbers in terms of a *set* of numbers has no such
parameter (`Induction`, from the well-foundedness of `<`), and is what the proofs use: for the existence
of the function, which TLAPS does not know, and for what it yields.

**Slab class.** The inductive invariant conjoins the checked `TypeOK`, `StackIsSlabsWithRoom`,
`ChunksAccountedFor` and `HeldKnowTheirSlab` with two facts that no run needs and an
induction does: a slab enters the class once and is untouched before that
(`SlabsEnterOnce`), and the array of slabs fits its capacity (`SlabsFit`).
The core is `ChunksAccountedFor`: each slab has a sequence of distinct chunks that
is its free list. `TakenListShrinks` and `FreedListGrows` give the list after an
allocation (its tail, or the same list when the chunk comes from above the
bump index) and after a free (the chunk in front). The tail needs the link in the
chunk to be intact, which is where `HeldKnowTheirSlab` and disjointness from `held`
come in: callers' stores never hit a listed chunk. `free_count` is the length of the list
plus what lies above the bump index, so it is 0 exactly when nothing can be given; that keeps the
stack exact. `ArraysCorrect` needs no invariant of its own: the stack has no repetition and holds
only slabs of the class, so its length is at most theirs (a cardinality argument), and theirs
fits the capacity the arrays share. `CountFollows` ties the count of each slab to the chunks it
has out, for the refinement.

**Store.** A thread past `lock` owns its shard (`InsideHoldsLock`), so it is the only one inside
(`MutualExclusion`). How far its operation has come is stated by `Point`, a predicate on its own
variables and on the slot, the item and the history of its one key; a key nobody works
on is settled (`OthersSettled`). A step of another thread has another key, and its items are its own
(`ItemsOwned`, `NoChunkLostOrShared`), so it leaves every other `Point` as it was
(`OthersUndisturbed`, `MemoryUndisturbed`). For the refinement the abstract operation takes effect
at `Unlock`, where `Point` knows answer and history; all earlier steps stutter. The proof covers
the refusals too, except that a thread which meets the defect of finding 3 stops.

**Connection.** One lemma per buffer operation: growing, compacting, filling, emptying and
passing over bytes keep a buffer good, and change what is read from it (`Span`) not at all,
by what was appended, or by what was dropped. `RoomKeeps` and `RoomForKeeps` put them
together as `conn_recv` and `conn_write` do. The invariant adds to the types that the bytes
between the offsets never are the garbage of fresh memory, that a connection without a socket has nothing
waiting, that the end of the stream is believed only when there is one, and that what a flush has sent and what it
still has to send fit the limit together.

**Protocol.** `AnswersStand`: an answer other than "incomplete" is the answer to every continuation of
the bytes it was given on, and an accepted command has arrived whole. It rests on the first
line break, which later bytes cannot change. The session keeps as an invariant that the last
answer is the one to the whole rest of the input.
`TypeCorrect` adds what the numbers and slices are: one more digit stays within the limit because it is refused
before the product could pass it (`NextDigitIs`), words start and end inside their line (`WordsAre`), a
block inside what was consumed (`ParsedIs`), and a writer delivers no more than there is room for.
`KeysCorrect` is about the iterator, which looks for the next key in the input itself, behind the key it showed
last. Its invariant (`Serving`) says that the key shown is the word behind those served; the step from one
to the next (`NextWordIs`) uses that a word starts behind the blank that ends the word before
(`WordsApart`), and that the list of words leaves none out (`WordStartsAre`).

`RequestsCorrect` compares the parser with the protocol in its own terms. What a word of digits denotes is a sum
over places (`Denoted`), what the parser makes of it is multiplied up digit by digit and refused half way:
they agree, and the refusal comes exactly when the sum is above the limit (`DenotedIs`, `NumberRead`).
Then the tests of a header are those of a legal line, one command at a time (`CommandLegal`, `HeaderLegal`); a line
is found where a frame has one (`LineFound`) and a block where it has one (`BlockIs`). The invariant
(`Requested`) is about the bytes of the request and not about the parse: what was consumed is a frame, and
where the conversation has stopped no continuation of the position begins with one (`LegalAccepted`).

`RepliesCorrect` relates two recursions: the client's, over the output, and the
history of replies, over the steps. What joins them is `Legible`: the output can be
cut into pieces each of which is read as one reply. A piece is read the same whatever follows it
(`ReadStays`), so a reply that is written adds a piece (`ReplyAdded`); and a client that reads legible bytes
from any cut on reads the replies from there (`DecodedDefined`, `LegibleDecoded`). That a single reply is read as what was
written is the part about the code: an item (`ItemReply`), whose key is a word of the request
(`KeyPlain`, from `Serving`), whose numbers denote what they were written for (`WrittenDenotes`) and whose value is
taken by its length, so that it may hold anything; a text, which has no line end when there was room to look at it
(`TextPutOut`); a word.

**Command line.** The arguments consumed so far have a reading, and each flag holds what that reading gave
it last (`ReadSoFar`). Nothing more is needed for the commands that are taken. For the refused ones it takes
that no other reading exists: any reading of the whole line has a flag at the next argument
(`Ahead`), since the one before settles whether a value follows; so what is refused there is refused by all.

**Listener.** The descriptor in the making is the only one open, and every call that comes
before the next one is behind it. **Polling.** Each descriptor's filters fit its history
(`Fits`). What makes this inductive is that the writing filter is never there without the reading one: adding
starts with the reading filter and so does deleting, therefore a delete that finds none to read finds none at all
(`DeleteKeeps`), and a half-made change has not touched writing (`FailsKeeps`). The epoll backend's array is all
that a poller without life holds.

Only model-checked: liveness (`MigrationEnds`, `LocksReleased`, `CallsReturn`), which is beyond the prover, and the
four runs that end in a violation.

## Not modelled, and why

- `worker.c` declares structures, `server.c` is empty. `main.c` is a demonstration.
- `kv_init`, `kv_destroy` and `slab_class_destroy` run before the first or after the last
  caller; they only allocate and free.
- `pages_populate` touches pages and changes nothing that is seen.
- `netpoll_poll` hands over what the kernel reports and changes no state of the program.
- `print_usage` and `report_error`: wording.
- Expiry is stored, returned and never acted upon; what an expired item should be is not
  defined by the code yet.
- The wrap of `data_len + ITEM_SIZE` (slab_alloc.c:296) needs a length near `SIZE_MAX`, which no
  buffer has; the 16 bits of `key_len` need a key the parser refuses.
- The benches measure; what they expect is among the properties, and `parse_chunked` is the
  loop of `ProtocolSession`.
- xxHash is vendored; a hash is a constant function of the key.

## Plan

Written, in order: table, slab classes, store, connection, protocol, start-up; proofs
of the slab class, the store, the connection, the parser, the listeners and the pollers, then of the table,
the size classes, and the types and keys of a conversation, last of the requests, the replies and the command
line. Left:

1. `KvTable`: `Kv` over the real table operators, in which every write moves
   other keys' items and reads the keys stored in their memory.
2. `Conn` under `ProtocolSession`: what a worker may do after FULL, once there is a worker.
