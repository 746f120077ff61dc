--------------------------------- MODULE Conn ---------------------------------
(***************************************************************************)
(* The buffered connection of src/conn.c: one worker calls it, the socket  *)
(* gives and takes any number of bytes at a time, the peer sends and stops *)
(* when it likes.  A call of conn_recv or conn_flush is a step per system  *)
(* call, so the peer acts in between; every other call is one step.        *)
(***************************************************************************)
EXTENDS Integers, Sequences, FiniteSetsExt

CONSTANTS
    Byte,
    Garbage,     \* what malloc'ed memory holds
    DefaultCap,  \* CONN_DEFAULT_BUF_CAP
    MaxSize,     \* max_buffer_size, set once at start-up
    MaxWrite,    \* the longest output the worker queues at once
    WireSize     \* bytes the socket holds between the peer and this end

ASSUME ConnAssumption ==
    /\ Garbage \notin Byte
    /\ DefaultCap \in Nat \ {0}
    /\ MaxSize \in Nat /\ MaxSize >= DefaultCap
    /\ MaxWrite \in Nat \ {0} /\ WireSize \in Nat \ {0}

VARIABLES
    attached,    \* conn->fd is a socket, not -1
    peerClosed,  \* conn->peer_closed
    r,           \* r_buf, r_buf_cap, r_len and r_pos
    w,           \* w_buf, w_buf_cap, w_len and w_pos
    wire,        \* bytes of the peer that wait in the socket
    shut,        \* the peer has shut down its sending direction
    sent,        \* what the socket took from the flush in progress
    io           \* the call in progress, or the answer of the last one

vars == <<attached, peerClosed, r, w, wire, shut, sent, io>>

-----------------------------------------------------------------------------
(***************************************************************************)
(* Buffers: `data` is the memory, the unread or unsent bytes are the ones  *)
(* from index pos up to len.                                               *)
(***************************************************************************)
NoBuffer == [cap |-> 0, len |-> 0, pos |-> 0, data |-> <<>>]

Span(buf) == SubSeq(buf.data, buf.pos + 1, buf.len)

\* Doublings of a capacity, of the default for the first memory, that hold
\* `least` bytes and do not pass the limit.
Doublings(cap, least, limit) ==
    {c \in least..limit :
        \E k \in 0..limit : c = (IF cap = 0 THEN DefaultCap ELSE cap) * 2^k}

\* Mutated form: doubling does not stop at the limit.
GrownCapUnlimited(cap, extra) == Min(Doublings(cap, cap + extra, 4 * MaxSize))

\* buffer_grow's loop: the first doubling that is enough, the limit if
\* doubling would pass it.
GrownCap(cap, extra) == Min(Doublings(cap, cap + extra, MaxSize) \cup {MaxSize})

\* buffer_grow when realloc succeeds: the old bytes stay, the new ones are garbage.
Grown(buf, extra) ==
    LET cap == GrownCap(buf.cap, extra)
    IN  [cap |-> cap, len |-> buf.len, pos |-> buf.pos,
         data |-> buf.data \o [i \in 1..cap - buf.cap |-> Garbage]]

\* Mutated form: the offsets move and the bytes do not.
CompactedOffsetsOnly(buf) ==
    [buf EXCEPT !.len = buf.len - buf.pos, !.pos = 0]

\* buffer_compact: the span moves to the front, what lay behind stays as it was.
Compacted(buf) ==
    [cap |-> buf.cap, len |-> buf.len - buf.pos, pos |-> 0,
     data |-> [i \in 1..buf.cap |->
                 IF i <= buf.len - buf.pos THEN buf.data[i + buf.pos] ELSE buf.data[i]]]

\* Bytes copied behind the ones the buffer holds.
Filled(buf, bytes) ==
    [cap |-> buf.cap, len |-> buf.len + Len(bytes), pos |-> buf.pos,
     data |-> [i \in 1..buf.cap |->
                 IF i \in buf.len + 1..buf.len + Len(bytes)
                 THEN bytes[i - buf.len] ELSE buf.data[i]]]

Emptied(buf) == [cap |-> buf.cap, len |-> 0, pos |-> 0, data |-> buf.data]

-----------------------------------------------------------------------------
(***************************************************************************)
(* Set-up and tear-down.                                                   *)
(***************************************************************************)
Live == r.cap > 0
InCall == io \in {"recv", "flush"}

Init ==
    /\ attached = FALSE /\ peerClosed = FALSE
    /\ r = NoBuffer /\ w = NoBuffer
    /\ wire = <<>> /\ shut = FALSE
    /\ sent = <<>>
    /\ io = "none"

\* conn_init: both buffers, or none and an empty object.
ConnInit ==
    /\ ~Live /\ ~InCall
    /\ \/ /\ r' = Grown(NoBuffer, DefaultCap)
          /\ w' = Grown(NoBuffer, DefaultCap)
          /\ UNCHANGED io
       \/ io' = "none" /\ UNCHANGED <<r, w>>
    /\ UNCHANGED <<attached, peerClosed, wire, shut, sent>>

\* conn_attach to a new socket; fcntl may refuse it.
Attach ==
    /\ Live /\ ~attached /\ ~InCall
    /\ \/ /\ attached' = TRUE /\ peerClosed' = FALSE
          /\ r' = Emptied(r) /\ w' = Emptied(w)
          /\ io' = "attached"
       \/ io' = "error" /\ UNCHANGED <<attached, peerClosed, r, w>>
    /\ UNCHANGED <<wire, shut, sent>>

\* conn_reset closes the socket, with whatever waited in it, and keeps the
\* capacity; conn_destroy frees the buffers as well.
Reset ==
    /\ Live /\ ~InCall
    /\ attached' = FALSE /\ peerClosed' = FALSE
    /\ \/ r' = Emptied(r) /\ w' = Emptied(w)
       \/ r' = NoBuffer /\ w' = NoBuffer
    /\ wire' = <<>> /\ shut' = FALSE
    /\ io' = "none"
    /\ UNCHANGED sent

\* The peer, through the network and the kernel.
Peer ==
    /\ attached /\ ~shut
    /\ \/ \E b \in Byte : Len(wire) < WireSize /\ wire' = Append(wire, b) /\ UNCHANGED shut
       \/ shut' = TRUE /\ UNCHANGED wire
    /\ UNCHANGED <<attached, peerClosed, r, w, sent, io>>

Call(op) ==
    /\ Live /\ ~InCall
    /\ io' = op
    /\ UNCHANGED <<attached, peerClosed, r, w, wire, shut, sent>>

-----------------------------------------------------------------------------
(***************************************************************************)
(* Receiving: conn_recv reads until the socket is empty, the stream ends   *)
(* or the buffer is full at its limit.                                     *)
(***************************************************************************)

\* Mutated form: memory is taken before the consumed bytes are given up.
WithRoomGrownFirst(buf) ==
    IF buf.len < buf.cap THEN buf
    ELSE IF buf.cap < MaxSize THEN Grown(buf, 1)
    ELSE Compacted(buf)

\* The buffer as it is when recv is called: compacted, and grown if that is
\* not enough, when it had no room.
WithRoom(buf) ==
    IF buf.len < buf.cap THEN buf
    ELSE IF buf.pos > 0 THEN Compacted(buf)
    ELSE IF buf.cap < MaxSize THEN Grown(buf, 1)
    ELSE buf

HasRoom(buf) == buf.len < buf.cap

Receiving == io = "recv" /\ attached /\ ~peerClosed

\* recv takes any number of the bytes that wait, as far as there is room.
RecvBytes(n) ==
    /\ Receiving
    /\ LET room == WithRoom(r)
       IN  /\ n <= room.cap - room.len
           /\ r' = Filled(room, SubSeq(wire, 1, n))
    /\ wire' = SubSeq(wire, n + 1, Len(wire))
    /\ UNCHANGED <<attached, peerClosed, w, shut, sent, io>>

\* recv answers 0: the peer has shut down and all it sent has been read.
RecvEof ==
    /\ Receiving
    /\ HasRoom(WithRoom(r)) /\ wire = <<>> /\ shut
    /\ r' = WithRoom(r)
    /\ peerClosed' = TRUE
    /\ io' = "eof"
    /\ UNCHANGED <<attached, w, wire, shut, sent>>

\* recv would block, or fails for good.  (An interrupted recv is called again:
\* a step that changes nothing.)
RecvBlocked ==
    /\ Receiving
    /\ HasRoom(WithRoom(r))
    /\ r' = WithRoom(r)
    /\ \/ wire = <<>> /\ ~shut /\ io' = "again"
       \/ io' = "error"
    /\ UNCHANGED <<attached, peerClosed, w, wire, shut, sent>>

\* Mutated form: a buffer full at its limit is tried again.
RecvRefusedButFull ==
    /\ io = "recv"
    /\ \/ ~attached /\ io' = "error"
       \/ attached /\ peerClosed /\ io' = "eof"
       \/ Receiving /\ r.len = r.cap /\ r.pos = 0 /\ r.cap < MaxSize /\ io' = "error"
    /\ UNCHANGED <<attached, peerClosed, r, w, wire, shut, sent>>

\* The answers without a system call: no socket, the end already seen, a
\* buffer full at its limit, no memory for a larger one.
RecvRefused ==
    /\ io = "recv"
    /\ \/ ~attached /\ io' = "error"
       \/ attached /\ peerClosed /\ io' = "eof"
       \/ Receiving /\ ~HasRoom(WithRoom(r)) /\ io' = "full"
       \/ Receiving /\ r.len = r.cap /\ r.pos = 0 /\ r.cap < MaxSize /\ io' = "error"
    /\ UNCHANGED <<attached, peerClosed, r, w, wire, shut, sent>>

\* conn_consume: never more than there is; an empty span starts over.
Consume(n) ==
    /\ Live /\ ~InCall
    /\ IF n > r.len - r.pos
       THEN io' = "einval" /\ UNCHANGED r
       ELSE /\ io' = "ok"
            /\ r' = IF r.pos + n = r.len THEN Emptied(r) ELSE [r EXCEPT !.pos = @ + n]
    /\ UNCHANGED <<attached, peerClosed, w, wire, shut, sent>>

-----------------------------------------------------------------------------
(***************************************************************************)
(* Sending: conn_write queues, conn_flush hands to the socket.             *)
(***************************************************************************)

\* The buffer as it is when n bytes are copied into it: compacted and then
\* grown when it had no room for them.
WithRoomFor(buf, n) ==
    IF n <= buf.cap - buf.len THEN buf
    ELSE IF n <= buf.cap - (buf.len - buf.pos) THEN Compacted(buf)
    ELSE Grown(Compacted(buf), n - (buf.cap - (buf.len - buf.pos)))

\* conn_write: refused as a whole beyond the limit.  Without memory nothing is
\* queued, but the buffer has been compacted.
Write(bytes) ==
    /\ Live /\ ~InCall
    /\ LET n       == Len(bytes)
           pending == w.len - w.pos
       IN  \/ n > MaxSize - pending /\ io' = "enobufs" /\ UNCHANGED w
           \/ /\ n <= MaxSize - pending
              /\ w' = Filled(WithRoomFor(w, n), bytes)
              /\ io' = "ok"
           \/ /\ n <= MaxSize - pending
              /\ n > w.cap - pending
              /\ w' = Compacted(w)
              /\ io' = "enomem"
    /\ UNCHANGED <<attached, peerClosed, r, wire, shut, sent>>

Flushing == io = "flush" /\ attached /\ w.pos < w.len

\* send takes any number of the bytes offered, one at least.
Send(n) ==
    /\ Flushing
    /\ n <= w.len - w.pos
    /\ sent' = sent \o SubSeq(w.data, w.pos + 1, w.pos + n)
    /\ w' = [w EXCEPT !.pos = @ + n]
    /\ UNCHANGED <<attached, peerClosed, r, wire, shut, io>>

\* send would block, fails, or takes nothing, which counts as a failure: the
\* rest stays queued.
SendNothing ==
    /\ Flushing
    /\ io' \in {"again", "error"}
    /\ sent' = <<>>
    /\ UNCHANGED <<attached, peerClosed, r, w, wire, shut>>

\* Nothing is left to send, or there is no socket.
FlushReturns ==
    /\ io = "flush" /\ ~Flushing
    /\ \/ attached /\ io' = "ok" /\ w' = Emptied(w)
       \/ ~attached /\ io' = "error" /\ UNCHANGED w
    /\ sent' = <<>>
    /\ UNCHANGED <<attached, peerClosed, r, wire, shut>>

-----------------------------------------------------------------------------
Outputs == UNION {[1..n -> Byte] : n \in 1..MaxWrite}

RecvStep ==
    \/ \E n \in 1..Len(wire) : RecvBytes(n)
    \/ RecvEof \/ RecvBlocked \/ RecvRefused

FlushStep == (\E n \in 1..w.len - w.pos : Send(n)) \/ SendNothing \/ FlushReturns

Worker ==
    \/ ConnInit \/ Attach \/ Reset
    \/ Call("recv") \/ Call("flush")
    \/ \E n \in 1..MaxSize + 1 : Consume(n)
    \/ \E bytes \in Outputs : Write(bytes)

Next == Worker \/ Peer \/ RecvStep \/ FlushStep

Spec == Init /\ [][Next]_vars

\* System calls return, and none is interrupted for ever.
FairSpec == Spec /\ WF_vars(RecvStep) /\ WF_vars(FlushStep)

-----------------------------------------------------------------------------
(***************************************************************************)
(* Properties.                                                             *)
(***************************************************************************)
BufferOK(buf) ==
    /\ buf \in [cap : {0} \cup DefaultCap..MaxSize, len : 0..MaxSize, pos : 0..MaxSize,
                data : Seq(Byte \cup {Garbage})]
    /\ Len(buf.data) = buf.cap
    /\ buf.pos <= buf.len /\ buf.len <= buf.cap

\* Offsets stay inside the memory, and the memory inside its limits: no byte
\* is read from or written beyond a buffer.
TypeOK ==
    /\ attached \in BOOLEAN /\ peerClosed \in BOOLEAN /\ shut \in BOOLEAN
    /\ BufferOK(r) /\ BufferOK(w)
    /\ r.cap = 0 <=> w.cap = 0
    /\ wire \in UNION {[1..n -> Byte] : n \in 0..WireSize}
    /\ sent \in UNION {[1..n -> Byte] : n \in 0..MaxSize}
    /\ io \in {"none", "attached", "recv", "flush", "again", "eof", "full", "error",
               "ok", "einval", "enobufs", "enomem"}

\* A buffer takes more memory only when the bytes it has to hold, without the
\* ones already consumed or sent, exceed what it has.
GrowsOnlyWhenNeeded ==
    [][/\ r.cap > 0 /\ r'.cap > r.cap => Len(Span(r)) = r.cap
       /\ w.cap > 0 /\ w'.cap > w.cap => Len(Span(w')) > w.cap]_vars

\* The worker finds the bytes of the peer, and the peer those of the worker,
\* complete, once and in order, however reads, sends, compactions and growth
\* cut them up; and each answer tells the truth about the buffer and the socket.
Streams == INSTANCE ConnStreams WITH
    ended   <- peerClosed,
    unread  <- Span(r),
    pending <- Span(w)

ImplementsStreams == Streams!Spec

\* Neither loop runs for ever, whatever peer and socket do: every call of
\* conn_recv and conn_flush comes back.
CallsReturn == InCall ~> ~InCall
=============================================================================
