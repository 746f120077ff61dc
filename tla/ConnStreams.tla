----------------------------- MODULE ConnStreams -----------------------------
(***************************************************************************)
(* What src/conn.h promises a worker of one connection: two byte queues of *)
(* at most MaxSize bytes, one filled from the socket and one drained into  *)
(* it, that lose, repeat and reorder nothing, and answers that can be      *)
(* relied on.                                                              *)
(***************************************************************************)
EXTENDS Naturals, Sequences

CONSTANTS
    Byte,
    MaxSize,   \* the configured limit of a buffer
    MaxWrite,  \* the longest output a caller queues at once
    WireSize   \* bytes the socket holds between the peer and this end

Bytes(n) == UNION {[1..m -> Byte] : m \in 1..n}

DropFirst(seq, n) == SubSeq(seq, n + 1, Len(seq))

VARIABLES
    attached,  \* the connection owns a socket
    wire,      \* bytes of the peer that wait in the socket
    shut,      \* the peer has shut down its sending direction
    ended,     \* a receive has said so
    unread,    \* bytes received and not consumed
    pending,   \* bytes queued and not yet taken by the socket
    sent,      \* what the socket took from the flush in progress
    io         \* the call in progress, or the answer of the last one

vars == <<attached, wire, shut, ended, unread, pending, sent, io>>

InCall == io \in {"recv", "flush"}

Init ==
    /\ attached = FALSE /\ wire = <<>> /\ shut = FALSE /\ ended = FALSE
    /\ unread = <<>> /\ pending = <<>> /\ sent = <<>>
    /\ io = "none"

Peer ==
    /\ attached /\ ~shut
    /\ \/ \E b \in Byte : Len(wire) < WireSize /\ wire' = Append(wire, b) /\ UNCHANGED shut
       \/ shut' = TRUE /\ UNCHANGED wire
    /\ UNCHANGED <<attached, ended, unread, pending, sent, io>>

\* A connection that is attached starts empty, whatever its buffers served before.
Attach ==
    /\ ~attached /\ ~InCall
    /\ \/ attached' = TRUE /\ unread' = <<>> /\ pending' = <<>>
          /\ wire' = <<>> /\ shut' = FALSE /\ ended' = FALSE /\ io' = "attached"
       \/ io' = "error" /\ UNCHANGED <<attached, wire, shut, ended, unread, pending>>
    /\ UNCHANGED sent

Reset ==
    /\ ~InCall
    /\ attached' = FALSE /\ wire' = <<>> /\ shut' = FALSE /\ ended' = FALSE
    /\ unread' = <<>> /\ pending' = <<>>
    /\ io' = "none"
    /\ UNCHANGED sent

Call ==
    /\ ~InCall
    /\ io' \in {"recv", "flush"}
    /\ UNCHANGED <<attached, wire, shut, ended, unread, pending, sent>>

Receive(n) ==
    /\ io = "recv" /\ ~ended
    /\ Len(unread) + n <= MaxSize
    /\ unread' = unread \o SubSeq(wire, 1, n)
    /\ wire' = DropFirst(wire, n)
    /\ UNCHANGED <<attached, shut, ended, pending, sent, io>>

\* AGAIN: the socket is drained.  EOF: all the peer ever sent is in the buffer,
\* and this is the only answer until the connection is reset.  FULL: no byte
\* more would have fit.
RecvAnswer ==
    /\ io = "recv"
    /\ \/ io' = "again" /\ wire = <<>> /\ ~ended
       \/ io' = "eof"   /\ wire = <<>> /\ shut
       \/ io' = "full"  /\ Len(unread) = MaxSize /\ ~ended
       \/ io' = "error" /\ ~ended
    /\ ended' = (ended \/ io' = "eof")
    /\ UNCHANGED <<attached, wire, shut, unread, pending, sent>>

Consume(n) ==
    /\ ~InCall
    /\ IF n <= Len(unread) THEN unread' = DropFirst(unread, n) /\ io' = "ok"
                           ELSE io' = "einval" /\ UNCHANGED unread
    /\ UNCHANGED <<attached, wire, shut, ended, pending, sent>>

\* Output is queued as a whole or not at all.
Write(bytes) ==
    /\ ~InCall
    /\ IF Len(pending) + Len(bytes) > MaxSize
       THEN io' = "enobufs" /\ UNCHANGED pending
       ELSE \/ pending' = pending \o bytes /\ io' = "ok"
            \/ io' = "enomem" /\ UNCHANGED pending
    /\ UNCHANGED <<attached, wire, shut, ended, unread, sent>>

Transmit(n) ==
    /\ io = "flush"
    /\ attached
    /\ sent' = sent \o SubSeq(pending, 1, n)
    /\ pending' = DropFirst(pending, n)
    /\ UNCHANGED <<attached, wire, shut, ended, unread, io>>

\* OK: everything queued has been taken.
FlushAnswer ==
    /\ io = "flush"
    /\ \/ io' = "ok" /\ pending = <<>>
       \/ io' \in {"again", "error"}
    /\ sent' = <<>>
    /\ UNCHANGED <<attached, wire, shut, ended, unread, pending>>

Next ==
    \/ Peer \/ Attach \/ Reset \/ Call \/ RecvAnswer \/ FlushAnswer
    \/ \E n \in 1..Len(wire) : Receive(n)
    \/ \E n \in 1..MaxSize + 1 : Consume(n)
    \/ \E bytes \in Bytes(MaxWrite) : Write(bytes)
    \/ \E n \in 1..Len(pending) : Transmit(n)

Spec == Init /\ [][Next]_vars
=============================================================================
