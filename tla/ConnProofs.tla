------------------------------ MODULE ConnProofs ------------------------------
(***************************************************************************)
(* Proofs about the buffered connection, for any limit of the buffers, any *)
(* first capacity below it, any output and any socket.                     *)
(*                                                                         *)
(* Each buffer operation of src/conn.c is shown to keep a buffer good and  *)
(* to change what is read from it in the one way it should; a step is then *)
(* a step of the two byte streams.                                         *)
(***************************************************************************)
EXTENDS Conn, TLAPS, SequenceTheorems, WellFoundedInduction

-----------------------------------------------------------------------------
(***************************************************************************)
(* Buffers.                                                                *)
(***************************************************************************)

\* The bytes a reader may look at came from the socket or the worker.
HoldsBytes(buf) == \A i \in buf.pos + 1..buf.len : buf.data[i] \in Byte

Good(buf) == BufferOK(buf) /\ HoldsBytes(buf)

\* A nonempty set of numbers has a least element.
LEMMA LeastExists ==
    ASSUME NEW T \in SUBSET Nat, T # {}
    PROVE  Min(T) \in T /\ \A y \in T : Min(T) <= y
<1>1. PICK x \in T : \A y \in T : ~(<<y, x>> \in OpToRel(<, Nat))
  <2>1. T \subseteq Nat /\ T # {}
    OBVIOUS
  <2> QED BY <2>1, NatLessThanWellFounded, WFMin
<1>2. \A y \in T : ~(y < x)
  BY <1>1, Zenon DEF OpToRel
<1>3. \A y \in T : x <= y
  BY <1>2
<1> QED BY <1>3, Zenon DEF Min

\* Growing reaches what is asked for and stays within the limit.
LEMMA GrownCapBounds ==
    ASSUME NEW cap \in Nat, NEW extra \in Nat, cap + extra <= MaxSize
    PROVE  GrownCap(cap, extra) \in cap + extra..MaxSize
<1> DEFINE T == Doublings(cap, cap + extra, MaxSize) \cup {MaxSize}
<1>1. T \subseteq cap + extra..MaxSize
  BY ConnAssumption DEF Doublings
<1>2. T \in SUBSET Nat /\ T # {}
  BY <1>1
<1>3. Min(T) \in T
  BY <1>2, LeastExists
<1> QED BY <1>1, <1>3 DEF GrownCap

\* Bounded sequences are the sequences up to a length.
LEMMA BoundedSeq ==
    ASSUME NEW S, NEW m \in Nat, NEW s
    PROVE  s \in UNION {[1..n -> S] : n \in 0..m} <=> s \in Seq(S) /\ Len(s) <= m
<1>1. ASSUME s \in UNION {[1..n -> S] : n \in 0..m}
      PROVE  s \in Seq(S) /\ Len(s) <= m
  <2>1. PICK n \in 0..m : s \in [1..n -> S]
    BY <1>1
  <2> QED BY <2>1
<1>2. ASSUME s \in Seq(S), Len(s) <= m
      PROVE  s \in UNION {[1..n -> S] : n \in 0..m}
  <2>1. Len(s) \in 0..m /\ s \in [1..Len(s) -> S]
    BY <1>2, LenProperties
  <2> QED BY <2>1
<1> QED BY <1>1, <1>2

\* A good buffer, field by field.
LEMMA GoodFields ==
    ASSUME NEW buf, Good(buf)
    PROVE  /\ buf.cap \in Nat /\ buf.len \in Nat /\ buf.pos \in Nat
           /\ buf.pos <= buf.len /\ buf.len <= buf.cap /\ buf.cap <= MaxSize
           /\ buf.cap = 0 \/ DefaultCap <= buf.cap
           /\ buf.data \in Seq(Byte \cup {Garbage}) /\ Len(buf.data) = buf.cap
           /\ \A i \in buf.pos + 1..buf.len : buf.data[i] \in Byte
           /\ MaxSize \in Nat /\ DefaultCap \in Nat \ {0} /\ DefaultCap <= MaxSize
<1>1. /\ buf.cap \in {0} \cup DefaultCap..MaxSize
      /\ buf.len \in 0..MaxSize /\ buf.pos \in 0..MaxSize
      /\ buf.data \in Seq(Byte \cup {Garbage})
  BY DEF Good, BufferOK
<1>2. /\ MaxSize \in Nat /\ DefaultCap \in Nat \ {0} /\ DefaultCap <= MaxSize
  BY ConnAssumption
<1>3. buf.cap \in Nat /\ buf.cap <= MaxSize /\ (buf.cap = 0 \/ DefaultCap <= buf.cap)
  BY <1>1, <1>2
<1>4. buf.len \in Nat /\ buf.pos \in Nat
  BY <1>1, <1>2
<1>5. /\ Len(buf.data) = buf.cap /\ buf.pos <= buf.len /\ buf.len <= buf.cap
      /\ \A i \in buf.pos + 1..buf.len : buf.data[i] \in Byte
  BY DEF Good, BufferOK, HoldsBytes
<1> QED BY <1>1, <1>2, <1>3, <1>4, <1>5

\* A buffer put together from its fields.
LEMMA GoodFromFields ==
    ASSUME NEW cap \in Nat, NEW len \in Nat, NEW pos \in Nat, NEW data \in Seq(Byte \cup {Garbage}),
           pos <= len, len <= cap, cap <= MaxSize, cap = 0 \/ DefaultCap <= cap,
           Len(data) = cap, \A i \in pos + 1..len : data[i] \in Byte
    PROVE  Good([cap |-> cap, len |-> len, pos |-> pos, data |-> data])
<1>1. MaxSize \in Nat /\ DefaultCap \in Nat \ {0}
  BY ConnAssumption
<1>2. cap \in {0} \cup DefaultCap..MaxSize /\ len \in 0..MaxSize /\ pos \in 0..MaxSize
  BY <1>1
<1> QED BY <1>2 DEF Good, BufferOK, HoldsBytes

\* What a reader finds in a buffer.
LEMMA SpanOf ==
    ASSUME NEW buf, Good(buf)
    PROVE  /\ Span(buf) \in Seq(Byte)
           /\ Len(Span(buf)) = buf.len - buf.pos
           /\ \A i \in 1..buf.len - buf.pos : Span(buf)[i] = buf.data[buf.pos + i]
<1>1. buf.len \in Nat /\ buf.pos \in Nat /\ buf.pos <= buf.len
  BY GoodFields
<1>2. buf.len \in Int /\ buf.pos + 1 \in Int
  BY <1>1
<1>3. \A i \in buf.pos + 1..buf.len : buf.data[i] \in Byte
  BY GoodFields
<1>4. /\ Span(buf) \in Seq(Byte)
      /\ Len(Span(buf)) = IF buf.pos + 1 <= buf.len THEN buf.len - (buf.pos + 1) + 1 ELSE 0
      /\ \A i \in 1..buf.len - (buf.pos + 1) + 1 : Span(buf)[i] = buf.data[(buf.pos + 1) + i - 1]
  BY <1>2, <1>3, SubSeqProperties DEF Span
<1>5. Len(Span(buf)) = buf.len - buf.pos
  BY <1>1, <1>4
<1>6. ASSUME NEW i \in 1..buf.len - buf.pos
      PROVE  Span(buf)[i] = buf.data[buf.pos + i]
  <2>1. i \in 1..buf.len - (buf.pos + 1) + 1 /\ (buf.pos + 1) + i - 1 = buf.pos + i
    BY <1>1
  <2> QED BY <1>4, <2>1
<1> QED BY <1>4, <1>5, <1>6

\* Buffers with the same bytes between their offsets read the same.
LEMMA SameSpan ==
    ASSUME NEW a, NEW b, Good(a), Good(b), a.len - a.pos = b.len - b.pos,
           \A i \in 1..a.len - a.pos : a.data[a.pos + i] = b.data[b.pos + i]
    PROVE  Span(a) = Span(b)
<1>1. Len(Span(a)) = Len(Span(b)) /\ Span(a) \in Seq(Byte) /\ Span(b) \in Seq(Byte)
  BY SpanOf
<1>2. \A i \in 1..Len(Span(a)) : Span(a)[i] = Span(b)[i]
  BY SpanOf
<1> QED BY <1>1, <1>2, SeqEqual

\* buffer_grow leaves offsets and bytes alone and gives what was asked for.
LEMMA GrowKeeps ==
    ASSUME NEW buf, Good(buf), NEW extra \in Nat \ {0},
           buf.cap + extra <= MaxSize, DefaultCap <= buf.cap + extra
    PROVE  /\ Good(Grown(buf, extra))
           /\ Grown(buf, extra).len = buf.len /\ Grown(buf, extra).pos = buf.pos
           /\ buf.cap + extra <= Grown(buf, extra).cap
           /\ Span(Grown(buf, extra)) = Span(buf)
<1> DEFINE cap  == GrownCap(buf.cap, extra)
           more == [i \in 1..cap - buf.cap |-> Garbage]
           new  == [cap |-> cap, len |-> buf.len, pos |-> buf.pos, data |-> buf.data \o more]
<1>1. Grown(buf, extra) = new
  BY DEF Grown
<1>2. /\ buf.cap \in Nat /\ buf.len \in Nat /\ buf.pos \in Nat
      /\ buf.pos <= buf.len /\ buf.len <= buf.cap /\ buf.cap <= MaxSize
      /\ buf.data \in Seq(Byte \cup {Garbage}) /\ Len(buf.data) = buf.cap
      /\ \A i \in buf.pos + 1..buf.len : buf.data[i] \in Byte
      /\ MaxSize \in Nat /\ DefaultCap \in Nat
  BY GoodFields
<1>3. cap \in buf.cap + extra..MaxSize
  BY <1>2, GrownCapBounds
<1>4. /\ cap \in Nat /\ cap - buf.cap \in Nat /\ cap <= MaxSize /\ DefaultCap <= cap
      /\ buf.cap + extra <= cap /\ buf.len <= cap
  BY <1>2, <1>3
<1> HIDE DEF cap
<1>5. more \in Seq(Byte \cup {Garbage}) /\ Len(more) = cap - buf.cap
  BY <1>4
<1> HIDE DEF more
<1>6. /\ buf.data \o more \in Seq(Byte \cup {Garbage})
      /\ Len(buf.data \o more) = Len(buf.data) + Len(more)
      /\ \A i \in 1..Len(buf.data) + Len(more) :
            (buf.data \o more)[i] = IF i <= Len(buf.data) THEN buf.data[i] ELSE more[i - Len(buf.data)]
  BY <1>2, <1>5, ConcatProperties
<1>7. Len(buf.data \o more) = cap
  BY <1>2, <1>4, <1>5, <1>6
<1>8. \A i \in 1..buf.cap : (buf.data \o more)[i] = buf.data[i]
  BY <1>2, <1>4, <1>5, <1>6
<1>9. \A i \in buf.pos + 1..buf.len : (buf.data \o more)[i] \in Byte
  BY <1>2, <1>8
<1>10. Good(new)
  BY <1>2, <1>4, <1>6, <1>7, <1>9, GoodFromFields
<1>11. \A i \in 1..new.len - new.pos : new.data[new.pos + i] = buf.data[buf.pos + i]
  <2>1. \A i \in 1..buf.len - buf.pos : buf.pos + i \in 1..buf.cap
    BY <1>2
  <2>2. \A i \in 1..buf.len - buf.pos : (buf.data \o more)[buf.pos + i] = buf.data[buf.pos + i]
    BY <1>8, <2>1
  <2> QED BY <2>2
<1>12. Span(new) = Span(buf)
  BY <1>10, <1>11, SameSpan
<1> QED BY <1>1, <1>4, <1>10, <1>12

\* buffer_compact moves the bytes and keeps them.
LEMMA CompactKeeps ==
    ASSUME NEW buf, Good(buf)
    PROVE  /\ Good(Compacted(buf))
           /\ Compacted(buf).cap = buf.cap
           /\ Compacted(buf).len = buf.len - buf.pos /\ Compacted(buf).pos = 0
           /\ Span(Compacted(buf)) = Span(buf)
<1> DEFINE data == [i \in 1..buf.cap |->
                      IF i <= buf.len - buf.pos THEN buf.data[i + buf.pos] ELSE buf.data[i]]
           new  == [cap |-> buf.cap, len |-> buf.len - buf.pos, pos |-> 0, data |-> data]
<1>1. Compacted(buf) = new
  BY DEF Compacted
<1>2. /\ buf.cap \in Nat /\ buf.len \in Nat /\ buf.pos \in Nat
      /\ buf.pos <= buf.len /\ buf.len <= buf.cap /\ buf.cap <= MaxSize
      /\ buf.cap = 0 \/ DefaultCap <= buf.cap
      /\ buf.data \in Seq(Byte \cup {Garbage}) /\ Len(buf.data) = buf.cap
      /\ \A i \in buf.pos + 1..buf.len : buf.data[i] \in Byte
  BY GoodFields
<1>3. buf.len - buf.pos \in Nat /\ buf.len - buf.pos <= buf.cap /\ buf.cap - buf.pos \in Nat
  BY <1>2
<1>4. \A i \in 1..buf.cap : buf.data[i] \in Byte \cup {Garbage}
  BY <1>2, ElementOfSeq
<1>5. \A i \in 1..buf.len - buf.pos : i + buf.pos \in 1..buf.cap /\ i + buf.pos \in buf.pos + 1..buf.len
  BY <1>2
<1>6. data \in Seq(Byte \cup {Garbage}) /\ Len(data) = buf.cap
  BY <1>2, <1>4, <1>5
<1>7. \A i \in 1..buf.len - buf.pos : data[i] = buf.data[buf.pos + i]
  BY <1>2, <1>3
<1>8. \A i \in 0 + 1..buf.len - buf.pos : data[i] \in Byte
  BY <1>2, <1>5, <1>7
<1> HIDE DEF data
<1>9. Good(new)
  BY <1>2, <1>3, <1>6, <1>8, GoodFromFields
<1>10. \A i \in 1..new.len - new.pos : new.data[new.pos + i] = buf.data[buf.pos + i]
  BY <1>3, <1>7
<1>11. Span(new) = Span(buf)
  BY <1>3, <1>9, <1>10, SameSpan
<1> QED BY <1>1, <1>9, <1>11

\* Bytes copied behind those a buffer holds are read behind them.
LEMMA FillAppends ==
    ASSUME NEW buf, Good(buf), NEW bytes \in Seq(Byte), Len(bytes) <= buf.cap - buf.len
    PROVE  /\ Good(Filled(buf, bytes))
           /\ Filled(buf, bytes).cap = buf.cap
           /\ Filled(buf, bytes).len = buf.len + Len(bytes) /\ Filled(buf, bytes).pos = buf.pos
           /\ Span(Filled(buf, bytes)) = Span(buf) \o bytes
<1> DEFINE data == [i \in 1..buf.cap |->
                      IF i \in buf.len + 1..buf.len + Len(bytes)
                      THEN bytes[i - buf.len] ELSE buf.data[i]]
           new  == [cap |-> buf.cap, len |-> buf.len + Len(bytes), pos |-> buf.pos, data |-> data]
<1>1. Filled(buf, bytes) = new
  BY DEF Filled
<1>2. /\ buf.cap \in Nat /\ buf.len \in Nat /\ buf.pos \in Nat
      /\ buf.pos <= buf.len /\ buf.len <= buf.cap /\ buf.cap <= MaxSize
      /\ buf.cap = 0 \/ DefaultCap <= buf.cap
      /\ buf.data \in Seq(Byte \cup {Garbage}) /\ Len(buf.data) = buf.cap
      /\ \A i \in buf.pos + 1..buf.len : buf.data[i] \in Byte
  BY GoodFields
<1>3. Len(bytes) \in Nat /\ \A i \in 1..Len(bytes) : bytes[i] \in Byte
  BY LenProperties, ElementOfSeq
<1>4. \A i \in 1..buf.cap : buf.data[i] \in Byte \cup {Garbage}
  BY <1>2, ElementOfSeq
<1>5. \A i \in buf.len + 1..buf.len + Len(bytes) : i - buf.len \in 1..Len(bytes) /\ i \in 1..buf.cap
  BY <1>2, <1>3
<1>6. data \in Seq(Byte \cup {Garbage}) /\ Len(data) = buf.cap
  <2>1. ASSUME NEW i \in 1..buf.cap
        PROVE  (IF i \in buf.len + 1..buf.len + Len(bytes)
                THEN bytes[i - buf.len] ELSE buf.data[i]) \in Byte \cup {Garbage}
    BY <1>3, <1>4, <1>5
  <2>2. data \in [1..buf.cap -> Byte \cup {Garbage}]
    BY <2>1
  <2> HIDE DEF data
  <2> QED BY <1>2, <2>2
<1>7. \A i \in buf.len + 1..buf.len + Len(bytes) : data[i] = bytes[i - buf.len]
  BY <1>5
<1>8. \A i \in 1..buf.len : data[i] = buf.data[i]
  BY <1>2, <1>3
<1> HIDE DEF data
<1>9. \A i \in buf.pos + 1..buf.len + Len(bytes) : data[i] \in Byte
  <2> TAKE i \in buf.pos + 1..buf.len + Len(bytes)
  <2>1. CASE i <= buf.len
    <3>1. i \in 1..buf.len /\ i \in buf.pos + 1..buf.len
      BY <1>2, <1>3, <2>1
    <3> QED BY <1>2, <1>8, <3>1
  <2>2. CASE i > buf.len
    <3>1. i \in buf.len + 1..buf.len + Len(bytes)
      BY <1>2, <1>3, <2>2
    <3> QED BY <1>3, <1>5, <1>7, <3>1
  <2> QED BY <1>2, <1>3, <2>1, <2>2
<1>10. buf.len + Len(bytes) \in Nat /\ buf.len + Len(bytes) <= buf.cap /\ buf.pos <= buf.len + Len(bytes)
  BY <1>2, <1>3
<1>11. Good(new)
  BY <1>2, <1>6, <1>9, <1>10, GoodFromFields
<1>12. /\ Span(new) \in Seq(Byte) /\ Span(buf) \in Seq(Byte)
       /\ Len(Span(new)) = new.len - new.pos /\ Len(Span(buf)) = buf.len - buf.pos
       /\ \A i \in 1..new.len - new.pos : Span(new)[i] = new.data[new.pos + i]
       /\ \A i \in 1..buf.len - buf.pos : Span(buf)[i] = buf.data[buf.pos + i]
  BY <1>11, SpanOf
<1>13. /\ Span(buf) \o bytes \in Seq(Byte)
       /\ Len(Span(buf) \o bytes) = Len(Span(buf)) + Len(bytes)
       /\ \A i \in 1..Len(Span(buf)) + Len(bytes) : (Span(buf) \o bytes)[i] =
             IF i <= Len(Span(buf)) THEN Span(buf)[i] ELSE bytes[i - Len(Span(buf))]
  BY <1>12, ConcatProperties
<1>14. Len(Span(new)) = Len(Span(buf) \o bytes)
  BY <1>2, <1>3, <1>12, <1>13
<1>15. \A i \in 1..Len(Span(new)) : Span(new)[i] = (Span(buf) \o bytes)[i]
  <2> TAKE i \in 1..Len(Span(new))
  <2>1. i \in 1..Len(Span(buf)) + Len(bytes) /\ i \in 1..new.len - new.pos /\ i \in Nat
    BY <1>2, <1>3, <1>12, <1>13, <1>14
  <2>4. Span(new)[i] = data[buf.pos + i]
    BY <1>12, <2>1
  <2>2. CASE i <= buf.len - buf.pos
    <3>1. i \in 1..buf.len - buf.pos /\ buf.pos + i \in 1..buf.len
      BY <1>2, <2>1, <2>2
    <3>2. (Span(buf) \o bytes)[i] = buf.data[buf.pos + i]
      BY <1>12, <1>13, <2>1, <2>2, <3>1
    <3> QED BY <1>8, <2>4, <3>1, <3>2
  <2>3. CASE ~(i <= buf.len - buf.pos)
    <3>1. buf.pos + i \in buf.len + 1..buf.len + Len(bytes)
      <4>1. i <= (buf.len - buf.pos) + Len(bytes) /\ i > buf.len - buf.pos
        BY <1>2, <1>3, <1>12, <2>1, <2>3
      <4> QED BY <1>2, <1>3, <2>1, <4>1
    <3>2. (Span(buf) \o bytes)[i] = bytes[i - (buf.len - buf.pos)]
      BY <1>12, <1>13, <2>1, <2>3
    <3>3. i - (buf.len - buf.pos) = (buf.pos + i) - buf.len
      BY <1>2, <2>1
    <3> QED BY <1>7, <2>4, <3>1, <3>2, <3>3
  <2> QED BY <2>2, <2>3
<1>16. Span(new) = Span(buf) \o bytes
  BY <1>12, <1>13, <1>14, <1>15, SeqEqual
<1> QED BY <1>1, <1>11, <1>16

\* conn_reset and conn_attach leave nothing to read.
LEMMA EmptyingEmpties ==
    ASSUME NEW buf, Good(buf)
    PROVE  /\ Good(Emptied(buf))
           /\ Emptied(buf).cap = buf.cap
           /\ Emptied(buf).len = 0 /\ Emptied(buf).pos = 0
           /\ Span(Emptied(buf)) = <<>>
<1> DEFINE new == [cap |-> buf.cap, len |-> 0, pos |-> 0, data |-> buf.data]
<1>1. Emptied(buf) = new
  BY DEF Emptied
<1>2. Good(new)
  BY GoodFields, GoodFromFields
<1>3. Span(new) = <<>>
  BY SubSeqEmpty DEF Span
<1> QED BY <1>1, <1>2, <1>3

\* Bytes passed over are read no more; the rest is.
LEMMA AdvanceDrops ==
    ASSUME NEW buf, Good(buf), NEW n \in 1..buf.len - buf.pos
    PROVE  /\ Good([buf EXCEPT !.pos = @ + n])
           /\ [buf EXCEPT !.pos = @ + n].cap = buf.cap
           /\ [buf EXCEPT !.pos = @ + n].len = buf.len
           /\ [buf EXCEPT !.pos = @ + n].pos = buf.pos + n
           /\ Span([buf EXCEPT !.pos = @ + n]) = SubSeq(Span(buf), n + 1, Len(Span(buf)))
<1> DEFINE new == [cap |-> buf.cap, len |-> buf.len, pos |-> buf.pos + n, data |-> buf.data]
<1>1. [buf EXCEPT !.pos = @ + n] = new
  BY DEF Good, BufferOK
<1>2. /\ buf.cap \in Nat /\ buf.len \in Nat /\ buf.pos \in Nat
      /\ buf.pos <= buf.len /\ buf.len <= buf.cap /\ buf.cap <= MaxSize
      /\ buf.cap = 0 \/ DefaultCap <= buf.cap
      /\ buf.data \in Seq(Byte \cup {Garbage}) /\ Len(buf.data) = buf.cap
      /\ \A i \in buf.pos + 1..buf.len : buf.data[i] \in Byte
  BY GoodFields
<1>3. /\ buf.pos + n \in Nat /\ buf.pos + n <= buf.len
      /\ \A i \in buf.pos + n + 1..buf.len : buf.data[i] \in Byte
  BY <1>2
<1>4. Good(new)
  BY <1>2, <1>3, GoodFromFields
<1>5. /\ Span(new) \in Seq(Byte) /\ Span(buf) \in Seq(Byte)
      /\ Len(Span(new)) = buf.len - (buf.pos + n) /\ Len(Span(buf)) = buf.len - buf.pos
      /\ \A i \in 1..buf.len - (buf.pos + n) : Span(new)[i] = buf.data[buf.pos + n + i]
      /\ \A i \in 1..buf.len - buf.pos : Span(buf)[i] = buf.data[buf.pos + i]
  BY <1>4, SpanOf
<1> DEFINE rest == SubSeq(Span(buf), n + 1, Len(Span(buf)))
<1>6. n + 1 \in Int /\ Len(Span(buf)) \in Int /\ n \in Nat
  BY <1>2, <1>5
<1>7. \A i \in n + 1..Len(Span(buf)) : Span(buf)[i] \in Byte
  BY <1>5, <1>6, ElementOfSeq
<1>8. /\ rest \in Seq(Byte)
      /\ Len(rest) = IF n + 1 <= Len(Span(buf)) THEN Len(Span(buf)) - (n + 1) + 1 ELSE 0
      /\ \A i \in 1..Len(Span(buf)) - (n + 1) + 1 : rest[i] = Span(buf)[(n + 1) + i - 1]
  BY <1>6, <1>7, SubSeqProperties
<1> HIDE DEF rest
<1> DEFINE total == Len(Span(buf))
<1>9. total = buf.len - buf.pos /\ total \in Nat /\ n \in 1..total
  BY <1>2, <1>5
<1>10. (IF n + 1 <= total THEN total - (n + 1) + 1 ELSE 0) = total - n
  <2> HIDE DEF total
  <2> QED BY <1>9
<1>11. total - n = buf.len - (buf.pos + n)
  BY <1>2, <1>6, <1>9
<1>12. Len(rest) = buf.len - (buf.pos + n)
  BY <1>8, <1>10, <1>11
<1>13. ASSUME NEW i \in 1..buf.len - (buf.pos + n)
       PROVE  rest[i] = Span(new)[i]
  <2>1. i \in 1..total - n /\ i \in Nat
    BY <1>2, <1>6, <1>11
  <2> HIDE DEF total
  <2>2. i \in 1..total - (n + 1) + 1 /\ (n + 1) + i - 1 = n + i /\ n + i \in 1..total
    BY <1>6, <1>9, <2>1
  <2>3. /\ i \in 1..Len(Span(buf)) - (n + 1) + 1 /\ (n + 1) + i - 1 = n + i
        /\ n + i \in 1..buf.len - buf.pos /\ buf.pos + (n + i) = buf.pos + n + i
    BY <1>2, <1>6, <1>9, <2>1, <2>2 DEF total
  <2>4. rest[i] = Span(buf)[n + i]
    BY <1>8, <2>3
  <2>5. Span(buf)[n + i] = buf.data[buf.pos + n + i]
    BY <1>5, <2>3
  <2> QED BY <1>5, <2>4, <2>5
<1>14. Span(new) = rest
  BY <1>5, <1>8, <1>12, <1>13, SeqEqual
<1> QED BY <1>1, <1>4, <1>14 DEF rest

\* Before recv: room is made where it can be, by memory only where compaction
\* gives none, and is missing only at the limit.
LEMMA RoomKeeps ==
    ASSUME NEW buf, Good(buf), buf.cap # 0
    PROVE  /\ Good(WithRoom(buf))
           /\ Span(WithRoom(buf)) = Span(buf)
           /\ WithRoom(buf).cap # 0
           /\ WithRoom(buf).cap > buf.cap => Len(Span(buf)) = buf.cap
           /\ ~HasRoom(WithRoom(buf)) => Len(Span(buf)) = MaxSize
<1>1. /\ buf.cap \in Nat /\ buf.len \in Nat /\ buf.pos \in Nat /\ MaxSize \in Nat
      /\ buf.pos <= buf.len /\ buf.len <= buf.cap /\ buf.cap <= MaxSize /\ DefaultCap <= buf.cap
      /\ DefaultCap \in Nat
  BY GoodFields
<1>2. Len(Span(buf)) = buf.len - buf.pos
  BY SpanOf
<1>3. CASE buf.len < buf.cap
  <2>1. WithRoom(buf) = buf
    BY <1>3 DEF WithRoom
  <2> QED BY <1>1, <1>3, <2>1 DEF HasRoom
<1>4. CASE ~(buf.len < buf.cap) /\ buf.pos > 0
  <2>1. WithRoom(buf) = Compacted(buf)
    BY <1>4 DEF WithRoom
  <2>2. WithRoom(buf).len < WithRoom(buf).cap
    BY <1>1, <1>4, <2>1, CompactKeeps
  <2> QED BY <1>1, <2>1, <2>2, CompactKeeps DEF HasRoom
<1>5. CASE ~(buf.len < buf.cap) /\ ~(buf.pos > 0) /\ buf.cap < MaxSize
  <2>1. WithRoom(buf) = Grown(buf, 1)
    BY <1>5 DEF WithRoom
  <2>2. buf.cap + 1 <= MaxSize /\ DefaultCap <= buf.cap + 1 /\ 1 \in Nat \ {0}
    BY <1>1, <1>5
  <2>3. /\ Good(Grown(buf, 1)) /\ Span(Grown(buf, 1)) = Span(buf)
        /\ Grown(buf, 1).len = buf.len /\ buf.cap + 1 <= Grown(buf, 1).cap
    BY <2>2, GrowKeeps
  <2>4. Grown(buf, 1).cap \in Nat
    BY <2>3, GoodFields
  <2>5. Len(Span(buf)) = buf.cap
    BY <1>1, <1>2, <1>5
  <2>6. Grown(buf, 1).len < Grown(buf, 1).cap /\ Grown(buf, 1).cap # 0
    BY <1>1, <2>3, <2>4
  <2> QED BY <2>1, <2>3, <2>5, <2>6 DEF HasRoom
<1>6. CASE ~(buf.len < buf.cap) /\ ~(buf.pos > 0) /\ ~(buf.cap < MaxSize)
  <2>1. WithRoom(buf) = buf
    BY <1>6 DEF WithRoom
  <2>2. Len(Span(buf)) = MaxSize
    BY <1>1, <1>2, <1>6
  <2> QED BY <1>1, <2>1, <2>2
<1> QED BY <1>3, <1>4, <1>5, <1>6

\* Before memcpy: the bytes fit, and memory was taken only if they had to have it.
LEMMA RoomForKeeps ==
    ASSUME NEW buf, Good(buf), buf.cap # 0, NEW n \in Nat \ {0},
           n <= MaxSize - (buf.len - buf.pos)
    PROVE  /\ Good(WithRoomFor(buf, n))
           /\ Span(WithRoomFor(buf, n)) = Span(buf)
           /\ WithRoomFor(buf, n).cap # 0
           /\ n <= WithRoomFor(buf, n).cap - WithRoomFor(buf, n).len
           /\ WithRoomFor(buf, n).cap > buf.cap => Len(Span(buf)) + n > buf.cap
<1>1. /\ buf.cap \in Nat /\ buf.len \in Nat /\ buf.pos \in Nat /\ MaxSize \in Nat
      /\ buf.pos <= buf.len /\ buf.len <= buf.cap /\ buf.cap <= MaxSize /\ DefaultCap <= buf.cap
      /\ DefaultCap \in Nat
  BY GoodFields
<1>2. Len(Span(buf)) = buf.len - buf.pos
  BY SpanOf
<1>3. CASE n <= buf.cap - buf.len
  BY <1>1, <1>3 DEF WithRoomFor
<1>4. CASE ~(n <= buf.cap - buf.len) /\ n <= buf.cap - (buf.len - buf.pos)
  <2>1. WithRoomFor(buf, n) = Compacted(buf)
    BY <1>4 DEF WithRoomFor
  <2> QED BY <1>1, <1>4, <2>1, CompactKeeps
<1>5. CASE ~(n <= buf.cap - buf.len) /\ ~(n <= buf.cap - (buf.len - buf.pos))
  <2> DEFINE extra == n - (buf.cap - (buf.len - buf.pos))
             new   == Compacted(buf)
  <2>1. WithRoomFor(buf, n) = Grown(new, extra)
    BY <1>5 DEF WithRoomFor
  <2>2. /\ Good(new) /\ new.cap = buf.cap /\ new.len = buf.len - buf.pos
        /\ Span(new) = Span(buf)
    BY CompactKeeps
  <2>3. /\ extra \in Nat \ {0} /\ buf.cap + extra = n + (buf.len - buf.pos)
        /\ buf.cap + extra <= MaxSize /\ DefaultCap <= buf.cap + extra
    BY <1>1, <1>5
  <2> HIDE DEF extra, new
  <2>4. /\ Good(Grown(new, extra)) /\ Span(Grown(new, extra)) = Span(new)
        /\ Grown(new, extra).len = new.len /\ new.cap + extra <= Grown(new, extra).cap
    BY <2>2, <2>3, GrowKeeps
  <2>5. Grown(new, extra).cap \in Nat
    BY <2>4, GoodFields
  <2>6. Grown(new, extra).cap # 0 /\ n <= Grown(new, extra).cap - Grown(new, extra).len
    BY <1>1, <2>2, <2>3, <2>4, <2>5
  <2>7. Len(Span(buf)) + n > buf.cap
    BY <1>1, <1>2, <1>5
  <2> QED BY <2>1, <2>2, <2>4, <2>6, <2>7
<1> QED BY <1>3, <1>4, <1>5

-----------------------------------------------------------------------------
(***************************************************************************)
(* The invariant, and what every step has to show.                         *)
(***************************************************************************)
Answers == {"none", "attached", "recv", "flush", "again", "eof", "full", "error",
            "ok", "einval", "enobufs", "enomem"}

\* Beyond the types: only a connection with a socket has bytes waiting or an
\* end announced, a call is made on live buffers only, the end is believed
\* only when there is one, and what a flush has sent was pending before.
IInv ==
    /\ attached \in BOOLEAN /\ peerClosed \in BOOLEAN /\ shut \in BOOLEAN
    /\ Good(r) /\ Good(w)
    /\ r.cap = 0 <=> w.cap = 0
    /\ wire \in Seq(Byte) /\ Len(wire) <= WireSize
    /\ sent \in Seq(Byte) /\ Len(sent) + (w.len - w.pos) <= MaxSize
    /\ io \in Answers
    /\ ~attached => wire = <<>> /\ ~shut
    /\ r.cap = 0 => ~attached /\ ~InCall
    /\ peerClosed => shut /\ wire = <<>>
    /\ io # "flush" => sent = <<>>

\* A step that GrowsOnlyWhenNeeded allows.
GrowthStep ==
    /\ r.cap > 0 /\ r'.cap > r.cap => Len(Span(r)) = r.cap
    /\ w.cap > 0 /\ w'.cap > w.cap => Len(Span(w')) > w.cap

\* The invariant holds again, growth was needed, and the step is one of the streams'.
Advances == IInv' /\ GrowthStep /\ (Streams!Next \/ UNCHANGED Streams!vars)

\* Bounds of the invariant's numbers.
LEMMA BufferBounds ==
    ASSUME IInv
    PROVE  /\ r.cap \in Nat /\ r.len \in Nat /\ r.pos \in Nat
           /\ w.cap \in Nat /\ w.len \in Nat /\ w.pos \in Nat
           /\ r.pos <= r.len /\ r.len <= r.cap /\ r.cap <= MaxSize
           /\ w.pos <= w.len /\ w.len <= w.cap /\ w.cap <= MaxSize
           /\ Span(r) \in Seq(Byte) /\ Len(Span(r)) = r.len - r.pos
           /\ Span(w) \in Seq(Byte) /\ Len(Span(w)) = w.len - w.pos
           /\ MaxSize \in Nat /\ DefaultCap \in Nat \ {0} /\ DefaultCap <= MaxSize
<1>1. Good(r) /\ Good(w)
  BY DEF IInv
<1> QED BY <1>1, GoodFields, SpanOf

\* A buffer without memory.
LEMMA NoBufferIsEmpty ==
    /\ Good(NoBuffer) /\ Span(NoBuffer) = <<>>
    /\ NoBuffer.cap = 0 /\ NoBuffer.len = 0 /\ NoBuffer.pos = 0
<1>1. <<>> \in Seq(Byte \cup {Garbage}) /\ Len(<<>>) = 0
  BY EmptySeq
<1>2. MaxSize \in Nat
  BY ConnAssumption
<1>3. Good([cap |-> 0, len |-> 0, pos |-> 0, data |-> <<>>])
  <2>1. 0 \in Nat /\ 0 <= 0 /\ 0 <= MaxSize /\ \A i \in 0 + 1..0 : <<>>[i] \in Byte
    BY <1>2
  <2> QED BY <1>1, <2>1, GoodFromFields
<1>4. Span(NoBuffer) = <<>>
  BY SubSeqEmpty DEF Span, NoBuffer
<1> QED BY <1>3, <1>4 DEF NoBuffer

LEMMA InitHolds == Init => IInv /\ Streams!Init
<1> SUFFICES ASSUME Init PROVE IInv /\ Streams!Init
  OBVIOUS
<1>1. /\ <<>> \in Seq(Byte) /\ Len(<<>>) = 0 /\ MaxSize \in Nat /\ WireSize \in Nat
  BY EmptySeq, ConnAssumption
<1>2. r = NoBuffer /\ w = NoBuffer
  BY DEF Init
<1>3. IInv
  <2>1. Good(r) /\ Good(w) /\ (r.cap = 0 <=> w.cap = 0) /\ w.len = 0 /\ w.pos = 0
    BY <1>2, NoBufferIsEmpty
  <2>2. /\ wire \in Seq(Byte) /\ Len(wire) <= WireSize
        /\ sent \in Seq(Byte) /\ Len(sent) + (w.len - w.pos) <= MaxSize
    BY <1>1, <2>1 DEF Init
  <2> QED BY <2>1, <2>2 DEF Init, IInv, Answers, InCall
<1>4. Span(r) = <<>> /\ Span(w) = <<>>
  BY <1>2, NoBufferIsEmpty
<1>5. Streams!Init
  BY <1>4 DEF Init, Streams!Init
<1> QED BY <1>3, <1>5

\* Without memory there is nothing to read or to send.
LEMMA NothingWithoutMemory ==
    ASSUME NEW buf, Good(buf), buf.cap = 0
    PROVE  Span(buf) = <<>>
<1>1. buf.len \in Nat /\ buf.pos \in Nat /\ buf.pos <= buf.len /\ buf.len <= buf.cap
  BY GoodFields
<1>2. Len(Span(buf)) = 0 /\ Span(buf) \in Seq(Byte)
  BY <1>1, SpanOf
<1> QED BY <1>2, EmptySeq

LEMMA ConnInitAdvances == IInv /\ ConnInit => Advances
<1> SUFFICES ASSUME IInv, ConnInit PROVE Advances
  OBVIOUS
<1>1. Span(r) = <<>> /\ Span(w) = <<>> /\ r.cap = 0 /\ w.cap = 0
  <2>1. Good(r) /\ Good(w) /\ r.cap \in Nat /\ (r.cap = 0 <=> w.cap = 0)
    BY BufferBounds DEF IInv
  <2>2. r.cap = 0 /\ w.cap = 0
    BY <2>1 DEF ConnInit, Live
  <2> QED BY <2>1, <2>2, NothingWithoutMemory
<1>2. ~InCall /\ ~attached /\ sent = <<>> /\ wire = <<>> /\ ~shut
  BY <1>1 DEF IInv, ConnInit, InCall
<1>3. CASE r' = Grown(NoBuffer, DefaultCap) /\ w' = Grown(NoBuffer, DefaultCap) /\ UNCHANGED io
  <2>1. /\ DefaultCap \in Nat \ {0} /\ NoBuffer.cap + DefaultCap <= MaxSize
        /\ DefaultCap <= NoBuffer.cap + DefaultCap
    BY NoBufferIsEmpty, BufferBounds
  <2>2. /\ Good(r') /\ r'.len = 0 /\ r'.pos = 0 /\ NoBuffer.cap + DefaultCap <= r'.cap
        /\ Span(r)' = <<>>
        /\ Good(w') /\ w'.len = 0 /\ w'.pos = 0 /\ NoBuffer.cap + DefaultCap <= w'.cap
        /\ Span(w)' = <<>>
    BY <1>3, <2>1, NoBufferIsEmpty, GrowKeeps, Zenon DEF Span
  <2>3. Good(r)' /\ Good(w)' /\ r'.cap \in Nat /\ w'.cap \in Nat
    BY <2>2, GoodFields DEF Good, BufferOK, HoldsBytes
  <2>4. r'.cap # 0 /\ w'.cap # 0
    BY <2>1, <2>2, <2>3, NoBufferIsEmpty
  <2>5. Len(<<>>) = 0
    BY EmptySeq
  <2>6. IInv'
    <3>1. /\ sent' \in Seq(Byte) /\ Len(sent') + (w'.len - w'.pos) <= MaxSize
          /\ wire' \in Seq(Byte) /\ Len(wire') <= WireSize
      BY <1>2, <2>2, <2>5, EmptySeq, ConnAssumption DEF ConnInit
    <3>2. /\ attached' = attached /\ peerClosed' = peerClosed /\ shut' = shut
          /\ wire' = wire /\ io' = io /\ sent' = sent
      BY <1>3 DEF ConnInit
    <3> QED BY <1>2, <2>3, <2>4, <3>1, <3>2 DEF IInv, InCall
  <2>7. UNCHANGED Streams!vars
    BY <1>1, <1>3, <2>2 DEF Streams!vars, ConnInit
  <2> QED BY <1>1, <2>6, <2>7 DEF Advances, GrowthStep
<1>4. CASE io' = "none" /\ UNCHANGED <<r, w>>
  <2>1. IInv'
    BY <1>4, <1>2 DEF IInv, ConnInit, Good, BufferOK, HoldsBytes, Answers, InCall
  <2>2. Span(r)' = <<>> /\ Span(w)' = <<>>
    BY <1>1, <1>4 DEF Span
  <2>3. peerClosed = FALSE
    BY <1>2 DEF IInv
  <2>4. Streams!Reset
    BY <1>2, <1>4, <2>2, <2>3 DEF Streams!Reset, Streams!InCall, InCall, ConnInit
  <2> QED BY <1>1, <1>4, <2>1, <2>4 DEF Advances, GrowthStep, Streams!Next
<1> QED BY <1>3, <1>4 DEF ConnInit

LEMMA AttachAdvances == IInv /\ Attach => Advances
<1> SUFFICES ASSUME IInv, Attach PROVE Advances
  OBVIOUS
<1>1. /\ ~InCall /\ ~attached /\ sent = <<>> /\ wire = <<>> /\ ~shut /\ r.cap # 0 /\ w.cap # 0
      /\ r.cap \in Nat /\ w.cap \in Nat
  BY BufferBounds DEF IInv, Attach, InCall, Live
<1>2. CASE /\ attached' = TRUE /\ peerClosed' = FALSE
           /\ r' = Emptied(r) /\ w' = Emptied(w) /\ io' = "attached"
  <2>1. /\ Good(r') /\ r'.cap = r.cap /\ Span(r') = <<>>
        /\ Good(w') /\ w'.cap = w.cap /\ w'.len = 0 /\ w'.pos = 0 /\ Span(w') = <<>>
    BY <1>2, EmptyingEmpties DEF IInv
  <2>2. /\ Len(sent') + (w'.len - w'.pos) <= MaxSize
    BY <1>1, <2>1, EmptySeq, ConnAssumption DEF Attach
  <2>3. Good(r)' /\ Good(w)' /\ Span(r)' = <<>> /\ Span(w)' = <<>>
    BY <2>1 DEF Good, BufferOK, HoldsBytes, Span
  <2>4. IInv'
    BY <1>1, <1>2, <2>1, <2>2, <2>3 DEF IInv, Attach, InCall, Answers
  <2>5. Streams!Attach
    BY <1>1, <1>2, <2>3 DEF Streams!Attach, Streams!InCall, InCall, Attach
  <2>6. GrowthStep
    BY <1>1, <2>1 DEF GrowthStep
  <2> QED BY <2>4, <2>5, <2>6 DEF Advances, Streams!Next
<1>3. CASE io' = "error" /\ UNCHANGED <<attached, peerClosed, r, w>>
  <2>1. IInv'
    BY <1>1, <1>3 DEF IInv, Attach, InCall, Answers, Good, BufferOK, HoldsBytes
  <2>2. Streams!Attach
    BY <1>1, <1>3 DEF Streams!Attach, Streams!InCall, InCall, Attach, Span
  <2>3. GrowthStep
    BY <1>1, <1>3 DEF GrowthStep
  <2> QED BY <2>1, <2>2, <2>3 DEF Advances, Streams!Next
<1> QED BY <1>2, <1>3 DEF Attach

LEMMA ResetAdvances == IInv /\ Reset => Advances
<1> SUFFICES ASSUME IInv, Reset PROVE Advances
  OBVIOUS
<1>1. ~InCall /\ sent = <<>> /\ r.cap \in Nat /\ w.cap \in Nat
  BY BufferBounds DEF IInv, Reset, InCall
<1>2. /\ Good(r') /\ (r'.cap = r.cap \/ r'.cap = 0) /\ Span(r') = <<>>
      /\ Good(w') /\ (w'.cap = w.cap \/ w'.cap = 0) /\ Span(w') = <<>>
      /\ w'.len = 0 /\ w'.pos = 0 /\ (r'.cap = 0 <=> w'.cap = 0)
  BY EmptyingEmpties, NoBufferIsEmpty DEF IInv, Reset
<1>3. Good(r)' /\ Good(w)' /\ Span(r)' = <<>> /\ Span(w)' = <<>>
  BY <1>2 DEF Good, BufferOK, HoldsBytes, Span
<1>4. /\ wire' = <<>> /\ wire' \in Seq(Byte) /\ Len(wire') <= WireSize
      /\ sent' = <<>> /\ sent' \in Seq(Byte) /\ Len(sent') + (w'.len - w'.pos) <= MaxSize
  BY <1>1, <1>2, EmptySeq, ConnAssumption DEF Reset
<1>5. IInv'
  BY <1>2, <1>3, <1>4 DEF IInv, Reset, InCall, Answers
<1>6. Streams!Reset
  BY <1>1, <1>3 DEF Streams!Reset, Streams!InCall, InCall, Reset
<1>7. GrowthStep
  BY <1>1, <1>2 DEF GrowthStep
<1> QED BY <1>5, <1>6, <1>7 DEF Advances, Streams!Next

\* What a step that leaves the buffers alone need not show.
LEMMA BuffersAlone ==
    ASSUME IInv, UNCHANGED <<r, w>>
    PROVE  /\ Good(r)' /\ Good(w)' /\ Span(r)' = Span(r) /\ Span(w)' = Span(w)
           /\ (r'.cap = 0 <=> w'.cap = 0)
           /\ GrowthStep
<1>1. r.cap \in Nat /\ w.cap \in Nat
  BY BufferBounds
<1> QED BY <1>1 DEF IInv, Good, BufferOK, HoldsBytes, Span, GrowthStep

LEMMA PeerAdvances == IInv /\ Peer => Advances
<1> SUFFICES ASSUME IInv, Peer PROVE Advances
  OBVIOUS
<1>1. /\ Good(r)' /\ Good(w)' /\ Span(r)' = Span(r) /\ Span(w)' = Span(w)
      /\ (r'.cap = 0 <=> w'.cap = 0) /\ GrowthStep
  BY BuffersAlone DEF Peer
<1>2. wire' \in Seq(Byte) /\ Len(wire') <= WireSize
  <2>1. CASE \E b \in Byte : Len(wire) < WireSize /\ wire' = Append(wire, b)
    <3>1. PICK b \in Byte : Len(wire) < WireSize /\ wire' = Append(wire, b)
      BY <2>1
    <3>2. wire' \in Seq(Byte) /\ Len(wire') = Len(wire) + 1 /\ Len(wire) \in Nat
      BY <3>1, AppendProperties, LenProperties DEF IInv
    <3> QED BY <3>1, <3>2, ConnAssumption
  <2>2. CASE UNCHANGED wire
    BY <2>2 DEF IInv
  <2> QED BY <2>1, <2>2 DEF Peer
<1>3. ~peerClosed
  BY DEF Peer, IInv
<1>4. IInv'
  BY <1>1, <1>2, <1>3 DEF Peer, IInv, InCall
<1>5. Streams!Peer
  BY <1>1 DEF Peer, Streams!Peer
<1> QED BY <1>1, <1>4, <1>5 DEF Advances, Streams!Next

LEMMA CallAdvances == ASSUME NEW op \in {"recv", "flush"} PROVE IInv /\ Call(op) => Advances
<1> SUFFICES ASSUME IInv, Call(op) PROVE Advances
  OBVIOUS
<1>1. /\ Good(r)' /\ Good(w)' /\ Span(r)' = Span(r) /\ Span(w)' = Span(w)
      /\ (r'.cap = 0 <=> w'.cap = 0) /\ GrowthStep
  BY BuffersAlone DEF Call
<1>2. r.cap # 0 /\ sent = <<>>
  BY BufferBounds DEF IInv, Call, Live, InCall
<1>3. IInv'
  BY <1>1, <1>2 DEF Call, IInv, InCall, Answers
<1>4. Streams!Call
  BY <1>1 DEF Call, Streams!Call, Streams!InCall, InCall
<1> QED BY <1>1, <1>3, <1>4 DEF Advances, Streams!Next

\* Taking a part of the waiting bytes.
LEMMA PartsOf ==
    ASSUME NEW seq \in Seq(Byte), NEW n \in 1..Len(seq)
    PROVE  /\ SubSeq(seq, 1, n) \in Seq(Byte) /\ Len(SubSeq(seq, 1, n)) = n
           /\ SubSeq(seq, n + 1, Len(seq)) \in Seq(Byte)
           /\ Len(SubSeq(seq, n + 1, Len(seq))) = Len(seq) - n
<1> DEFINE len == Len(seq)
<1>1. len \in Nat /\ \A i \in 1..len : seq[i] \in Byte
  BY LenProperties, ElementOfSeq
<1> HIDE DEF len
<1>2. n \in 1..len
  BY DEF len
<1>3. n \in Int /\ n + 1 \in Int /\ 1 \in Int /\ len \in Int
  BY <1>1, <1>2
<1>4. (\A i \in 1..n : seq[i] \in Byte) /\ (\A i \in n + 1..len : seq[i] \in Byte)
  BY <1>1, <1>2
<1>5. /\ SubSeq(seq, 1, n) \in Seq(Byte)
      /\ Len(SubSeq(seq, 1, n)) = IF 1 <= n THEN n - 1 + 1 ELSE 0
  BY <1>3, <1>4, SubSeqProperties
<1>6. /\ SubSeq(seq, n + 1, len) \in Seq(Byte)
      /\ Len(SubSeq(seq, n + 1, len)) = IF n + 1 <= len THEN len - (n + 1) + 1 ELSE 0
  BY <1>3, <1>4, SubSeqProperties
<1>7. /\ (IF 1 <= n THEN n - 1 + 1 ELSE 0) = n
      /\ (IF n + 1 <= len THEN len - (n + 1) + 1 ELSE 0) = len - n
  BY <1>1, <1>2
<1> QED BY <1>5, <1>6, <1>7 DEF len

LEMMA RecvBytesAdvances ==
    ASSUME NEW n \in 1..Len(wire) PROVE IInv /\ RecvBytes(n) => Advances
<1> SUFFICES ASSUME IInv, RecvBytes(n) PROVE Advances
  OBVIOUS
<1> DEFINE room == WithRoom(r)
           part == SubSeq(wire, 1, n)
<1>1. /\ io = "recv" /\ attached /\ ~peerClosed /\ r.cap # 0 /\ Good(r) /\ Good(w)
      /\ r.cap \in Nat /\ w.cap \in Nat /\ MaxSize \in Nat
  BY BufferBounds DEF IInv, RecvBytes, Receiving
<1>2. wire \in Seq(Byte) /\ Len(wire) \in Nat /\ Len(wire) <= WireSize /\ WireSize \in Nat
  BY LenProperties, ConnAssumption DEF IInv
<1>3. /\ part \in Seq(Byte) /\ Len(part) = n
      /\ wire' \in Seq(Byte) /\ Len(wire') = Len(wire) - n
  BY <1>2, PartsOf DEF RecvBytes
<1>4. /\ Good(room) /\ Span(room) = Span(r) /\ room.cap # 0
      /\ room.cap > r.cap => Len(Span(r)) = r.cap
  BY <1>1, RoomKeeps
<1>5. Len(part) <= room.cap - room.len /\ r' = Filled(room, part)
  BY <1>3 DEF RecvBytes
<1> HIDE DEF room, part
<1>6. Good(r') /\ r'.cap = room.cap /\ Span(r') = Span(r) \o part
  BY <1>3, <1>4, <1>5, FillAppends
<1>7. /\ Good(r)' /\ Span(r)' = Span(r) \o part
      /\ Good(w)' /\ Span(w)' = Span(w) /\ w' = w
  BY <1>1, <1>6 DEF RecvBytes, Good, BufferOK, HoldsBytes, Span
<1>8. Len(wire') <= WireSize
  BY <1>2, <1>3
<1>9. IInv'
  BY <1>1, <1>3, <1>4, <1>6, <1>7, <1>8 DEF IInv, RecvBytes, InCall
<1>10. Len(Span(r)) + n <= MaxSize
  <2>1. /\ r'.len \in Nat /\ r'.pos \in Nat /\ r'.len <= r'.cap /\ r'.cap <= MaxSize /\ r'.cap \in Nat
        /\ Len(Span(r')) = r'.len - r'.pos
    BY <1>6, GoodFields, SpanOf
  <2>2. Span(r) \in Seq(Byte) /\ Len(Span(r)) \in Nat
    BY <1>1, SpanOf, LenProperties
  <2>3. Len(Span(r) \o part) = Len(Span(r)) + Len(part)
    BY <1>3, <2>2, ConcatProperties
  <2> QED BY <1>1, <1>3, <1>6, <2>1, <2>2, <2>3
<1>11. Streams!Receive(n)
  BY <1>1, <1>7, <1>10 DEF Streams!Receive, Streams!DropFirst, RecvBytes, part
<1>12. GrowthStep
  BY <1>1, <1>4, <1>6, <1>7 DEF GrowthStep
<1> QED BY <1>9, <1>11, <1>12 DEF Advances, Streams!Next

\* The answers of recv, given with the room that was made for them.
LEMMA AnswerWithRoom ==
    ASSUME IInv, io = "recv", attached, r' = WithRoom(r),
           UNCHANGED <<attached, w, wire, shut, sent>>,
           ~peerClosed, peerClosed' = (io' = "eof"),
           io' \in {"again", "eof", "error"},
           io' = "again" => wire = <<>>, io' = "eof" => wire = <<>> /\ shut
    PROVE  Advances
<1>1. /\ r.cap # 0 /\ Good(r) /\ Good(w) /\ r.cap \in Nat /\ w.cap \in Nat /\ sent = <<>>
  BY BufferBounds DEF IInv
<1>2. /\ Good(r') /\ Span(r') = Span(r) /\ r'.cap # 0
      /\ r'.cap > r.cap => Len(Span(r)) = r.cap
  BY <1>1, RoomKeeps
<1>3. /\ Good(r)' /\ Span(r)' = Span(r) /\ Good(w)' /\ Span(w)' = Span(w)
  BY <1>1, <1>2 DEF Good, BufferOK, HoldsBytes, Span
<1>4. IInv'
  BY <1>1, <1>2, <1>3 DEF IInv, InCall, Answers
<1>5. Streams!RecvAnswer
  BY <1>3 DEF Streams!RecvAnswer
<1>6. GrowthStep
  BY <1>1, <1>2 DEF GrowthStep
<1> QED BY <1>4, <1>5, <1>6 DEF Advances, Streams!Next

LEMMA RecvEofAdvances == IInv /\ RecvEof => Advances
<1> SUFFICES ASSUME IInv, RecvEof PROVE Advances
  OBVIOUS
<1> QED BY AnswerWithRoom DEF RecvEof, Receiving

LEMMA RecvBlockedAdvances == IInv /\ RecvBlocked => Advances
<1> SUFFICES ASSUME IInv, RecvBlocked PROVE Advances
  OBVIOUS
<1> QED BY AnswerWithRoom DEF RecvBlocked, Receiving, IInv

LEMMA RecvRefusedAdvances == IInv /\ RecvRefused => Advances
<1> SUFFICES ASSUME IInv, RecvRefused PROVE Advances
  OBVIOUS
<1>1. /\ Good(r)' /\ Good(w)' /\ Span(r)' = Span(r) /\ Span(w)' = Span(w)
      /\ (r'.cap = 0 <=> w'.cap = 0) /\ GrowthStep
  BY BuffersAlone DEF RecvRefused
<1>2. r.cap # 0 /\ sent = <<>> /\ io = "recv" /\ io' \in {"error", "eof", "full"}
  BY DEF IInv, RecvRefused, InCall
<1>3. IInv'
  BY <1>1, <1>2 DEF RecvRefused, IInv, InCall, Answers
<1>4. io' = "eof" => shut /\ wire = <<>>
  BY DEF RecvRefused, IInv
<1>5. io' = "full" => Len(Span(r)) = MaxSize
  BY <1>2, RoomKeeps DEF RecvRefused, IInv
<1>6. /\ peerClosed' = peerClosed /\ peerClosed \in BOOLEAN
      /\ peerClosed <=> io' = "eof"
  BY DEF RecvRefused, Receiving, IInv
<1>7. Streams!RecvAnswer
  BY <1>1, <1>2, <1>4, <1>5, <1>6 DEF RecvRefused, Streams!RecvAnswer
<1> QED BY <1>1, <1>3, <1>7 DEF Advances, Streams!Next

LEMMA ConsumeAdvances ==
    ASSUME NEW n \in 1..MaxSize + 1 PROVE IInv /\ Consume(n) => Advances
<1> SUFFICES ASSUME IInv, Consume(n) PROVE Advances
  OBVIOUS
<1>1. /\ Good(r) /\ Good(w) /\ r.cap # 0 /\ r.cap \in Nat /\ w.cap \in Nat /\ sent = <<>>
      /\ r.len \in Nat /\ r.pos \in Nat /\ r.pos <= r.len /\ n \in Nat
      /\ Len(Span(r)) = r.len - r.pos /\ ~InCall
  BY BufferBounds DEF IInv, Consume, Live, InCall
<1>2. CASE n > r.len - r.pos
  <2>1. /\ Good(r)' /\ Good(w)' /\ Span(r)' = Span(r) /\ Span(w)' = Span(w)
        /\ (r'.cap = 0 <=> w'.cap = 0) /\ GrowthStep
    BY <1>2, BuffersAlone DEF Consume
  <2>2. IInv'
    BY <1>1, <1>2, <2>1 DEF Consume, IInv, InCall, Answers
  <2>3. ~(n <= Len(Span(r)))
    BY <1>1, <1>2
  <2>4. Streams!Consume(n)
    BY <1>1, <1>2, <2>1, <2>3 DEF Consume, Streams!Consume, Streams!InCall, InCall
  <2> QED BY <2>1, <2>2, <2>4 DEF Advances, Streams!Next
<1>3. CASE ~(n > r.len - r.pos)
  <2>1. /\ io' = "ok" /\ w' = w
        /\ r' = IF r.pos + n = r.len THEN Emptied(r) ELSE [r EXCEPT !.pos = @ + n]
    BY <1>3 DEF Consume
  <2>2. n \in 1..r.len - r.pos /\ n <= Len(Span(r))
    BY <1>1, <1>3
  <2>3. Good(r') /\ r'.cap = r.cap /\ Span(r') = SubSeq(Span(r), n + 1, Len(Span(r)))
    <3>1. CASE r.pos + n = r.len
      <4>1. SubSeq(Span(r), n + 1, Len(Span(r))) = <<>>
        <5>1. n + 1 \in Int /\ Len(Span(r)) \in Int /\ Len(Span(r)) < n + 1
          BY <1>1, <3>1
        <5> QED BY <5>1, SubSeqEmpty
      <4> QED BY <1>1, <2>1, <3>1, <4>1, EmptyingEmpties
    <3>2. CASE r.pos + n # r.len
      BY <1>1, <2>1, <2>2, <3>2, AdvanceDrops
    <3> QED BY <3>1, <3>2
  <2>4. /\ Good(r)' /\ Span(r)' = SubSeq(Span(r), n + 1, Len(Span(r)))
        /\ Good(w)' /\ Span(w)' = Span(w)
    BY <1>1, <2>1, <2>3 DEF Good, BufferOK, HoldsBytes, Span
  <2>5. IInv'
    BY <1>1, <2>1, <2>3, <2>4 DEF Consume, IInv, InCall, Answers
  <2>6. Streams!Consume(n)
    BY <1>1, <2>1, <2>2, <2>4 DEF Consume, Streams!Consume, Streams!DropFirst, Streams!InCall, InCall
  <2>7. GrowthStep
    BY <1>1, <2>1, <2>3 DEF GrowthStep
  <2> QED BY <2>5, <2>6, <2>7 DEF Advances, Streams!Next
<1> QED BY <1>2, <1>3

LEMMA WriteAdvances ==
    ASSUME NEW bytes \in Outputs PROVE IInv /\ Write(bytes) => Advances
<1> SUFFICES ASSUME IInv, Write(bytes) PROVE Advances
  OBVIOUS
<1> DEFINE n == Len(bytes)
<1>1. bytes \in Seq(Byte) /\ n \in Nat \ {0}
  <2>1. PICK m \in 1..MaxWrite : bytes \in [1..m -> Byte]
    BY DEF Outputs
  <2>2. m \in Nat \ {0}
    BY <2>1, ConnAssumption
  <2> QED BY <2>1, <2>2
<1>2. /\ Good(r) /\ Good(w) /\ w.cap # 0 /\ r.cap # 0 /\ r.cap \in Nat /\ w.cap \in Nat
      /\ w.len \in Nat /\ w.pos \in Nat /\ w.pos <= w.len /\ MaxSize \in Nat
      /\ sent = <<>> /\ Len(sent) = 0
      /\ Span(w) \in Seq(Byte) /\ Len(Span(w)) = w.len - w.pos /\ ~InCall
  BY BufferBounds, EmptySeq DEF IInv, Write, Live, InCall
<1> HIDE DEF n
<1>3. CASE n > MaxSize - (w.len - w.pos) /\ io' = "enobufs" /\ UNCHANGED w
  <2>1. /\ Good(r)' /\ Good(w)' /\ Span(r)' = Span(r) /\ Span(w)' = Span(w)
        /\ (r'.cap = 0 <=> w'.cap = 0) /\ GrowthStep
    BY <1>3, BuffersAlone DEF Write
  <2>2. IInv'
    BY <1>2, <1>3, <2>1 DEF Write, IInv, InCall, Answers
  <2>3. Len(Span(w)) + n > MaxSize
    BY <1>1, <1>2, <1>3
  <2>4. Streams!Write(bytes)
    BY <1>2, <1>3, <2>1, <2>3 DEF Write, Streams!Write, Streams!InCall, InCall, n
  <2> QED BY <2>1, <2>2, <2>4 DEF Advances, Streams!Next, Outputs, Streams!Bytes
<1>4. ASSUME n <= MaxSize - (w.len - w.pos) PROVE ~(Len(Span(w)) + n > MaxSize)
  BY <1>1, <1>2, <1>4
<1>5. CASE /\ n <= MaxSize - (w.len - w.pos)
           /\ w' = Filled(WithRoomFor(w, n), bytes) /\ io' = "ok"
  <2> DEFINE room == WithRoomFor(w, n)
  <2>1. /\ Good(room) /\ Span(room) = Span(w) /\ room.cap # 0
        /\ n <= room.cap - room.len
        /\ room.cap > w.cap => Len(Span(w)) + n > w.cap
    BY <1>1, <1>2, <1>5, RoomForKeeps
  <2>2. w' = Filled(room, bytes)
    BY <1>5
  <2> HIDE DEF room
  <2>3. Good(w') /\ w'.cap = room.cap /\ Span(w') = Span(w) \o bytes
    BY <1>1, <2>1, <2>2, FillAppends DEF n
  <2>4. /\ Good(r)' /\ Span(r)' = Span(r) /\ r' = r
        /\ Good(w)' /\ Span(w)' = Span(w) \o bytes
    BY <1>2, <2>3 DEF Write, Good, BufferOK, HoldsBytes, Span
  <2>5. /\ w'.len \in Nat /\ w'.pos \in Nat /\ w'.pos <= w'.len /\ w'.len <= w'.cap
        /\ w'.cap \in Nat /\ w'.cap <= MaxSize
    BY <2>3, GoodFields
  <2>6. Len(sent') + (w'.len - w'.pos) <= MaxSize
    BY <1>2, <2>5 DEF Write
  <2>7. IInv'
    BY <1>2, <1>5, <2>1, <2>3, <2>4, <2>6 DEF Write, IInv, InCall, Answers
  <2>8. Streams!Write(bytes)
    BY <1>2, <1>4, <1>5, <2>4 DEF Write, Streams!Write, Streams!InCall, InCall, n
  <2>9. Len(Span(w) \o bytes) = Len(Span(w)) + n
    BY <1>1, <1>2, ConcatProperties DEF n
  <2>10. GrowthStep
    BY <1>2, <2>1, <2>3, <2>4, <2>9 DEF GrowthStep
  <2> QED BY <2>7, <2>8, <2>10 DEF Advances, Streams!Next, Outputs, Streams!Bytes
<1>6. CASE n <= MaxSize - (w.len - w.pos) /\ w' = Compacted(w) /\ io' = "enomem"
  <2>1. /\ Good(w') /\ w'.cap = w.cap /\ Span(w') = Span(w)
        /\ w'.len - w'.pos = w.len - w.pos
    BY <1>2, <1>6, CompactKeeps
  <2>2. /\ Good(r)' /\ Span(r)' = Span(r) /\ r' = r /\ Good(w)' /\ Span(w)' = Span(w)
    BY <1>2, <2>1 DEF Write, Good, BufferOK, HoldsBytes, Span
  <2>3. IInv'
    BY <1>2, <1>6, <2>1, <2>2 DEF Write, IInv, InCall, Answers
  <2>4. Streams!Write(bytes)
    BY <1>2, <1>4, <1>6, <2>2 DEF Write, Streams!Write, Streams!InCall, InCall, n
  <2>5. GrowthStep
    BY <1>2, <2>1, <2>2 DEF GrowthStep
  <2> QED BY <2>3, <2>4, <2>5 DEF Advances, Streams!Next, Outputs, Streams!Bytes
<1> QED BY <1>3, <1>5, <1>6 DEF Write, n

LEMMA SendAdvances ==
    ASSUME NEW n \in 1..w.len - w.pos PROVE IInv /\ Send(n) => Advances
<1> SUFFICES ASSUME IInv, Send(n) PROVE Advances
  OBVIOUS
<1> DEFINE part == SubSeq(Span(w), 1, n)
<1>1. /\ Good(r) /\ Good(w) /\ r.cap # 0 /\ w.cap # 0 /\ r.cap \in Nat /\ w.cap \in Nat
      /\ w.len \in Nat /\ w.pos \in Nat /\ w.pos <= w.len /\ n \in Nat
      /\ Span(w) \in Seq(Byte) /\ Len(Span(w)) = w.len - w.pos
      /\ io = "flush" /\ attached /\ sent \in Seq(Byte) /\ Len(sent) \in Nat
      /\ Len(sent) + (w.len - w.pos) <= MaxSize /\ MaxSize \in Nat
  BY BufferBounds, LenProperties DEF IInv, Send, Flushing, InCall
<1>2. n \in 1..Len(Span(w))
  BY <1>1
<1>3. part \in Seq(Byte) /\ Len(part) = n
  BY <1>1, <1>2, PartsOf
<1>4. SubSeq(w.data, w.pos + 1, w.pos + n) = part
  <2> DEFINE raw == SubSeq(w.data, w.pos + 1, w.pos + n)
  <2>1. w.pos + 1 \in Int /\ w.pos + n \in Int
    BY <1>1
  <2>2. \A i \in w.pos + 1..w.pos + n : w.data[i] \in Byte
    BY <1>1, GoodFields
  <2>3. /\ raw \in Seq(Byte)
        /\ Len(raw) = IF w.pos + 1 <= w.pos + n THEN (w.pos + n) - (w.pos + 1) + 1 ELSE 0
        /\ \A i \in 1..(w.pos + n) - (w.pos + 1) + 1 : raw[i] = w.data[(w.pos + 1) + i - 1]
    BY <2>1, <2>2, SubSeqProperties
  <2> HIDE DEF raw
  <2>4. Len(raw) = n
    BY <1>1, <2>3
  <2>5. /\ 1 \in Int /\ n \in Int /\ \A i \in 1..n : Span(w)[i] \in Byte
    BY <1>1, <1>2, ElementOfSeq
  <2>6. \A i \in 1..n - 1 + 1 : part[i] = Span(w)[1 + i - 1]
    BY <2>5, SubSeqProperties
  <2>7. ASSUME NEW i \in 1..n PROVE raw[i] = part[i]
    <3>1. /\ i \in 1..(w.pos + n) - (w.pos + 1) + 1 /\ (w.pos + 1) + i - 1 = w.pos + i
      BY <1>1
    <3>2. i \in 1..n - 1 + 1 /\ 1 + i - 1 = i
      BY <1>1
    <3>3. i \in 1..w.len - w.pos
      BY <1>1
    <3>4. raw[i] = w.data[w.pos + i]
      BY <2>3, <3>1
    <3>5. part[i] = Span(w)[i]
      BY <2>6, <3>2
    <3>6. Span(w)[i] = w.data[w.pos + i]
      BY <1>1, <3>3, SpanOf
    <3> QED BY <3>4, <3>5, <3>6
  <2>8. raw = part
    BY <1>3, <2>3, <2>4, <2>7, SeqEqual
  <2> QED BY <2>8 DEF raw
<1>5. sent' = sent \o part /\ w' = [w EXCEPT !.pos = @ + n] /\ r' = r
  BY <1>4 DEF Send
<1> HIDE DEF part
<1>6. /\ Good(w') /\ w'.cap = w.cap /\ w'.len = w.len /\ w'.pos = w.pos + n
      /\ Span(w') = SubSeq(Span(w), n + 1, Len(Span(w)))
  BY <1>1, <1>5, AdvanceDrops
<1>7. /\ Good(r)' /\ Span(r)' = Span(r) /\ Good(w)'
      /\ Span(w)' = SubSeq(Span(w), n + 1, Len(Span(w)))
  BY <1>1, <1>5, <1>6 DEF Good, BufferOK, HoldsBytes, Span
<1>8. sent' \in Seq(Byte) /\ Len(sent') = Len(sent) + n
  BY <1>1, <1>3, <1>5, ConcatProperties
<1>9. Len(sent') + (w'.len - w'.pos) <= MaxSize
  BY <1>1, <1>6, <1>8
<1>10. IInv'
  BY <1>1, <1>5, <1>6, <1>7, <1>8, <1>9 DEF Send, IInv, InCall
<1>11. Streams!Transmit(n)
  BY <1>1, <1>5, <1>7 DEF Send, Streams!Transmit, Streams!DropFirst, part
<1>12. GrowthStep
  BY <1>1, <1>5, <1>6 DEF GrowthStep
<1> QED BY <1>2, <1>10, <1>11, <1>12 DEF Advances, Streams!Next

LEMMA SendNothingAdvances == IInv /\ SendNothing => Advances
<1> SUFFICES ASSUME IInv, SendNothing PROVE Advances
  OBVIOUS
<1>1. /\ Good(r)' /\ Good(w)' /\ Span(r)' = Span(r) /\ Span(w)' = Span(w)
      /\ (r'.cap = 0 <=> w'.cap = 0) /\ GrowthStep
  BY BuffersAlone DEF SendNothing
<1>2. sent' = <<>> /\ sent' \in Seq(Byte) /\ Len(sent') + (w'.len - w'.pos) <= MaxSize
  <2>1. w.len - w.pos <= MaxSize /\ w.len - w.pos \in Nat
    BY BufferBounds
  <2> QED BY <2>1, EmptySeq, ConnAssumption DEF SendNothing
<1>3. IInv'
  BY <1>1, <1>2 DEF SendNothing, Flushing, IInv, InCall, Answers
<1>4. Streams!FlushAnswer
  BY <1>1 DEF SendNothing, Flushing, Streams!FlushAnswer
<1> QED BY <1>1, <1>3, <1>4 DEF Advances, Streams!Next

LEMMA FlushReturnsAdvances == IInv /\ FlushReturns => Advances
<1> SUFFICES ASSUME IInv, FlushReturns PROVE Advances
  OBVIOUS
<1>1. /\ Good(r) /\ Good(w) /\ r.cap # 0 /\ w.cap # 0 /\ r.cap \in Nat /\ w.cap \in Nat
      /\ w.len \in Nat /\ w.pos \in Nat /\ w.pos <= w.len /\ w.len <= MaxSize /\ MaxSize \in Nat
      /\ Span(w) \in Seq(Byte) /\ Len(Span(w)) = w.len - w.pos
      /\ io = "flush" /\ sent' = <<>> /\ sent' \in Seq(Byte) /\ Len(sent') = 0 /\ r' = r
  BY BufferBounds, EmptySeq DEF IInv, FlushReturns, InCall
<1>2. CASE attached /\ io' = "ok" /\ w' = Emptied(w)
  <2>1. w.pos = w.len
    BY <1>1, <1>2 DEF FlushReturns, Flushing
  <2>2. Span(w) = <<>>
    BY <1>1, <2>1, EmptySeq
  <2>3. Good(w') /\ w'.cap = w.cap /\ w'.len = 0 /\ w'.pos = 0 /\ Span(w') = <<>>
    BY <1>1, <1>2, EmptyingEmpties
  <2>4. Good(r)' /\ Span(r)' = Span(r) /\ Good(w)' /\ Span(w)' = <<>>
    BY <1>1, <2>3 DEF Good, BufferOK, HoldsBytes, Span
  <2>5. Len(sent') + (w'.len - w'.pos) <= MaxSize
    BY <1>1, <2>3
  <2>6. IInv'
    BY <1>1, <1>2, <2>3, <2>4, <2>5 DEF FlushReturns, IInv, InCall, Answers
  <2>7. Streams!FlushAnswer
    BY <1>1, <1>2, <2>2, <2>4 DEF FlushReturns, Streams!FlushAnswer
  <2>8. GrowthStep
    BY <1>1, <2>3 DEF GrowthStep
  <2> QED BY <2>6, <2>7, <2>8 DEF Advances, Streams!Next
<1>3. CASE ~attached /\ io' = "error" /\ UNCHANGED w
  <2>1. /\ Good(r)' /\ Good(w)' /\ Span(r)' = Span(r) /\ Span(w)' = Span(w)
        /\ (r'.cap = 0 <=> w'.cap = 0) /\ GrowthStep
    BY <1>1, <1>3, BuffersAlone
  <2>2. Len(sent') + (w'.len - w'.pos) <= MaxSize
    BY <1>1, <1>3
  <2>3. IInv'
    BY <1>1, <1>3, <2>1, <2>2 DEF FlushReturns, IInv, InCall, Answers
  <2>4. Streams!FlushAnswer
    BY <1>1, <1>3, <2>1 DEF FlushReturns, Streams!FlushAnswer
  <2> QED BY <2>1, <2>3, <2>4 DEF Advances, Streams!Next
<1> QED BY <1>2, <1>3 DEF FlushReturns

LEMMA StepAdvances == IInv /\ [Next]_vars => Advances
<1> SUFFICES ASSUME IInv, [Next]_vars PROVE Advances
  OBVIOUS
<1>1. CASE Worker
  BY <1>1, ConnInitAdvances, AttachAdvances, ResetAdvances, CallAdvances,
     ConsumeAdvances, WriteAdvances DEF Worker
<1>2. CASE Peer
  BY <1>2, PeerAdvances
<1>3. CASE RecvStep
  BY <1>3, RecvBytesAdvances, RecvEofAdvances, RecvBlockedAdvances, RecvRefusedAdvances DEF RecvStep
<1>4. CASE FlushStep
  BY <1>4, SendAdvances, SendNothingAdvances, FlushReturnsAdvances DEF FlushStep
<1>5. CASE UNCHANGED vars
  <2>1. /\ Good(r)' /\ Good(w)' /\ Span(r)' = Span(r) /\ Span(w)' = Span(w)
        /\ (r'.cap = 0 <=> w'.cap = 0) /\ GrowthStep
    BY <1>5, BuffersAlone DEF vars
  <2>2. IInv'
    BY <1>5, <2>1 DEF vars, IInv, InCall
  <2>3. UNCHANGED Streams!vars
    BY <1>5, <2>1 DEF vars, Streams!vars
  <2> QED BY <2>1, <2>2, <2>3 DEF Advances
<1> QED BY <1>1, <1>2, <1>3, <1>4, <1>5 DEF Next

-----------------------------------------------------------------------------
(***************************************************************************)
(* The theorems.                                                           *)
(***************************************************************************)

\* The inductive invariant of a connection holds in every reachable state.
THEOREM Invariance == Spec => []IInv
<1>1. IInv /\ [Next]_vars => IInv'
  BY StepAdvances DEF Advances
<1> QED BY InitHolds, <1>1, PTL DEF Spec

\* Offsets stay inside the memory and the memory inside its limits: no call
\* reads or writes beyond a buffer of conn.c, however large limit and output.
THEOREM TypeCorrect == Spec => []TypeOK
<1>1. ASSUME IInv PROVE TypeOK
  <2>1. wire \in UNION {[1..n -> Byte] : n \in 0..WireSize}
    BY <1>1, BoundedSeq, ConnAssumption DEF IInv
  <2>2. sent \in UNION {[1..n -> Byte] : n \in 0..MaxSize}
    <3>1. Len(sent) \in Nat /\ w.len - w.pos \in Nat /\ MaxSize \in Nat
      BY <1>1, BufferBounds, LenProperties DEF IInv
    <3>2. Len(sent) <= MaxSize
      BY <1>1, <3>1 DEF IInv
    <3> QED BY <1>1, <3>1, <3>2, BoundedSeq DEF IInv
  <2> QED BY <1>1, <2>1, <2>2 DEF IInv, TypeOK, Good, Answers
<1> QED BY <1>1, Invariance, PTL

\* Memory is taken only for bytes that do not fit without it.
THEOREM GrowthCorrect == Spec => GrowsOnlyWhenNeeded
<1>1. IInv /\ [Next]_vars =>
        [/\ r.cap > 0 /\ r'.cap > r.cap => Len(Span(r)) = r.cap
         /\ w.cap > 0 /\ w'.cap > w.cap => Len(Span(w')) > w.cap]_vars
  BY StepAdvances DEF Advances, GrowthStep
<1> QED BY Invariance, <1>1, PTL DEF Spec, GrowsOnlyWhenNeeded

\* A connection implements the two byte streams of conn.h: nothing is lost,
\* repeated, reordered or left over, and the answers are true.
THEOREM Refinement == Spec => ImplementsStreams
<1>1. Init => Streams!Init
  BY InitHolds
<1>2. IInv /\ [Next]_vars => [Streams!Next]_Streams!vars
  BY StepAdvances DEF Advances
<1> QED BY Invariance, <1>1, <1>2, PTL DEF Spec, ImplementsStreams, Streams!Spec
=============================================================================
