--------------------------- MODULE ProtocolProofs ---------------------------
(***************************************************************************)
(* Proofs about the request parser and the conversation around it, for any *)
(* limits, any input and any way of cutting it up.                         *)
(*                                                                         *)
(* The parser never changes its mind: an answer other than "incomplete" is *)
(* the answer to every continuation of the bytes it was given on. The      *)
(* conversation then keeps as an invariant that its last answer is the one *)
(* to the whole rest of the input.                                         *)
(*                                                                         *)
(* What an accepted command points at lies inside the bytes it consumed,   *)
(* and its numbers inside their types (CommandInside); replies are written *)
(* where there is room for them (OutputInside). A get shows the word       *)
(* behind those it has served (Serving): the search for the next key in    *)
(* the input finds the start of the next word, for a word starts behind    *)
(* the blank that ends the one before (WordsApart, NextWordIs).            *)
(*                                                                         *)
(* The parser takes exactly the requests. Its tests of a header are those  *)
(* of a legal line (CommandLegal, HeaderLegal), those of a block the ones  *)
(* of a legal frame (BlockIs, LegalFrameIs): so a parse that succeeds      *)
(* consumes a frame, and one that fails stands before bytes no             *)
(* continuation of which begins with one (Requested).                      *)
(*                                                                         *)
(* A client reads back the replies that were written. The output is kept   *)
(* as bytes that can be cut into pieces, each read as its reply (Legible): *)
(* what a writer puts out is read as the reply it was called for           *)
(* (ItemReply, TextReply, WordReply), for a key is a word (KeyPlain), a    *)
(* text has no line end, and a number denotes what it was written for      *)
(* (WrittenDenotes).                                                       *)
(*                                                                         *)
(* The numbers read, the numbers written, the words of a line and what a   *)
(* client reads are recursive functions; that they exist, and what they    *)
(* yield, is shown by induction on sets of numbers (Induction, Recursion). *)
(***************************************************************************)
EXTENDS ProtocolSession, TLAPS, SequenceTheorems, WellFoundedInduction

\* c continues b.
Continues(c, b) == Len(b) <= Len(c) /\ \A i \in 1..Len(b) : c[i] = b[i]

-----------------------------------------------------------------------------
(***************************************************************************)
(* Numbers in general.                                                     *)
(***************************************************************************)

\* A set of numbers that is not empty has a least element.
LEMMA LeastElement ==
    ASSUME NEW T \in SUBSET Nat, T # {}
    PROVE  \E x \in T : \A y \in T : x <= y
<1>1. \E x \in T : \A y \in T : ~(<<y, x>> \in OpToRel(<, Nat))
  BY NatLessThanWellFounded, WFMin
<1>2. PICK x \in T : \A y \in T : ~(<<y, x>> \in OpToRel(<, Nat))
  BY <1>1
<1>3. \A y \in T : ~(y < x)
  BY <1>2, Zenon DEF OpToRel
<1>4. \A y \in T : x <= y
  BY <1>3
<1> QED BY <1>4

\* A set of numbers that has 0 and the successor of each of its members is
\* Nat.
LEMMA Induction ==
    ASSUME NEW S \in SUBSET Nat, 0 \in S, \A n \in S : n + 1 \in S
    PROVE  S = Nat
<1>1. SUFFICES ASSUME Nat \ S # {} PROVE FALSE
  OBVIOUS
<1>2. PICK x \in Nat \ S : \A y \in Nat \ S : x <= y
  BY <1>1, LeastElement
<1>3. x - 1 \in Nat /\ x - 1 \notin Nat \ S
  BY <1>2
<1> QED BY <1>2, <1>3

\* What Min yields on a set of positions.
LEMMA MinIs ==
    ASSUME NEW T \in SUBSET Nat, T # {}
    PROVE  Min(T) \in T /\ \A y \in T : Min(T) <= y
<1>1. \E x \in T : \A y \in T : x <= y
  BY LeastElement
<1> QED BY <1>1 DEF Min

-----------------------------------------------------------------------------
(***************************************************************************)
(* Lines.                                                                  *)
(***************************************************************************)
\* The line break that counts is the first, and it is there if any is.
LEMMA FirstBreakIsFirst ==
    ASSUME NEW S, NEW b \in Seq(S), Breaks(b) # {}
    PROVE  /\ FirstBreak(b) \in Breaks(b) /\ FirstBreak(b) \in 1..Len(b)
           /\ \A i \in Breaks(b) : FirstBreak(b) <= i
<1>1. Len(b) \in Nat /\ Breaks(b) \in SUBSET Nat
  BY LenProperties DEF Breaks
<1>2. \E i \in Breaks(b) : \A j \in Breaks(b) : i <= j
  BY <1>1, LeastElement
<1>3. FirstBreak(b) \in Breaks(b) /\ \A j \in Breaks(b) : FirstBreak(b) <= j
  BY <1>2 DEF FirstBreak
<1> QED BY <1>3 DEF Breaks

\* What comes later does not change where the first line ends.
LEMMA FirstBreakStays ==
    ASSUME NEW S, NEW b \in Seq(S), NEW c \in Seq(S), Continues(c, b), Breaks(b) # {}
    PROVE  FirstBreak(c) = FirstBreak(b) /\ Breaks(c) # {}
<1>1. Len(b) \in Nat /\ Len(c) \in Nat
  BY LenProperties
<1>2. /\ FirstBreak(b) \in Breaks(b) /\ FirstBreak(b) \in 1..Len(b)
      /\ \A i \in Breaks(b) : FirstBreak(b) <= i
  BY FirstBreakIsFirst
<1>3. FirstBreak(b) \in Breaks(c)
  BY <1>1, <1>2 DEF Breaks, Continues
<1>4. /\ FirstBreak(c) \in Breaks(c) /\ FirstBreak(c) \in 1..Len(c)
      /\ \A i \in Breaks(c) : FirstBreak(c) <= i
  BY <1>3, FirstBreakIsFirst
<1>5. FirstBreak(c) <= FirstBreak(b)
  BY <1>3, <1>4
<1>6. FirstBreak(c) \in Breaks(b)
  BY <1>1, <1>2, <1>4, <1>5 DEF Breaks, Continues
<1>7. FirstBreak(b) <= FirstBreak(c)
  BY <1>2, <1>6
<1> QED BY <1>1, <1>2, <1>3, <1>4, <1>5, <1>7

\* Once the end of the line is decided, it stays so, and the line with it.
LEMMA LineStays ==
    ASSUME NEW S, NEW b \in Seq(S), NEW c \in Seq(S), Continues(c, b),
           LineError(b) # "INCOMPLETE"
    PROVE  /\ LineError(c) = LineError(b)
           /\ FirstBreak(c) = FirstBreak(b) /\ FirstBreak(b) \in 1..Len(b)
           /\ Line(c) = Line(b)
           /\ LineError(b) = "OK" => FirstBreak(b) < Len(b)
<1>1. Len(b) \in Nat /\ Len(c) \in Nat /\ Breaks(b) # {}
  BY LenProperties DEF LineError
<1>2. FirstBreak(c) = FirstBreak(b) /\ Breaks(c) # {} /\ FirstBreak(b) \in 1..Len(b)
  BY <1>1, FirstBreakStays, FirstBreakIsFirst
<1> DEFINE n == FirstBreak(b)
<1>3. c[n] = b[n] /\ b[n] \in {"CR", "LF"}
  BY <1>1, <1>2, FirstBreakIsFirst DEF Continues, Breaks
<1>4. b[n] = "CR" => n < Len(b) /\ n < Len(c) /\ c[n + 1] = b[n + 1]
  BY <1>1, <1>2, <1>3 DEF LineError, Continues
<1>5. LineError(c) = LineError(b)
  BY <1>1, <1>2, <1>3, <1>4 DEF LineError
<1>6. LineError(b) = "OK" => n < Len(b)
  BY <1>1, <1>3, <1>4 DEF LineError
<1>7. Line(c) = Line(b)
  <2> HIDE DEF n
  <2>1. n \in 1..Len(b) /\ n - 1 \in Int /\ n - 1 <= Len(c)
    BY <1>1, <1>2 DEF n, Continues
  <2>2. \A i \in 1..n - 1 : b[i] \in S /\ c[i] \in S /\ c[i] = b[i]
    BY <1>1, <2>1, ElementOfSeq DEF Continues
  <2>3. /\ SubSeq(b, 1, n - 1) \in Seq(S)
        /\ Len(SubSeq(b, 1, n - 1)) = IF 1 <= n - 1 THEN n - 1 - 1 + 1 ELSE 0
        /\ \A i \in 1..n - 1 - 1 + 1 : SubSeq(b, 1, n - 1)[i] = b[1 + i - 1]
    BY <2>1, <2>2, SubSeqProperties
  <2>4. /\ SubSeq(c, 1, n - 1) \in Seq(S)
        /\ Len(SubSeq(c, 1, n - 1)) = IF 1 <= n - 1 THEN n - 1 - 1 + 1 ELSE 0
        /\ \A i \in 1..n - 1 - 1 + 1 : SubSeq(c, 1, n - 1)[i] = c[1 + i - 1]
    BY <2>1, <2>2, SubSeqProperties
  <2>5. Len(SubSeq(b, 1, n - 1)) = n - 1 /\ Len(SubSeq(c, 1, n - 1)) = n - 1
    BY <2>1, <2>3, <2>4
  <2>6. \A i \in 1..n - 1 : SubSeq(b, 1, n - 1)[i] = SubSeq(c, 1, n - 1)[i]
    BY <2>1, <2>2, <2>3, <2>4
  <2>7. SubSeq(b, 1, n - 1) = SubSeq(c, 1, n - 1)
    BY <2>3, <2>4, <2>5, <2>6, SeqEqual
  <2> QED BY <1>2, <2>7 DEF Line, n
<1> QED BY <1>2, <1>5, <1>6, <1>7

-----------------------------------------------------------------------------
(***************************************************************************)
(* Headers and blocks.                                                     *)
(***************************************************************************)

\* A header without error that has a block says how long it is.
LEMMA BlockLengthKnown ==
    ASSUME NEW line, HeaderError(Words(line)) = "OK", HeaderCommand(line).type = "set"
    PROVE  HeaderCommand(line).valueLen \in Nat
<1> DEFINE words == Words(line)
<1>1. HeaderCommand(line) = Command(line, words, words[1][1])
  BY DEF HeaderCommand
<1> HIDE DEF words
<1>2. CASE Len(words) = 1
  BY <1>1, <1>2 DEF Command, NoCommand
<1>3. CASE Len(words) # 1
  <2>1. words[1][1] = "set" /\ HeaderCommand(line).valueLen = ParseUint(words[5], SizeMax)
    BY <1>1, <1>3 DEF Command
  <2>2. words[1] # <<"get">>
    BY <2>1
  <2>3. FieldError(words, "set") = "OK"
    BY <1>3, <2>1, <2>2 DEF HeaderError, words
  <2> QED BY <2>1, <2>3 DEF FieldError
<1> QED BY <1>2, <1>3

\* Once a block is judged, it stays so; one that is accepted has arrived.
LEMMA BlockStays ==
    ASSUME NEW S, NEW b \in Seq(S), NEW c \in Seq(S), Continues(c, b),
           NEW offset \in 0..Len(b), NEW valueLen \in Nat,
           BodyError(b, offset, valueLen) # "INCOMPLETE"
    PROVE  /\ BodyError(c, offset, valueLen) = BodyError(b, offset, valueLen)
           /\ BodyError(b, offset, valueLen) = "OK" => offset + valueLen + 2 <= Len(b)
<1>1. Len(b) \in Nat /\ Len(c) \in Nat /\ Len(b) <= Len(c) /\ offset \in Nat
  BY LenProperties DEF Continues
<1>2. CASE SizeMax - offset < 2 \/ valueLen > SizeMax - offset - 2
  BY <1>2 DEF BodyError
<1>3. CASE ~(SizeMax - offset < 2 \/ valueLen > SizeMax - offset - 2)
  <2>1. ~(Len(b) - offset <= valueLen)
    BY <1>3 DEF BodyError
  <2>2. ~(Len(c) - offset <= valueLen) /\ offset + valueLen + 1 \in 1..Len(b)
    BY <1>1, <2>1
  <2>3. c[offset + valueLen + 1] = b[offset + valueLen + 1]
    BY <2>2 DEF Continues
  <2>4. CASE b[offset + valueLen + 1] # "CR"
    BY <1>3, <2>1, <2>2, <2>3, <2>4 DEF BodyError
  <2>5. CASE b[offset + valueLen + 1] = "CR"
    <3>1. Len(b) - offset # valueLen + 1
      BY <1>3, <2>1, <2>5 DEF BodyError
    <3>2. Len(c) - offset # valueLen + 1 /\ offset + valueLen + 2 \in 1..Len(b)
      BY <1>1, <2>1, <3>1
    <3>3. c[offset + valueLen + 2] = b[offset + valueLen + 2]
      BY <3>2 DEF Continues
    <3> QED BY <1>1, <1>3, <2>1, <2>2, <2>3, <2>5, <3>1, <3>2, <3>3 DEF BodyError
  <2> QED BY <2>4, <2>5
<1> QED BY <1>2, <1>3

-----------------------------------------------------------------------------
(***************************************************************************)
(* Requests.                                                               *)
(***************************************************************************)

\* The parser never changes its mind: bytes that arrive later change nothing
\* about a command it has accepted or refused, and an accepted command has
\* arrived as a whole.
THEOREM AnswersStand ==
    ASSUME NEW S, NEW b \in Seq(S), NEW c \in Seq(S), Continues(c, b),
           ParseCommand(b).err # "INCOMPLETE"
    PROVE  /\ ParseCommand(c) = ParseCommand(b)
           /\ ParseCommand(b).err = "OK" =>
                /\ ParseCommand(b).consumed \in 1..Len(b)
                /\ ParseCommand(b) = [err      |-> "OK",
                                      cmd      |-> ParseCommand(b).cmd,
                                      consumed |-> ParseCommand(b).consumed]
<1>1. LineError(b) # "INCOMPLETE"
  BY DEF ParseCommand, Failed
<1>2. /\ LineError(c) = LineError(b) /\ FirstBreak(c) = FirstBreak(b)
      /\ FirstBreak(b) \in 1..Len(b) /\ Line(c) = Line(b)
      /\ LineError(b) = "OK" => FirstBreak(b) < Len(b)
  BY <1>1, LineStays
<1>3. CASE LineError(b) # "OK"
  BY <1>2, <1>3 DEF ParseCommand, Failed
<1>4. CASE LineError(b) = "OK"
  <2> DEFINE offset == FirstBreak(b) + 1
             err    == HeaderError(Words(Line(b)))
             header == HeaderCommand(Line(b))
  <2>1. /\ ParseCommand(b) = Framed(b, offset, err, header)
        /\ ParseCommand(c) = Framed(c, offset, err, header)
    BY <1>2, <1>4 DEF ParseCommand
  <2>2. offset \in 1..Len(b) /\ Len(b) \in Nat
    BY <1>2, <1>4, LenProperties
  <2>3. err = "OK" /\ header.type = "set" => header.valueLen \in Nat
    BY BlockLengthKnown
  <2> HIDE DEF offset, err, header
  <2>4. CASE err # "OK"
    BY <2>1, <2>4 DEF Framed, Failed
  <2>5. CASE err = "OK" /\ header.type # "set"
    BY <2>1, <2>2, <2>5 DEF Framed
  <2>6. CASE err = "OK" /\ header.type = "set"
    <3>1. header.valueLen \in Nat /\ offset \in 0..Len(b)
      BY <2>2, <2>3, <2>6
    <3>2. BodyError(b, offset, header.valueLen) # "INCOMPLETE"
      BY <2>1, <2>6 DEF Framed, Failed
    <3>3. /\ BodyError(c, offset, header.valueLen) = BodyError(b, offset, header.valueLen)
          /\ BodyError(b, offset, header.valueLen) = "OK" => offset + header.valueLen + 2 <= Len(b)
      BY <3>1, <3>2, BlockStays
    <3>4. CASE BodyError(b, offset, header.valueLen) # "OK"
      BY <2>1, <2>6, <3>3, <3>4 DEF Framed, Failed
    <3>5. CASE BodyError(b, offset, header.valueLen) = "OK"
      BY <2>1, <2>2, <2>6, <3>1, <3>3, <3>5 DEF Framed
    <3> QED BY <3>4, <3>5
  <2> QED BY <2>4, <2>5, <2>6
<1> QED BY <1>3, <1>4

\* An answer is none of the words that stand for phases of a conversation.
LEMMA AnswersAreErrors ==
    ASSUME NEW b
    PROVE  ParseCommand(b).err \notin {"parse", "reply", "done"}
<1>1. LineError(b) \notin {"parse", "reply", "done"}
  BY DEF LineError
<1>2. ASSUME NEW words PROVE HeaderError(words) \notin {"parse", "reply", "done"}
  <2>1. \A key : KeyError(key) \notin {"parse", "reply", "done"}
    BY DEF KeyError
  <2>2. GetError(words) \notin {"parse", "reply", "done"}
    BY <2>1 DEF GetError
  <2>3. \A type : ArityError(words, type) \notin {"parse", "reply", "done"}
    BY DEF ArityError
  <2>4. \A type : FieldError(words, type) \notin {"parse", "reply", "done"}
    BY DEF FieldError
  <2> QED BY <2>1, <2>2, <2>3, <2>4 DEF HeaderError
<1>3. ASSUME NEW offset, NEW valueLen
      PROVE  BodyError(b, offset, valueLen) \notin {"parse", "reply", "done"}
  BY DEF BodyError
<1>4. ASSUME NEW offset, NEW err, err \notin {"parse", "reply", "done"}, NEW cmd_
      PROVE  Framed(b, offset, err, cmd_).err \notin {"parse", "reply", "done"}
  BY <1>3, <1>4 DEF Framed, Failed
<1> QED BY <1>1, <1>2, <1>4 DEF ParseCommand, Failed

-----------------------------------------------------------------------------
(***************************************************************************)
(* The conversation.                                                       *)
(***************************************************************************)
Positions ==
    /\ input \in Streams
    /\ filled \in 0..Len(input) /\ pos \in 0..filled /\ start \in 0..pos
    /\ \E T : served \in Seq(T)

IInv == Positions /\ CutsDoNotMatter

\* What has arrived is continued by the whole of the rest.
LEMMA WindowContinued ==
    ASSUME Positions
    PROVE  \E S : Window \in Seq(S) /\ Rest(pos) \in Seq(S) /\ Continues(Rest(pos), Window)
              /\ Len(Window) = filled - pos
<1> DEFINE S == ToSet(input)
           w == SubSeq(input, pos + 1, filled)
           r == SubSeq(input, pos + 1, Len(input))
<1>1. input \in Seq(S)
  BY SessionAssumption DEF Positions
<1> HIDE DEF S
<1>2. Len(input) \in Nat /\ filled \in 0..Len(input) /\ pos \in 0..filled
  BY <1>1, LenProperties DEF Positions
<1>3. \A i \in 1..Len(input) : input[i] \in S
  BY <1>1, ElementOfSeq
<1>4. /\ w \in Seq(S) /\ Len(w) = filled - pos
      /\ \A i \in 1..filled - pos : w[i] = input[pos + i]
  <2>1. \A i \in pos + 1..filled : input[i] \in S
    BY <1>2, <1>3
  <2>2. pos + 1 \in Int /\ filled \in Int
    BY <1>2
  <2>3. /\ w \in Seq(S)
        /\ Len(w) = IF pos + 1 <= filled THEN filled - (pos + 1) + 1 ELSE 0
        /\ \A i \in 1..filled - (pos + 1) + 1 : w[i] = input[pos + 1 + i - 1]
    BY <2>1, <2>2, SubSeqProperties
  <2> HIDE DEF w
  <2> QED BY <1>2, <2>3
<1>5. /\ r \in Seq(S) /\ Len(r) = Len(input) - pos
      /\ \A i \in 1..Len(input) - pos : r[i] = input[pos + i]
  <2>1. \A i \in pos + 1..Len(input) : input[i] \in S
    BY <1>2, <1>3
  <2>2. pos + 1 \in Int /\ Len(input) \in Int
    BY <1>2
  <2>3. /\ r \in Seq(S)
        /\ Len(r) = IF pos + 1 <= Len(input) THEN Len(input) - (pos + 1) + 1 ELSE 0
        /\ \A i \in 1..Len(input) - (pos + 1) + 1 : r[i] = input[pos + 1 + i - 1]
    BY <2>1, <2>2, SubSeqProperties
  <2> HIDE DEF r
  <2> QED BY <1>2, <2>3
<1> HIDE DEF w, r
<1>6. Continues(r, w)
  <2>1. filled - pos \in Nat /\ filled - pos <= Len(input) - pos
    BY <1>2
  <2>2. \A i \in 1..filled - pos : i \in 1..Len(input) - pos
    BY <1>2
  <2> QED BY <1>4, <1>5, <2>1, <2>2 DEF Continues
<1> QED BY <1>4, <1>5, <1>6 DEF w, r, Window, Rest

\* The answer on what has arrived is the answer to the whole of the rest.
LEMMA AnswerForAll ==
    ASSUME Positions, ParseCommand(Window).err # "INCOMPLETE"
    PROVE  /\ ParseCommand(Rest(pos)) = ParseCommand(Window)
           /\ ParseCommand(Window).err = "OK" =>
                /\ ParseCommand(Window).consumed \in 1..filled - pos
                /\ ParseCommand(Window) = [err      |-> "OK",
                                           cmd      |-> ParseCommand(Window).cmd,
                                           consumed |-> ParseCommand(Window).consumed]
<1>1. PICK S : /\ Window \in Seq(S) /\ Rest(pos) \in Seq(S)
               /\ Continues(Rest(pos), Window) /\ Len(Window) = filled - pos
  BY WindowContinued
<1> QED BY <1>1, AnswersStand

\* An accepted command is the one the whole rest of the input begins with.
LEMMA AcceptKeeps ==
    ASSUME IInv, Accept
    PROVE  IInv'
<1> DEFINE parsed == ParseCommand(Window)
<1>1. /\ parsed.err = "OK" /\ cmd' = parsed.cmd /\ start' = pos /\ pos' = pos + parsed.consumed
      /\ phase' = "reply" /\ served' = <<>> /\ UNCHANGED <<input, filled>>
  BY DEF Accept
<1>2. /\ ParseCommand(Rest(pos)) = parsed
      /\ parsed.consumed \in 1..filled - pos
      /\ parsed = [err |-> "OK", cmd |-> parsed.cmd, consumed |-> parsed.consumed]
  BY <1>1, AnswerForAll DEF IInv
<1> HIDE DEF parsed
<1>3. filled \in Nat /\ pos \in 0..filled /\ Len(input) \in Nat
  <2>1. Len(input) \in Nat
    BY SessionAssumption, LenProperties DEF IInv, Positions
  <2> QED BY <2>1 DEF IInv, Positions
<1>4. Positions'
  <2>1. pos' \in 0..filled /\ start' \in 0..pos'
    BY <1>1, <1>2, <1>3
  <2>2. \E T : served' \in Seq(T)
    BY <1>1, EmptySeq
  <2> QED BY <1>1, <2>1, <2>2 DEF IInv, Positions
<1>5. pos' - start' = parsed.consumed
  BY <1>1, <1>2, <1>3
<1>6. ParseCommand(Rest(start)') = [err |-> "OK", cmd |-> cmd', consumed |-> pos' - start']
  BY <1>1, <1>2, <1>5 DEF Rest
<1>7. CutsDoNotMatter'
  BY <1>1, <1>6 DEF CutsDoNotMatter, Rest
<1> QED BY <1>4, <1>7 DEF IInv

\* A refusal is the one the whole rest of the input earns.
LEMMA StopKeeps ==
    ASSUME IInv, Stop
    PROVE  IInv'
<1>1. phase = "parse" /\ UNCHANGED <<input, filled, pos, start, cmd, served>>
  BY DEF Stop
<1>2. Positions'
  BY <1>1 DEF IInv, Positions
<1>3. CASE phase' = "done"
  BY <1>2, <1>3 DEF IInv, CutsDoNotMatter
<1>4. CASE /\ phase' = ParseCommand(Window).err
           /\ ParseCommand(Window).err = "INCOMPLETE" => filled = Len(input)
  <2>1. ParseCommand(Rest(pos)).err = phase'
    <3>1. CASE ParseCommand(Window).err = "INCOMPLETE"
      BY <1>4, <3>1 DEF Window, Rest
    <3>2. CASE ParseCommand(Window).err # "INCOMPLETE"
      BY <1>4, <3>2, AnswerForAll DEF IInv
    <3> QED BY <3>1, <3>2
  <2>2. phase' # "reply"
    BY <1>4, AnswersAreErrors
  <2>3. Rest(pos)' = Rest(pos)
    BY <1>1 DEF Rest
  <2>4. CutsDoNotMatter'
    BY <2>1, <2>2, <2>3 DEF CutsDoNotMatter
  <2> QED BY <1>2, <2>4 DEF IInv
<1> QED BY <1>3, <1>4 DEF Stop

\* While a command is served its key is added to `served`, so that the list
\* is not empty again before the next command.
LEMMA ServeKeeps ==
    ASSUME IInv, ReplyKey
    PROVE  IInv'
<1>1. phase' = "reply" /\ served' = Append(served, Key) /\ UNCHANGED <<input, filled, pos, start>>
  BY DEF ReplyKey, MoveOn, Put
<1>2. PICK T : served \in Seq(T)
  BY DEF IInv, Positions
<1> DEFINE U == T \cup {Key}
<1>3. served \in Seq(U) /\ Key \in U
  <2>1. T \subseteq U
    OBVIOUS
  <2> QED BY <1>2, <2>1
<1> HIDE DEF U
<1>4. Append(served, Key) \in Seq(U) /\ Append(served, Key) # <<>>
  BY <1>3, AppendProperties
<1>5. Positions'
  BY <1>1, <1>4 DEF IInv, Positions
<1>6. CutsDoNotMatter'
  BY <1>1, <1>4 DEF CutsDoNotMatter
<1> QED BY <1>5, <1>6 DEF IInv

\* No step undoes an answer.
LEMMA NextKeeps == IInv /\ [Next]_vars => IInv'
<1> SUFFICES ASSUME IInv, [Next]_vars PROVE IInv'
  OBVIOUS
<1>1. CASE UNCHANGED vars
  BY <1>1 DEF vars, IInv, Positions, CutsDoNotMatter, Rest
<1>2. CASE Accept
  BY <1>2, AcceptKeeps
<1>3. CASE Stop
  BY <1>3, StopKeeps
<1>4. ASSUME NEW n \in 1..Len(input), Grow(n) PROVE IInv'
  <2>1. /\ phase' = "parse" /\ filled' = n /\ filled < n
        /\ UNCHANGED <<input, pos, start, cmd, served>>
    BY <1>4 DEF Grow, Unfinished
  <2>2. Len(input) \in Nat
    BY SessionAssumption, LenProperties DEF IInv, Positions
  <2>3. filled' \in 0..Len(input) /\ pos \in 0..filled'
    BY <2>1, <2>2 DEF IInv, Positions
  <2>4. Positions'
    BY <2>1, <2>3 DEF IInv, Positions
  <2> QED BY <2>1, <2>4 DEF IInv, CutsDoNotMatter
<1>5. CASE ReplyKey
  BY <1>5, ServeKeeps
<1>6. CASE ReplyEnd \/ ReplyLine \/ NoReply
  <2>1. phase' = "parse" /\ UNCHANGED <<input, filled, pos, start, served>>
    BY <1>6 DEF ReplyEnd, ReplyLine, NoReply, Put
  <2> QED BY <2>1 DEF IInv, Positions, CutsDoNotMatter
<1>7. CASE Flush
  BY <1>7 DEF Flush, IInv, Positions, CutsDoNotMatter, Rest
<1>8. CASE Terminating
  BY <1>1, <1>8 DEF Terminating
<1> QED BY <1>1, <1>2, <1>3, <1>4, <1>5, <1>6, <1>7, <1>8 DEF Next

\* Nothing has been answered yet.
LEMMA InitKeeps == Init => IInv
<1> SUFFICES ASSUME Init PROVE IInv
  OBVIOUS
<1>1. Len(input) \in Nat
  BY SessionAssumption, LenProperties DEF Init
<1>2. \E T : served \in Seq(T)
  BY EmptySeq DEF Init
<1> QED BY <1>1, <1>2 DEF Init, IInv, Positions, CutsDoNotMatter

\* However a stream is cut up, the commands taken out of it and the refusal
\* that ends it are those of a parser that sees all of it at once.
THEOREM CutsCorrect == Spec => []CutsDoNotMatter
<1>1. IInv => CutsDoNotMatter
  BY DEF IInv
<1> QED BY <1>1, InitKeeps, NextKeeps, PTL DEF Spec

-----------------------------------------------------------------------------
(***************************************************************************)
(* Numbers: a number that is read is within its limit, a number that is    *)
(* written is a sequence of digits.                                        *)
(***************************************************************************)

\* One more digit stays within the limit: the test comes before the product.
LEMMA NextDigitIs ==
    ASSUME NEW limit \in Nat, NEW value \in 0..limit \cup {NotANumber}, NEW ch
    PROVE  NextDigit(value, ch, limit) \in 0..limit \cup {NotANumber}
<1> DEFINE q == limit \div Base
           r == limit % Base
           d == DigitValue(ch)
<1>1. Base \in Nat \ {0}
  BY ProtocolAssumption, LenProperties DEF Base
<1>2. CASE \/ value = NotANumber
           \/ ~IsDigit(ch)
           \/ value > q
           \/ value = q /\ d > r
  BY <1>2 DEF NextDigit
<1>3. CASE ~(\/ value = NotANumber
             \/ ~IsDigit(ch)
             \/ value > q
             \/ value = q /\ d > r)
  <2>1. NextDigit(value, ch, limit) = value * Base + d
    BY <1>3 DEF NextDigit
  <2>2. d \in 0..Base - 1
    <3>1. \E e \in 1..Base : Digits[e] = ch
      BY <1>3 DEF IsDigit
    <3>2. (CHOOSE e \in 1..Base : Digits[e] = ch) \in 1..Base
      BY <3>1
    <3> QED BY <1>1, <3>2 DEF DigitValue
  <2>3. q \in Nat /\ r \in 0..Base - 1 /\ limit = (Base * q) + r
    BY <1>1
  <2>4. value \in Nat /\ (value < q \/ (value = q /\ d <= r))
    <3> HIDE DEF q, r, d
    <3> QED BY <1>1, <1>3, <2>2, <2>3 DEF NotANumber
  <2> HIDE DEF q, r, d
  <2>5. CASE value = q /\ d <= r
    BY <1>1, <2>1, <2>2, <2>3, <2>5
  <2>6. CASE value < q
    <3>1. value + 1 <= q
      BY <2>3, <2>4, <2>6
    <3>2. Base * (value + 1) <= Base * q
      BY <1>1, <2>3, <2>4, <3>1
    <3>3. Base * (value + 1) = (value * Base) + Base
      BY <1>1, <2>4
    <3>4. value * Base \in Nat /\ Base * q \in Nat
      BY <1>1, <2>3, <2>4
    <3> QED BY <1>1, <2>1, <2>2, <2>3, <3>2, <3>3, <3>4
  <2> QED BY <2>4, <2>5, <2>6
<1> QED BY <1>2, <1>3

\* f is the value of the first digits of a word, for up to n of them.
Read(word, limit, f, n) ==
    f = [i \in 0..n |-> IF i = 0 THEN 0 ELSE NextDigit(f[i - 1], word[i], limit)]

\* These values exist for any number of digits.
LEMMA ReadDefined ==
    ASSUME NEW word, NEW limit, NEW n \in Nat
    PROVE  \E f : Read(word, limit, f, n)
<1> DEFINE Done == {m \in Nat : \E f : Read(word, limit, f, m)}
<1>1. 0 \in Done
  <2> DEFINE f == [i \in 0..0 |-> 0]
  <2>1. Read(word, limit, f, 0)
    BY DEF Read
  <2> QED BY <2>1
<1>2. ASSUME NEW m \in Done PROVE m + 1 \in Done
  <2>1. PICK f : Read(word, limit, f, m)
    OBVIOUS
  <2> DEFINE g == [i \in 0..m+1 |->
                     IF i = m + 1 THEN NextDigit(f[m], word[m + 1], limit) ELSE f[i]]
  <2>2. \A i \in 0..m+1 : g[i] = IF i = 0 THEN 0 ELSE NextDigit(g[i - 1], word[i], limit)
    BY <2>1 DEF Read
  <2>3. Read(word, limit, g, m + 1)
    BY <2>2 DEF Read
  <2> QED BY <2>3
<1>3. n \in Done
  <2> HIDE DEF Done
  <2>1. Done \in SUBSET Nat
    BY DEF Done
  <2> QED BY <1>1, <1>2, <2>1, Induction
<1> QED BY <1>3

\* proto_parse_uint never yields more than its limit.
LEMMA ParseUintIs ==
    ASSUME NEW word, Len(word) \in Nat, NEW limit \in Nat
    PROVE  ParseUint(word, limit) \in 0..limit \cup {NotANumber}
<1> DEFINE n == Len(word)
           f == CHOOSE g : Read(word, limit, g, n)
<1>1. \E g : Read(word, limit, g, n)
  BY ReadDefined
<1>2. Read(word, limit, f, n)
  BY <1>1, Zenon
<1>3. ParseUint(word, limit) = f[n]
  BY Zenon DEF ParseUint, Read
<1> HIDE DEF f
<1> DEFINE Good == {m \in Nat : m <= n => f[m] \in 0..limit \cup {NotANumber}}
<1>4. 0 \in Good
  BY <1>2 DEF Read
<1>5. ASSUME NEW m \in Good PROVE m + 1 \in Good
  <2> SUFFICES ASSUME m + 1 <= n PROVE f[m + 1] \in 0..limit \cup {NotANumber}
    OBVIOUS
  <2>1. f[m] \in 0..limit \cup {NotANumber}
    OBVIOUS
  <2>2. f[m + 1] = NextDigit(f[m], word[m + 1], limit)
    BY <1>2 DEF Read
  <2> QED BY <2>1, <2>2, NextDigitIs
<1>6. n \in Good
  <2> HIDE DEF Good
  <2>1. Good \in SUBSET Nat
    BY DEF Good
  <2> QED BY <1>4, <1>5, <2>1, Induction
<1> QED BY <1>3, <1>6

\* The digits of a number, by the digits of its quotient.
WrittenFrom(f, value) ==
    IF value < Base THEN <<Digits[value + 1]>>
    ELSE Append(f[value \div Base], Digits[(value % Base) + 1])

\* f has the digits of the numbers up to n.
Written(f, n) == f = [value \in 0..n |-> WrittenFrom(f, value)]

\* The digits of a quotient are those of a smaller number.
LEMMA QuotientIsLess ==
    ASSUME NEW value \in Nat, ~(value < Base)
    PROVE  value \div Base \in 0..value - 1 /\ (value % Base) + 1 \in 1..Base
<1> DEFINE q == value \div Base
           r == value % Base
<1>1. Base \in Nat /\ Base > 1
  BY ProtocolAssumption, LenProperties DEF Base
<1>2. q \in Nat /\ r \in 0..Base - 1 /\ value = (Base * q) + r
  BY <1>1
<1>3. q < value
  <2> HIDE DEF q, r
  <2>1. CASE q = 0
    BY <1>1, <1>2, <2>1
  <2>2. CASE q # 0
    <3>1. Base * q >= 2 * q
      BY <1>1, <1>2
    <3>2. 2 * q > q
      BY <1>2, <2>2
    <3>3. Base * q \in Nat
      BY <1>1, <1>2
    <3> HIDE <1>1
    <3> QED BY <1>2, <3>1, <3>2, <3>3
  <2> QED BY <2>1, <2>2
<1> QED BY <1>1, <1>2, <1>3

\* The digits exist for all numbers up to any n.
LEMMA WrittenDefined ==
    ASSUME NEW n \in Nat
    PROVE  \E f : Written(f, n)
<1> DEFINE Done == {m \in Nat : \E f : Written(f, m)}
<1>1. 0 \in Done
  <2> DEFINE f == [value \in 0..0 |-> <<Digits[1]>>]
  <2>1. Base \in Nat /\ Base > 1
    BY ProtocolAssumption, LenProperties DEF Base
  <2>2. \A value \in 0..0 : WrittenFrom(f, value) = <<Digits[1]>>
    BY <2>1 DEF WrittenFrom
  <2>3. Written(f, 0)
    BY <2>2 DEF Written
  <2> QED BY <2>3
<1>2. ASSUME NEW m \in Done PROVE m + 1 \in Done
  <2>1. PICK f : Written(f, m)
    OBVIOUS
  <2> DEFINE g == [value \in 0..m+1 |-> WrittenFrom(f, value)]
  <2>2. ASSUME NEW value \in 0..m+1 PROVE g[value] = WrittenFrom(g, value)
    <3>1. CASE value < Base
      BY <3>1 DEF WrittenFrom
    <3>2. CASE ~(value < Base)
      <4> DEFINE q == value \div Base
      <4>1. q \in 0..value - 1
        BY <3>2, QuotientIsLess
      <4> HIDE DEF q
      <4>2. q \in 0..m /\ q \in 0..m+1
        BY <4>1
      <4>3. f[q] = g[q]
        BY <2>1, <4>2 DEF Written
      <4> QED BY <4>3 DEF WrittenFrom, q
    <3> QED BY <3>1, <3>2
  <2>3. Written(g, m + 1)
    BY <2>2 DEF Written
  <2> QED BY <2>3
<1>3. n \in Done
  <2> HIDE DEF Done
  <2>1. Done \in SUBSET Nat
    BY DEF Done
  <2> QED BY <1>1, <1>2, <2>1, Induction
<1> QED BY <1>3

\* What is written for a number is a sequence of digits.
LEMMA FormatUintIs ==
    ASSUME NEW value \in Nat
    PROVE  FormatUint(value) \in Seq(ToSet(Digits))
<1> DEFINE f == CHOOSE g : Written(g, value)
<1>1. \E g : Written(g, value)
  BY WrittenDefined
<1>2. Written(f, value)
  BY <1>1, Zenon
<1>3. FormatUint(value) = f[value]
  BY Zenon DEF FormatUint, Written, WrittenFrom
<1> HIDE DEF f
<1> DEFINE Good == {m \in Nat : \A i \in 0..m : i <= value => f[i] \in Seq(ToSet(Digits))}
<1>4. Base \in Nat /\ Base > 1 /\ \A i \in 1..Base : Digits[i] \in ToSet(Digits)
  BY ProtocolAssumption, LenProperties, ElementOfSeq DEF Base
<1>5. 0 \in Good
  <2>1. f[0] = <<Digits[1]>>
    BY <1>2, <1>4 DEF Written, WrittenFrom
  <2>2. Digits[1] \in ToSet(Digits)
    BY <1>4
  <2>3. <<Digits[1]>> \in Seq(ToSet(Digits))
    BY <2>2
  <2>4. ASSUME NEW i \in 0..0 PROVE f[i] \in Seq(ToSet(Digits))
    <3>1. i = 0
      OBVIOUS
    <3> QED BY <2>1, <2>3, <3>1, Zenon
  <2> QED BY <2>4
<1>6. ASSUME NEW m \in Good PROVE m + 1 \in Good
  <2> SUFFICES ASSUME m + 1 <= value PROVE f[m + 1] \in Seq(ToSet(Digits))
    OBVIOUS
  <2>1. f[m + 1] = WrittenFrom(f, m + 1)
    <3>1. m + 1 \in 0..value
      OBVIOUS
    <3>2. \A i \in 0..value : f[i] = WrittenFrom(f, i)
      BY <1>2 DEF Written
    <3> QED BY <3>1, <3>2
  <2>2. CASE m + 1 < Base
    <3>1. Digits[m + 1 + 1] \in ToSet(Digits)
      BY <1>4, <2>2
    <3> QED BY <2>1, <2>2, <3>1 DEF WrittenFrom
  <2>3. CASE ~(m + 1 < Base)
    <3> DEFINE q == (m + 1) \div Base
               d == Digits[((m + 1) % Base) + 1]
    <3>1. q \in 0..m /\ d \in ToSet(Digits)
      BY <1>4, <2>3, QuotientIsLess
    <3>2. f[m + 1] = Append(f[q], d)
      BY <2>1, <2>3 DEF WrittenFrom
    <3> HIDE DEF q, d
    <3>3. f[q] \in Seq(ToSet(Digits))
      BY <3>1
    <3> QED BY <3>1, <3>2, <3>3, AppendProperties
  <2> QED BY <2>2, <2>3
<1>7. value \in Good
  <2> HIDE DEF Good
  <2>1. Good \in SUBSET Nat
    BY DEF Good
  <2> QED BY <1>5, <1>6, <2>1, Induction
<1> QED BY <1>3, <1>7

-----------------------------------------------------------------------------
(***************************************************************************)
(* Words: where they start, where they end, and that none is left out.     *)
(***************************************************************************)

\* A word starts at position i of a line.
Starts(line, i) == line[i] # "sp" /\ (i = 1 \/ line[i - 1] = "sp")

\* ws lists where words start among the first n positions of a line.
Listed(line, n, ws) ==
    /\ ws \in Seq(1..n)
    /\ \A k \in 1..Len(ws) : Starts(line, ws[k])
    /\ \A j, k \in 1..Len(ws) : j < k => ws[j] < ws[k]
    /\ \A i \in 1..n : Starts(line, i) => \E k \in 1..Len(ws) : ws[k] = i

\* The list after one more position.
Longer(line, ws, i) == IF Starts(line, i) THEN Append(ws, i) ELSE ws

\* One more position of a line, and the list is that of one position more.
LEMMA ListedNext ==
    ASSUME NEW line, NEW n \in Nat, NEW ws, Listed(line, n, ws)
    PROVE  Listed(line, n + 1, Longer(line, ws, n + 1))
<1>1. ws \in Seq(1..n + 1) /\ Len(ws) \in Nat
  <2>1. ws \in Seq(1..n) /\ 1..n \subseteq 1..n + 1
    BY DEF Listed
  <2> QED BY <2>1, SeqMonotonic, LenProperties
<1>2. \A k \in 1..Len(ws) : ws[k] \in 1..n
  BY ElementOfSeq DEF Listed
<1>3. CASE ~Starts(line, n + 1)
  BY <1>1, <1>3 DEF Listed, Longer
<1>4. CASE Starts(line, n + 1)
  <2> DEFINE more == Append(ws, n + 1)
  <2>1. /\ more \in Seq(1..n + 1) /\ Len(more) = Len(ws) + 1
        /\ \A k \in 1..Len(ws) : more[k] = ws[k]
        /\ more[Len(ws) + 1] = n + 1
    BY <1>1, AppendProperties
  <2> HIDE DEF more
  <2>2. ASSUME NEW k \in 1..Len(more) PROVE Starts(line, more[k])
    <3>1. CASE k = Len(ws) + 1
      BY <1>4, <2>1, <3>1
    <3>2. CASE k # Len(ws) + 1
      <4>1. k \in 1..Len(ws)
        BY <1>1, <2>1, <3>2
      <4> QED BY <2>1, <4>1 DEF Listed
    <3> QED BY <3>1, <3>2
  <2>3. ASSUME NEW j \in 1..Len(more), NEW k \in 1..Len(more), j < k PROVE more[j] < more[k]
    <3>1. j \in 1..Len(ws) /\ more[j] = ws[j] /\ ws[j] \in 1..n
      BY <1>1, <1>2, <2>1, <2>3
    <3>2. CASE k = Len(ws) + 1
      BY <2>1, <3>1, <3>2
    <3>3. CASE k # Len(ws) + 1
      <4>1. k \in 1..Len(ws)
        BY <1>1, <2>1, <3>3
      <4> QED BY <2>1, <2>3, <3>1, <4>1 DEF Listed
    <3> QED BY <3>2, <3>3
  <2>4. ASSUME NEW i \in 1..n + 1, Starts(line, i) PROVE \E k \in 1..Len(more) : more[k] = i
    <3>1. CASE i = n + 1
      BY <1>1, <2>1, <3>1
    <3>2. CASE i # n + 1
      <4>1. i \in 1..n
        BY <3>2
      <4>2. PICK k \in 1..Len(ws) : ws[k] = i
        BY <2>4, <4>1 DEF Listed
      <4> QED BY <1>1, <2>1, <4>2
    <3> QED BY <3>1, <3>2
  <2> QED BY <1>4, <2>1, <2>2, <2>3, <2>4 DEF Listed, Longer, more
<1> QED BY <1>3, <1>4

\* f lists the words of the first positions of a line, for up to n of them.
Scanned(line, f, n) ==
    f = [i \in 0..n |-> IF i = 0 THEN <<>> ELSE Longer(line, f[i - 1], i)]

\* These lists exist for any number of positions.
LEMMA ScannedDefined ==
    ASSUME NEW line, NEW n \in Nat
    PROVE  \E f : Scanned(line, f, n)
<1> DEFINE Done == {m \in Nat : \E f : Scanned(line, f, m)}
<1>1. 0 \in Done
  <2> DEFINE f == [i \in 0..0 |-> <<>>]
  <2>1. Scanned(line, f, 0)
    BY DEF Scanned
  <2> QED BY <2>1
<1>2. ASSUME NEW m \in Done PROVE m + 1 \in Done
  <2>1. PICK f : Scanned(line, f, m)
    OBVIOUS
  <2> DEFINE g == [i \in 0..m+1 |->
                     IF i = m + 1 THEN Longer(line, f[m], m + 1) ELSE f[i]]
  <2>2. \A i \in 0..m+1 : g[i] = IF i = 0 THEN <<>> ELSE Longer(line, g[i - 1], i)
    BY <2>1 DEF Scanned
  <2>3. Scanned(line, g, m + 1)
    BY <2>2 DEF Scanned
  <2> QED BY <2>3
<1>3. n \in Done
  <2> HIDE DEF Done
  <2>1. Done \in SUBSET Nat
    BY DEF Done
  <2> QED BY <1>1, <1>2, <2>1, Induction
<1> QED BY <1>3

\* WordStarts lists the words of a line, all of them, in order.
LEMMA WordStartsAre ==
    ASSUME NEW line, Len(line) \in Nat
    PROVE  Listed(line, Len(line), WordStarts(line))
<1> DEFINE n == Len(line)
           f == CHOOSE g : Scanned(line, g, n)
<1>1. \E g : Scanned(line, g, n)
  BY ScannedDefined
<1>2. Scanned(line, f, n)
  BY <1>1, Zenon
<1>3. WordStarts(line) = f[n]
  BY Zenon DEF WordStarts, Scanned, Longer, Starts
<1> HIDE DEF f
<1> DEFINE Good == {m \in Nat : m <= n => Listed(line, m, f[m])}
<1>4. 0 \in Good
  <2>1. f[0] = <<>>
    BY <1>2 DEF Scanned
  <2>2. <<>> \in Seq(1..0) /\ Len(<<>>) = 0
    BY EmptySeq
  <2>3. Listed(line, 0, <<>>)
    BY <2>2 DEF Listed
  <2> QED BY <2>1, <2>3
<1>5. ASSUME NEW m \in Good PROVE m + 1 \in Good
  <2> SUFFICES ASSUME m + 1 <= n PROVE Listed(line, m + 1, f[m + 1])
    OBVIOUS
  <2>1. Listed(line, m, f[m])
    OBVIOUS
  <2>2. f[m + 1] = Longer(line, f[m], m + 1)
    BY <1>2 DEF Scanned
  <2> QED BY <2>1, <2>2, ListedNext
<1>6. n \in Good
  <2> HIDE DEF Good
  <2>1. Good \in SUBSET Nat
    BY DEF Good
  <2> QED BY <1>4, <1>5, <2>1, Induction
<1> QED BY <1>3, <1>6

\* A word ends at the first blank behind its start, or with its line.
LEMMA WordEndIs ==
    ASSUME NEW b, NEW from \in Nat, NEW end \in Nat, from <= end
    PROVE  /\ WordEnd(b, from, end) \in from..end
           /\ \A i \in from..WordEnd(b, from, end) - 1 : b[i] # "sp"
           /\ WordEnd(b, from, end) < end => b[WordEnd(b, from, end)] = "sp"
<1> DEFINE T == {end} \cup {i \in from..end - 1 : b[i] = "sp"}
<1>1. T \in SUBSET Nat /\ end \in T /\ \A i \in T : i \in from..end
  OBVIOUS
<1>2. WordEnd(b, from, end) = Min(T)
  BY DEF WordEnd
<1>3. Min(T) \in T /\ \A i \in T : Min(T) <= i
  <2> HIDE DEF T
  <2> QED BY <1>1, MinIs
<1>4. Min(T) \in from..end
  BY <1>1, <1>3
<1>5. Min(T) < end => b[Min(T)] = "sp"
  BY <1>3
<1>6. ASSUME NEW i \in from..Min(T) - 1 PROVE b[i] # "sp"
  <2>1. i \in from..end - 1 /\ ~(Min(T) <= i)
    BY <1>4
  <2>2. i \notin T
    BY <1>3, <2>1
  <2> QED BY <2>1, <2>2
<1> QED BY <1>2, <1>4, <1>5, <1>6

\* The words of a line are slices of it, from a start up to the next blank.
LEMMA WordsAre ==
    ASSUME NEW S, NEW line \in Seq(S)
    PROVE  /\ Words(line) \in Seq(Seq(S)) /\ Len(Words(line)) = Len(WordStarts(line))
           /\ Len(WordStarts(line)) \in Nat
           /\ \A k \in 1..Len(WordStarts(line)) :
                /\ WordStarts(line)[k] \in 1..Len(line)
                /\ WordEnd(line, WordStarts(line)[k], Len(line) + 1)
                     \in WordStarts(line)[k] + 1..Len(line) + 1
                /\ Words(line)[k] = Word(line, WordStarts(line)[k])
                /\ Len(Words(line)[k]) =
                     WordEnd(line, WordStarts(line)[k], Len(line) + 1) - WordStarts(line)[k]
                /\ \A i \in 1..Len(Words(line)[k]) :
                     Words(line)[k][i] = line[WordStarts(line)[k] + i - 1]
<1> DEFINE ws == WordStarts(line)
           words == Words(line)
<1>1. Len(line) \in Nat /\ \A i \in 1..Len(line) : line[i] \in S
  BY LenProperties, ElementOfSeq
<1>2. Listed(line, Len(line), ws)
  BY <1>1, WordStartsAre
<1> HIDE DEF ws
<1>3. Len(ws) \in Nat /\ DOMAIN ws = 1..Len(ws)
  BY <1>2, LenProperties DEF Listed
<1>4. words = [n \in 1..Len(ws) |-> Word(line, ws[n])]
  BY <1>3 DEF Words, ws
<1> HIDE DEF words
<1>5. ASSUME NEW k \in 1..Len(ws)
      PROVE  /\ ws[k] \in 1..Len(line)
             /\ WordEnd(line, ws[k], Len(line) + 1) \in ws[k] + 1..Len(line) + 1
             /\ Word(line, ws[k]) \in Seq(S)
             /\ Len(Word(line, ws[k])) = WordEnd(line, ws[k], Len(line) + 1) - ws[k]
             /\ \A i \in 1..Len(Word(line, ws[k])) : Word(line, ws[k])[i] = line[ws[k] + i - 1]
  <2> DEFINE from == ws[k]
             end  == WordEnd(line, from, Len(line) + 1)
             word == SubSeq(line, from, end - 1)
  <2>1. from \in 1..Len(line)
    BY <1>2, ElementOfSeq DEF Listed
  <2>2. Starts(line, from)
    BY <1>2 DEF Listed
  <2> HIDE DEF from
  <2>3. /\ end \in from..Len(line) + 1
        /\ end < Len(line) + 1 => line[end] = "sp"
    <3>1. from \in Nat /\ Len(line) + 1 \in Nat /\ from <= Len(line) + 1
      BY <1>1, <2>1
    <3> QED BY <3>1, WordEndIs
  <2> HIDE DEF end
  <2>4. end # from
    BY <1>1, <2>1, <2>2, <2>3 DEF Starts
  <2>5. from \in Int /\ end - 1 \in Int /\ \A i \in from..end - 1 : line[i] \in S
    BY <1>1, <2>1, <2>3
  <2>6. /\ word \in Seq(S)
        /\ Len(word) = IF from <= end - 1 THEN end - 1 - from + 1 ELSE 0
        /\ \A i \in 1..end - 1 - from + 1 : word[i] = line[from + i - 1]
    BY <2>5, SubSeqProperties
  <2> HIDE DEF word
  <2>7. Len(word) = end - from
    BY <1>1, <2>1, <2>3, <2>4, <2>6
  <2>8. end - 1 - from + 1 = end - from /\ end \in from + 1..Len(line) + 1
    BY <1>1, <2>1, <2>3, <2>4
  <2>9. Word(line, from) = word
    BY DEF Word, word, end
  <2> QED BY <2>1, <2>6, <2>7, <2>8, <2>9 DEF from, end
<1>6. words \in Seq(Seq(S))
  BY <1>3, <1>4, <1>5
<1>7. Len(words) = Len(ws)
  BY <1>3, <1>4
<1> QED BY <1>3, <1>4, <1>5, <1>6, <1>7 DEF ws, words

-----------------------------------------------------------------------------
(***************************************************************************)
(* Commands: where they point, and what their numbers are.                 *)
(***************************************************************************)

Types == {"get", "set", "delete", "touch", "version", "quit"}

\* A command whose numbers are within their types and whose key list lies
\* inside the first n bytes.
CommandOK(c, n) ==
    /\ c \in [type : Types, key : Nat, keyLen : Nat, keysEnd : 0..n,
              value : Nat, valueLen : 0..SizeMax, flags : 0..UintMax, exptime : 0..UintMax,
              noreply : {c.noreply}]
    /\ c.key + c.keyLen <= c.keysEnd

\* A get that shows its first key, of the words of a line.
FirstKeyShown(line, c) ==
    /\ Len(Words(line)) > 1
    /\ c.key = WordStarts(line)[2] /\ c.keyLen = Len(Words(line)[2])
    /\ c.keysEnd = Len(line) + 1

\* A command without arguments.
LEMMA NoCommandIs ==
    ASSUME NEW type \in Types, NEW n \in Nat, NEW c, c = [NoCommand EXCEPT !.type = type]
    PROVE  CommandOK(c, n) /\ c.type = type /\ c.value = 0 /\ c.valueLen = 0
<1>1. /\ c.type = type /\ c.key = 0 /\ c.keyLen = 0 /\ c.keysEnd = 0 /\ c.value = 0
      /\ c.valueLen = 0 /\ c.flags = 0 /\ c.exptime = 0
  BY DEF NoCommand
<1>2. c = [type |-> c.type, key |-> c.key, keyLen |-> c.keyLen, keysEnd |-> c.keysEnd,
           value |-> c.value, valueLen |-> c.valueLen, flags |-> c.flags,
           exptime |-> c.exptime, noreply |-> c.noreply]
  BY DEF NoCommand
<1> QED BY <1>1, <1>2, ProtocolAssumption DEF CommandOK

\* A length above one is not one.
LEMMA NotOne == \A n \in Nat : n > 1 => n # 1
  OBVIOUS

\* The numbers of a header without error are numbers.
LEMMA NumbersRead ==
    ASSUME NEW words, NEW S, words \in Seq(Seq(S)), NEW type \in {"set", "touch"},
           FieldError(words, type) = "OK", ArityError(words, type) = "OK"
    PROVE  /\ type = "set" => /\ ParseUint(words[5], SizeMax) \in 0..SizeMax
                              /\ ParseUint(words[3], UintMax) \in 0..UintMax
                              /\ ParseUint(words[4], UintMax) \in 0..UintMax
           /\ type = "touch" => ParseUint(words[3], UintMax) \in 0..UintMax
<1>1. Len(words) \in Nat /\ \A i \in 1..Len(words) : Len(words[i]) \in Nat
  BY LenProperties, ElementOfSeq
<1>2. \A i \in 1..Len(words) :
        /\ ParseUint(words[i], UintMax) \in 0..UintMax \cup {NotANumber}
        /\ ParseUint(words[i], SizeMax) \in 0..SizeMax \cup {NotANumber}
  BY <1>1, ParseUintIs, ProtocolAssumption
<1>3. NotANumber \notin Nat
  BY DEF NotANumber
<1>4. CASE type = "set"
  <2>1. Len(words) >= 5
    <3>1. Len(words) = Arity["set"] \/ Len(words) = Arity["set"] + 1
      BY <1>4, Zenon DEF ArityError
    <3>2. Arity["set"] = 5
      BY DEF Arity
    <3>3. \A n \in Nat : n = 5 \/ n = 5 + 1 => n >= 5
      OBVIOUS
    <3> QED BY <1>1, <3>1, <3>2, <3>3, Zenon
  <2>2. /\ ParseUint(words[3], UintMax) \in Nat /\ ParseUint(words[4], UintMax) \in Nat
        /\ ParseUint(words[5], SizeMax) \in Nat
    BY <1>4 DEF FieldError
  <2>3. 3 \in 1..Len(words) /\ 4 \in 1..Len(words) /\ 5 \in 1..Len(words)
    BY <1>1, <2>1
  <2> QED BY <1>2, <1>3, <1>4, <2>2, <2>3
<1>5. CASE type = "touch"
  <2>1. Len(words) >= 3
    <3>1. Len(words) = Arity["touch"] \/ Len(words) = Arity["touch"] + 1
      BY <1>5, Zenon DEF ArityError
    <3>2. Arity["touch"] = 3
      BY DEF Arity
    <3>3. \A n \in Nat : n = 3 \/ n = 3 + 1 => n >= 3
      OBVIOUS
    <3> QED BY <1>1, <3>1, <3>2, <3>3, Zenon
  <2>2. ParseUint(words[3], UintMax) \in Nat
    BY <1>5 DEF FieldError
  <2>3. 3 \in 1..Len(words)
    BY <1>1, <2>1
  <2> QED BY <1>2, <1>3, <1>5, <2>2, <2>3
<1> QED BY <1>4, <1>5

\* The command of a header without error lies inside its line.
LEMMA HeaderIs ==
    ASSUME NEW S, NEW line \in Seq(S), HeaderError(Words(line)) = "OK"
    PROVE  /\ CommandOK(HeaderCommand(line), Len(line) + 1)
           /\ HeaderCommand(line).value = 0
           /\ HeaderCommand(line).type # "set" => HeaderCommand(line).valueLen = 0
           /\ HeaderCommand(line).type = "get" => FirstKeyShown(line, HeaderCommand(line))
<1> DEFINE words == Words(line)
           type  == words[1][1]
           c     == Command(line, words, type)
           first == WordStarts(line)[2]
<1>1. HeaderCommand(line) = c /\ Len(line) \in Nat
  BY LenProperties DEF HeaderCommand
<1>2. words \in Seq(Seq(S)) /\ Len(words) = Len(WordStarts(line)) /\ Len(words) \in Nat
  BY WordsAre
<1>3. Len(words) > 1 => /\ first \in 1..Len(line) /\ Len(words[2]) \in Nat
                        /\ first + Len(words[2]) \in 1..Len(line) + 1
  <2> SUFFICES ASSUME Len(words) > 1
               PROVE  /\ first \in 1..Len(line) /\ Len(words[2]) \in Nat
                      /\ first + Len(words[2]) \in 1..Len(line) + 1
    OBVIOUS
  <2> DEFINE end == WordEnd(line, first, Len(line) + 1)
  <2>1. 2 \in 1..Len(WordStarts(line))
    BY <1>2
  <2>2. first \in 1..Len(line) /\ end \in first + 1..Len(line) + 1 /\ Len(words[2]) = end - first
    BY <2>1, WordsAre
  <2> HIDE DEF first, words, end
  <2> QED BY <1>1, <2>2
<1>4. HeaderError(words) = "OK"
  OBVIOUS
<1> HIDE DEF words
<1>5. words # <<>> /\ type \in Types
  <2>1. CASE words # <<>> /\ words[1] = <<"get">>
    BY <2>1 DEF Types
  <2>2. CASE ~(words # <<>> /\ words[1] = <<"get">>)
    <3>1. words # <<>> /\ IsCommand(words[1])
      BY <1>4, <2>2 DEF HeaderError
    <3> QED BY <3>1 DEF IsCommand, Arity, Types
  <2> QED BY <2>1, <2>2
<1>6. Len(words) > 1 \/ Len(words) = 1
  BY <1>2, <1>5, EmptySeq
<1>7. type = "get" => Len(words) > 1
  <2> SUFFICES ASSUME type = "get", Len(words) = 1 PROVE FALSE
    BY <1>6
  <2>1. words[1] # <<"get">>
    BY <1>4, <1>5 DEF HeaderError, GetError
  <2>2. IsCommand(words[1])
    BY <1>4, <2>1 DEF HeaderError
  <2> QED BY <2>2 DEF IsCommand, Arity
<1>8. type \in {"set", "touch"} /\ Len(words) > 1 =>
        FieldError(words, type) = "OK" /\ ArityError(words, type) = "OK"
  <2> SUFFICES ASSUME type \in {"set", "touch"}, Len(words) > 1
               PROVE  FieldError(words, type) = "OK" /\ ArityError(words, type) = "OK"
    OBVIOUS
  <2>1. words[1] # <<"get">>
    OBVIOUS
  <2>2. Len(words) # 1
    BY <1>2, NotOne, Zenon
  <2> QED BY <1>4, <2>1, <2>2, Zenon DEF HeaderError
<1>9. CASE Len(words) = 1
  <2>1. c = [NoCommand EXCEPT !.type = type] /\ Len(line) + 1 \in Nat
    BY <1>1, <1>9 DEF Command
  <2>2. type # "get"
    BY <1>7, <1>9
  <2> HIDE DEF c, type
  <2>3. CommandOK(c, Len(line) + 1) /\ c.type = type /\ c.value = 0 /\ c.valueLen = 0
    BY <1>5, <2>1, NoCommandIs
  <2> QED BY <1>1, <2>2, <2>3
<1>10. CASE Len(words) > 1
  <2> DEFINE end == KeysEnd(line, type)
  <2>1. c = [type     |-> type,
             key      |-> first,
             keyLen   |-> Len(words[2]),
             keysEnd  |-> end,
             value    |-> 0,
             valueLen |-> IF type = "set" THEN ParseUint(words[5], SizeMax) ELSE 0,
             flags    |-> IF type = "set" THEN ParseUint(words[3], UintMax) ELSE 0,
             exptime  |-> CASE type = "set"   -> ParseUint(words[4], UintMax)
                            [] type = "touch" -> ParseUint(words[3], UintMax)
                            [] OTHER          -> 0,
             noreply  |-> type \in TakesNoreply /\ Len(words) > Arity[type]]
    <3>1. Len(words) # 1
      BY <1>2, <1>10, NotOne, Zenon
    <3> QED BY <3>1, Zenon DEF Command
  <2>2. /\ end \in 1..Len(line) + 1 /\ first + Len(words[2]) <= end
        /\ type = "get" => end = Len(line) + 1
    BY <1>1, <1>3, <1>10 DEF KeysEnd, words
  <2> HIDE DEF first, type, end
  <2>3. /\ c.type = type /\ c.key = first /\ c.keyLen = Len(words[2]) /\ c.keysEnd = end
        /\ c.value = 0
    BY <2>1
  <2>4. c.valueLen = IF type = "set" THEN ParseUint(words[5], SizeMax) ELSE 0
    BY <2>1
  <2>5. c.flags = IF type = "set" THEN ParseUint(words[3], UintMax) ELSE 0
    BY <2>1
  <2>6. c.exptime = IF type = "set" THEN ParseUint(words[4], UintMax)
                    ELSE IF type = "touch" THEN ParseUint(words[3], UintMax) ELSE 0
    BY <2>1
  <2>7. c = [type |-> c.type, key |-> c.key, keyLen |-> c.keyLen, keysEnd |-> c.keysEnd,
             value |-> c.value, valueLen |-> c.valueLen, flags |-> c.flags,
             exptime |-> c.exptime, noreply |-> c.noreply]
    BY <2>1
  <2> HIDE DEF c
  <2>8. c.valueLen \in 0..SizeMax /\ c.flags \in 0..UintMax /\ c.exptime \in 0..UintMax
    <3>1. CASE type \notin {"set", "touch"}
      BY <2>4, <2>5, <2>6, <3>1, ProtocolAssumption
    <3>2. CASE type = "set"
      BY <1>2, <1>8, <1>10, <2>4, <2>5, <2>6, <3>2, NumbersRead
    <3>3. CASE type = "touch"
      BY <1>2, <1>8, <1>10, <2>4, <2>5, <2>6, <3>3, NumbersRead, ProtocolAssumption
    <3> QED BY <3>1, <3>2, <3>3
  <2>9. CommandOK(c, Len(line) + 1)
    <3>1. c.key \in Nat /\ c.keyLen \in Nat /\ c.keysEnd \in 0..Len(line) + 1 /\ c.value \in Nat
      BY <1>1, <1>3, <1>10, <2>2, <2>3
    <3>2. c.type \in Types
      BY <1>5, <2>3 DEF type
    <3>3. c.key + c.keyLen <= c.keysEnd
      BY <2>2, <2>3
    <3> QED BY <2>7, <2>8, <3>1, <3>2, <3>3 DEF CommandOK
  <2>10. c.type # "set" => c.valueLen = 0
    BY <2>3, <2>4
  <2>11. c.type = "get" => FirstKeyShown(line, c)
    BY <1>10, <2>2, <2>3 DEF FirstKeyShown, first, words
  <2> QED BY <1>1, <2>3, <2>9, <2>10, <2>11
<1> QED BY <1>6, <1>9, <1>10

\* The line is what comes before the first break.
LEMMA LineIs ==
    ASSUME NEW S, NEW b \in Seq(S), LineError(b) = "OK"
    PROVE  /\ FirstBreak(b) \in 1..Len(b) - 1 /\ Len(b) \in Nat
           /\ Line(b) \in Seq(S) /\ Len(Line(b)) = FirstBreak(b) - 1
           /\ \A i \in 1..FirstBreak(b) - 1 : Line(b)[i] = b[i]
<1> DEFINE n == FirstBreak(b)
           line == SubSeq(b, 1, n - 1)
<1>1. Continues(b, b)
  BY LenProperties DEF Continues
<1>2. n \in 1..Len(b) /\ n < Len(b) /\ Len(b) \in Nat
  BY <1>1, LineStays, LenProperties
<1>3. Line(b) = line
  BY DEF Line
<1> HIDE DEF n
<1>4. 1 \in Int /\ n - 1 \in Int /\ \A i \in 1..n - 1 : b[i] \in S
  BY <1>2, ElementOfSeq
<1>5. /\ line \in Seq(S) /\ Len(line) = IF 1 <= n - 1 THEN n - 1 - 1 + 1 ELSE 0
      /\ \A i \in 1..n - 1 - 1 + 1 : line[i] = b[1 + i - 1]
  BY <1>4, SubSeqProperties
<1> HIDE DEF line
<1>6. Len(line) = n - 1 /\ \A i \in 1..n - 1 : line[i] = b[i]
  BY <1>2, <1>5
<1> QED BY <1>2, <1>3, <1>5, <1>6 DEF n

\* A command inside some bytes is inside more of them.
LEMMA CommandStaysInside ==
    ASSUME NEW n \in Nat, NEW m \in Nat, n <= m, NEW c, CommandOK(c, n)
    PROVE  CommandOK(c, m)
  BY DEF CommandOK

\* A command that is accepted lies inside the bytes it consumes, its block
\* included.
LEMMA ParsedIs ==
    ASSUME NEW S, NEW b \in Seq(S), ParseCommand(b).err = "OK"
    PROVE  /\ CommandOK(ParseCommand(b).cmd, ParseCommand(b).consumed)
           /\ ParseCommand(b).cmd.value + ParseCommand(b).cmd.valueLen <= ParseCommand(b).consumed
           /\ ParseCommand(b).cmd.type = "get" =>
                LineError(b) = "OK" /\ FirstKeyShown(Line(b), ParseCommand(b).cmd)
<1> DEFINE offset == FirstBreak(b) + 1
           line   == Line(b)
           c      == HeaderCommand(line)
           parsed == ParseCommand(b)
<1>1. LineError(b) = "OK"
  BY DEF ParseCommand, Failed
<1>2. /\ FirstBreak(b) \in 1..Len(b) - 1 /\ Len(b) \in Nat
      /\ line \in Seq(S) /\ Len(line) = FirstBreak(b) - 1
  BY <1>1, LineIs
<1>3. parsed = Framed(b, offset, HeaderError(Words(line)), c)
  BY <1>1 DEF ParseCommand
<1>4. parsed.err = "OK"
  OBVIOUS
<1>5. HeaderError(Words(line)) = "OK"
  <2> HIDE DEF parsed, offset, line, c
  <2> QED BY <1>3, <1>4 DEF Framed, Failed
<1> HIDE DEF line
<1>6. /\ CommandOK(c, Len(line) + 1) /\ c.value = 0
      /\ c.type # "set" => c.valueLen = 0
      /\ c.type = "get" => FirstKeyShown(line, c)
  BY <1>2, <1>5, HeaderIs
<1> HIDE DEF c, parsed
<1>7. Len(line) + 1 \in Nat /\ offset \in Nat /\ Len(line) + 1 <= offset
  BY <1>2
<1> HIDE DEF offset
<1>8. CASE c.type # "set"
  <2>1. parsed.cmd = c /\ parsed.consumed = offset
    BY <1>3, <1>5, <1>8 DEF Framed
  <2>2. CommandOK(parsed.cmd, parsed.consumed)
    BY <1>6, <1>7, <2>1, CommandStaysInside
  <2>3. parsed.cmd.value + parsed.cmd.valueLen <= parsed.consumed
    BY <1>6, <1>7, <1>8, <2>1
  <2> QED BY <1>1, <1>6, <2>1, <2>2, <2>3 DEF parsed, line
<1>9. CASE c.type = "set"
  <2> DEFINE d == [c EXCEPT !.value = offset + 1]
             n == offset + c.valueLen + 2
  <2>1. BodyError(b, offset, c.valueLen) = "OK"
    BY <1>3, <1>4, <1>5, <1>9 DEF Framed, Failed
  <2>2. parsed.cmd = d /\ parsed.consumed = n
    BY <1>3, <1>5, <1>9, <2>1 DEF Framed
  <2>3. c.valueLen \in Nat
    BY <1>6, ProtocolAssumption DEF CommandOK
  <2>4. n \in Nat /\ Len(line) + 1 <= n /\ offset + 1 + c.valueLen <= n
    BY <1>7, <2>3
  <2>5. CommandOK(c, n)
    BY <1>6, <1>7, <2>4, CommandStaysInside
  <2>6. CommandOK(d, n) /\ d.type = c.type /\ d.value = offset + 1 /\ d.valueLen = c.valueLen
    <3> HIDE DEF n
    <3>1. c = [type |-> c.type, key |-> c.key, keyLen |-> c.keyLen, keysEnd |-> c.keysEnd,
               value |-> c.value, valueLen |-> c.valueLen, flags |-> c.flags,
               exptime |-> c.exptime, noreply |-> c.noreply]
      BY <2>5 DEF CommandOK
    <3>2. d = [type |-> c.type, key |-> c.key, keyLen |-> c.keyLen, keysEnd |-> c.keysEnd,
               value |-> offset + 1, valueLen |-> c.valueLen, flags |-> c.flags,
               exptime |-> c.exptime, noreply |-> c.noreply]
      BY <3>1
    <3> HIDE DEF d
    <3>3. /\ d.type = c.type /\ d.key = c.key /\ d.keyLen = c.keyLen
          /\ d.keysEnd = c.keysEnd /\ d.value = offset + 1 /\ d.valueLen = c.valueLen
          /\ d.flags = c.flags /\ d.exptime = c.exptime /\ d.noreply = c.noreply
      BY <3>2
    <3>4. /\ c.type \in Types /\ c.key \in Nat /\ c.keyLen \in Nat /\ c.keysEnd \in 0..n
          /\ c.valueLen \in 0..SizeMax /\ c.flags \in 0..UintMax
          /\ c.exptime \in 0..UintMax /\ c.key + c.keyLen <= c.keysEnd
      BY <2>5 DEF CommandOK
    <3>5. offset + 1 \in Nat
      BY <1>7
    <3>6. CommandOK(d, n)
      BY <3>2, <3>3, <3>4, <3>5 DEF CommandOK
    <3> QED BY <3>3, <3>6
  <2> HIDE DEF d, n
  <2> QED BY <1>9, <2>2, <2>4, <2>6 DEF parsed
<1> QED BY <1>8, <1>9

\* Another key of a get stays inside the key list.
LEMMA NextKeyIs ==
    ASSUME NEW b, NEW n \in Nat, NEW c, CommandOK(c, n), c.key # 0, FurtherKeyBytes(b, c) # {}
    PROVE  /\ CommandOK(NextKey(b, c), n)
           /\ NextKey(b, c).type = c.type /\ NextKey(b, c).keysEnd = c.keysEnd
           /\ NextKey(b, c).value = c.value /\ NextKey(b, c).valueLen = c.valueLen
           /\ NextKey(b, c).key = Min(FurtherKeyBytes(b, c))
           /\ NextKey(b, c).keyLen = WordEnd(b, Min(FurtherKeyBytes(b, c)), c.keysEnd)
                                       - Min(FurtherKeyBytes(b, c))
           /\ Min(FurtherKeyBytes(b, c)) \in FurtherKeyBytes(b, c)
           /\ \A i \in FurtherKeyBytes(b, c) : Min(FurtherKeyBytes(b, c)) <= i
           /\ Min(FurtherKeyBytes(b, c)) # 0
<1> DEFINE T == FurtherKeyBytes(b, c)
           x == Min(T)
           end == WordEnd(b, x, c.keysEnd)
           d == [c EXCEPT !.key = x, !.keyLen = end - x]
<1>1. c.key \in Nat /\ c.keyLen \in Nat /\ c.keysEnd \in 0..n
  BY DEF CommandOK
<1>2. T \in SUBSET Nat /\ T # {} /\ \A i \in T : i < c.keysEnd
  BY <1>1 DEF FurtherKeyBytes
<1>3. NextKey(b, c) = d
  BY Zenon DEF NextKey
<1>4. x \in T /\ \A i \in T : x <= i
  <2> HIDE DEF T
  <2> QED BY <1>2, MinIs
<1>5. x \in Nat /\ x < c.keysEnd
  BY <1>2, <1>4
<1> HIDE DEF x, T
<1>6. end \in x..c.keysEnd
  <2>1. c.keysEnd \in Nat /\ x <= c.keysEnd
    BY <1>1, <1>5
  <2> QED BY <1>5, <2>1, WordEndIs
<1> HIDE DEF end
<1>7. end - x \in Nat /\ x + (end - x) <= c.keysEnd
  BY <1>1, <1>5, <1>6
<1>8. /\ d.type = c.type /\ d.keysEnd = c.keysEnd /\ d.value = c.value
      /\ d.valueLen = c.valueLen /\ d.key = x /\ d.keyLen = end - x
      /\ CommandOK(d, n)
  <2> DEFINE len == end - x
  <2>1. len \in Nat /\ x + len <= c.keysEnd
    BY <1>7
  <2> HIDE DEF len
  <2>2. c = [type |-> c.type, key |-> c.key, keyLen |-> c.keyLen, keysEnd |-> c.keysEnd,
             value |-> c.value, valueLen |-> c.valueLen, flags |-> c.flags,
             exptime |-> c.exptime, noreply |-> c.noreply]
    BY DEF CommandOK
  <2> DEFINE e == [c EXCEPT !.key = x]
  <2>3. /\ e = [type |-> c.type, key |-> x, keyLen |-> c.keyLen, keysEnd |-> c.keysEnd,
                value |-> c.value, valueLen |-> c.valueLen, flags |-> c.flags,
                exptime |-> c.exptime, noreply |-> c.noreply]
    BY <2>2
  <2>4. d = [e EXCEPT !.keyLen = len]
    BY DEF len
  <2> HIDE DEF e, d
  <2>5. d = [type |-> c.type, key |-> x, keyLen |-> len, keysEnd |-> c.keysEnd,
             value |-> c.value, valueLen |-> c.valueLen, flags |-> c.flags,
             exptime |-> c.exptime, noreply |-> c.noreply]
    BY <2>3, <2>4
  <2>6. CommandOK(d, n)
    BY <1>5, <2>1, <2>5 DEF CommandOK
  <2> QED BY <2>5, <2>6 DEF len
<1>9. x # 0
  <2>1. x \in c.key + c.keyLen..c.keysEnd - 1
    BY <1>4 DEF T, FurtherKeyBytes
  <2>2. c.key > 0
    BY <1>1
  <2> QED BY <1>1, <2>1, <2>2
<1> QED BY <1>3, <1>4, <1>8, <1>9 DEF x, T, end

\* A get that has shown its last key.
LEMMA NoKeyIs ==
    ASSUME NEW n \in Nat, NEW c, CommandOK(c, n), NEW d, d = [c EXCEPT !.key = 0]
    PROVE  /\ CommandOK(d, n) /\ d.key = 0 /\ d.type = c.type /\ d.keysEnd = c.keysEnd
           /\ d.value = c.value /\ d.valueLen = c.valueLen
  BY DEF CommandOK

-----------------------------------------------------------------------------
(***************************************************************************)
(* Output: what a writer delivers fits its destination.                    *)
(***************************************************************************)

\* x is a sequence, whatever its elements are.
IsSeq(x) == \E T : x \in Seq(T)

\* A sequence has a length.
LEMMA SeqIs ==
    ASSUME NEW T, NEW x \in Seq(T)
    PROVE  IsSeq(x) /\ Len(x) \in Nat
  BY LenProperties DEF IsSeq

\* Two sequences in a row are a sequence, as long as both together.
LEMMA ConcatIs ==
    ASSUME NEW x, NEW y, IsSeq(x), IsSeq(y)
    PROVE  /\ IsSeq(x \o y) /\ Len(x \o y) = Len(x) + Len(y)
           /\ Len(x) \in Nat /\ Len(y) \in Nat /\ Len(x \o y) \in Nat
<1>1. PICK S : x \in Seq(S)
  BY DEF IsSeq
<1>2. PICK T : y \in Seq(T)
  BY DEF IsSeq
<1> DEFINE U == S \cup T
<1>3. S \subseteq U /\ T \subseteq U
  OBVIOUS
<1> HIDE DEF U
<1>4. x \in Seq(U) /\ y \in Seq(U)
  BY <1>1, <1>2, <1>3, SeqMonotonic
<1>5. x \o y \in Seq(U) /\ Len(x \o y) = Len(x) + Len(y)
  BY <1>4, ConcatProperties
<1> QED BY <1>4, <1>5, SeqIs

\* A writer's outcome that fits a destination of cap bytes.
FitsIn(written, cap) ==
    written.err = "OK" => IsSeq(written.bytes) /\ Len(written.bytes) <= cap

\* proto_write_bytes writes what fits, or nothing.
LEMMA WriteBytesFits ==
    ASSUME NEW bytes, IsSeq(bytes), NEW cap \in Int
    PROVE  FitsIn(WriteBytes(cap, bytes), cap)
<1> DEFINE n == Len(bytes)
<1>1. n \in Nat
  BY LenProperties DEF IsSeq
<1> HIDE DEF n
<1>2. CASE cap < n
  BY <1>2 DEF FitsIn, WriteBytes, WriteFailed, n
<1>3. CASE ~(cap < n)
  <2>1. WriteBytes(cap, bytes) = [err |-> "OK", bytes |-> bytes]
    BY <1>3, Zenon DEF WriteBytes, n
  <2>2. n <= cap
    BY <1>1, <1>3
  <2>3. WriteBytes(cap, bytes).bytes = bytes
    BY <2>1
  <2> QED BY <2>2, <2>3, Zenon DEF FitsIn, n
<1> QED BY <1>2, <1>3

\* What is not written fits.
LEMMA FailureFits ==
    ASSUME NEW err, err # "OK", NEW cap
    PROVE  FitsIn(WriteFailed(err), cap)
  BY DEF FitsIn, WriteFailed

\* The pieces of fixed text are sequences.
LEMMA ShortSeqs ==
    /\ \A c : IsSeq(<<c>>)
    /\ \A c, d : IsSeq(<<c, d>>)
    /\ IsSeq(CRLF)
<1>1. ASSUME NEW c PROVE IsSeq(<<c>>)
  <2>1. <<c>> \in Seq({c})
    OBVIOUS
  <2> QED BY <2>1, Zenon DEF IsSeq
<1>2. ASSUME NEW c, NEW d PROVE IsSeq(<<c, d>>)
  <2>1. <<c, d>> \in Seq({c, d})
    OBVIOUS
  <2> QED BY <2>1, Zenon DEF IsSeq
<1> QED BY <1>1, <1>2 DEF CRLF

\* A found item is written out as a whole or not at all.
LEMMA GetResultFits ==
    ASSUME NEW key, IsSeq(key), NEW flags \in Nat, NEW value, IsSeq(value), NEW cap \in Int
    PROVE  FitsIn(WriteGetResult(cap, key, flags, value), cap)
<1>1. IsSeq(FormatUint(flags)) /\ IsSeq(FormatUint(Len(value)))
  <2>1. Len(value) \in Nat
    BY SeqIs DEF IsSeq
  <2>2. FormatUint(flags) \in Seq(ToSet(Digits))
    BY FormatUintIs
  <2>3. FormatUint(Len(value)) \in Seq(ToSet(Digits))
    BY <2>1, FormatUintIs
  <2> QED BY <2>2, <2>3, SeqIs
<1>2. IsSeq(GetResultHeader(key, flags, value))
  BY <1>1, ShortSeqs, ConcatIs, Zenon DEF GetResultHeader
<1>3. IsSeq(GetResultHeader(key, flags, value) \o value \o CRLF)
  BY <1>2, ShortSeqs, ConcatIs, Zenon
<1> DEFINE bytes == GetResultHeader(key, flags, value) \o value \o CRLF
<1>4. FitsIn(WriteBytes(cap, bytes), cap)
  <2> HIDE DEF bytes
  <2> SUFFICES IsSeq(bytes)
    BY WriteBytesFits
  <2> QED BY <1>3 DEF bytes
<1>5. \/ WriteGetResult(cap, key, flags, value) = WriteBytes(cap, bytes)
      \/ \E err \in {"INVALID_ARGUMENTS", "KEY_TOO_LONG", "INVALID_VALUE_LENGTH"} :
           WriteGetResult(cap, key, flags, value) = WriteFailed(err)
  BY Zenon DEF WriteGetResult
<1> QED BY <1>4, <1>5, FailureFits

\* So is a line of text.
LEMMA TextLineFits ==
    ASSUME NEW prefix, NEW text, IsSeq(text), NEW cap \in Int
    PROVE  FitsIn(WriteTextLine(cap, prefix, text), cap)
<1> DEFINE bytes == <<prefix, "sp">> \o text \o CRLF
<1>1. IsSeq(bytes)
  BY ShortSeqs, ConcatIs, Zenon
<1>2. \/ WriteTextLine(cap, prefix, text) = WriteBytes(cap, bytes)
      \/ WriteTextLine(cap, prefix, text) = WriteFailed("INVALID_ARGUMENTS")
  BY Zenon DEF WriteTextLine
<1> HIDE DEF bytes
<1>3. FitsIn(WriteBytes(cap, bytes), cap)
  BY <1>1, WriteBytesFits
<1> QED BY <1>2, <1>3, FailureFits

\* The remaining writers.
LEMMA LinesFit ==
    ASSUME NEW cap \in Int
    PROVE  /\ FitsIn(WriteGetEnd(cap), cap)
           /\ \A type : FitsIn(WriteResponse(cap, type), cap)
           /\ \A text : IsSeq(text) => FitsIn(WriteVersion(cap, text), cap)
           /\ \A type, text : IsSeq(text) => FitsIn(WriteError(cap, type, text), cap)
<1>1. \A c : IsSeq(<<c>> \o CRLF)
  BY ShortSeqs, ConcatIs, Zenon
<1>2. \A c : FitsIn(WriteBytes(cap, <<c>> \o CRLF), cap)
  BY <1>1, WriteBytesFits
<1>3. FitsIn(WriteFailed("INVALID_ARGUMENTS"), cap)
  BY FailureFits
<1>4. FitsIn(WriteGetEnd(cap), cap)
  BY <1>2 DEF WriteGetEnd
<1>5. ASSUME NEW type PROVE FitsIn(WriteResponse(cap, type), cap)
  BY <1>2, <1>3, Zenon DEF WriteResponse
<1>6. ASSUME NEW text, IsSeq(text) PROVE FitsIn(WriteVersion(cap, text), cap)
  BY <1>6, TextLineFits DEF WriteVersion
<1>7. ASSUME NEW type, NEW text, IsSeq(text) PROVE FitsIn(WriteError(cap, type, text), cap)
  <2>1. FitsIn(WriteTextLine(cap, type, text), cap)
    BY <1>7, TextLineFits
  <2> QED BY <1>3, <2>1, Zenon DEF WriteError
<1> QED BY <1>4, <1>5, <1>6, <1>7

-----------------------------------------------------------------------------
(***************************************************************************)
(* The state of the conversation.                                          *)
(***************************************************************************)

CommandInside ==
    /\ CommandOK(cmd, pos - start)
    /\ cmd.value + cmd.valueLen <= pos - start

OutputInside == IsSeq(out) /\ Len(out) <= OutputCap

TInv == IInv /\ CommandInside /\ OutputInside

\* The bytes of the frame that have arrived.
LEMMA FrameIs ==
    ASSUME Positions
    PROVE  /\ Frame \in Seq(ToSet(input)) /\ Len(Frame) = filled - start
           /\ pos - start \in 0..filled - start /\ filled \in Nat /\ start \in Nat /\ pos \in Nat
<1> DEFINE S == ToSet(input)
           f == SubSeq(input, start + 1, filled)
<1>1. input \in Seq(S)
  BY SessionAssumption DEF Positions
<1> HIDE DEF S
<1>2. /\ Len(input) \in Nat /\ filled \in 0..Len(input) /\ pos \in 0..filled /\ start \in 0..pos
      /\ \A i \in 1..Len(input) : input[i] \in S
  BY <1>1, LenProperties, ElementOfSeq DEF Positions
<1>3. start + 1 \in Int /\ filled \in Int /\ \A i \in start + 1..filled : input[i] \in S
  BY <1>2
<1>4. f \in Seq(S) /\ Len(f) = IF start + 1 <= filled THEN filled - (start + 1) + 1 ELSE 0
  BY <1>3, SubSeqProperties
<1> HIDE DEF f
<1>5. Len(f) = filled - start
  BY <1>2, <1>4
<1>6. Frame = f
  BY DEF Frame, f
<1> QED BY <1>2, <1>4, <1>5, <1>6 DEF S

\* The key a command shows is a slice of its frame.
LEMMA KeyIs ==
    ASSUME Positions, CommandInside, cmd.key # 0
    PROVE  /\ Key \in Seq(ToSet(input)) /\ Len(Key) = cmd.keyLen
           /\ \A i \in 1..cmd.keyLen : Key[i] = Frame[cmd.key + i - 1]
           /\ cmd.keyLen \in Nat
<1> DEFINE S == ToSet(input)
           last == cmd.key + cmd.keyLen - 1
           k == SubSeq(Frame, cmd.key, last)
<1>1. /\ Frame \in Seq(S) /\ Len(Frame) = filled - start
      /\ pos - start \in 0..filled - start /\ filled \in Nat /\ start \in Nat /\ pos \in Nat
  BY FrameIs
<1> HIDE DEF S
<1>2. \A i \in 1..Len(Frame) : Frame[i] \in S
  BY <1>1, ElementOfSeq
<1>3. /\ cmd.key \in Nat /\ cmd.keyLen \in Nat /\ cmd.keysEnd \in 0..pos - start
      /\ cmd.key + cmd.keyLen <= cmd.keysEnd
  BY DEF CommandInside, CommandOK
<1>4. cmd.key \in Int /\ last \in Int /\ \A i \in cmd.key..last : i \in 1..Len(Frame)
  BY <1>1, <1>3
<1> HIDE DEF last
<1>5. \A i \in cmd.key..last : Frame[i] \in S
  BY <1>2, <1>4
<1>6. /\ k \in Seq(S) /\ Len(k) = IF cmd.key <= last THEN last - cmd.key + 1 ELSE 0
      /\ \A i \in 1..last - cmd.key + 1 : k[i] = Frame[cmd.key + i - 1]
  BY <1>4, <1>5, SubSeqProperties
<1> HIDE DEF k
<1>7. last - cmd.key + 1 = cmd.keyLen /\ Len(k) = cmd.keyLen
  BY <1>3, <1>6 DEF last
<1>8. Key = k
  BY DEF Key, k, last
<1> QED BY <1>3, <1>6, <1>7, <1>8 DEF S

\* An accepted command lies inside what it consumed.
LEMMA CommandAccepted ==
    ASSUME Positions, Accept
    PROVE  CommandInside'
<1> DEFINE parsed == ParseCommand(Window)
<1>1. PICK S : Window \in Seq(S)
  BY WindowContinued
<1>2. /\ parsed.err = "OK" /\ cmd' = parsed.cmd /\ start' = pos /\ pos' = pos + parsed.consumed
  BY DEF Accept
<1>3. /\ CommandOK(parsed.cmd, parsed.consumed)
      /\ parsed.cmd.value + parsed.cmd.valueLen <= parsed.consumed
  BY <1>1, <1>2, ParsedIs
<1>4. parsed.consumed \in 1..filled - pos
  BY <1>2, AnswerForAll
<1> HIDE DEF parsed
<1>5. pos' - start' = parsed.consumed
  BY <1>2, <1>4, FrameIs
<1> QED BY <1>2, <1>3, <1>5 DEF CommandInside

\* So it does when it shows its next key, or none.
LEMMA CommandMovesOn ==
    ASSUME Positions, CommandInside, MoveOn, KeysLeft, UNCHANGED <<pos, start>>
    PROVE  CommandInside'
<1> DEFINE n == pos - start
<1>1. n \in Nat
  BY FrameIs
<1>2. CommandOK(cmd, n) /\ cmd.key # 0 /\ cmd.value + cmd.valueLen <= n
  BY DEF CommandInside, KeysLeft
<1>3. n' = n
  OBVIOUS
<1> HIDE DEF n
<1>4. CASE FurtherKeyBytes(Frame, cmd) # {}
  <2> DEFINE c == NextKey(Frame, cmd)
  <2>1. cmd' = c
    BY <1>2, <1>4 DEF MoveOn, HasNextKey
  <2>2. CommandOK(c, n) /\ c.value = cmd.value /\ c.valueLen = cmd.valueLen
    BY <1>1, <1>2, <1>4, NextKeyIs
  <2> HIDE DEF c
  <2> QED BY <1>2, <1>3, <2>1, <2>2 DEF CommandInside, n
<1>5. CASE FurtherKeyBytes(Frame, cmd) = {}
  <2> DEFINE c == [cmd EXCEPT !.key = 0]
  <2>1. cmd' = c
    BY <1>2, <1>5 DEF MoveOn, HasNextKey
  <2>2. CommandOK(c, n) /\ c.value = cmd.value /\ c.valueLen = cmd.valueLen
    BY <1>1, <1>2, NoKeyIs
  <2> HIDE DEF c
  <2> QED BY <1>2, <1>3, <2>1, <2>2 DEF CommandInside, n
<1> QED BY <1>4, <1>5

\* Only accepting and moving on touch the command.
LEMMA CommandKeeps ==
    ASSUME Positions, CommandInside, [Next]_vars
    PROVE  CommandInside'
<1>1. CASE UNCHANGED <<cmd, pos, start>>
  BY <1>1 DEF CommandInside
<1>2. CASE Accept
  BY <1>2, CommandAccepted
<1>3. CASE ReplyKey
  <2>1. MoveOn /\ KeysLeft /\ UNCHANGED <<pos, start>>
    BY <1>3 DEF ReplyKey, Put
  <2> QED BY <2>1, CommandMovesOn
<1>4. CASE Stop \/ (\E n \in 1..Len(input) : Grow(n))
  BY <1>1, <1>4 DEF Stop, Grow
<1>5. CASE ReplyEnd
  BY <1>1, <1>5 DEF ReplyEnd, Put
<1>6. CASE ReplyLine
  BY <1>1, <1>6 DEF ReplyLine, Put
<1>7. CASE NoReply \/ Flush
  BY <1>1, <1>7 DEF NoReply, Flush
<1>8. CASE Terminating \/ UNCHANGED vars
  BY <1>1, <1>8 DEF Terminating, vars
<1> QED BY <1>2, <1>3, <1>4, <1>5, <1>6, <1>7, <1>8 DEF Next

\* A reply that fits what is left is inside the output with all before it.
LEMMA PutKeeps ==
    ASSUME OutputInside, NEW written, NEW reply, NEW more, Put(written, reply, more),
           FitsIn(written, Room)
    PROVE  OutputInside'
<1> DEFINE m == Len(out)
           n == Len(written.bytes)
<1>1. out' = out \o written.bytes /\ IsSeq(written.bytes) /\ n <= OutputCap - m
  BY DEF Put, FitsIn, Room
<1>2. IsSeq(out') /\ Len(out') = m + n /\ m \in Nat /\ n \in Nat
  BY <1>1, ConcatIs DEF OutputInside
<1> HIDE DEF m, n
<1>3. m + n <= OutputCap
  BY <1>1, <1>2, SessionAssumption
<1> QED BY <1>2, <1>3 DEF OutputInside

\* Every reply is written by a writer that was told how much room is left.
LEMMA OutputKeeps ==
    ASSUME Positions, CommandInside, OutputInside, [Next]_vars
    PROVE  OutputInside'
<1>1. CASE UNCHANGED out
  BY <1>1 DEF OutputInside
<1>2. Room \in Int
  BY SessionAssumption, SeqIs DEF Room, OutputInside, IsSeq
<1>3. CASE ReplyKey
  <2>1. CASE UNCHANGED out
    BY <1>1, <2>1
  <2>2. CASE \E item \in Values :
               Put(WriteGetResult(Room, Key, item[1], item[2]),
                   <<"VALUE", Key, item[1], item[2]>>, TRUE)
    <3>1. PICK item \in Values :
               Put(WriteGetResult(Room, Key, item[1], item[2]),
                   <<"VALUE", Key, item[1], item[2]>>, TRUE)
      BY <2>2
    <3>2. IsSeq(Key)
      BY <1>3, KeyIs, SeqIs DEF ReplyKey, KeysLeft
    <3>3. item[1] \in Nat /\ item[2] \in Seq(ToSet(item[2]))
      BY SessionAssumption
    <3>4. IsSeq(item[2])
      BY <3>3, SeqIs
    <3>5. FitsIn(WriteGetResult(Room, Key, item[1], item[2]), Room)
      BY <1>2, <3>2, <3>3, <3>4, GetResultFits
    <3> QED BY <3>1, <3>5, PutKeeps
  <2> QED BY <1>3, <2>1, <2>2 DEF ReplyKey
<1>4. CASE ReplyEnd
  <2>1. Put(WriteGetEnd(Room), <<"END">>, FALSE)
    BY <1>4 DEF ReplyEnd
  <2> QED BY <1>2, <2>1, LinesFit, PutKeeps
<1>5. CASE ReplyLine
  <2>1. \A text \in Texts : IsSeq(text)
    BY SessionAssumption, SeqIs
  <2>2. CASE \E type \in {"STORED", "NOT_FOUND", "ERROR"} :
               Put(WriteResponse(Room, type), <<type>>, FALSE)
    BY <1>2, <2>2, LinesFit, PutKeeps
  <2>3. CASE \E text \in Texts : Put(WriteVersion(Room, text), <<"VERSION", text>>, FALSE)
    BY <1>2, <2>1, <2>3, LinesFit, PutKeeps
  <2>4. CASE \E type \in {"CLIENT_ERROR", "SERVER_ERROR"}, text \in Texts :
               Put(WriteError(Room, type, text), <<type, text>>, FALSE)
    BY <1>2, <2>1, <2>4, LinesFit, PutKeeps
  <2> QED BY <1>5, <2>2, <2>3, <2>4 DEF ReplyLine
<1>6. CASE Flush
  <2>1. out' = <<>> /\ Len(<<>>) = 0 /\ IsSeq(<<>>)
    BY <1>6, EmptySeq DEF Flush, IsSeq
  <2> QED BY <2>1, SessionAssumption DEF OutputInside
<1>7. CASE Accept \/ Stop \/ (\E n \in 1..Len(input) : Grow(n))
  BY <1>1, <1>7 DEF Accept, Stop, Grow
<1>8. CASE NoReply \/ Terminating \/ UNCHANGED vars
  BY <1>1, <1>8 DEF NoReply, Terminating, vars
<1> QED BY <1>3, <1>4, <1>5, <1>6, <1>7, <1>8 DEF Next

\* The inductive invariant of the conversation.
LEMMA Invariance == Spec => []TInv
<1>1. Init => TInv
  <2> SUFFICES ASSUME Init PROVE TInv
    OBVIOUS
  <2>1. CommandInside
    <3>1. NoCommand = [NoCommand EXCEPT !.type = "get"] /\ "get" \in Types
      BY DEF NoCommand, Types
    <3>2. CommandOK(NoCommand, 0) /\ NoCommand.value = 0 /\ NoCommand.valueLen = 0
      BY <3>1, NoCommandIs
    <3> QED BY <3>2 DEF Init, CommandInside
  <2>2. OutputInside
    BY EmptySeq, SessionAssumption DEF Init, OutputInside, IsSeq
  <2> QED BY <2>1, <2>2, InitKeeps DEF TInv
<1>2. TInv /\ [Next]_vars => TInv'
  BY NextKeeps, CommandKeeps, OutputKeeps DEF TInv, IInv
<1> QED BY <1>1, <1>2, PTL DEF Spec

\* What a command points at lies inside its frame, its numbers inside their
\* types, and the output inside its buffer.
THEOREM TypeCorrect == Spec => []TypeOK
<1>1. TInv => TypeOK
  BY DEF TInv, IInv, Positions, CommandInside, CommandOK, OutputInside, TypeOK, Types
<1> QED BY <1>1, Invariance, PTL

-----------------------------------------------------------------------------
(***************************************************************************)
(* The keys of a get.                                                      *)
(***************************************************************************)

\* c shows key n of a get, word n + 1 of its line.
Shown(line, c, n) ==
    /\ n \in 1..Len(Words(line)) - 1
    /\ c.key = WordStarts(line)[n + 1] /\ c.keyLen = Len(Words(line)[n + 1])

\* The words behind the command that have been served so far, and the key
\* that is shown is the one behind them.
Serving ==
    phase = "reply" /\ cmd.type = "get" =>
        /\ LineError(Frame) = "OK"
        /\ cmd.keysEnd = Len(Line(Frame)) + 1
        /\ Len(served) < Len(Words(Line(Frame)))
        /\ \A i \in 1..Len(served) : served[i] = Words(Line(Frame))[i + 1]
        /\ \/ cmd.key = 0 /\ Len(served) + 1 = Len(Words(Line(Frame)))
           \/ Shown(Line(Frame), cmd, Len(served) + 1)

\* A word starts behind the word before it.
LEMMA WordsApart ==
    ASSUME NEW S, NEW line \in Seq(S), NEW j \in 1..Len(WordStarts(line)),
           NEW k \in 1..Len(WordStarts(line)), j < k
    PROVE  WordEnd(line, WordStarts(line)[j], Len(line) + 1) < WordStarts(line)[k]
<1> DEFINE ws  == WordStarts(line)
           end == WordEnd(line, ws[j], Len(line) + 1)
<1>1. Len(line) \in Nat
  BY LenProperties
<1>2. Listed(line, Len(line), ws)
  BY <1>1, WordStartsAre
<1>3. ws[j] \in 1..Len(line) /\ ws[k] \in 1..Len(line)
  BY WordsAre
<1> HIDE DEF ws
<1>4. ws[j] < ws[k] /\ line[ws[k] - 1] = "sp" /\ line[ws[k]] # "sp"
  <2>1. ws[j] < ws[k] /\ Starts(line, ws[k])
    BY <1>2 DEF Listed, ws
  <2>2. ws[k] # 1
    BY <1>3, <2>1
  <2> QED BY <2>1, <2>2 DEF Starts
<1>5. /\ end \in ws[j]..Len(line) + 1
      /\ \A i \in ws[j]..end - 1 : line[i] # "sp"
      /\ end < Len(line) + 1 => line[end] = "sp"
  <2>1. ws[j] \in Nat /\ Len(line) + 1 \in Nat /\ ws[j] <= Len(line) + 1
    BY <1>1, <1>3
  <2> QED BY <2>1, WordEndIs
<1> HIDE DEF end
<1>6. ~(ws[k] <= end)
  <2> SUFFICES ASSUME ws[k] <= end PROVE FALSE
    OBVIOUS
  <2>1. ws[k] - 1 \in ws[j]..end - 1
    BY <1>1, <1>3, <1>4, <1>5
  <2> QED BY <1>4, <1>5, <2>1
<1> QED BY <1>1, <1>3, <1>5, <1>6 DEF ws, end

\* The bytes behind the key that is shown are those of the words behind it.
LEMMA NextWordIs ==
    ASSUME NEW S, NEW b \in Seq(S), LineError(b) = "OK", NEW m \in Nat, NEW c, CommandOK(c, m),
           c.keysEnd = Len(Line(b)) + 1, NEW n, Shown(Line(b), c, n)
    PROVE  /\ FurtherKeyBytes(b, c) = {} => n + 1 = Len(Words(Line(b)))
           /\ FurtherKeyBytes(b, c) # {} => Shown(Line(b), NextKey(b, c), n + 1)
<1> DEFINE line  == Line(b)
           ws    == WordStarts(line)
           words == Words(line)
           T     == FurtherKeyBytes(b, c)
           end   == WordEnd(line, ws[n + 1], Len(line) + 1)
<1>1. line \in Seq(S) /\ Len(line) \in Nat /\ \A i \in 1..Len(line) : line[i] = b[i]
  BY LineIs, LenProperties
<1> HIDE DEF line
<1>2. /\ Len(words) = Len(ws) /\ Len(ws) \in Nat
      /\ \A k \in 1..Len(ws) :
           /\ ws[k] \in 1..Len(line)
           /\ Len(words[k]) = WordEnd(line, ws[k], Len(line) + 1) - ws[k]
           /\ WordEnd(line, ws[k], Len(line) + 1) \in ws[k] + 1..Len(line) + 1
  BY <1>1, WordsAre
<1>3. Listed(line, Len(line), ws)
  BY <1>1, WordStartsAre
<1>4. /\ n \in 1..Len(words) - 1 /\ c.key = ws[n + 1] /\ c.keyLen = Len(words[n + 1])
  BY DEF Shown, line
<1> HIDE DEF ws, words
<1>5. n \in Nat /\ n + 1 \in 1..Len(ws)
  BY <1>2, <1>4
<1>6. /\ c.key = ws[n + 1] /\ c.key + c.keyLen = end /\ end \in ws[n + 1] + 1..Len(line) + 1
      /\ ws[n + 1] \in 1..Len(line)
  BY <1>2, <1>4, <1>5
<1>7. end < Len(line) + 1 => line[end] = "sp"
  <2>1. ws[n + 1] \in Nat /\ Len(line) + 1 \in Nat /\ ws[n + 1] <= Len(line) + 1
    BY <1>1, <1>6
  <2> QED BY <2>1, WordEndIs
<1>8. T = {i \in end..Len(line) : line[i] # "sp"}
  <2>1. T = {i \in end..Len(line) + 1 - 1 : b[i] # "sp"}
    BY <1>6 DEF FurtherKeyBytes, line
  <2>2. \A i \in end..Len(line) + 1 - 1 : i \in 1..Len(line)
    BY <1>1, <1>6
  <2>3. end..Len(line) + 1 - 1 = end..Len(line)
    BY <1>1
  <2> HIDE DEF T, end
  <2> QED BY <1>1, <2>1, <2>2, <2>3
<1>9. n + 2 \in 1..Len(ws) => ws[n + 2] \in T
  <2> SUFFICES ASSUME n + 2 \in 1..Len(ws) PROVE ws[n + 2] \in T
    OBVIOUS
  <2>1. n + 1 < n + 2
    BY <1>5
  <2>2. end < ws[n + 2]
    BY <1>1, <1>5, <2>1, WordsApart DEF ws
  <2>3. Starts(line, ws[n + 2])
    BY <1>3 DEF Listed
  <2>4. ws[n + 2] \in 1..Len(line)
    BY <1>2
  <2> HIDE DEF T, end
  <2> QED BY <1>1, <1>6, <1>8, <2>2, <2>3, <2>4 DEF Starts
<1>10. CASE T = {}
  <2>1. n + 2 \notin 1..Len(ws)
    BY <1>9, <1>10
  <2>2. n + 1 = Len(words)
    BY <1>2, <1>5, <2>1
  <2> QED BY <1>10, <2>2 DEF words, line
<1>11. CASE T # {}
  <2> DEFINE x == Min(T)
             d == NextKey(b, c)
  <2>1. c.key # 0
    BY <1>6
  <2>2. /\ d.key = x /\ d.keyLen = WordEnd(b, x, c.keysEnd) - x
        /\ x \in T /\ \A i \in T : x <= i
    BY <1>11, <2>1, NextKeyIs
  <2> HIDE DEF x, d, T, end
  <2>3. x \in end..Len(line) /\ line[x] # "sp"
    BY <1>8, <2>2
  <2>4. x # end
    BY <1>1, <1>6, <1>7, <2>3
  <2>5. x - 1 \in end..Len(line) /\ ~(x <= x - 1)
    BY <1>1, <1>6, <2>3, <2>4
  <2>6. line[x - 1] = "sp"
    BY <1>8, <2>2, <2>5
  <2>7. x \in 1..Len(line) /\ Starts(line, x)
    BY <1>1, <1>6, <2>3, <2>6 DEF Starts
  <2>8. PICK k \in 1..Len(ws) : ws[k] = x
    BY <1>3, <2>7 DEF Listed
  <2>9. ws[n + 1] < ws[k]
    BY <1>1, <1>6, <2>3, <2>4, <2>8
  <2>10. k > n + 1
    <3>1. \A j \in 1..Len(ws) : j < n + 1 => ws[j] < ws[n + 1]
      BY <1>3, <1>5 DEF Listed
    <3>2. ws[k] \in Nat /\ ws[n + 1] \in Nat
      BY <1>2, <1>5
    <3>3. k # n + 1 /\ ~(k < n + 1)
      BY <2>9, <3>1, <3>2
    <3> QED BY <1>5, <3>3
  <2>11. n + 2 \in 1..Len(ws)
    BY <1>2, <1>5, <2>10
  <2>12. k = n + 2
    <3>1. x <= ws[n + 2]
      BY <1>9, <2>2, <2>11
    <3>2. n + 2 < k => ws[n + 2] < ws[k]
      BY <1>3, <2>11 DEF Listed
    <3>3. ws[k] \in Nat /\ ws[n + 2] \in Nat
      BY <1>2, <2>11
    <3> QED BY <1>5, <2>8, <2>10, <3>1, <3>2, <3>3
  <2>13. WordEnd(b, x, c.keysEnd) = WordEnd(line, x, Len(line) + 1)
    <3> DEFINE e == Len(line) + 1
               P == {i \in x..e - 1 : b[i] = "sp"}
               Q == {i \in x..e - 1 : line[i] = "sp"}
    <3>1. c.keysEnd = e
      BY DEF line
    <3>2. \A i \in x..e - 1 : b[i] = line[i]
      BY <1>1, <2>7
    <3>3. P = Q
      BY <3>2
    <3>4. WordEnd(b, x, e) = Min({e} \cup P) /\ WordEnd(line, x, e) = Min({e} \cup Q)
      BY DEF WordEnd
    <3> HIDE DEF P, Q, e
    <3> QED BY <3>1, <3>3, <3>4 DEF e
  <2>14. d.keyLen = Len(words[n + 2])
    BY <1>2, <2>2, <2>8, <2>12, <2>13
  <2>15. n + 1 \in 1..Len(words) - 1 /\ n + 1 + 1 = n + 2
    BY <1>2, <1>5, <2>11
  <2>16. Shown(line, d, n + 1)
    BY <2>2, <2>8, <2>12, <2>14, <2>15 DEF Shown, ws, words
  <2> QED BY <1>11, <2>16 DEF d, line, T
<1> QED BY <1>10, <1>11 DEF T

\* The key that is answered is the word that is shown.
LEMMA KeyIsWord ==
    ASSUME Positions, CommandInside, LineError(Frame) = "OK", cmd.key # 0,
           NEW n, Shown(Line(Frame), cmd, n)
    PROVE  Key = Words(Line(Frame))[n + 1]
<1> DEFINE S     == ToSet(input)
           line  == Line(Frame)
           words == Words(line)
           ws    == WordStarts(line)
           word  == words[n + 1]
<1>1. Frame \in Seq(S)
  BY FrameIs
<1>2. line \in Seq(S) /\ Len(line) \in Nat
  BY <1>1, LineIs, LenProperties
<1>3. \A i \in 1..Len(line) : line[i] = Frame[i]
  <2>1. /\ Len(Line(Frame)) = FirstBreak(Frame) - 1
        /\ \A i \in 1..FirstBreak(Frame) - 1 : Line(Frame)[i] = Frame[i]
    BY <1>1, LineIs
  <2> QED BY <2>1
<1>4. /\ Key \in Seq(S) /\ Len(Key) = cmd.keyLen /\ cmd.keyLen \in Nat
      /\ \A i \in 1..cmd.keyLen : Key[i] = Frame[cmd.key + i - 1]
  BY KeyIs
<1> HIDE DEF S, line
<1>5. n + 1 \in 1..Len(ws)
  <2>1. n \in 1..Len(words) - 1 /\ Len(words) = Len(ws) /\ Len(ws) \in Nat
    BY <1>2, WordsAre DEF Shown, line
  <2> HIDE DEF words, ws
  <2> QED BY <2>1
<1>6. words \in Seq(Seq(S)) /\ Len(words) = Len(ws)
  BY <1>2, WordsAre
<1>7. /\ ws[n + 1] \in 1..Len(line)
      /\ WordEnd(line, ws[n + 1], Len(line) + 1) \in ws[n + 1] + 1..Len(line) + 1
      /\ Len(word) = WordEnd(line, ws[n + 1], Len(line) + 1) - ws[n + 1]
      /\ \A i \in 1..Len(word) : word[i] = line[ws[n + 1] + i - 1]
  BY <1>2, <1>5, WordsAre
<1>8. cmd.key = ws[n + 1] /\ cmd.keyLen = Len(word)
  BY DEF Shown, line
<1> HIDE DEF words, ws
<1>9. word \in Seq(S)
  BY <1>5, <1>6, ElementOfSeq
<1> HIDE DEF word
<1>10. ASSUME NEW i \in 1..Len(Key) PROVE Key[i] = word[i]
  <2>1. i \in 1..cmd.keyLen /\ i \in 1..Len(word)
    BY <1>4, <1>8
  <2>2. cmd.key + i - 1 \in 1..Len(line)
    BY <1>2, <1>7, <1>8, <2>1
  <2> QED BY <1>3, <1>4, <1>7, <1>8, <2>1, <2>2
<1>11. Key = word
  BY <1>4, <1>8, <1>9, <1>10, SeqEqual
<1> QED BY <1>11 DEF word, words, line

\* A get that has just been accepted shows its first key.
LEMMA ServingStarts ==
    ASSUME Positions, Accept
    PROVE  Serving'
<1> DEFINE parsed == ParseCommand(Window)
<1>1. PICK S : Window \in Seq(S)
  BY WindowContinued
<1>2. /\ parsed.err = "OK" /\ cmd' = parsed.cmd /\ Frame' = Window /\ served' = <<>>
  BY DEF Accept, Frame, Window
<1> SUFFICES ASSUME cmd'.type = "get" PROVE Serving'
  BY DEF Serving
<1>3. LineError(Window) = "OK" /\ FirstKeyShown(Line(Window), parsed.cmd)
  BY <1>1, <1>2, ParsedIs
<1> HIDE DEF parsed
<1> DEFINE line == Line(Window)
           n == Len(Words(line))
<1>4. line \in Seq(S)
  BY <1>1, <1>3, LineIs
<1>5. n \in Nat /\ n > 1
  BY <1>3, <1>4, WordsAre, LenProperties DEF FirstKeyShown
<1> HIDE DEF n
<1>6. 1 \in 1..n - 1 /\ 1 + 1 = 2 /\ 0 < n
  BY <1>5
<1>7. Shown(line, parsed.cmd, 1)
  BY <1>3, <1>6 DEF Shown, FirstKeyShown, n
<1>8. Len(<<>>) = 0 /\ 0 + 1 = 1
  BY EmptySeq
<1>9. \A i \in 1..0 : FALSE
  OBVIOUS
<1> HIDE DEF line
<1>10. /\ LineError(Frame') = "OK"
       /\ cmd'.keysEnd = Len(Line(Frame')) + 1
       /\ Len(served') < Len(Words(Line(Frame')))
       /\ \A i \in 1..Len(served') : served'[i] = Words(Line(Frame'))[i + 1]
       /\ Shown(Line(Frame'), cmd', Len(served') + 1)
  <2>1. cmd'.keysEnd = Len(Line(Frame')) + 1
    BY <1>2, <1>3 DEF FirstKeyShown
  <2> QED BY <1>2, <1>3, <1>6, <1>7, <1>8, <1>9, <2>1 DEF line, n
<1>11. Frame' = SubSeq(input, start + 1, filled)'
  BY DEF Frame
<1> QED BY <1>10 DEF Serving, Frame

\* Answering the key that is shown adds its word, and shows the next one.
LEMMA ServingMovesOn ==
    ASSUME Positions, CommandInside, Serving, ReplyKey
    PROVE  Serving'
<1> DEFINE n     == Len(served)
           line  == Line(Frame)
           words == Words(line)
<1>1. /\ phase = "reply" /\ cmd.type = "get" /\ cmd.key # 0 /\ Frame' = Frame
      /\ served' = Append(served, Key)
      /\ cmd' = IF HasNextKey(Frame, cmd) THEN NextKey(Frame, cmd) ELSE [cmd EXCEPT !.key = 0]
  BY DEF ReplyKey, KeysLeft, MoveOn, Put, Frame
<1>2. /\ LineError(Frame) = "OK" /\ cmd.keysEnd = Len(line) + 1 /\ n < Len(words)
      /\ \A i \in 1..n : served[i] = words[i + 1]
      /\ Shown(line, cmd, n + 1)
  BY <1>1 DEF Serving
<1>3. Frame \in Seq(ToSet(input)) /\ pos - start \in Nat /\ CommandOK(cmd, pos - start)
  BY FrameIs DEF CommandInside
<1>4. Len(words) \in Nat
  BY <1>2, <1>3, LineIs, WordsAre, LenProperties
<1>5. PICK T : served \in Seq(T)
  BY DEF Positions
<1>6. n \in Nat
  BY <1>5, LenProperties
<1>7. Key = words[n + 2]
  <2>1. Key = words[n + 1 + 1]
    BY <1>1, <1>2, KeyIsWord
  <2>2. n + 1 + 1 = n + 2
    BY <1>6
  <2> QED BY <2>1, <2>2
<1>8. /\ Len(served') = n + 1 /\ \A i \in 1..n : served'[i] = served[i]
      /\ served'[n + 1] = Key
  <2> DEFINE U == T \cup {Key}
  <2>1. T \subseteq U /\ Key \in U
    OBVIOUS
  <2> HIDE DEF U
  <2>2. served \in Seq(U)
    BY <1>5, <2>1, SeqMonotonic
  <2> QED BY <1>1, <2>1, <2>2, AppendProperties
<1> HIDE DEF n, line, words
<1>9. \A i \in 1..n + 1 : served'[i] = words[i + 1]
  <2> SUFFICES ASSUME NEW i \in 1..n + 1 PROVE served'[i] = words[i + 1]
    OBVIOUS
  <2>1. CASE i = n + 1
    <3>1. i + 1 = n + 2
      BY <1>6, <2>1
    <3> QED BY <1>7, <1>8, <2>1, <3>1
  <2>2. CASE i # n + 1
    <3>1. i \in 1..n
      BY <1>6, <2>2
    <3> QED BY <1>2, <1>8, <3>1
  <2> QED BY <2>1, <2>2
<1>10. n + 1 < Len(words)
  <2>1. n + 1 \in 1..Len(words) - 1
    BY <1>2 DEF Shown, words
  <2> QED BY <1>4, <1>6, <2>1
<1>11. /\ cmd'.keysEnd = cmd.keysEnd
       /\ \/ cmd'.key = 0 /\ n + 1 + 1 = Len(words)
          \/ Shown(line, cmd', n + 1 + 1)
  <2>1. /\ FurtherKeyBytes(Frame, cmd) = {} => n + 1 + 1 = Len(words)
        /\ FurtherKeyBytes(Frame, cmd) # {} => Shown(line, NextKey(Frame, cmd), n + 1 + 1)
    BY <1>2, <1>3, NextWordIs DEF line, words
  <2>2. CASE FurtherKeyBytes(Frame, cmd) = {}
    <3>1. cmd' = [cmd EXCEPT !.key = 0]
      BY <1>1, <2>2 DEF HasNextKey
    <3>2. cmd'.key = 0 /\ cmd'.keysEnd = cmd.keysEnd
      BY <1>3, <3>1, NoKeyIs
    <3> QED BY <2>1, <2>2, <3>2
  <2>3. CASE FurtherKeyBytes(Frame, cmd) # {}
    <3>1. cmd' = NextKey(Frame, cmd)
      BY <1>1, <2>3 DEF HasNextKey
    <3>2. NextKey(Frame, cmd).keysEnd = cmd.keysEnd
      BY <1>1, <1>3, <2>3, NextKeyIs
    <3>3. cmd'.keysEnd = cmd.keysEnd
      BY <3>1, <3>2
    <3> QED BY <2>1, <2>3, <3>1, <3>3
  <2> QED BY <2>2, <2>3
<1>12. /\ LineError(Frame') = "OK"
       /\ cmd'.keysEnd = Len(Line(Frame')) + 1
       /\ Len(served') < Len(Words(Line(Frame')))
       /\ \A i \in 1..Len(served') : served'[i] = Words(Line(Frame'))[i + 1]
       /\ \/ cmd'.key = 0 /\ Len(served') + 1 = Len(Words(Line(Frame')))
          \/ Shown(Line(Frame'), cmd', Len(served') + 1)
  BY <1>1, <1>2, <1>8, <1>9, <1>10, <1>11 DEF line, words
<1> QED BY <1>12 DEF Serving, Frame

\* While a get is answered, it shows the word behind those it has served.
LEMMA ServingKeeps ==
    ASSUME Positions, CommandInside, Serving, [Next]_vars
    PROVE  Serving'
<1>1. CASE UNCHANGED <<input, filled, start, cmd, phase, served>>
  BY <1>1 DEF Serving, Frame
<1>2. CASE phase' # "reply"
  BY <1>2 DEF Serving
<1>3. CASE Accept
  BY <1>3, ServingStarts
<1>4. CASE ReplyKey
  BY <1>4, ServingMovesOn
<1>5. CASE Stop
  <2>1. phase' # "reply"
    BY <1>5, AnswersAreErrors DEF Stop
  <2> QED BY <1>2, <2>1
<1>6. CASE \E n \in 1..Len(input) : Grow(n)
  <2>1. phase' # "reply"
    BY <1>6 DEF Grow, Unfinished
  <2> QED BY <1>2, <2>1
<1>7. CASE ReplyEnd \/ ReplyLine \/ NoReply
  <2>1. phase' # "reply"
    BY <1>7 DEF ReplyEnd, ReplyLine, NoReply, Put
  <2> QED BY <1>2, <2>1
<1>8. CASE Flush \/ Terminating \/ UNCHANGED vars
  BY <1>1, <1>8 DEF Flush, Terminating, vars
<1> QED BY <1>3, <1>4, <1>5, <1>6, <1>7, <1>8 DEF Next

\* A get is answered for each of its words, in order, once: the keys are
\* found again in the input one behind the other, and none is left out,
\* repeated or taken for two.
THEOREM KeysCorrect == Spec => []KeysServed
<1>1. ASSUME Positions, CommandInside, Serving PROVE KeysServed
  <2> SUFFICES ASSUME phase = "reply", cmd.type = "get"
               PROVE  /\ IsPrefix(served, Tail(Words(Line(Frame))))
                      /\ ~KeysLeft => served = Tail(Words(Line(Frame)))
    BY DEF KeysServed
  <2> DEFINE S     == Seq(ToSet(input))
             words == Words(Line(Frame))
             rest  == Tail(words)
             n     == Len(served)
  <2>1. /\ LineError(Frame) = "OK" /\ n < Len(words)
        /\ \A i \in 1..n : served[i] = words[i + 1]
        /\ \/ cmd.key = 0 /\ n + 1 = Len(words)
           \/ Shown(Line(Frame), cmd, n + 1)
    BY <1>1 DEF Serving
  <2>2. words \in Seq(S) /\ Len(words) \in Nat
    BY <1>1, <2>1, FrameIs, LineIs, WordsAre, LenProperties
  <2>3. PICK T : served \in Seq(T)
    BY <1>1 DEF Positions
  <2>4. n \in Nat
    BY <2>3, LenProperties
  <2>5. Shown(Line(Frame), cmd, n + 1) => cmd.key # 0
    <3>1. \A k \in 1..Len(words) : WordStarts(Line(Frame))[k] \in Nat /\ WordStarts(Line(Frame))[k] # 0
      <4>1. /\ Len(words) = Len(WordStarts(Line(Frame)))
            /\ \A k \in 1..Len(WordStarts(Line(Frame))) :
                 WordStarts(Line(Frame))[k] \in 1..Len(Line(Frame))
        BY <1>1, <2>1, FrameIs, LineIs, WordsAre
      <4> HIDE DEF words
      <4> QED BY <4>1
    <3>2. n + 1 \in 1..Len(words) - 1 => n + 1 + 1 \in 1..Len(words)
      BY <2>2, <2>4
    <3> QED BY <3>1, <3>2 DEF Shown
  <2> HIDE DEF words, n, S
  <2>6. words # <<>>
    BY <2>1, <2>2, <2>4, EmptySeq
  <2>7. /\ rest \in Seq(S) /\ Len(rest) = Len(words) - 1
        /\ \A i \in 1..Len(rest) : rest[i] = words[i + 1]
    BY <2>2, <2>6, HeadTailProperties
  <2> HIDE DEF rest
  <2>8. n <= Len(rest) /\ \A i \in 1..n : served[i] = rest[i]
    <3>1. n <= Len(rest)
      BY <2>1, <2>2, <2>4, <2>7
    <3>2. \A i \in 1..n : i \in 1..Len(rest)
      BY <2>2, <2>4, <2>7, <3>1
    <3> QED BY <2>1, <2>7, <3>1, <3>2
  <2>9. served \in Seq(S)
    <3>1. \A i \in 1..n : served[i] \in S
      BY <2>2, <2>4, <2>7, <2>8, ElementOfSeq
    <3>2. served \in [1..n -> S]
      BY <2>3, <3>1, LenProperties DEF n
    <3> QED BY <2>4, <3>2, SeqDef
  <2>10. IsPrefix(served, rest)
    <3>1. SubSeq(served, 1, n) = SubSeq(rest, 1, n)
      <4>1. 1 \in Int /\ n \in Int /\ (\A i \in 1..n : served[i] \in S) /\ \A i \in 1..n : rest[i] \in S
        BY <2>4, <2>8, <2>9, ElementOfSeq DEF n
      <4>2. /\ SubSeq(served, 1, n) \in Seq(S)
            /\ Len(SubSeq(served, 1, n)) = IF 1 <= n THEN n - 1 + 1 ELSE 0
            /\ \A i \in 1..n - 1 + 1 : SubSeq(served, 1, n)[i] = served[1 + i - 1]
        BY <4>1, SubSeqProperties
      <4>3. /\ SubSeq(rest, 1, n) \in Seq(S)
            /\ Len(SubSeq(rest, 1, n)) = IF 1 <= n THEN n - 1 + 1 ELSE 0
            /\ \A i \in 1..n - 1 + 1 : SubSeq(rest, 1, n)[i] = rest[1 + i - 1]
        BY <4>1, SubSeqProperties
      <4> DEFINE p == SubSeq(served, 1, n)
                 q == SubSeq(rest, 1, n)
      <4> HIDE DEF p, q
      <4>4. Len(p) = n /\ Len(q) = n
        BY <2>4, <4>2, <4>3 DEF p, q
      <4>5. \A i \in 1..n : p[i] = q[i]
        BY <2>4, <2>8, <4>2, <4>3 DEF p, q
      <4>6. p \in Seq(S) /\ q \in Seq(S)
        BY <4>2, <4>3 DEF p, q
      <4>7. p = q
        BY <4>4, <4>5, <4>6, SeqEqual
      <4> QED BY <4>7 DEF p, q
    <3> QED BY <2>8, <3>1 DEF IsPrefix, n
  <2>11. ~KeysLeft => served = rest
    <3> SUFFICES ASSUME ~KeysLeft PROVE served = rest
      OBVIOUS
    <3>1. n + 1 = Len(words)
      BY <2>1, <2>5 DEF KeysLeft
    <3>2. n = Len(rest)
      BY <2>2, <2>4, <2>7, <3>1
    <3> QED BY <2>7, <2>8, <2>9, <3>2, SeqEqual DEF n
  <2> QED BY <2>10, <2>11 DEF rest, words
<1>2. Init => Serving
  BY DEF Init, Serving
<1>3. TInv /\ Serving /\ [Next]_vars => Serving'
  BY ServingKeeps DEF TInv, IInv
<1>4. TInv /\ Serving => KeysServed
  BY <1>1 DEF TInv, IInv
<1> QED BY <1>2, <1>3, <1>4, Invariance, PTL DEF Spec

-----------------------------------------------------------------------------
(***************************************************************************)
(* Recursive functions in general, and what words of digits denote.        *)
(*                                                                         *)
(* A definition by recursion on numbers has the function it describes; the *)
(* digits are told apart by their values, and the places are powers of the *)
(* base.                                                                   *)
(***************************************************************************)

\* f takes the numbers up to n from the first value a by the steps of G.
Iterates(f, n, V, a, G) ==
    /\ f \in [0..n -> V] /\ f[0] = a
    /\ \A i \in 1..n : f[i] = G[i][f[i - 1]]

\* A function of the numbers up to n can be defined by its first value and the
\* step from one value to the next.
LEMMA Recursion ==
    ASSUME NEW n \in Nat, NEW V, NEW a \in V, NEW G \in [1..n -> [V -> V]]
    PROVE  \E f : Iterates(f, n, V, a, G)
<1> DEFINE Upto(f, m) == f \in [0..n -> V] /\ f[0] = a
                         /\ \A i \in 1..n : i <= m => f[i] = G[i][f[i - 1]]
           Done == {m \in Nat : \E f : Upto(f, m)}
<1>1. 0 \in Done
  <2> DEFINE f == [i \in 0..n |-> a]
  <2>1. Upto(f, 0)
    OBVIOUS
  <2> HIDE DEF Upto
  <2> QED BY <2>1
<1>2. ASSUME NEW m \in Done PROVE m + 1 \in Done
  <2>1. PICK f : Upto(f, m)
    OBVIOUS
  <2>2. CASE m + 1 > n
    <3>1. Upto(f, m + 1)
      BY <2>1, <2>2
    <3> HIDE DEF Upto
    <3> QED BY <3>1
  <2>3. CASE ~(m + 1 > n)
    <3>1. m \in 0..n /\ m + 1 \in 1..n /\ m + 1 # 0
      BY <2>3
    <3> DEFINE e == G[m + 1][f[m]]
               g == [f EXCEPT ![m + 1] = e]
    <3>2. e \in V
      BY <2>1, <3>1
    <3> HIDE DEF e
    <3>3. g \in [0..n -> V] /\ g[0] = a
      BY <2>1, <3>1, <3>2
    <3>4. ASSUME NEW i \in 1..n, i <= m + 1 PROVE g[i] = G[i][g[i - 1]]
      <4>1. i - 1 \in 0..n /\ i - 1 # m + 1 /\ g[i - 1] = f[i - 1]
        BY <2>1, <3>4
      <4>2. CASE i = m + 1
        BY <2>1, <4>1, <4>2 DEF e
      <4>3. CASE i # m + 1
        <5>1. g[i] = f[i] /\ i <= m
          BY <2>1, <3>4, <4>3
        <5> QED BY <2>1, <4>1, <5>1
      <4> QED BY <4>2, <4>3
    <3> HIDE DEF g
    <3>5. Upto(g, m + 1)
      BY <3>3, <3>4
    <3> HIDE DEF Upto
    <3> QED BY <3>5
  <2> QED BY <2>2, <2>3
<1>3. n \in Done
  <2> HIDE DEF Done
  <2>1. Done \in SUBSET Nat
    BY DEF Done
  <2> QED BY <1>1, <1>2, <2>1, Induction
<1>4. PICK f : Upto(f, n)
  BY <1>3
<1>5. \A i \in 1..n : i <= n
  OBVIOUS
<1> QED BY <1>4, <1>5 DEF Iterates

\* The base, and the value of a digit.
LEMMA DigitsAre ==
    /\ Base \in Nat /\ Base > 1
    /\ \A ch : IsDigit(ch) => DigitValue(ch) \in 0..Base - 1 /\ Digits[DigitValue(ch) + 1] = ch
    /\ \A d \in 1..Base : IsDigit(Digits[d]) /\ DigitValue(Digits[d]) = d - 1
<1>1. Base \in Nat /\ Base > 1 /\ DOMAIN Digits = 1..Base
  BY ProtocolAssumption, LenProperties DEF Base
<1>2. ASSUME NEW ch, IsDigit(ch)
      PROVE  DigitValue(ch) \in 0..Base - 1 /\ Digits[DigitValue(ch) + 1] = ch
  <2> DEFINE e == CHOOSE d \in 1..Base : Digits[d] = ch
  <2>1. e \in 1..Base /\ Digits[e] = ch
    BY <1>2 DEF IsDigit
  <2>2. DigitValue(ch) = e - 1
    BY DEF DigitValue
  <2> HIDE DEF e
  <2> QED BY <1>1, <2>1, <2>2
<1>3. ASSUME NEW d \in 1..Base PROVE IsDigit(Digits[d]) /\ DigitValue(Digits[d]) = d - 1
  <2>1. IsDigit(Digits[d])
    BY DEF IsDigit
  <2>2. DigitValue(Digits[d]) + 1 \in 1..Base /\ Digits[DigitValue(Digits[d]) + 1] = Digits[d]
    BY <1>1, <1>2, <2>1
  <2>3. DigitValue(Digits[d]) + 1 = d
    BY <1>1, <2>2, ProtocolAssumption
  <2> QED BY <1>1, <1>2, <2>1, <2>3
<1> QED BY <1>1, <1>2, <1>3

\* Places by their recursion.
LEMMA PlaceIs ==
    /\ Place(0) = 1
    /\ \A n \in Nat : Place(n) \in Nat \ {0} /\ Place(n + 1) = Base * Place(n)
<1> DEFINE Powers(f, n) == f = [m \in 0..n |-> IF m = 0 THEN 1 ELSE Base * f[m - 1]]
<1>1. ASSUME NEW n \in Nat
      PROVE  \E f : Powers(f, n) /\ f \in [0..n -> Nat] /\ f[n] = Place(n)
  <2> DEFINE G == [i \in 1..n |-> [v \in Nat |-> Base * v]]
  <2>1. G \in [1..n -> [Nat -> Nat]]
    BY DigitsAre
  <2>2. \A i \in 1..n, v \in Nat : G[i][v] = Base * v
    OBVIOUS
  <2> HIDE DEF G
  <2>3. PICK f \in [0..n -> Nat] : f[0] = 1 /\ \A i \in 1..n : f[i] = G[i][f[i - 1]]
    <3>1. 1 \in Nat
      OBVIOUS
    <3>2. \E f : Iterates(f, n, Nat, 1, G)
      BY <2>1, <3>1, Recursion, Zenon
    <3> QED BY <3>2 DEF Iterates
  <2>4. \A m \in 0..n : f[m] = IF m = 0 THEN 1 ELSE Base * f[m - 1]
    BY <2>2, <2>3
  <2>5. Powers(f, n)
    BY <2>4
  <2>6. ASSUME NEW g, Powers(g, n) PROVE \A m \in 0..n : g[m] \in Nat
    <3> DEFINE Good == {m \in Nat : m <= n => g[m] \in Nat}
    <3>1. \A m \in 0..n : g[m] = IF m = 0 THEN 1 ELSE Base * g[m - 1]
      BY <2>6
    <3> HIDE DEF Powers
    <3>2. 0 \in Good
      BY <3>1
    <3>3. ASSUME NEW m \in Good PROVE m + 1 \in Good
      <4> SUFFICES ASSUME m + 1 <= n PROVE g[m + 1] \in Nat
        OBVIOUS
      <4> DEFINE v == g[m]
      <4>1. v \in Nat /\ g[m + 1] = Base * v
        BY <3>1
      <4> HIDE DEF v
      <4> QED BY <4>1, DigitsAre
    <3>4. Good = Nat
      <4> HIDE DEF Good
      <4>1. Good \in SUBSET Nat
        BY DEF Good
      <4> QED BY <3>2, <3>3, <4>1, Induction
    <3> QED BY <3>4
  <2> DEFINE h == CHOOSE g : Powers(g, n)
  <2>7. Powers(h, n)
    BY <2>5, Zenon
  <2>8. Place(n) = h[n]
    BY Zenon DEF Place
  <2>9. \A m \in 0..n : h[m] \in Nat
    <3> HIDE DEF h, Powers
    <3> QED BY <2>6, <2>7
  <2>10. h \in [0..n -> Nat]
    <3> HIDE DEF h
    <3> QED BY <2>7, <2>9
  <2> QED BY <2>7, <2>8, <2>10
<1>2. ASSUME NEW n \in Nat, NEW k \in Nat, NEW f, NEW g, Powers(f, n), Powers(g, k), n <= k
      PROVE  f[n] = g[n]
  <2> DEFINE Good == {m \in Nat : m <= n => f[m] = g[m]}
  <2>1. /\ \A m \in 0..n : f[m] = IF m = 0 THEN 1 ELSE Base * f[m - 1]
        /\ \A m \in 0..k : g[m] = IF m = 0 THEN 1 ELSE Base * g[m - 1]
    BY <1>2
  <2> HIDE DEF Powers
  <2>2. 0 \in Good
    BY <1>2, <2>1
  <2>3. ASSUME NEW m \in Good PROVE m + 1 \in Good
    BY <1>2, <2>1
  <2>4. Good = Nat
    <3> HIDE DEF Good
    <3>1. Good \in SUBSET Nat
      BY DEF Good
    <3> QED BY <2>2, <2>3, <3>1, Induction
  <2> QED BY <2>4
<1>3. Place(0) = 1
  <2>1. PICK f : Powers(f, 0) /\ f[0] = Place(0)
    BY <1>1
  <2>2. f[0] = 1
    BY <2>1
  <2> QED BY <2>1, <2>2
<1>4. ASSUME NEW n \in Nat PROVE Place(n + 1) = Base * Place(n) /\ Place(n) \in Nat
  <2>1. PICK f : Powers(f, n) /\ f \in [0..n -> Nat] /\ f[n] = Place(n)
    BY <1>1
  <2>2. PICK g : Powers(g, n + 1) /\ g[n + 1] = Place(n + 1)
    <3>1. n + 1 \in Nat
      OBVIOUS
    <3> QED BY <1>1, <3>1, Zenon
  <2>3. g[n + 1] = Base * g[n]
    BY <2>2
  <2> HIDE DEF Powers
  <2>4. f[n] = g[n]
    BY <1>2, <2>1, <2>2
  <2> QED BY <2>1, <2>2, <2>3, <2>4
<1>5. \A n \in Nat : Place(n) \in Nat \ {0}
  <2> DEFINE Good == {m \in Nat : Place(m) # 0}
  <2>1. 0 \in Good
    BY <1>3
  <2>2. ASSUME NEW m \in Good PROVE m + 1 \in Good
    <3> DEFINE p == Place(m)
               q == Place(m + 1)
    <3>1. p \in Nat /\ p # 0 /\ q = Base * p
      BY <1>4
    <3> HIDE DEF p, q
    <3>2. q # 0
      BY <3>1, DigitsAre
    <3> QED BY <3>2 DEF q
  <2>3. Good = Nat
    <3> HIDE DEF Good
    <3>1. Good \in SUBSET Nat
      BY DEF Good
    <3> QED BY <2>1, <2>2, <3>1, Induction
  <2> QED BY <1>4, <2>3
<1> QED BY <1>3, <1>4, <1>5

\* A word of digits denotes what one gets by reading it from the left: each
\* digit multiplies what is there by the base.
LEMMA DenotedIs ==
    ASSUME NEW S, NEW word \in Seq(S), \A i \in 1..Len(word) : IsDigit(word[i])
    PROVE  \E h : /\ h \in [0..Len(word) -> Nat] /\ h[0] = 0 /\ Denoted(word) = h[Len(word)]
                  /\ \A i \in 1..Len(word) : h[i] = (h[i - 1] * Base) + DigitValue(word[i])
<1> DEFINE n == Len(word)
           d == [i \in 1..n |-> DigitValue(word[i])]
           p == [i \in 0..n |-> Place(n - i)]
           Sums(g) == g = [i \in 0..n |-> IF i = 0 THEN 0
                                          ELSE g[i - 1] + DigitValue(word[i]) * Place(n - i)]
           s == CHOOSE g : Sums(g)
<1>1. n \in Nat
  BY LenProperties
<1>2. d \in [1..n -> Nat]
  <2>1. \A i \in 1..n : DigitValue(word[i]) \in Nat
    BY DigitsAre
  <2> QED BY <2>1
<1>3. /\ p \in [0..n -> Nat] /\ p[n] = 1
      /\ \A i \in 1..n : p[i - 1] = Base * p[i]
  <2>1. \A i \in 0..n : n - i \in Nat /\ Place(n - i) \in Nat
    <3>1. \A m \in Nat : Place(m) \in Nat
      BY PlaceIs
    <3> QED BY <1>1, <3>1
  <2>2. p \in [0..n -> Nat]
    BY <2>1
  <2>3. n - n = 0 /\ n \in 0..n
    BY <1>1
  <2>4. ASSUME NEW i \in 1..n PROVE p[i - 1] = Base * p[i]
    <3>1. n - i \in Nat /\ n - (i - 1) = (n - i) + 1 /\ i - 1 \in 0..n /\ i \in 0..n
      BY <1>1
    <3>2. Place((n - i) + 1) = Base * Place(n - i)
      BY <3>1, PlaceIs
    <3> QED BY <3>1, <3>2
  <2> QED BY <2>2, <2>3, <2>4, PlaceIs
<1>4. \A i \in 1..n : d[i] = DigitValue(word[i]) /\ p[i] = Place(n - i)
  OBVIOUS
<1>5. Denoted(word) = s[n]
  BY Zenon DEF Denoted
<1> HIDE DEF d, p
<1>6. ASSUME NEW i \in 1..n, NEW v \in Nat
      PROVE  v + (d[i] * p[i]) \in Nat /\ (v * Base) + d[i] \in Nat
  <2> DEFINE x == d[i]
             y == p[i]
  <2>1. x \in Nat /\ y \in Nat /\ v \in Nat /\ Base \in Nat
    <3>1. i \in 0..n
      BY <1>1
    <3>2. y \in Nat
      BY <1>3, <3>1
    <3>3. Base \in Nat
      BY DigitsAre
    <3> QED BY <1>2, <3>2, <3>3
  <2> HIDE DEF x, y
  <2>2. x * y \in Nat /\ v * Base \in Nat
    BY <2>1
  <2>3. v + (x * y) \in Nat /\ (v * Base) + x \in Nat
    BY <2>1, <2>2
  <2> QED BY <2>3 DEF x, y
<1>7. PICK g : Iterates(g, n, Nat, 0, [i \in 1..n |-> [v \in Nat |-> v + (d[i] * p[i])]])
  <2> DEFINE G == [i \in 1..n |-> [v \in Nat |-> v + (d[i] * p[i])]]
  <2>1. G \in [1..n -> [Nat -> Nat]] /\ 0 \in Nat
    BY <1>6
  <2> HIDE DEF G
  <2>2. \E u : Iterates(u, n, Nat, 0, G)
    BY <1>1, <2>1, Recursion, Zenon
  <2> QED BY <2>2 DEF G
<1>8. PICK h : Iterates(h, n, Nat, 0, [i \in 1..n |-> [v \in Nat |-> (v * Base) + d[i]]])
  <2> DEFINE G == [i \in 1..n |-> [v \in Nat |-> (v * Base) + d[i]]]
  <2>1. G \in [1..n -> [Nat -> Nat]] /\ 0 \in Nat
    BY <1>6
  <2> HIDE DEF G
  <2>2. \E u : Iterates(u, n, Nat, 0, G)
    BY <1>1, <2>1, Recursion, Zenon
  <2> QED BY <2>2 DEF G
<1>9. /\ h \in [0..n -> Nat] /\ h[0] = 0
      /\ \A i \in 1..n : h[i] = (h[i - 1] * Base) + d[i]
  <2>1. \A i \in 1..n : h[i - 1] \in Nat
    BY <1>8 DEF Iterates
  <2> QED BY <1>8, <2>1 DEF Iterates
<1>10. Sums(s)
  <2>1. /\ g \in [0..n -> Nat] /\ g[0] = 0
        /\ \A i \in 1..n : g[i] = g[i - 1] + (d[i] * p[i])
    <3>1. \A i \in 1..n : g[i - 1] \in Nat
      BY <1>7 DEF Iterates
    <3> QED BY <1>7, <3>1 DEF Iterates
  <2>2. \A i \in 0..n : g[i] = IF i = 0 THEN 0
                               ELSE g[i - 1] + DigitValue(word[i]) * Place(n - i)
    BY <1>4, <2>1
  <2>3. Sums(g)
    BY <2>1, <2>2
  <2> HIDE DEF Sums
  <2> QED BY <2>3, Zenon
<1> HIDE DEF s
<1>11. s[0] = 0 /\ \A i \in 1..n : s[i] = s[i - 1] + (d[i] * p[i])
  BY <1>1, <1>4, <1>10
<1> HIDE DEF Sums
<1>12. s[n] = h[n]
  <2> DEFINE Good == {m \in Nat : m <= n => s[m] = h[m] * p[m]}
  <2>1. 0 \in Good
    <3>1. 0 \in 0..n
      BY <1>1
    <3>2. p[0] \in Nat
      BY <1>3, <3>1
    <3> QED BY <1>9, <1>11, <3>2
  <2>2. ASSUME NEW m \in Good PROVE m + 1 \in Good
    <3> SUFFICES ASSUME m + 1 <= n PROVE s[m + 1] = h[m + 1] * p[m + 1]
      OBVIOUS
    <3> DEFINE x == h[m]
               y == p[m + 1]
               z == d[m + 1]
               k == m + 1
    <3>1. k \in 1..n /\ m \in 0..n /\ k - 1 = m
      OBVIOUS
    <3>2. s[m] = x * p[m]
      BY <3>1
    <3>3. /\ s[k] = s[m] + (z * y) /\ h[k] = (x * Base) + z /\ p[m] = Base * y
      BY <1>3, <1>9, <1>11, <3>1
    <3>4. x \in Nat /\ y \in Nat /\ z \in Nat /\ Base \in Nat
      <4>1. h \in [0..n -> Nat] /\ p \in [0..n -> Nat] /\ Base \in Nat
        BY <1>3, <1>9, DigitsAre
      <4>2. k \in 0..n
        BY <3>1
      <4> QED BY <1>2, <3>1, <4>1, <4>2
    <3> HIDE DEF x, y, z, k
    <3>5. x * (Base * y) = (x * Base) * y
      BY <3>4
    <3>6. ((x * Base) + z) * y = ((x * Base) * y) + (z * y)
      BY <3>4
    <3>7. s[k] = h[k] * y
      BY <3>2, <3>3, <3>5, <3>6
    <3> QED BY <3>7 DEF y, k
  <2>3. Good = Nat
    <3> HIDE DEF Good
    <3>1. Good \in SUBSET Nat
      BY DEF Good
    <3> QED BY <2>1, <2>2, <3>1, Induction
  <2>4. s[n] = h[n] * p[n] /\ h[n] \in Nat
    BY <1>1, <1>9, <2>3
  <2> QED BY <1>3, <2>4
<1> QED BY <1>4, <1>5, <1>9, <1>12 DEF d

\* One more digit, while the number stays within its limit.
LEMMA NextDigitRead ==
    ASSUME NEW limit \in Nat, NEW value \in 0..limit, NEW ch, IsDigit(ch)
    PROVE  NextDigit(value, ch, limit) =
             IF (value * Base) + DigitValue(ch) <= limit
             THEN (value * Base) + DigitValue(ch) ELSE NotANumber
<1> DEFINE q == limit \div Base
           r == limit % Base
           d == DigitValue(ch)
           b == Base
<1>1. b \in Nat /\ b > 1 /\ d \in 0..b - 1
  BY DigitsAre
<1>2. q \in Nat /\ r \in 0..b - 1 /\ limit = (b * q) + r
  BY <1>1
<1>3. NextDigit(value, ch, limit) =
        IF value > q \/ (value = q /\ d > r) THEN NotANumber ELSE (value * b) + d
  BY <1>1 DEF NextDigit, NotANumber
<1> HIDE DEF q, r, d, b
<1>4. CASE value > q
  <2>1. value >= q + 1
    BY <1>2, <1>4
  <2>2. b * value >= b * (q + 1)
    BY <1>1, <1>2, <2>1
  <2>3. b * (q + 1) = (b * q) + b /\ b * value = value * b /\ b * q \in Nat /\ value * b \in Nat
    BY <1>1, <1>2
  <2>4. (value * b) + d > limit
    BY <1>1, <1>2, <2>2, <2>3
  <2> QED BY <1>1, <1>3, <1>4, <2>3, <2>4 DEF d, b
<1>5. CASE value = q
  <2>1. b * q = value * b /\ b * q \in Nat
    BY <1>1, <1>2, <1>5
  <2>2. (value * b) + d <= limit <=> ~(d > r)
    BY <1>1, <1>2, <2>1
  <2> QED BY <1>2, <1>3, <1>5, <2>2 DEF d, b
<1>6. CASE value < q
  <2>1. value + 1 <= q
    BY <1>2, <1>6
  <2>2. b * (value + 1) <= b * q
    BY <1>1, <1>2, <2>1
  <2>3. b * (value + 1) = (value * b) + b /\ b * q \in Nat /\ value * b \in Nat
    BY <1>1, <1>2
  <2>4. (value * b) + d <= limit
    BY <1>1, <1>2, <2>2, <2>3
  <2> QED BY <1>2, <1>3, <1>6, <2>4 DEF d, b
<1> QED BY <1>2, <1>4, <1>5, <1>6

\* proto_parse_uint reads exactly the numbers within the limit, as what they
\* denote.
LEMMA NumberRead ==
    ASSUME NEW S, NEW word \in Seq(S), NEW limit \in Nat
    PROVE  /\ ParseUint(word, limit) \in Nat <=> Number(word, limit)
           /\ Number(word, limit) => ParseUint(word, limit) = Denoted(word)
<1> DEFINE n == Len(word)
           f == CHOOSE g : Read(word, limit, g, n)
<1>1. n \in Nat /\ DOMAIN word = 1..n
  BY LenProperties
<1>2. Read(word, limit, f, n)
  BY <1>1, ReadDefined, Zenon
<1>3. ParseUint(word, limit) = f[n]
  BY Zenon DEF ParseUint, Read
<1> HIDE DEF f
<1>4. f[0] = 0 /\ \A i \in 1..n : f[i] = NextDigit(f[i - 1], word[i], limit)
  BY <1>1, <1>2 DEF Read
<1>5. NotANumber \notin Nat
  BY DEF NotANumber
<1>6. CASE \E i \in 1..n : ~IsDigit(word[i])
  <2>1. PICK i \in 1..n : ~IsDigit(word[i])
    BY <1>6
  <2> DEFINE Good == {m \in Nat : m >= i /\ m <= n => f[m] = NotANumber}
  <2>2. 0 \in Good
    BY <2>1
  <2>3. ASSUME NEW m \in Good PROVE m + 1 \in Good
    <3> SUFFICES ASSUME m + 1 >= i, m + 1 <= n PROVE f[m + 1] = NotANumber
      OBVIOUS
    <3>1. m + 1 \in 1..n /\ f[m + 1] = NextDigit(f[m], word[m + 1], limit)
      BY <1>1, <1>4
    <3>2. CASE m + 1 = i
      BY <2>1, <3>1, <3>2 DEF NextDigit
    <3>3. CASE m + 1 # i
      <4>1. f[m] = NotANumber
        BY <1>1, <2>1, <3>3
      <4> QED BY <3>1, <4>1 DEF NextDigit
    <3> QED BY <3>2, <3>3
  <2>4. Good = Nat
    <3> HIDE DEF Good
    <3>1. Good \in SUBSET Nat
      BY DEF Good
    <3> QED BY <2>2, <2>3, <3>1, Induction
  <2>5. f[n] = NotANumber
    BY <1>1, <2>1, <2>4
  <2>6. ~Number(word, limit)
    BY <1>1, <2>1 DEF Number
  <2> QED BY <1>3, <1>5, <2>5, <2>6
<1>7. CASE \A i \in 1..n : IsDigit(word[i])
  <2>1. PICK h : /\ h \in [0..n -> Nat] /\ h[0] = 0 /\ Denoted(word) = h[n]
                 /\ \A i \in 1..n : h[i] = (h[i - 1] * Base) + DigitValue(word[i])
    BY <1>7, DenotedIs
  <2> DEFINE Good == {m \in Nat : m <= n => f[m] = IF h[m] <= limit THEN h[m] ELSE NotANumber}
  <2>2. 0 \in Good
    BY <1>4, <2>1
  <2>3. ASSUME NEW m \in Good PROVE m + 1 \in Good
    <3> SUFFICES ASSUME m + 1 <= n
                 PROVE  f[m + 1] = IF h[m + 1] <= limit THEN h[m + 1] ELSE NotANumber
      OBVIOUS
    <3> DEFINE k == m + 1
               x == h[m]
               d == DigitValue(word[k])
    <3>1. k \in 1..n /\ k - 1 = m /\ m \in 0..n
      BY <1>1
    <3>2. /\ f[k] = NextDigit(f[m], word[k], limit) /\ h[k] = (x * Base) + d
          /\ x \in Nat /\ IsDigit(word[k])
      BY <1>4, <1>7, <2>1, <3>1
    <3>3. f[m] = IF x <= limit THEN x ELSE NotANumber
      BY <3>1
    <3>4. d \in Nat /\ Base \in Nat /\ Base > 1
      BY <3>2, DigitsAre
    <3>5. CASE x <= limit
      <4>1. x \in 0..limit
        BY <3>2, <3>5
      <4>2. NextDigit(x, word[k], limit) = IF (x * Base) + d <= limit THEN (x * Base) + d ELSE NotANumber
        BY <3>2, <4>1, NextDigitRead
      <4> HIDE DEF x, d, k
      <4>3. f[k] = IF h[k] <= limit THEN h[k] ELSE NotANumber
        BY <3>2, <3>3, <3>5, <4>2
      <4> QED BY <4>3 DEF k
    <3>6. CASE ~(x <= limit)
      <4>1. f[k] = NotANumber
        BY <3>2, <3>3, <3>6 DEF NextDigit
      <4> HIDE DEF x, d, k
      <4>2. x * Base >= x
        BY <3>2, <3>4
      <4>3. x * Base \in Nat
        BY <3>2, <3>4
      <4>4. ~(h[k] <= limit)
        BY <3>2, <3>4, <3>6, <4>2, <4>3
      <4> QED BY <4>1, <4>4 DEF k
    <3> QED BY <3>5, <3>6
  <2>4. Good = Nat
    <3> HIDE DEF Good
    <3>1. Good \in SUBSET Nat
      BY DEF Good
    <3> QED BY <2>2, <2>3, <3>1, Induction
  <2>5. f[n] = IF h[n] <= limit THEN h[n] ELSE NotANumber
    BY <1>1, <2>4
  <2>6. h[n] \in Nat
    BY <1>1, <2>1
  <2>7. Number(word, limit) <=> h[n] <= limit
    BY <1>1, <1>7, <2>1 DEF Number
  <2> QED BY <1>3, <1>5, <2>1, <2>5, <2>6, <2>7
<1> QED BY <1>6, <1>7

-----------------------------------------------------------------------------
(***************************************************************************)
(* The request lines.                                                      *)
(*                                                                         *)
(* The parser accepts a header if and only if it is a legal line, and takes *)
(* from it the numbers its words denote.                                   *)
(***************************************************************************)

\* The word noreply is not a number.
LEMMA NoreplyIsNoNumber ==
    ASSUME NEW limit
    PROVE  ~Number(<<"noreply">>, limit)
<1>1. ~IsDigit("noreply")
  <2>1. DOMAIN Digits = 1..Base
    BY ProtocolAssumption, LenProperties DEF Base
  <2> QED BY <2>1, ProtocolAssumption DEF IsDigit
<1>2. 1 \in DOMAIN <<"noreply">> /\ <<"noreply">>[1] = "noreply"
  OBVIOUS
<1> QED BY <1>1, <1>2, Zenon DEF Number

\* A key that proto_parse_key takes.
LEMMA KeyIsValid ==
    ASSUME NEW S, NEW key \in Seq(S)
    PROVE  KeyError(key) = "OK" <=> ValidKey(key)
<1>1. Len(key) \in Nat /\ MaxKey \in Nat
  BY LenProperties, ProtocolAssumption
<1> QED BY <1>1 DEF KeyError, ValidKey

\* The last word of a line is noreply.
SaysNoreply(words) == words[Len(words)] = <<"noreply">>

\* Legal request lines, command by command.
LegalFor(type, words) ==
    \/ /\ type = "set"
       /\ (Len(words) = 5 /\ ~SaysNoreply(words)) \/ (Len(words) = 6 /\ SaysNoreply(words))
       /\ ValidKey(words[2])
       /\ Number(words[3], UintMax) /\ Number(words[4], UintMax) /\ Number(words[5], SizeMax)
    \/ /\ type = "touch"
       /\ (Len(words) = 3 /\ ~SaysNoreply(words)) \/ (Len(words) = 4 /\ SaysNoreply(words))
       /\ ValidKey(words[2]) /\ Number(words[3], UintMax)
    \/ /\ type = "delete"
       /\ Len(words) = 2 \/ (Len(words) = 3 /\ SaysNoreply(words))
       /\ ValidKey(words[2])
    \/ type \in {"version", "quit"} /\ Len(words) = 1

\* A line is legal if it is a get of valid keys or what its command allows.
LEMMA LegalLineIs ==
    ASSUME NEW T, NEW words \in Seq(T), words # <<>>
    PROVE  LegalLine(words) <=>
             \/ /\ words[1] = <<"get">> /\ Len(words) > 1
                /\ \A n \in 2..Len(words) : ValidKey(words[n])
             \/ \E type \in DOMAIN Arity : words[1] = <<type>> /\ LegalFor(type, words)
<1> DEFINE m == Len(words)
           w == IF Last(words) = <<"noreply">> /\ m > 2 THEN Front(words) ELSE words
           get == /\ words[1] = <<"get">> /\ m > 1
                  /\ \A n \in 2..m : ValidKey(words[n])
           rest == \/ /\ w[1] = <<"set">> /\ Len(w) = 5
                      /\ ValidKey(w[2]) /\ Number(w[3], UintMax) /\ Number(w[4], UintMax)
                      /\ Number(w[5], SizeMax)
                   \/ w[1] = <<"touch">> /\ Len(w) = 3 /\ ValidKey(w[2]) /\ Number(w[3], UintMax)
                   \/ w[1] = <<"delete">> /\ Len(w) = 2 /\ ValidKey(w[2])
                   \/ words \in {<< <<"version">> >>, << <<"quit">> >>}
<1>1. m \in Nat /\ m > 0
  BY LenProperties, EmptySeq
<1>2. LegalLine(words) <=> get \/ rest
  BY Zenon DEF LegalLine
<1>3. CASE SaysNoreply(words) /\ m > 2
  <2>1. w = SubSeq(words, 1, m - 1)
    BY <1>3 DEF SaysNoreply, Last, Front
  <2> DEFINE v == SubSeq(words, 1, m - 1)
  <2>2. Len(v) = m - 1 /\ \A i \in 1..m - 1 : v[i] = words[i]
    <3>1. \A i \in 1..m - 1 : words[i] \in T
      BY <1>1, ElementOfSeq
    <3>2. 1 \in Int /\ m - 1 \in Int
      BY <1>1
    <3>3. /\ Len(v) = IF 1 <= m - 1 THEN m - 1 - 1 + 1 ELSE 0
          /\ \A i \in 1..m - 1 - 1 + 1 : v[i] = words[1 + i - 1]
      BY <3>1, <3>2, SubSeqProperties
    <3> HIDE DEF v
    <3> QED BY <1>1, <1>3, <3>3
  <2> HIDE DEF v
  <2>3. w = v
    BY <2>1 DEF v
  <2> HIDE DEF w
  <2>4. w[1] = words[1] /\ Len(w) = m - 1 /\ \A i \in 1..m - 1 : w[i] = words[i]
    BY <1>3, <2>2, <2>3
  <2>5. words \notin {<< <<"version">> >>, << <<"quit">> >>}
    <3>1. \A x : Len(<<x>>) # m
      <4>1. \A x : Len(<<x>>) = 1
        OBVIOUS
      <4>2. 1 # m
        <5> HIDE DEF m
        <5> QED BY <1>3
      <4> QED BY <4>1, <4>2, Zenon
    <3> QED BY <3>1, Zenon DEF m
  <2>6. rest <=> \E type \in DOMAIN Arity : words[1] = <<type>> /\ LegalFor(type, words)
    BY <1>1, <1>3, <2>4, <2>5 DEF LegalFor, Arity
  <2> QED BY <1>2, <2>6
<1>4. CASE ~(SaysNoreply(words) /\ m > 2)
  <2>1. w = words
    BY <1>4 DEF SaysNoreply, Last
  <2> HIDE DEF w
  <2>2. words \in {<< <<"version">> >>, << <<"quit">> >>}
          <=> m = 1 /\ (words[1] = <<"version">> \/ words[1] = <<"quit">>)
    OBVIOUS
  <2>3. rest <=> \E type \in DOMAIN Arity : words[1] = <<type>> /\ LegalFor(type, words)
    BY <1>1, <1>4, <2>1, <2>2 DEF LegalFor, Arity
  <2> QED BY <1>2, <2>3
<1> QED BY <1>3, <1>4

\* The parser of a header that names a command takes what is legal for it.
LEMMA CommandLegal ==
    ASSUME NEW words, NEW m \in Nat, m > 0, Len(words) = m, NEW t \in DOMAIN Arity,
           \A i \in 1..m, limit \in Nat :
               ParseUint(words[i], limit) \in Nat <=> Number(words[i], limit)
    PROVE  /\ m <= MaxTokens /\ ArityError(words, t) = "OK"
           /\ m = 1 \/ (ValidKey(words[2]) /\ FieldError(words, t) = "OK")
           <=> LegalFor(t, words)
<1>1. ArityError(words, t) = "OK" <=>
        m = Arity[t] \/ (t \in TakesNoreply /\ m = Arity[t] + 1 /\ SaysNoreply(words))
  BY DEF ArityError, SaysNoreply, Last
<1>2. \A limit : words[m] = <<"noreply">> => ~Number(words[m], limit)
  BY NoreplyIsNoNumber
<1>3. UintMax \in Nat /\ SizeMax \in Nat /\ MaxTokens \in Nat /\ MaxTokens >= 6
  BY ProtocolAssumption
<1>4. CASE t = "set"
  <2>1. ArityError(words, t) = "OK" <=> m = 5 \/ (m = 6 /\ SaysNoreply(words))
    BY <1>1, <1>4 DEF Arity, TakesNoreply
  <2>2. CASE m = 5 \/ m = 6
    <3>1. FieldError(words, t) = "OK" <=>
            Number(words[3], UintMax) /\ Number(words[4], UintMax) /\ Number(words[5], SizeMax)
      <4>1. 3 \in 1..m /\ 4 \in 1..m /\ 5 \in 1..m
        BY <2>2
      <4> QED BY <1>3, <1>4, <4>1 DEF FieldError
    <3>2. m = 5 /\ Number(words[5], SizeMax) => ~SaysNoreply(words)
      BY <1>2 DEF SaysNoreply
    <3> QED BY <1>3, <1>4, <2>1, <2>2, <3>1, <3>2 DEF LegalFor
  <2>3. CASE ~(m = 5 \/ m = 6)
    BY <1>4, <2>1, <2>3 DEF LegalFor
  <2> QED BY <2>2, <2>3
<1>5. CASE t = "touch"
  <2>1. ArityError(words, t) = "OK" <=> m = 3 \/ (m = 4 /\ SaysNoreply(words))
    BY <1>1, <1>5 DEF Arity, TakesNoreply
  <2>2. CASE m = 3 \/ m = 4
    <3>1. FieldError(words, t) = "OK" <=> Number(words[3], UintMax)
      <4>1. 3 \in 1..m
        BY <2>2
      <4> QED BY <1>3, <1>5, <4>1 DEF FieldError
    <3>2. m = 3 /\ Number(words[3], UintMax) => ~SaysNoreply(words)
      BY <1>2 DEF SaysNoreply
    <3> QED BY <1>3, <1>5, <2>1, <2>2, <3>1, <3>2 DEF LegalFor
  <2>3. CASE ~(m = 3 \/ m = 4)
    BY <1>5, <2>1, <2>3 DEF LegalFor
  <2> QED BY <2>2, <2>3
<1>6. CASE t = "delete"
  <2>1. ArityError(words, t) = "OK" <=> m = 2 \/ (m = 3 /\ SaysNoreply(words))
    BY <1>1, <1>6 DEF Arity, TakesNoreply
  <2>2. FieldError(words, t) = "OK"
    BY <1>6 DEF FieldError
  <2> QED BY <1>3, <1>6, <2>1, <2>2 DEF LegalFor
<1>7. CASE t \in {"version", "quit"}
  <2>1. ArityError(words, t) = "OK" <=> m = 1
    BY <1>1, <1>7 DEF Arity, TakesNoreply
  <2> QED BY <1>3, <1>7, <2>1 DEF LegalFor
<1> QED BY <1>4, <1>5, <1>6, <1>7 DEF Arity

\* A word of one character.
LEMMA OneCharacter ==
    ASSUME NEW S, NEW word \in Seq(S), Len(word) = 1
    PROVE  word = <<word[1]>>
<1>1. word[1] \in S
  BY ElementOfSeq
<1> DEFINE c == word[1]
<1> HIDE DEF c
<1>2. <<c>> \in Seq(S) /\ Len(<<c>>) = 1 /\ <<c>>[1] = c
  BY <1>1 DEF c
<1>3. \A i \in 1..Len(word) : word[i] = <<c>>[i]
  BY <1>2 DEF c
<1> QED BY <1>2, <1>3, SeqEqual DEF c

\* The header parser takes exactly the legal lines.
LEMMA HeaderLegal ==
    ASSUME NEW S, NEW words \in Seq(Seq(S)), words # <<>>
    PROVE  HeaderError(words) = "OK" <=> LegalLine(words)
<1> DEFINE m == Len(words)
           t == words[1][1]
           get == /\ words[1] = <<"get">> /\ m > 1
                  /\ \A n \in 2..m : ValidKey(words[n])
<1>1. m \in Nat /\ m > 0
  BY LenProperties, EmptySeq
<1>2. LegalLine(words) <=>
             \/ get
             \/ \E type \in DOMAIN Arity : words[1] = <<type>> /\ LegalFor(type, words)
  BY LegalLineIs
<1>3. \A i \in 1..m : words[i] \in Seq(S)
  BY ElementOfSeq
<1>4. \A i \in 1..m : KeyError(words[i]) = "OK" <=> ValidKey(words[i])
  BY <1>3, KeyIsValid
<1>5. CASE words[1] = <<"get">>
  <2> DEFINE wrong == {n \in 2..m : KeyError(words[n]) # "OK"}
  <2>1. HeaderError(words) = IF m = 1 THEN "INVALID_ARGUMENTS"
                             ELSE IF wrong = {} THEN "OK" ELSE KeyError(words[Min(wrong)])
    BY <1>5 DEF HeaderError, GetError
  <2>2. wrong # {} => Min(wrong) \in wrong
    <3>1. wrong \in SUBSET Nat
      OBVIOUS
    <3> HIDE DEF wrong
    <3> QED BY <3>1, MinIs
  <2> HIDE DEF m
  <2>3. wrong = {} <=> \A n \in 2..m : ValidKey(words[n])
    BY <1>4
  <2>4. wrong # {} => KeyError(words[Min(wrong)]) # "OK"
    BY <2>2
  <2>5. m = 1 \/ m > 1
    BY <1>1
  <2> HIDE DEF wrong
  <2>6. HeaderError(words) = "OK" <=> get
    BY <1>5, <2>1, <2>3, <2>4, <2>5
  <2>7. ~\E type \in DOMAIN Arity : words[1] = <<type>> /\ LegalFor(type, words)
    BY <1>5 DEF Arity
  <2> QED BY <1>2, <2>6, <2>7
<1>6. CASE words[1] # <<"get">>
  <2>1. HeaderError(words) = "OK" <=>
          /\ m <= MaxTokens /\ IsCommand(words[1]) /\ ArityError(words, t) = "OK"
          /\ m = 1 \/ (KeyError(words[2]) = "OK" /\ FieldError(words, t) = "OK")
    BY <1>1, <1>6, ProtocolAssumption DEF HeaderError
  <2>2. IsCommand(words[1]) <=> t \in DOMAIN Arity /\ words[1] = <<t>>
    <3>1. words[1] \in Seq(S)
      BY <1>1, <1>3
    <3>2. Len(words[1]) = 1 <=> words[1] = <<t>>
      <4>1. Len(<<t>>) = 1
        OBVIOUS
      <4> QED BY <3>1, <4>1, OneCharacter, Zenon
    <3> QED BY <3>2, Zenon DEF IsCommand
  <2>3. ASSUME t \in DOMAIN Arity, words[1] = <<t>>
        PROVE  HeaderError(words) = "OK" <=> LegalFor(t, words)
    <3>1. m = 1 \/ 2 \in 1..m
      <4> HIDE DEF m
      <4> QED BY <1>1
    <3>2. HeaderError(words) = "OK" <=>
          /\ m <= MaxTokens /\ ArityError(words, t) = "OK"
          /\ m = 1 \/ (ValidKey(words[2]) /\ FieldError(words, t) = "OK")
      BY <1>4, <2>1, <2>2, <2>3, <3>1, Zenon
    <3>3. \A i \in 1..m, limit \in Nat : ParseUint(words[i], limit) \in Nat <=> Number(words[i], limit)
      BY <1>3, NumberRead
    <3>4. /\ m <= MaxTokens /\ ArityError(words, t) = "OK"
          /\ m = 1 \/ (ValidKey(words[2]) /\ FieldError(words, t) = "OK")
          <=> LegalFor(t, words)
      BY <1>1, <2>3, <3>3, CommandLegal, Zenon
    <3> QED BY <3>2, <3>4, Zenon
  <2>4. CASE t \in DOMAIN Arity /\ words[1] = <<t>>
    <3>1. (\E type \in DOMAIN Arity : words[1] = <<type>> /\ LegalFor(type, words))
            <=> LegalFor(t, words)
      BY <2>4
    <3> QED BY <1>2, <1>6, <2>3, <2>4, <3>1
  <2>5. CASE ~(t \in DOMAIN Arity /\ words[1] = <<t>>)
    <3>1. \A type : words[1] = <<type>> => t = type
      OBVIOUS
    <3>2. ~\E type \in DOMAIN Arity : words[1] = <<type>> /\ LegalFor(type, words)
      BY <2>5, <3>1
    <3> QED BY <1>2, <1>6, <2>1, <2>2, <2>5, <3>2
  <2> QED BY <2>4, <2>5
<1> QED BY <1>5, <1>6

-----------------------------------------------------------------------------
(***************************************************************************)
(* The requests.                                                           *)
(*                                                                         *)
(* A parse that succeeds consumes a legal frame, and one that begins with a *)
(* legal frame succeeds with it; what is waited for may still become one.  *)
(***************************************************************************)

\* A slice of a sequence.
LEMMA SliceIs ==
    ASSUME NEW S, NEW b \in Seq(S), NEW m \in 1..Len(b) + 1, NEW n \in m - 1..Len(b)
    PROVE  /\ SubSeq(b, m, n) \in Seq(S) /\ Len(SubSeq(b, m, n)) = n - m + 1
           /\ \A i \in 1..n - m + 1 : SubSeq(b, m, n)[i] = b[m + i - 1]
<1> DEFINE s == SubSeq(b, m, n)
<1>1. Len(b) \in Nat /\ m \in Int /\ n \in Int /\ m \in Nat
  BY LenProperties
<1>2. \A i \in m..n : b[i] \in S
  <2>1. \A i \in m..n : i \in 1..Len(b)
    BY <1>1
  <2> QED BY <2>1, ElementOfSeq
<1>3. /\ s \in Seq(S) /\ Len(s) = IF m <= n THEN n - m + 1 ELSE 0
      /\ \A i \in 1..n - m + 1 : s[i] = b[m + i - 1]
  BY <1>1, <1>2, SubSeqProperties
<1> HIDE DEF s
<1>4. Len(s) = n - m + 1
  BY <1>1, <1>3
<1> QED BY <1>3, <1>4 DEF s

\* The first n bytes are a line that CR and LF end.
LineOf(b, n) ==
    /\ n \in Nat /\ n + 2 <= Len(b)
    /\ \A i \in 1..n : b[i] \notin {"CR", "LF"}
    /\ b[n + 1] = "CR" /\ b[n + 2] = "LF"

\* proto_find_line finds that line and no other.
LEMMA LineFound ==
    ASSUME NEW S, NEW b \in Seq(S)
    PROVE  /\ \A n : LineOf(b, n) =>
                LineError(b) = "OK" /\ FirstBreak(b) = n + 1 /\ Line(b) = SubSeq(b, 1, n)
           /\ LineError(b) = "OK" => LineOf(b, FirstBreak(b) - 1)
<1>1. Len(b) \in Nat
  BY LenProperties
<1>2. ASSUME NEW n, LineOf(b, n)
      PROVE  LineError(b) = "OK" /\ FirstBreak(b) = n + 1 /\ Line(b) = SubSeq(b, 1, n)
  <2>1. n + 1 \in Breaks(b)
    BY <1>1, <1>2 DEF LineOf, Breaks
  <2>2. FirstBreak(b) \in Breaks(b) /\ \A i \in Breaks(b) : FirstBreak(b) <= i
    BY <2>1, FirstBreakIsFirst
  <2>3. FirstBreak(b) = n + 1
    BY <1>1, <1>2, <2>1, <2>2 DEF LineOf, Breaks
  <2>4. LineError(b) = "OK"
    BY <1>1, <1>2, <2>1, <2>3 DEF LineOf, LineError
  <2>5. FirstBreak(b) - 1 = n
    BY <1>2, <2>3 DEF LineOf
  <2>6. Line(b) = SubSeq(b, 1, n)
    BY <2>5, Zenon DEF Line
  <2> QED BY <2>3, <2>4, <2>6
<1>3. ASSUME LineError(b) = "OK" PROVE LineOf(b, FirstBreak(b) - 1)
  <2> DEFINE k == FirstBreak(b)
  <2>1. Breaks(b) # {} /\ b[k] # "LF" /\ k # Len(b) /\ b[k + 1] = "LF"
    BY <1>3 DEF LineError
  <2>2. k \in 1..Len(b) /\ k \in Breaks(b) /\ \A i \in Breaks(b) : k <= i
    BY <2>1, FirstBreakIsFirst
  <2> HIDE DEF k
  <2>3. b[k] = "CR"
    BY <2>1, <2>2 DEF Breaks
  <2>4. k - 1 \in Nat /\ k - 1 + 2 <= Len(b) /\ k - 1 + 1 = k /\ k - 1 + 2 = k + 1
    BY <1>1, <2>1, <2>2
  <2>5. ASSUME NEW i \in 1..k - 1 PROVE b[i] \notin {"CR", "LF"}
    <3>1. i \in 1..Len(b) /\ ~(k <= i)
      BY <1>1, <2>2
    <3> QED BY <2>2, <3>1 DEF Breaks
  <2>6. b[k - 1 + 1] = "CR" /\ b[k - 1 + 2] = "LF"
    BY <2>1, <2>3, <2>4
  <2>7. LineOf(b, k - 1)
    BY <2>4, <2>5, <2>6, Zenon DEF LineOf
  <2> QED BY <2>7 DEF k
<1> QED BY <1>2, <1>3

\* The command of a legal line, and its numbers if it is a set.
LEMMA LegalCommand ==
    ASSUME NEW S, NEW line \in Seq(S), Words(line) # <<>>, LegalLine(Words(line))
    PROVE  /\ HeaderError(Words(line)) = "OK"
           /\ HeaderCommand(line).type = "set" <=> Words(line)[1] = <<"set">>
           /\ Words(line)[1] = <<"set">> =>
                /\ HeaderCommand(line).valueLen = Denoted(Words(line)[5])
                /\ HeaderCommand(line).flags = Denoted(Words(line)[3])
                /\ HeaderCommand(line).exptime = Denoted(Words(line)[4])
                /\ Denoted(Words(line)[5]) \in 0..SizeMax
<1> DEFINE words == Words(line)
           t == words[1][1]
           c == HeaderCommand(line)
<1>1. words \in Seq(Seq(S)) /\ HeaderError(words) = "OK"
  BY WordsAre, HeaderLegal
<1>2. \/ /\ words[1] = <<"get">> /\ Len(words) > 1
         /\ \A n \in 2..Len(words) : ValidKey(words[n])
      \/ \E type \in DOMAIN Arity : words[1] = <<type>> /\ LegalFor(type, words)
  BY <1>1, LegalLineIs
<1>3. words[1] = <<t>>
  BY <1>2
<1>4. c = Command(line, words, t)
  BY <1>1 DEF HeaderCommand
<1> HIDE DEF words
<1>5. c.type = t
  <2> HIDE DEF c, t
  <2>1. CASE Len(words) = 1
    BY <1>4, <2>1 DEF Command, NoCommand
  <2>2. CASE Len(words) # 1
    BY <1>4, <2>2 DEF Command
  <2> QED BY <2>1, <2>2
<1>6. t = "set" <=> words[1] = <<"set">>
  BY <1>3
<1>7. ASSUME words[1] = <<"set">>
      PROVE  /\ c.valueLen = Denoted(words[5]) /\ c.flags = Denoted(words[3])
             /\ c.exptime = Denoted(words[4]) /\ Denoted(words[5]) \in 0..SizeMax
  <2>1. t = "set"
    BY <1>6, <1>7
  <2>2. LegalFor("set", words)
    <3>1. \A type : words[1] = <<type>> => type = "set"
      BY <1>7
    <3>2. words[1] # <<"get">>
      BY <1>7
    <3> QED BY <1>2, <3>1, <3>2, Zenon
  <2>3. /\ Len(words) = 5 \/ Len(words) = 6
        /\ Number(words[3], UintMax) /\ Number(words[4], UintMax) /\ Number(words[5], SizeMax)
    BY <2>2 DEF LegalFor
  <2>4. words[3] \in Seq(S) /\ words[4] \in Seq(S) /\ words[5] \in Seq(S)
    <3>1. \A n : n = 5 \/ n = 6 => 3 \in 1..n /\ 4 \in 1..n /\ 5 \in 1..n
      OBVIOUS
    <3>2. 3 \in 1..Len(words) /\ 4 \in 1..Len(words) /\ 5 \in 1..Len(words)
      BY <2>3, <3>1, Zenon
    <3> QED BY <1>1, <3>2, ElementOfSeq
  <2>5. UintMax \in Nat /\ SizeMax \in Nat
    BY ProtocolAssumption
  <2>6. /\ ParseUint(words[3], UintMax) = Denoted(words[3])
        /\ ParseUint(words[4], UintMax) = Denoted(words[4])
        /\ ParseUint(words[5], SizeMax) = Denoted(words[5])
        /\ ParseUint(words[5], SizeMax) \in Nat
    BY <2>3, <2>4, <2>5, NumberRead
  <2>7. Len(words) # 1
    <3>1. \A n : n = 5 \/ n = 6 => n # 1
      OBVIOUS
    <3> QED BY <2>3, <3>1, Zenon
  <2>8. /\ c.valueLen = ParseUint(words[5], SizeMax) /\ c.flags = ParseUint(words[3], UintMax)
        /\ c.exptime = ParseUint(words[4], UintMax)
    <3> HIDE DEF c, t
    <3> QED BY <1>4, <2>1, <2>7 DEF Command
  <2>9. Denoted(words[5]) <= SizeMax
    BY <2>3 DEF Number
  <2> HIDE DEF c
  <2>10. Denoted(words[5]) \in 0..SizeMax
    BY <2>5, <2>6, <2>9
  <2> QED BY <2>6, <2>8, <2>10
<1> QED BY <1>1, <1>5, <1>6, <1>7 DEF words

\* What a block looks like behind its line: CR LF, the bytes, CR LF.
LEMMA BlockIs ==
    ASSUME NEW S, NEW rest \in Seq(S), NEW d \in Nat, Len(rest) = d + 4
    PROVE  rest = CRLF \o SubSeq(rest, 3, Len(rest) - 2) \o CRLF
             <=> rest[1] = "CR" /\ rest[2] = "LF" /\ rest[d + 3] = "CR" /\ rest[d + 4] = "LF"
<1> DEFINE T == S \cup {"CR", "LF"}
           mid == SubSeq(rest, 3, Len(rest) - 2)
           all == CRLF \o mid \o CRLF
<1>1. rest \in Seq(T) /\ Len(rest) \in Nat
  BY SeqMonotonic, LenProperties
<1>2. CRLF \in Seq(T) /\ Len(CRLF) = 2 /\ CRLF[1] = "CR" /\ CRLF[2] = "LF"
  BY DEF CRLF
<1>3. 3 \in 1..Len(rest) + 1 /\ Len(rest) - 2 \in 3 - 1..Len(rest)
  BY <1>1
<1> HIDE DEF T
<1>4. /\ mid \in Seq(T) /\ Len(mid) = Len(rest) - 2 - 3 + 1
      /\ \A i \in 1..Len(rest) - 2 - 3 + 1 : mid[i] = rest[3 + i - 1]
  BY <1>1, <1>3, SliceIs
<1> HIDE DEF mid
<1>5. Len(mid) = d /\ \A i \in 1..d : mid[i] = rest[i + 2]
  BY <1>1, <1>4
<1> DEFINE ends == CRLF
<1>e. ends \in Seq(T) /\ Len(ends) = 2 /\ ends = CRLF
  BY <1>2
<1> HIDE DEF ends
<1>c. ASSUME NEW t \in Seq(T), NEW u \in Seq(T)
      PROVE  /\ t \o u \in Seq(T) /\ Len(t \o u) = Len(t) + Len(u)
             /\ \A i \in 1..Len(t) + Len(u) : (t \o u)[i] = IF i <= Len(t) THEN t[i] ELSE u[i - Len(t)]
  BY ConcatProperties
<1>6. /\ ends \o mid \in Seq(T) /\ Len(ends \o mid) = 2 + d
      /\ \A i \in 1..2 + d : (ends \o mid)[i] = IF i <= 2 THEN ends[i] ELSE mid[i - 2]
  <2>1. /\ ends \o mid \in Seq(T) /\ Len(ends \o mid) = Len(ends) + Len(mid)
        /\ \A i \in 1..Len(ends) + Len(mid) :
             (ends \o mid)[i] = IF i <= Len(ends) THEN ends[i] ELSE mid[i - Len(ends)]
    BY <1>e, <1>4, <1>c, Zenon
  <2> QED BY <1>e, <1>5, <2>1
<1> DEFINE head == ends \o mid
<1>h. head \in Seq(T) /\ Len(head) = 2 + d /\ head = ends \o mid
  BY <1>6
<1> HIDE DEF head
<1>7. /\ head \o ends \in Seq(T) /\ Len(head \o ends) = 2 + d + 2
      /\ \A i \in 1..2 + d + 2 : (head \o ends)[i] = IF i <= 2 + d THEN head[i] ELSE ends[i - (2 + d)]
  <2>1. /\ head \o ends \in Seq(T) /\ Len(head \o ends) = Len(head) + Len(ends)
        /\ \A i \in 1..Len(head) + Len(ends) :
             (head \o ends)[i] = IF i <= Len(head) THEN head[i] ELSE ends[i - Len(head)]
    BY <1>e, <1>h, <1>c, Zenon
  <2> QED BY <1>e, <1>h, <2>1
<1>8. all = head \o ends
  BY <1>e, <1>h
<1> HIDE DEF all
<1>9. /\ all \in Seq(T) /\ Len(all) = Len(rest)
      /\ all[1] = "CR" /\ all[2] = "LF" /\ all[d + 3] = "CR" /\ all[d + 4] = "LF"
      /\ \A i \in 3..d + 2 : all[i] = rest[i]
  <2>1. all \in Seq(T) /\ Len(all) = Len(rest)
    BY <1>7, <1>8
  <2>2. \A i \in 1..2 + d : all[i] = IF i <= 2 THEN CRLF[i] ELSE mid[i - 2]
    BY <1>e, <1>6, <1>7, <1>8, <1>h
  <2>3. all[1] = "CR" /\ all[2] = "LF"
    BY <1>2, <2>2
  <2>4. \A i \in 3..d + 2 : all[i] = rest[i]
    <3> TAKE i \in 3..d + 2
    <3>1. all[i] = mid[i - 2]
      BY <2>2
    <3>2. i - 2 \in 1..d /\ i - 2 + 2 = i
      OBVIOUS
    <3> QED BY <1>5, <3>1, <3>2
  <2>5. all[d + 3] = CRLF[1] /\ all[d + 4] = CRLF[2]
    <3>1. /\ d + 3 \in 1..2 + d + 2 /\ d + 4 \in 1..2 + d + 2 /\ ~(d + 3 <= 2 + d) /\ ~(d + 4 <= 2 + d)
          /\ d + 3 - (2 + d) = 1 /\ d + 4 - (2 + d) = 2
      OBVIOUS
    <3> QED BY <1>e, <1>7, <1>8, <3>1
  <2> QED BY <1>2, <2>1, <2>3, <2>4, <2>5
<1>10. ASSUME rest[1] = "CR", rest[2] = "LF", rest[d + 3] = "CR", rest[d + 4] = "LF"
       PROVE  rest = all
  <2>1. ASSUME NEW i \in 1..Len(rest) PROVE rest[i] = all[i]
    <3>1. i = 1 \/ i = 2 \/ i \in 3..d + 2 \/ i = d + 3 \/ i = d + 4
      OBVIOUS
    <3> QED BY <1>9, <1>10, <3>1
  <2> QED BY <1>1, <1>9, <2>1, SeqEqual
<1> QED BY <1>9, <1>10 DEF all, mid

\* The first k bytes are a request whose line has n bytes.
LegalAt(b, n, k) ==
    /\ LineOf(b, n) /\ k \in Nat /\ k <= Len(b)
    /\ Words(SubSeq(b, 1, n)) # <<>> /\ LegalLine(Words(SubSeq(b, 1, n)))
    /\ IF Words(SubSeq(b, 1, n))[1] = <<"set">>
       THEN /\ k = n + Denoted(Words(SubSeq(b, 1, n))[5]) + 4
            /\ b[k - 1] = "CR" /\ b[k] = "LF"
       ELSE k = n + 2

\* A request, seen from the bytes it begins.
LEMMA LegalFrameIs ==
    ASSUME NEW S, NEW b \in Seq(S), NEW k \in 0..Len(b)
    PROVE  LegalFrame(SubSeq(b, 1, k)) <=> \E n \in 0..k : LegalAt(b, n, k)
<1> DEFINE frame == SubSeq(b, 1, k)
<1>1. Len(b) \in Nat /\ k \in Nat
  BY LenProperties
<1>2. frame \in Seq(S) /\ Len(frame) = k /\ \A i \in 1..k : frame[i] = b[i]
  <2>1. 1 \in 1..Len(b) + 1 /\ k \in 1 - 1..Len(b)
    BY <1>1
  <2>2. /\ frame \in Seq(S) /\ Len(frame) = k - 1 + 1
        /\ \A i \in 1..k - 1 + 1 : frame[i] = b[1 + i - 1]
    BY <2>1, SliceIs
  <2> HIDE DEF frame
  <2> QED BY <1>1, <2>2
<1> HIDE DEF frame
<1> DEFINE At(n) ==
        LET line == SubSeq(frame, 1, n)
            rest == SubSeq(frame, n + 1, Len(frame))
        IN  /\ Breaks(line) = {}
            /\ Words(line) # <<>> /\ LegalLine(Words(line))
            /\ IF Words(line)[1] = <<"set">>
               THEN /\ Len(rest) = Denoted(Words(line)[5]) + 4
                    /\ rest = CRLF \o SubSeq(rest, 3, Len(rest) - 2) \o CRLF
               ELSE rest = CRLF
<1>3. LegalFrame(frame) <=> \E n \in 0..k : At(n)
  BY <1>2 DEF LegalFrame
<1>4. ASSUME NEW n \in 0..k PROVE At(n) <=> LegalAt(b, n, k)
  <2> DEFINE line == SubSeq(frame, 1, n)
             rest == SubSeq(frame, n + 1, k)
             prefix == SubSeq(b, 1, n)
  <2>1. line \in Seq(S) /\ Len(line) = n /\ \A i \in 1..n : line[i] = b[i]
    <3>1. 1 \in 1..Len(frame) + 1 /\ n \in 1 - 1..Len(frame)
      BY <1>1, <1>2
    <3>2. /\ line \in Seq(S) /\ Len(line) = n - 1 + 1
          /\ \A i \in 1..n - 1 + 1 : line[i] = frame[1 + i - 1]
      BY <1>2, <3>1, SliceIs
    <3> HIDE DEF line
    <3> QED BY <1>1, <1>2, <3>2
  <2>2. prefix \in Seq(S) /\ Len(prefix) = n /\ \A i \in 1..n : prefix[i] = b[i]
    <3>1. 1 \in 1..Len(b) + 1 /\ n \in 1 - 1..Len(b)
      BY <1>1
    <3>2. /\ prefix \in Seq(S) /\ Len(prefix) = n - 1 + 1
          /\ \A i \in 1..n - 1 + 1 : prefix[i] = b[1 + i - 1]
      BY <3>1, SliceIs
    <3> HIDE DEF prefix
    <3> QED BY <1>1, <3>2
  <2>3. rest \in Seq(S) /\ Len(rest) = k - n /\ \A i \in 1..k - n : rest[i] = b[n + i]
    <3>1. n + 1 \in 1..Len(frame) + 1 /\ k \in n + 1 - 1..Len(frame)
      BY <1>1, <1>2
    <3>2. /\ rest \in Seq(S) /\ Len(rest) = k - (n + 1) + 1
          /\ \A i \in 1..k - (n + 1) + 1 : rest[i] = frame[n + 1 + i - 1]
      BY <1>2, <3>1, SliceIs
    <3> HIDE DEF rest
    <3>3. Len(rest) = k - n
      BY <1>1, <3>2
    <3>4. ASSUME NEW i \in 1..k - n PROVE rest[i] = b[n + i]
      <4>1. i \in 1..k - (n + 1) + 1 /\ n + 1 + i - 1 = n + i /\ n + i \in 1..k
        BY <1>1
      <4> QED BY <1>2, <3>2, <4>1
    <3> QED BY <3>2, <3>3, <3>4
  <2>4. line = prefix
    <3> HIDE DEF line, prefix
    <3> QED BY <2>1, <2>2, SeqEqual
  <2>5. At(n) <=>
          /\ Breaks(prefix) = {} /\ Words(prefix) # <<>> /\ LegalLine(Words(prefix))
          /\ IF Words(prefix)[1] = <<"set">>
             THEN /\ Len(rest) = Denoted(Words(prefix)[5]) + 4
                  /\ rest = CRLF \o SubSeq(rest, 3, Len(rest) - 2) \o CRLF
             ELSE rest = CRLF
    BY <1>2, <2>4, Zenon
  <2> DEFINE words == Words(prefix)
             d == Denoted(words[5])
  <2>6. LegalAt(b, n, k) <=>
          /\ LineOf(b, n) /\ words # <<>> /\ LegalLine(words)
          /\ IF words[1] = <<"set">> THEN k = n + d + 4 /\ b[k - 1] = "CR" /\ b[k] = "LF"
                                     ELSE k = n + 2
    BY <1>1 DEF LegalAt
  <2> HIDE DEF At, line, rest
  <2>7. Breaks(prefix) = {} <=> \A i \in 1..n : b[i] \notin {"CR", "LF"}
    BY <2>2 DEF Breaks
  <2>8. ASSUME words # <<>>, LegalLine(words), words[1] = <<"set">> PROVE d \in Nat
    <3>1. d \in 0..SizeMax
      BY <2>2, <2>8, LegalCommand
    <3>2. SizeMax \in Nat
      BY ProtocolAssumption
    <3> QED BY <3>1, <3>2
  <2> HIDE DEF d, words, prefix
  <2>9. CASE words[1] = <<"set">> /\ words # <<>> /\ LegalLine(words)
    <3>1. d \in Nat
      BY <2>8, <2>9
    <3>2. ASSUME k = n + d + 4
          PROVE  rest = CRLF \o SubSeq(rest, 3, Len(rest) - 2) \o CRLF
                  <=> b[n + 1] = "CR" /\ b[n + 2] = "LF" /\ b[k - 1] = "CR" /\ b[k] = "LF"
      <4>1. Len(rest) = d + 4
        BY <1>1, <2>3, <3>1, <3>2
      <4>2. /\ 1 \in 1..k - n /\ 2 \in 1..k - n /\ d + 3 \in 1..k - n /\ d + 4 \in 1..k - n
            /\ n + (d + 3) = k - 1 /\ n + (d + 4) = k
        BY <1>1, <3>1, <3>2
      <4>3. rest[1] = b[n + 1] /\ rest[2] = b[n + 2] /\ rest[d + 3] = b[k - 1] /\ rest[d + 4] = b[k]
        BY <2>3, <4>2
      <4> QED BY <2>3, <3>1, <4>1, <4>3, BlockIs
    <3>3. Len(rest) = d + 4 <=> k = n + d + 4
      BY <1>1, <2>3, <3>1
    <3>4. k = n + d + 4 => n \in Nat /\ n + 2 <= Len(b)
      BY <1>1, <3>1
    <3> QED BY <2>5, <2>6, <2>7, <2>9, <3>2, <3>3, <3>4 DEF LineOf, words, d
  <2>10. CASE words[1] # <<"set">>
    <3>1. rest = CRLF <=> k = n + 2 /\ b[n + 1] = "CR" /\ b[n + 2] = "LF"
      <4>1. Len(CRLF) = 2 /\ CRLF[1] = "CR" /\ CRLF[2] = "LF" /\ CRLF \in Seq({"CR", "LF"})
        BY DEF CRLF
      <4>2. ASSUME rest = CRLF PROVE k = n + 2 /\ b[n + 1] = "CR" /\ b[n + 2] = "LF"
        <5>1. k - n = 2
          BY <2>3, <4>1, <4>2
        <5>2. k = n + 2 /\ 1 \in 1..k - n /\ 2 \in 1..k - n
          BY <1>1, <5>1
        <5> QED BY <2>3, <4>1, <4>2, <5>2
      <4>3. ASSUME k = n + 2, b[n + 1] = "CR", b[n + 2] = "LF" PROVE rest = CRLF
        <5>1. Len(rest) = 2 /\ 1 \in 1..k - n /\ 2 \in 1..k - n
          BY <1>1, <2>3, <4>3
        <5>2. rest[1] = "CR" /\ rest[2] = "LF"
          BY <2>3, <4>3, <5>1
        <5> DEFINE T == S \cup {"CR", "LF"}
        <5>3. rest \in Seq(T) /\ CRLF \in Seq(T)
          BY <2>3, <4>1, SeqMonotonic
        <5>4. \A i \in 1..Len(rest) : rest[i] = CRLF[i]
          BY <4>1, <5>1, <5>2
        <5> HIDE DEF T
        <5> QED BY <4>1, <5>1, <5>3, <5>4, SeqEqual
      <4> QED BY <4>2, <4>3
    <3>2. k = n + 2 => n \in Nat /\ n + 2 <= Len(b)
      BY <1>1
    <3> QED BY <2>5, <2>6, <2>7, <2>10, <3>1, <3>2 DEF LineOf, words, d
  <2>11. CASE ~(words # <<>> /\ LegalLine(words))
    BY <2>5, <2>6, <2>11 DEF words
  <2> QED BY <2>9, <2>10, <2>11
<1> QED BY <1>3, <1>4 DEF frame

\* A request is accepted, and whatever follows it does not matter.
LEMMA LegalAccepted ==
    ASSUME NEW S, NEW b \in Seq(S), Len(b) <= SizeMax, NEW k \in 0..Len(b),
           LegalFrame(SubSeq(b, 1, k))
    PROVE  ParseCommand(b).err = "OK"
<1>1. PICK n \in 0..k : LegalAt(b, n, k)
  BY LegalFrameIs
<1> DEFINE line  == SubSeq(b, 1, n)
           words == Words(line)
           c     == HeaderCommand(line)
           d     == Denoted(words[5])
<1>2. /\ LineOf(b, n) /\ words # <<>> /\ LegalLine(words)
      /\ words[1] = <<"set">> => k = n + d + 4 /\ b[k - 1] = "CR" /\ b[k] = "LF"
  BY <1>1 DEF LegalAt
<1>3. n \in Nat /\ k \in Nat /\ Len(b) \in Nat /\ n <= k /\ k <= Len(b) /\ SizeMax \in Nat
  BY LenProperties, ProtocolAssumption
<1>4. LineError(b) = "OK" /\ FirstBreak(b) = n + 1 /\ Line(b) = line
  BY <1>2, LineFound
<1>5. line \in Seq(S)
  BY <1>4, LineIs
<1> HIDE DEF line
<1>6. /\ HeaderError(words) = "OK" /\ (c.type = "set" <=> words[1] = <<"set">>)
      /\ words[1] = <<"set">> => c.valueLen = d /\ d \in 0..SizeMax
  BY <1>2, <1>5, LegalCommand
<1> HIDE DEF words, c, d
<1>7. ParseCommand(b) = Framed(b, n + 2, "OK", c)
  <2>1. n + 1 + 1 = n + 2
    BY <1>3
  <2> QED BY <1>4, <1>6, <2>1 DEF ParseCommand, words, c
<1>8. CASE c.type # "set"
  BY <1>7, <1>8 DEF Framed
<1>9. CASE c.type = "set"
  <2>1. d \in Nat /\ k = n + d + 4 /\ b[k - 1] = "CR" /\ b[k] = "LF"
    BY <1>2, <1>3, <1>6, <1>9
  <2>2. /\ ~(SizeMax - (n + 2) < 2) /\ ~(d > SizeMax - (n + 2) - 2)
        /\ ~(Len(b) - (n + 2) <= d) /\ Len(b) - (n + 2) # d + 1
        /\ n + 2 + d + 1 = k - 1 /\ n + 2 + d + 2 = k
    BY <1>3, <2>1
  <2>3. BodyError(b, n + 2, d) = "OK"
    BY <2>1, <2>2 DEF BodyError
  <2>4. c.valueLen = d
    BY <1>6, <1>9
  <2> QED BY <1>7, <1>9, <2>3, <2>4 DEF Framed
<1> QED BY <1>8, <1>9

\* The words of a line are sequences of its characters.
LEMMA WordsTyped ==
    ASSUME NEW S, NEW line \in Seq(S)
    PROVE  Words(line) \in Seq(Seq(S))
  BY WordsAre

\* What is accepted is a request, and the command has the numbers its words
\* denote.
LEMMA AcceptedLegal ==
    ASSUME NEW S, NEW b \in Seq(S), ParseCommand(b).err = "OK"
    PROVE  /\ LegalFrame(SubSeq(b, 1, ParseCommand(b).consumed))
           /\ ParseCommand(b).cmd.type = "set" =>
                /\ Denoted(Words(Line(b))[3]) = ParseCommand(b).cmd.flags
                /\ Denoted(Words(Line(b))[4]) = ParseCommand(b).cmd.exptime
                /\ Denoted(Words(Line(b))[5]) = ParseCommand(b).cmd.valueLen
<1> DEFINE n      == FirstBreak(b) - 1
           line   == Line(b)
           words  == Words(line)
           c      == HeaderCommand(line)
           d      == Denoted(words[5])
           parsed == ParseCommand(b)
           k      == parsed.consumed
<1>1. LineError(b) = "OK"
  BY DEF ParseCommand, Failed
<1>2. /\ FirstBreak(b) \in 1..Len(b) - 1 /\ Len(b) \in Nat
      /\ line \in Seq(S) /\ Len(line) = FirstBreak(b) - 1
  BY <1>1, LineIs
<1>3. LineOf(b, n) /\ line = SubSeq(b, 1, n)
  BY <1>1, LineFound DEF Line
<1>4. parsed.err = "OK"
  OBVIOUS
<1>5. parsed = Framed(b, FirstBreak(b) + 1, HeaderError(words), c)
  BY <1>1 DEF ParseCommand
<1>6. n \in Nat /\ FirstBreak(b) + 1 = n + 2 /\ n + 2 <= Len(b)
  BY <1>2
<1> HIDE DEF n, parsed, line, words, c
<1>7. HeaderError(words) = "OK" /\ parsed = Framed(b, n + 2, "OK", c)
  BY <1>4, <1>5, <1>6 DEF Framed, Failed
<1>8. words # <<>>
  BY <1>7 DEF HeaderError
<1>9. words \in Seq(Seq(S))
  BY <1>2, WordsTyped DEF words
<1>10. LegalLine(words)
  BY <1>7, <1>8, <1>9, HeaderLegal
<1>11. /\ c.type = "set" <=> words[1] = <<"set">>
       /\ words[1] = <<"set">> =>
            c.valueLen = d /\ c.flags = Denoted(words[3]) /\ c.exptime = Denoted(words[4])
            /\ d \in 0..SizeMax
  BY <1>2, <1>8, <1>10, LegalCommand DEF words, c
<1> HIDE DEF d
<1>12. CASE c.type # "set"
  <2>1. parsed = [err |-> "OK", cmd |-> c, consumed |-> n + 2]
    BY <1>7, <1>12 DEF Framed
  <2>2. k = n + 2 /\ parsed.cmd.type # "set"
    BY <1>12, <2>1
  <2> HIDE DEF k
  <2>3. k \in 0..Len(b) /\ n \in 0..k
    BY <1>2, <1>6, <2>2
  <2>4. LegalAt(b, n, k)
    BY <1>3, <1>8, <1>10, <1>11, <1>12, <2>2, <2>3 DEF LegalAt, words
  <2>5. LegalFrame(SubSeq(b, 1, k))
    BY <2>3, <2>4, LegalFrameIs
  <2> QED BY <2>2, <2>5 DEF k, parsed
<1>13. CASE c.type = "set"
  <2>1. c.valueLen = d /\ c.flags = Denoted(words[3]) /\ c.exptime = Denoted(words[4])
        /\ words[1] = <<"set">>
    BY <1>11, <1>13
  <2>2. d \in Nat
    BY <1>11, <1>13, ProtocolAssumption
  <2>3. BodyError(b, n + 2, d) = "OK"
    BY <1>4, <1>7, <1>13, <2>1 DEF Framed, Failed
  <2>4. parsed = [err      |-> "OK", cmd |-> [c EXCEPT !.value = n + 2 + 1],
                  consumed |-> n + 2 + d + 2]
    BY <1>7, <1>13, <2>1, <2>3 DEF Framed
  <2>5. /\ k = n + 2 + d + 2
        /\ parsed.cmd.flags = c.flags /\ parsed.cmd.exptime = c.exptime
        /\ parsed.cmd.valueLen = c.valueLen
    <3>1. HeaderCommand(line) = c
      BY DEF c
    <3> QED BY <2>4, <1>7, <3>1 DEF Command, HeaderCommand, NoCommand, words
  <2> HIDE DEF k
  <2>6. /\ ~(Len(b) - (n + 2) <= d) /\ b[n + 2 + d + 1] = "CR"
        /\ Len(b) - (n + 2) # d + 1 /\ b[n + 2 + d + 2] = "LF"
    BY <2>3 DEF BodyError
  <2>7. /\ k \in 0..Len(b) /\ n \in 0..k /\ k = n + d + 4
        /\ n + 2 + d + 1 = k - 1 /\ n + 2 + d + 2 = k
    BY <1>2, <1>6, <2>2, <2>5, <2>6
  <2>8. LegalAt(b, n, k)
    BY <1>3, <1>8, <1>10, <2>1, <2>6, <2>7 DEF LegalAt, words, d
  <2>9. LegalFrame(SubSeq(b, 1, k))
    BY <2>7, <2>8, LegalFrameIs
  <2>10. /\ Denoted(words[3]) = parsed.cmd.flags /\ Denoted(words[4]) = parsed.cmd.exptime
         /\ Denoted(words[5]) = parsed.cmd.valueLen
    BY <2>1, <2>5 DEF d
  <2> QED BY <2>9, <2>10 DEF k, parsed, words, line
<1> QED BY <1>12, <1>13

\* Bytes that are waited for may still become a request.
LEMMA WaitsForRequests ==
    ASSUME NEW S, NEW b \in Seq(S), ParseCommand(b).err = "INCOMPLETE"
    PROVE  MayBecomeLegal(b)
<1> DEFINE line   == Line(b)
           words  == Words(line)
           c      == HeaderCommand(line)
           d      == Denoted(words[5])
<1>1. CASE LineError(b) # "OK"
  <2>1. LineError(b) = "INCOMPLETE"
    BY <1>1 DEF ParseCommand, Failed
  <2>2. Breaks(b) = {} \/ FirstBreak(b) = Len(b)
    BY <2>1 DEF LineError
  <2>3. Breaks(b) \subseteq {Len(b)}
    <3>1. CASE Breaks(b) = {}
      BY <3>1
    <3>2. CASE Breaks(b) # {}
      <4>1. \A i \in Breaks(b) : FirstBreak(b) <= i
        BY <3>2, FirstBreakIsFirst
      <4>2. \A i \in Breaks(b) : i \in 1..Len(b)
        BY DEF Breaks
      <4>3. Len(b) \in Nat
        BY LenProperties
      <4> QED BY <2>2, <3>2, <4>1, <4>2, <4>3
    <3> QED BY <3>1, <3>2
  <2> QED BY <2>3 DEF MayBecomeLegal
<1>2. CASE LineError(b) = "OK"
  <2>1. /\ FirstBreak(b) \in 1..Len(b) - 1 /\ Len(b) \in Nat /\ line \in Seq(S)
    BY <1>2, LineIs
  <2> DEFINE m == FirstBreak(b) + 1
  <2>2. ParseCommand(b) = Framed(b, m, HeaderError(words), c)
    BY <1>2 DEF ParseCommand
  <2> HIDE DEF line, words, c, m
  <2>3. \A w : HeaderError(w) # "INCOMPLETE"
    <3>1. \A key : KeyError(key) # "INCOMPLETE"
      BY DEF KeyError
    <3>2. \A w : GetError(w) # "INCOMPLETE"
      BY <3>1 DEF GetError
    <3>3. \A w, type : ArityError(w, type) # "INCOMPLETE"
      BY DEF ArityError
    <3>4. \A w, type : FieldError(w, type) # "INCOMPLETE"
      BY DEF FieldError
    <3> QED BY <3>1, <3>2, <3>3, <3>4 DEF HeaderError
  <2>4. HeaderError(words) = "OK"
    BY <2>2, <2>3 DEF Framed, Failed
  <2>5. c.type = "set" /\ BodyError(b, m, c.valueLen) = "INCOMPLETE"
    BY <2>2, <2>4 DEF Framed, Failed
  <2>6. words # <<>>
    BY <2>4 DEF HeaderError
  <2>7. words \in Seq(Seq(S))
    BY <2>1, WordsTyped DEF words
  <2>8. LegalLine(words)
    BY <2>4, <2>6, <2>7, HeaderLegal
  <2>9. words[1] = <<"set">> /\ c.valueLen = d /\ d \in 0..SizeMax
    BY <2>1, <2>5, <2>6, <2>8, LegalCommand DEF words, c
  <2> HIDE DEF d
  <2>10. d \in Nat /\ m \in Nat
    BY <2>1, <2>9, ProtocolAssumption DEF m
  <2>11. Len(b) - m <= d \/ Len(b) - m = d + 1
    BY <2>5, <2>9 DEF BodyError
  <2>12. Len(b) < FirstBreak(b) + d + 3
    BY <2>1, <2>10, <2>11 DEF m
  <2> QED BY <2>8, <2>9, <2>12 DEF MayBecomeLegal, words, line, d
<1> QED BY <1>1, <1>2

-----------------------------------------------------------------------------
(***************************************************************************)
(* The requests of a conversation.                                         *)
(***************************************************************************)

\* While a command is answered it is a request, with the numbers its words
\* denote, and the conversation has not ended well by taking it for one.
Requested ==
    phase = "reply" =>
        /\ LegalFrame(SubSeq(input, start + 1, pos))
        /\ cmd.type = "set" =>
             /\ Denoted(Words(Line(Frame))[3]) = cmd.flags
             /\ Denoted(Words(Line(Frame))[4]) = cmd.exptime
             /\ Denoted(Words(Line(Frame))[5]) = cmd.valueLen

\* A slice of a slice that begins where that one does.
LEMMA SliceOfSlice ==
    ASSUME NEW S, NEW b \in Seq(S), NEW f \in 0..Len(b), NEW m \in f..Len(b), NEW k \in 0..m - f
    PROVE  SubSeq(SubSeq(b, f + 1, m), 1, k) = SubSeq(b, f + 1, f + k)
<1> DEFINE s == SubSeq(b, f + 1, m)
           t == SubSeq(s, 1, k)
           u == SubSeq(b, f + 1, f + k)
<1>1. Len(b) \in Nat /\ f \in Nat /\ m \in Nat /\ k \in Nat
  BY LenProperties
<1>2. s \in Seq(S) /\ Len(s) = m - f /\ \A i \in 1..m - f : s[i] = b[f + i]
  <2>1. f + 1 \in 1..Len(b) + 1 /\ m \in f + 1 - 1..Len(b)
    BY <1>1
  <2>2. /\ s \in Seq(S) /\ Len(s) = m - (f + 1) + 1
        /\ \A i \in 1..m - (f + 1) + 1 : s[i] = b[f + 1 + i - 1]
    BY <2>1, SliceIs
  <2> HIDE DEF s
  <2>3. m - (f + 1) + 1 = m - f /\ \A i \in 1..m - f : f + 1 + i - 1 = f + i
    BY <1>1
  <2> QED BY <2>2, <2>3
<1> HIDE DEF s
<1>3. t \in Seq(S) /\ Len(t) = k /\ \A i \in 1..k : t[i] = b[f + i]
  <2>1. 1 \in 1..Len(s) + 1 /\ k \in 1 - 1..Len(s)
    BY <1>1, <1>2
  <2>2. /\ t \in Seq(S) /\ Len(t) = k - 1 + 1
        /\ \A i \in 1..k - 1 + 1 : t[i] = s[1 + i - 1]
    BY <1>2, <2>1, SliceIs
  <2> HIDE DEF t
  <2>3. k - 1 + 1 = k /\ \A i \in 1..k : 1 + i - 1 = i /\ i \in 1..m - f
    BY <1>1
  <2> QED BY <1>2, <2>2, <2>3
<1>4. u \in Seq(S) /\ Len(u) = k /\ \A i \in 1..k : u[i] = b[f + i]
  <2>1. f + 1 \in 1..Len(b) + 1 /\ f + k \in f + 1 - 1..Len(b)
    BY <1>1
  <2>2. /\ u \in Seq(S) /\ Len(u) = f + k - (f + 1) + 1
        /\ \A i \in 1..f + k - (f + 1) + 1 : u[i] = b[f + 1 + i - 1]
    BY <2>1, SliceIs
  <2> HIDE DEF u
  <2>3. f + k - (f + 1) + 1 = k /\ \A i \in 1..k : f + 1 + i - 1 = f + i
    BY <1>1
  <2> QED BY <2>2, <2>3
<1> HIDE DEF t, u
<1>5. t = u
  BY <1>1, <1>3, <1>4, SeqEqual
<1> QED BY <1>5 DEF t, u, s

\* What is accepted was asked for.
LEMMA AcceptRequested ==
    ASSUME Positions, Accept
    PROVE  Requested'
<1> DEFINE parsed == ParseCommand(Window)
           S == ToSet(input)
<1>1. PICK T : Window \in Seq(T)
  BY WindowContinued
<1>2. /\ parsed.err = "OK" /\ cmd' = parsed.cmd /\ start' = pos /\ pos' = pos + parsed.consumed
      /\ UNCHANGED <<input, filled>>
  BY DEF Accept
<1>3. parsed.consumed \in 1..filled - pos
  BY <1>2, AnswerForAll
<1>4. /\ LegalFrame(SubSeq(Window, 1, parsed.consumed))
      /\ parsed.cmd.type = "set" =>
           /\ Denoted(Words(Line(Window))[3]) = parsed.cmd.flags
           /\ Denoted(Words(Line(Window))[4]) = parsed.cmd.exptime
           /\ Denoted(Words(Line(Window))[5]) = parsed.cmd.valueLen
  BY <1>1, <1>2, AcceptedLegal
<1> HIDE DEF parsed
<1>5. SubSeq(Window, 1, parsed.consumed) = SubSeq(input, pos + 1, pos + parsed.consumed)
  <2>1. input \in Seq(S)
    BY SessionAssumption DEF Positions
  <2> HIDE DEF S
  <2>2. Len(input) \in Nat /\ filled \in 0..Len(input) /\ pos \in 0..filled
    BY <2>1, LenProperties DEF Positions
  <2>3. pos \in 0..Len(input) /\ filled \in pos..Len(input) /\ parsed.consumed \in 0..filled - pos
    BY <1>3, <2>2
  <2> QED BY <2>1, <2>3, SliceOfSlice DEF Window
<1>6. SubSeq(input, start + 1, pos)' = SubSeq(input, pos + 1, pos + parsed.consumed)
  BY <1>2
<1>7. Frame' = Window
  BY <1>2 DEF Frame, Window
<1>8. /\ LegalFrame(SubSeq(input', start' + 1, pos'))
      /\ cmd'.type = "set" =>
             /\ Denoted(Words(Line(Frame'))[3]) = cmd'.flags
             /\ Denoted(Words(Line(Frame'))[4]) = cmd'.exptime
             /\ Denoted(Words(Line(Frame'))[5]) = cmd'.valueLen
  BY <1>2, <1>4, <1>5, <1>7
<1> QED BY <1>8 DEF Requested, Frame

\* The keys of a get are all that changes while a command is answered.
LEMMA RequestedKeeps ==
    ASSUME Positions, CommandInside, Requested, [Next]_vars
    PROVE  Requested'
<1>1. CASE UNCHANGED <<input, filled, pos, start, cmd, phase>>
  BY <1>1 DEF Requested, Frame
<1>2. CASE phase' # "reply"
  BY <1>2 DEF Requested
<1>3. CASE Accept
  BY <1>3, AcceptRequested
<1>4. CASE ReplyKey
  <2>1. /\ phase = "reply" /\ cmd.type = "get" /\ cmd.key # 0
        /\ UNCHANGED <<input, filled, pos, start>>
        /\ cmd' = IF HasNextKey(Frame, cmd) THEN NextKey(Frame, cmd) ELSE [cmd EXCEPT !.key = 0]
    BY <1>4 DEF ReplyKey, KeysLeft, MoveOn, Put
  <2>2. pos - start \in Nat /\ CommandOK(cmd, pos - start)
    BY FrameIs DEF CommandInside
  <2>3. cmd'.type = "get"
    <3>1. CASE HasNextKey(Frame, cmd)
      <4>1. FurtherKeyBytes(Frame, cmd) # {}
        BY <3>1 DEF HasNextKey
      <4>2. NextKey(Frame, cmd).type = cmd.type
        BY <2>1, <2>2, <4>1, NextKeyIs
      <4> QED BY <2>1, <3>1, <4>2
    <3>2. CASE ~HasNextKey(Frame, cmd)
      <4>1. [cmd EXCEPT !.key = 0].type = cmd.type
        BY <2>2, NoKeyIs
      <4>2. cmd' = [cmd EXCEPT !.key = 0]
        BY <2>1, <3>2
      <4> QED BY <2>1, <4>1, <4>2
    <3> QED BY <3>1, <3>2
  <2>4. SubSeq(input, start + 1, pos)' = SubSeq(input, start + 1, pos)
    BY <2>1
  <2> QED BY <2>1, <2>3, <2>4 DEF Requested
<1>5. CASE Stop
  <2>1. phase' # "reply"
    BY <1>5, AnswersAreErrors DEF Stop
  <2> QED BY <1>2, <2>1
<1>6. CASE \E n \in 1..Len(input) : Grow(n)
  <2>1. phase' # "reply"
    BY <1>6 DEF Grow, Unfinished
  <2> QED BY <1>2, <2>1
<1>7. CASE ReplyEnd \/ ReplyLine \/ NoReply
  <2>1. phase' # "reply"
    BY <1>7 DEF ReplyEnd, ReplyLine, NoReply, Put
  <2> QED BY <1>2, <2>1
<1>8. CASE Flush \/ Terminating \/ UNCHANGED vars
  BY <1>1, <1>8 DEF Flush, Terminating, vars
<1> QED BY <1>3, <1>4, <1>5, <1>6, <1>7, <1>8 DEF Next

\* A conversation ends by an error only where an error is: nowhere a parser
\* of the whole input answers OK.
NoFalseEnd == phase # "OK"

LEMMA NoFalseEndKeeps ==
    ASSUME NoFalseEnd, [Next]_vars
    PROVE  NoFalseEnd'
<1>1. CASE Stop
  BY <1>1 DEF Stop, NoFalseEnd
<1>2. CASE phase' \in {"parse", "reply"} \/ phase' = phase
  BY <1>2 DEF NoFalseEnd
<1>3. ~Stop => phase' \in {"parse", "reply"} \/ phase' = phase
  BY DEF Next, vars, Accept, Grow, ReplyKey, ReplyEnd, ReplyLine, NoReply, Flush, Terminating,
         MoveOn, Put
<1> QED BY <1>1, <1>2, <1>3

\* The parser takes exactly the requests of the protocol, each with the
\* numbers it denotes: where a conversation ends with an error no request
\* begins, and where it waits for more, one may.
THEOREM RequestsCorrect == Spec => []RequestsRecognized
<1> DEFINE RInv == TInv /\ CutsDoNotMatter /\ Requested /\ NoFalseEnd
<1>1. Init => Requested /\ NoFalseEnd
  BY DEF Init, Requested, NoFalseEnd
<1>2. TInv /\ Requested /\ NoFalseEnd /\ [Next]_vars => Requested' /\ NoFalseEnd'
  BY RequestedKeeps, NoFalseEndKeeps DEF TInv, IInv
<1>3. RInv => RequestsRecognized
  <2> SUFFICES ASSUME RInv PROVE RequestsRecognized
    OBVIOUS
  <2> DEFINE rest == Rest(pos)
             S == ToSet(input)
  <2>1. Positions /\ input \in Seq(S)
    BY SessionAssumption DEF TInv, IInv, Positions
  <2>2. rest \in Seq(S) /\ Len(rest) \in Nat /\ Len(rest) <= SizeMax
    <3> HIDE DEF S
    <3>1. Len(input) \in Nat /\ pos \in 0..Len(input) /\ Len(input) <= SizeMax /\ SizeMax \in Nat
      <4>1. Len(input) \in Nat
        BY <2>1, LenProperties
      <4> QED BY <2>1, <4>1, SessionAssumption, ProtocolAssumption DEF Positions
    <3>2. pos + 1 \in 1..Len(input) + 1 /\ Len(input) \in pos + 1 - 1..Len(input)
      BY <3>1
    <3>3. rest \in Seq(S) /\ Len(rest) = Len(input) - (pos + 1) + 1
      BY <2>1, <3>2, SliceIs DEF Rest
    <3> HIDE DEF rest
    <3> QED BY <3>1, <3>3
  <2> HIDE DEF S, rest
  <2>3. ASSUME phase \notin {"parse", "reply", "done"}, NEW n \in 0..Len(rest),
               LegalFrame(SubSeq(rest, 1, n))
        PROVE  FALSE
    <3>1. ParseCommand(rest).err = "OK"
      BY <2>2, <2>3, LegalAccepted
    <3>2. ParseCommand(rest).err = phase
      BY <2>3 DEF CutsDoNotMatter, rest
    <3> QED BY <3>1, <3>2 DEF NoFalseEnd
  <2>4. ASSUME phase = "INCOMPLETE" PROVE MayBecomeLegal(rest)
    <3>1. ParseCommand(rest).err = "INCOMPLETE"
      BY <2>4 DEF CutsDoNotMatter, rest
    <3> QED BY <2>2, <3>1, WaitsForRequests
  <2> QED BY <2>3, <2>4 DEF RequestsRecognized, Requested, rest
<1>4. Spec => []TInv
  BY Invariance
<1>5. Spec => []CutsDoNotMatter
  BY CutsCorrect
<1> HIDE DEF RInv
<1>6. Spec => [](Requested /\ NoFalseEnd)
  BY <1>1, <1>2, <1>4, PTL DEF Spec
<1>7. TInv /\ CutsDoNotMatter /\ Requested /\ NoFalseEnd => RequestsRecognized
  BY <1>3 DEF RInv
<1> QED BY <1>4, <1>5, <1>6, <1>7, PTL

-----------------------------------------------------------------------------
(***************************************************************************)
(* The replies that are read back.                                         *)
(*                                                                         *)
(* Numbers that are written denote what they were written for.             *)
(***************************************************************************)

\* One more digit multiplies what a word denotes by the base.
LEMMA DenotedAppend ==
    ASSUME NEW S, NEW word \in Seq(S), NEW d \in S, IsDigit(d),
           \A i \in 1..Len(word) : IsDigit(word[i])
    PROVE  /\ Denoted(Append(word, d)) = (Denoted(word) * Base) + DigitValue(d)
           /\ Denoted(word) \in Nat
<1> DEFINE n == Len(word)
           more == Append(word, d)
<1>1. n \in Nat
  BY LenProperties
<1>2. /\ more \in Seq(S) /\ Len(more) = n + 1 /\ more[n + 1] = d
      /\ \A i \in 1..n : more[i] = word[i]
  BY AppendProperties
<1> HIDE DEF more
<1>3. ASSUME NEW i \in 1..n + 1 PROVE IsDigit(more[i])
  <2>1. CASE i = n + 1
    BY <1>2, <2>1
  <2>2. CASE i # n + 1
    <3>1. i \in 1..n
      BY <1>1, <2>2
    <3> QED BY <1>2, <3>1
  <2> QED BY <2>1, <2>2
<1>4. PICK h : /\ h \in [0..n -> Nat] /\ h[0] = 0 /\ Denoted(word) = h[n]
               /\ \A i \in 1..n : h[i] = (h[i - 1] * Base) + DigitValue(word[i])
  BY DenotedIs
<1>5. PICK g : /\ g \in [0..n + 1 -> Nat] /\ g[0] = 0 /\ Denoted(more) = g[n + 1]
               /\ \A i \in 1..n + 1 : g[i] = (g[i - 1] * Base) + DigitValue(more[i])
  <2>1. \A i \in 1..Len(more) : IsDigit(more[i])
    BY <1>2, <1>3
  <2>2. \E g : /\ g \in [0..Len(more) -> Nat] /\ g[0] = 0 /\ Denoted(more) = g[Len(more)]
               /\ \A i \in 1..Len(more) : g[i] = (g[i - 1] * Base) + DigitValue(more[i])
    BY <1>2, <2>1, DenotedIs, Zenon
  <2>3. Len(more) = n + 1
    BY <1>2
  <2> QED BY <2>2, <2>3, Zenon
<1> DEFINE Good == {m \in Nat : m <= n => g[m] = h[m]}
<1>6. 0 \in Good
  BY <1>4, <1>5
<1>7. ASSUME NEW m \in Good PROVE m + 1 \in Good
  <2> SUFFICES ASSUME m + 1 <= n PROVE g[m + 1] = h[m + 1]
    OBVIOUS
  <2> DEFINE k == m + 1
  <2>1. k \in 1..n /\ k \in 1..n + 1 /\ k - 1 = m
    BY <1>1
  <2>2. g[m] = h[m]
    BY <1>1
  <2> HIDE DEF k, Good
  <2>3. more[k] = word[k]
    BY <1>2, <2>1
  <2>4. g[k] = (g[k - 1] * Base) + DigitValue(more[k])
    BY <1>5, <2>1, Zenon
  <2>5. h[k] = (h[k - 1] * Base) + DigitValue(word[k])
    BY <1>4, <2>1, Zenon
  <2>6. g[k] = h[k]
    BY <2>1, <2>2, <2>3, <2>4, <2>5, Zenon
  <2> QED BY <2>6 DEF k
<1>8. Good = Nat
  <2> HIDE DEF Good
  <2>1. Good \in SUBSET Nat
    BY DEF Good
  <2> QED BY <1>6, <1>7, <2>1, Induction
<1>9. g[n] = h[n]
  BY <1>1, <1>8
<1>10. g[n + 1] = (g[n] * Base) + DigitValue(d)
  <2>1. n + 1 \in 1..n + 1 /\ n + 1 - 1 = n
    BY <1>1
  <2> QED BY <1>2, <1>5, <2>1
<1>11. h[n] \in Nat
  BY <1>1, <1>4
<1> QED BY <1>4, <1>5, <1>9, <1>10, <1>11 DEF more

\* A word of digits that denotes a number.
Denotes(word, value) ==
    /\ word \in Seq(ToSet(Digits)) /\ Len(word) > 0
    /\ \A i \in 1..Len(word) : IsDigit(word[i])
    /\ Denoted(word) = value

\* What is written for a number denotes it.
LEMMA WrittenDenotes ==
    ASSUME NEW value \in Nat
    PROVE  Denotes(FormatUint(value), value)
<1> DEFINE f == CHOOSE g : Written(g, value)
           D == ToSet(Digits)
<1>1. \E g : Written(g, value)
  BY WrittenDefined
<1>2. Written(f, value)
  BY <1>1, Zenon
<1>3. FormatUint(value) = f[value]
  BY Zenon DEF FormatUint, Written, WrittenFrom
<1> HIDE DEF f
<1> DEFINE Good == {m \in Nat : \A i \in 0..m : i <= value => Denotes(f[i], i)}
<1>4. Base \in Nat /\ Base > 1 /\ \A i \in 1..Base : Digits[i] \in D
  BY ProtocolAssumption, LenProperties, ElementOfSeq DEF Base
<1>5. ASSUME NEW i \in 1..Base
      PROVE  Denotes(<<Digits[i]>>, i - 1)
  <2> DEFINE d == Digits[i]
  <2>1. d \in D /\ IsDigit(d) /\ DigitValue(d) = i - 1
    BY <1>4, DigitsAre
  <2> HIDE DEF d, D
  <2>2. <<>> \in Seq(D) /\ Len(<<>>) = 0
    BY EmptySeq
  <2>3. \A j \in 1..Len(<<>>) : IsDigit(<<>>[j])
    BY <2>2
  <2>4. Denoted(Append(<<>>, d)) = (Denoted(<<>>) * Base) + DigitValue(d)
    BY <2>1, <2>2, <2>3, DenotedAppend
  <2>5. Denoted(<<>>) = 0
    <3>1. \E h : h[0] = 0 /\ Denoted(<<>>) = h[Len(<<>>)]
      BY <2>2, <2>3, DenotedIs
    <3> QED BY <2>2, <3>1
  <2>6. Append(<<>>, d) = <<d>>
    OBVIOUS
  <2>7. Denoted(<<d>>) = i - 1
    BY <1>4, <2>1, <2>4, <2>5, <2>6
  <2>8. <<d>> \in Seq(D) /\ Len(<<d>>) = 1 /\ <<d>>[1] = d
    BY <2>1
  <2>9. \A j \in 1..1 : j = 1
    OBVIOUS
  <2> QED BY <2>1, <2>7, <2>8, <2>9 DEF Denotes, d, D
<1>6. ASSUME NEW v \in 0..value, v < Base PROVE Denotes(f[v], v)
  <2>1. f[v] = <<Digits[v + 1]>>
    BY <1>2, <1>6 DEF Written, WrittenFrom
  <2>2. v + 1 \in 1..Base /\ v + 1 - 1 = v
    BY <1>4, <1>6
  <2>3. Denotes(<<Digits[v + 1]>>, v + 1 - 1)
    BY <1>5, <2>2
  <2> QED BY <2>1, <2>2, <2>3
<1>7. 0 \in Good
  <2>1. 0 < Base /\ 0 \in 0..value
    BY <1>4
  <2>2. Denotes(f[0], 0)
    BY <1>6, <2>1
  <2>3. \A i \in 0..0 : i = 0
    OBVIOUS
  <2> QED BY <2>2, <2>3
<1>8. ASSUME NEW m \in Good PROVE m + 1 \in Good
  <2> SUFFICES ASSUME m + 1 <= value PROVE Denotes(f[m + 1], m + 1)
    OBVIOUS
  <2>0. m + 1 \in 0..value
    OBVIOUS
  <2>1. CASE m + 1 < Base
    BY <1>6, <2>0, <2>1
  <2>2. CASE ~(m + 1 < Base)
    <3> DEFINE q == (m + 1) \div Base
               r == (m + 1) % Base
               d == Digits[r + 1]
               w == f[q]
    <3>1. q \in 0..m /\ r + 1 \in 1..Base
      BY <2>2, QuotientIsLess
    <3>2. m + 1 = (Base * q) + r /\ r \in Nat /\ q \in Nat
      BY <1>4
    <3>3. f[m + 1] = Append(w, d)
      <4>1. \A i \in 0..value : f[i] = WrittenFrom(f, i)
        BY <1>2 DEF Written
      <4> QED BY <2>0, <2>2, <4>1 DEF WrittenFrom
    <3>4. d \in D /\ IsDigit(d) /\ DigitValue(d) = r + 1 - 1
      BY <1>4, <3>1, DigitsAre
    <3> HIDE DEF d, q, r
    <3>5. Denotes(w, q)
      BY <3>1
    <3> HIDE DEF w, D
    <3>6. w \in Seq(D) /\ Len(w) > 0 /\ Denoted(w) = q /\ \A i \in 1..Len(w) : IsDigit(w[i])
      BY <3>5 DEF Denotes, D
    <3>7. Denoted(Append(w, d)) = (q * Base) + DigitValue(d)
      BY <3>4, <3>6, DenotedAppend
    <3>8. Denoted(Append(w, d)) = m + 1
      <4>1. q * Base = Base * q
        BY <1>4, <3>2
      <4> QED BY <3>2, <3>4, <3>7, <4>1
    <3> DEFINE n == Len(w)
               more == Append(w, d)
    <3>9. /\ more \in Seq(D) /\ Len(more) = n + 1 /\ more[n + 1] = d
          /\ \A i \in 1..n : more[i] = w[i]
      BY <3>4, <3>6, AppendProperties
    <3>10. n \in Nat
      BY <3>6, LenProperties
    <3> HIDE DEF n, more
    <3>11. ASSUME NEW i \in 1..n + 1 PROVE IsDigit(more[i])
      <4>1. CASE i = n + 1
        BY <3>4, <3>9, <4>1
      <4>2. CASE i # n + 1
        <5>1. i \in 1..n
          BY <3>10, <4>2
        <5> QED BY <3>6, <3>9, <5>1 DEF n
      <4> QED BY <4>1, <4>2
    <3>12. Len(more) > 0
      BY <3>9, <3>10
    <3>13. Denotes(more, m + 1)
      BY <3>8, <3>9, <3>11, <3>12 DEF Denotes, D, more
    <3> QED BY <3>3, <3>13 DEF more
  <2> QED BY <2>1, <2>2
<1>9. value \in Good
  <2> HIDE DEF Good
  <2>1. Good \in SUBSET Nat
    BY DEF Good
  <2> QED BY <1>7, <1>8, <2>1, Induction
<1> QED BY <1>3, <1>9

\* There is one list of the words of a line.
LEMMA ListedBefore ==
    ASSUME NEW line, NEW n \in Nat, NEW ws, NEW vs, Listed(line, n, ws), Listed(line, n, vs)
    PROVE  Len(ws) <= Len(vs) /\ \A k \in 1..Len(ws) : ws[k] = vs[k]
<1>1. /\ Len(ws) \in Nat /\ Len(vs) \in Nat
      /\ \A k \in 1..Len(ws) : ws[k] \in 1..n /\ Starts(line, ws[k])
      /\ \A k \in 1..Len(vs) : vs[k] \in 1..n /\ Starts(line, vs[k])
  <2>1. ws \in Seq(1..n) /\ vs \in Seq(1..n)
    BY DEF Listed
  <2> QED BY <2>1, LenProperties, ElementOfSeq DEF Listed
<1>2. /\ \A j, k \in 1..Len(ws) : j < k => ws[j] < ws[k]
      /\ \A j, k \in 1..Len(vs) : j < k => vs[j] < vs[k]
      /\ \A i \in 1..n : Starts(line, i) => \E k \in 1..Len(ws) : ws[k] = i
      /\ \A i \in 1..n : Starts(line, i) => \E k \in 1..Len(vs) : vs[k] = i
  BY DEF Listed
<1> DEFINE Good == {k \in Nat : k <= Len(ws) => k <= Len(vs) /\ \A j \in 1..k : ws[j] = vs[j]}
<1>3. 0 \in Good
  BY <1>1
<1>4. ASSUME NEW k \in Good PROVE k + 1 \in Good
  <2> SUFFICES ASSUME k + 1 <= Len(ws)
               PROVE  k + 1 <= Len(vs) /\ \A j \in 1..k + 1 : ws[j] = vs[j]
    OBVIOUS
  <2>1. k <= Len(vs) /\ \A j \in 1..k : ws[j] = vs[j]
    BY <1>1
  <2>2. k \in Nat /\ k + 1 \in 1..Len(ws)
    BY <1>1
  <2> HIDE DEF Good
  <2>3. PICK m \in 1..Len(vs) : vs[m] = ws[k + 1]
    BY <1>1, <1>2, <2>2
  <2>4. ~(m <= k)
    <3> SUFFICES ASSUME m <= k PROVE FALSE
      OBVIOUS
    <3>1. m \in 1..k /\ m \in 1..Len(ws) /\ m < k + 1
      BY <1>1, <2>2
    <3>2. ws[m] < ws[k + 1] /\ ws[m] = vs[m] /\ ws[m] \in 1..n
      BY <1>1, <1>2, <2>1, <2>2, <3>1
    <3> QED BY <2>3, <3>2
  <2>5. ~(k + 1 < m)
    <3> SUFFICES ASSUME k + 1 < m PROVE FALSE
      OBVIOUS
    <3>1. k + 1 \in 1..Len(vs)
      BY <1>1, <2>2
    <3>2. vs[k + 1] < vs[m] /\ vs[k + 1] \in 1..n /\ Starts(line, vs[k + 1])
      BY <1>1, <1>2, <3>1
    <3>3. PICK i \in 1..Len(ws) : ws[i] = vs[k + 1]
      BY <1>2, <3>2
    <3>4. i < k + 1
      <4> SUFFICES ASSUME ~(i < k + 1) PROVE FALSE
        OBVIOUS
      <4>1. i = k + 1 \/ k + 1 < i
        BY <1>1, <2>2
      <4>2. ws[k + 1] <= ws[i] /\ ws[k + 1] \in 1..n /\ ws[i] \in 1..n
        BY <1>1, <1>2, <2>2, <4>1
      <4> QED BY <2>3, <3>2, <3>3, <4>2
    <3>5. i \in 1..k /\ i \in 1..Len(vs)
      BY <1>1, <2>1, <2>2, <3>4
    <3>6. vs[i] < vs[k + 1] /\ vs[i] = ws[i] /\ vs[i] \in 1..n
      BY <1>1, <1>2, <2>1, <3>1, <3>4, <3>5
    <3> QED BY <3>3, <3>6
  <2>6. m = k + 1
    BY <1>1, <2>2, <2>4, <2>5
  <2>7. \A j \in 1..k + 1 : j = k + 1 \/ j \in 1..k
    BY <2>2
  <2>8. k + 1 <= Len(vs)
    BY <1>1, <2>2, <2>6
  <2> QED BY <2>1, <2>3, <2>6, <2>7, <2>8
<1>5. Len(ws) \in Good
  <2> HIDE DEF Good
  <2>1. Good \in SUBSET Nat
    BY DEF Good
  <2>2. Good = Nat
    BY <1>3, <1>4, <2>1, Induction
  <2> QED BY <1>1, <2>2
<1> QED BY <1>1, <1>5

-----------------------------------------------------------------------------
(***************************************************************************)
(* The words of a line to which a word is added.                           *)
(***************************************************************************)

\* more is the line, a blank and the word.
WordAdded(line, word, more) ==
    /\ Len(more) = Len(line) + 1 + Len(word)
    /\ \A i \in 1..Len(line) : more[i] = line[i]
    /\ more[Len(line) + 1] = "sp"
    /\ \A i \in 1..Len(word) : more[Len(line) + 1 + i] = word[i]

\* The word of a line that starts at f, up to the blank that follows.
Slice(line, f, word) ==
    /\ f \in 1..Len(line)
    /\ WordEnd(line, f, Len(line) + 1) \in f + 1..Len(line) + 1
    /\ Len(word) = WordEnd(line, f, Len(line) + 1) - f
    /\ \A i \in 1..Len(word) : word[i] = line[f + i - 1]

\* All words of a line are such slices.
LEMMA WordsSliced ==
    ASSUME NEW S, NEW line \in Seq(S)
    PROVE  /\ Words(line) \in Seq(Seq(S)) /\ Len(Words(line)) = Len(WordStarts(line))
           /\ Len(WordStarts(line)) \in Nat
           /\ \A k \in 1..Len(WordStarts(line)) :
                Slice(line, WordStarts(line)[k], Words(line)[k])
<1>1. /\ Words(line) \in Seq(Seq(S)) /\ Len(Words(line)) = Len(WordStarts(line))
      /\ Len(WordStarts(line)) \in Nat
  BY WordsAre
<1>2. ASSUME NEW k \in 1..Len(WordStarts(line))
      PROVE  Slice(line, WordStarts(line)[k], Words(line)[k])
  <2> DEFINE f    == WordStarts(line)[k]
             word == Words(line)[k]
  <2>1. /\ f \in 1..Len(line)
        /\ WordEnd(line, f, Len(line) + 1) \in f + 1..Len(line) + 1
        /\ Len(word) = WordEnd(line, f, Len(line) + 1) - f
        /\ \A i \in 1..Len(word) : word[i] = line[f + i - 1]
    BY WordsAre
  <2> HIDE DEF f, word
  <2>2. Slice(line, f, word)
    BY <2>1, Zenon DEF Slice
  <2> QED BY <2>2 DEF f, word
<1> QED BY <1>1, <1>2

\* A word behind a line adds one to the words of the line.
LEMMA StartAdded ==
    ASSUME NEW S, NEW line \in Seq(S), NEW word \in Seq(S), NEW more \in Seq(S),
           Len(word) > 0, \A i \in 1..Len(word) : word[i] # "sp", WordAdded(line, word, more)
    PROVE  /\ Len(WordStarts(more)) = Len(WordStarts(line)) + 1
           /\ \A k \in 1..Len(WordStarts(line)) : WordStarts(more)[k] = WordStarts(line)[k]
           /\ WordStarts(more)[Len(WordStarts(line)) + 1] = Len(line) + 2
<1> DEFINE n  == Len(line)
           m  == Len(word)
           ws == WordStarts(line)
           vs == Append(ws, n + 2)
           us == WordStarts(more)
           K  == Len(ws)
<1>1. n \in Nat /\ m \in Nat /\ m > 0 /\ Len(more) = n + 1 + m
  BY LenProperties DEF WordAdded
<1>2. /\ \A i \in 1..n : more[i] = line[i]
      /\ more[n + 1] = "sp"
      /\ \A i \in 1..m : more[n + 1 + i] = word[i]
  BY DEF WordAdded
<1>3. Listed(line, n, ws)
  BY <1>1, WordStartsAre
<1>4. Listed(more, n + 1 + m, us)
  <2>1. Len(more) \in Nat
    BY <1>1
  <2> QED BY <1>1, <2>1, WordStartsAre
<1>5. \A i \in 1..m : word[i] # "sp"
  OBVIOUS
<1> HIDE DEF n, m, ws, us
<1>6. ws \in Seq(1..n) /\ K \in Nat
  BY <1>3, LenProperties DEF Listed
<1>7. /\ \A k \in 1..K : ws[k] \in 1..n /\ Starts(line, ws[k])
      /\ \A j, k \in 1..K : j < k => ws[j] < ws[k]
      /\ \A i \in 1..n : Starts(line, i) => \E k \in 1..K : ws[k] = i
  BY <1>3, <1>6, ElementOfSeq DEF Listed
<1>8. /\ vs \in Seq(1..n + 1 + m) /\ Len(vs) = K + 1
      /\ \A k \in 1..K : vs[k] = ws[k]
      /\ vs[K + 1] = n + 2
  <2> DEFINE T == 1..n + 1 + m
  <2>1. 1..n \subseteq T /\ n + 2 \in T
    BY <1>1
  <2> HIDE DEF T
  <2>2. ws \in Seq(T)
    BY <1>6, <2>1, SeqMonotonic
  <2>3. /\ vs \in Seq(T) /\ Len(vs) = K + 1
        /\ \A k \in 1..K : vs[k] = ws[k]
        /\ vs[K + 1] = n + 2
    BY <2>1, <2>2, AppendProperties
  <2> QED BY <2>3 DEF T
<1> HIDE DEF vs, K
<1>9. \A k \in 1..K + 1 : k = K + 1 \/ k \in 1..K
  BY <1>6
<1>10. ASSUME NEW i \in 1..n PROVE Starts(more, i) <=> Starts(line, i)
  <2>1. more[i] = line[i]
    BY <1>2
  <2>2. CASE i = 1
    BY <2>1, <2>2 DEF Starts
  <2>3. CASE i # 1
    <3>1. i - 1 \in 1..n
      BY <1>1, <2>3
    <3>2. more[i - 1] = line[i - 1]
      BY <1>2, <3>1
    <3> QED BY <2>1, <2>3, <3>2 DEF Starts
  <2> QED BY <2>2, <2>3
<1>11. Starts(more, n + 2)
  <2>1. 1 \in 1..m /\ n + 1 + 1 = n + 2 /\ n + 2 - 1 = n + 1
    BY <1>1
  <2>2. more[n + 2] # "sp"
    BY <1>2, <1>5, <2>1
  <2>3. more[n + 2 - 1] = "sp"
    BY <1>2, <2>1, Zenon
  <2> QED BY <1>1, <2>2, <2>3 DEF Starts
<1>12. ASSUME NEW i \in 1..n + 1 + m, Starts(more, i) PROVE \E k \in 1..K + 1 : vs[k] = i
  <2>1. CASE i \in 1..n
    <3>1. PICK k \in 1..K : ws[k] = i
      BY <1>7, <1>10, <1>12, <2>1
    <3>2. k \in 1..K + 1
      BY <1>6
    <3> QED BY <1>8, <3>1, <3>2
  <2>2. CASE i = n + 1
    BY <1>2, <1>12, <2>2 DEF Starts
  <2>3. CASE i = n + 2
    BY <1>6, <1>8, <2>3
  <2>4. CASE i > n + 2
    <3>1. i - 1 - (n + 1) \in 1..m /\ n + 1 + (i - 1 - (n + 1)) = i - 1 /\ i # 1
      BY <1>1, <2>4
    <3>2. more[i - 1] # "sp"
      BY <1>2, <1>5, <3>1
    <3> QED BY <1>12, <3>1, <3>2 DEF Starts
  <2> QED BY <1>1, <2>1, <2>2, <2>3, <2>4
<1>13. ASSUME NEW k \in 1..K + 1 PROVE Starts(more, vs[k])
  BY <1>7, <1>8, <1>9, <1>10, <1>11
<1>14. ASSUME NEW j \in 1..K + 1, NEW k \in 1..K + 1, j < k PROVE vs[j] < vs[k]
  <2>1. j \in 1..K /\ vs[j] = ws[j] /\ ws[j] \in 1..n
    BY <1>6, <1>7, <1>8, <1>14
  <2>2. CASE k = K + 1
    BY <1>1, <1>8, <2>1, <2>2
  <2>3. CASE k # K + 1
    <3>1. k \in 1..K
      BY <1>9, <2>3
    <3> QED BY <1>7, <1>8, <1>14, <2>1, <3>1
  <2> QED BY <2>2, <2>3
<1>15. Listed(more, n + 1 + m, vs)
  BY <1>8, <1>12, <1>13, <1>14 DEF Listed
<1>16. n + 1 + m \in Nat
  BY <1>1
<1>17. /\ Len(us) <= Len(vs) /\ \A k \in 1..Len(us) : us[k] = vs[k]
       /\ Len(vs) <= Len(us)
  <2>1. Len(us) <= Len(vs) /\ \A k \in 1..Len(us) : us[k] = vs[k]
    BY <1>4, <1>15, <1>16, ListedBefore
  <2>2. Len(vs) <= Len(us)
    BY <1>4, <1>15, <1>16, ListedBefore
  <2> QED BY <2>1, <2>2
<1>18. Len(us) \in Nat
  BY <1>4, LenProperties DEF Listed
<1>19. Len(us) = K + 1
  BY <1>6, <1>8, <1>17, <1>18
<1>20. \A k \in 1..K : k \in 1..K + 1
  BY <1>6
<1>21. K + 1 \in 1..K + 1
  BY <1>6
<1>22. us[K + 1] = n + 2
  BY <1>8, <1>17, <1>19, <1>21
<1> QED BY <1>8, <1>17, <1>19, <1>20, <1>22 DEF us, K, ws, n

\* Two words that begin alike and end at the same place.
LEMMA WordAddedIs ==
    ASSUME NEW S, NEW line \in Seq(S), NEW word \in Seq(S), NEW more \in Seq(S),
           Len(word) > 0, \A i \in 1..Len(word) : word[i] # "sp", WordAdded(line, word, more)
    PROVE  /\ Len(Words(more)) = Len(Words(line)) + 1 /\ Len(Words(line)) \in Nat
           /\ \A k \in 1..Len(Words(line)) : Words(more)[k] = Words(line)[k]
           /\ Words(more)[Len(Words(line)) + 1] = word
<1> DEFINE n  == Len(line)
           m  == Len(word)
           ws == WordStarts(line)
           us == WordStarts(more)
           K  == Len(ws)
           v  == Words(line)
           u  == Words(more)
<1>1. n \in Nat /\ m \in Nat /\ m > 0 /\ Len(more) = n + 1 + m
  BY LenProperties DEF WordAdded
<1>2. /\ \A i \in 1..n : more[i] = line[i]
      /\ more[n + 1] = "sp"
      /\ \A i \in 1..m : more[n + 1 + i] = word[i]
  BY DEF WordAdded
<1>3. /\ v \in Seq(Seq(S)) /\ Len(v) = K /\ K \in Nat
      /\ \A k \in 1..K :
           /\ ws[k] \in 1..n
           /\ WordEnd(line, ws[k], n + 1) \in ws[k] + 1..n + 1
           /\ Len(v[k]) = WordEnd(line, ws[k], n + 1) - ws[k]
           /\ \A i \in 1..Len(v[k]) : v[k][i] = line[ws[k] + i - 1]
  BY WordsSliced DEF Slice
<1>4. /\ Len(us) = K + 1
      /\ \A k \in 1..K : us[k] = ws[k]
      /\ us[K + 1] = n + 2
  BY StartAdded
<1>5. /\ u \in Seq(Seq(S)) /\ Len(u) = Len(us)
      /\ \A k \in 1..Len(us) :
           /\ us[k] \in 1..Len(more)
           /\ WordEnd(more, us[k], Len(more) + 1) \in us[k] + 1..Len(more) + 1
           /\ Len(u[k]) = WordEnd(more, us[k], Len(more) + 1) - us[k]
           /\ \A i \in 1..Len(u[k]) : u[k][i] = more[us[k] + i - 1]
  BY WordsSliced DEF Slice
<1>6. \A i \in 1..m : word[i] # "sp"
  OBVIOUS
<1> HIDE DEF n, m, ws, us, v, u, K
<1> DEFINE end == n + 1 + m + 1
<1>7. ASSUME NEW k \in 1..K PROVE u[k] = v[k]
  <2> DEFINE f == ws[k]
             e == WordEnd(line, f, n + 1)
             g == WordEnd(more, f, end)
  <2>0. f \in 1..n
    BY <1>3
  <2>1. f \in 1..n /\ f \in Nat /\ f <= n + 1 /\ f <= end /\ end \in Nat /\ n + 1 \in Nat
    <3> HIDE DEF f
    <3> QED BY <1>1, <2>0
  <2>2. /\ e \in f + 1..n + 1 /\ Len(v[k]) = e - f
        /\ \A i \in 1..Len(v[k]) : v[k][i] = line[f + i - 1]
    BY <1>3
  <2>3. /\ k \in 1..Len(us) /\ us[k] = f /\ Len(more) + 1 = end
    BY <1>1, <1>3, <1>4
  <2>4. /\ g \in f + 1..end /\ Len(u[k]) = g - f
        /\ \A i \in 1..Len(u[k]) : u[k][i] = more[f + i - 1]
    BY <1>5, <2>3
  <2> HIDE DEF f, end
  <2>5. /\ \A i \in f..e - 1 : line[i] # "sp"
        /\ e < n + 1 => line[e] = "sp"
    BY <2>1, WordEndIs
  <2>6. /\ \A i \in f..g - 1 : more[i] # "sp"
        /\ g < end => more[g] = "sp"
    BY <2>1, WordEndIs
  <2> HIDE DEF e, g
  <2>7. more[e] = "sp"
    <3>1. CASE e = n + 1
      BY <1>2, <3>1
    <3>2. CASE e # n + 1
      <4>1. e \in 1..n /\ e < n + 1
        BY <1>1, <2>1, <2>2, <3>2
      <4> QED BY <1>2, <2>5, <4>1
    <3> QED BY <3>1, <3>2
  <2>8. ~(e < g)
    <3> SUFFICES ASSUME e < g PROVE FALSE
      OBVIOUS
    <3>1. e \in f..g - 1
      BY <1>1, <2>1, <2>2, <2>4
    <3> QED BY <2>6, <2>7, <3>1
  <2>9. ~(g < e)
    <3> SUFFICES ASSUME g < e PROVE FALSE
      OBVIOUS
    <3>1. g \in f..e - 1 /\ g \in 1..n /\ g < end
      BY <1>1, <2>1, <2>2, <2>4 DEF end
    <3> QED BY <1>2, <2>5, <2>6, <3>1
  <2>10. e = g
    BY <1>1, <2>1, <2>2, <2>4, <2>8, <2>9
  <2>11. v[k] \in Seq(S) /\ u[k] \in Seq(S)
    BY <1>3, <1>5, <2>3, ElementOfSeq
  <2>12. Len(u[k]) = Len(v[k])
    BY <2>2, <2>4, <2>10
  <2>13. ASSUME NEW i \in 1..Len(u[k]) PROVE u[k][i] = v[k][i]
    <3>1. i \in 1..Len(v[k]) /\ f + i - 1 \in 1..n
      BY <1>1, <2>1, <2>2, <2>4, <2>10
    <3> QED BY <1>2, <2>2, <2>4, <3>1
  <2> HIDE DEF u, v
  <2> QED BY <2>11, <2>12, <2>13, SeqEqual
<1>8. u[K + 1] = word
  <2> DEFINE f == n + 2
             g == WordEnd(more, f, end)
             w == u[K + 1]
  <2>1. f \in Nat /\ f <= end /\ end \in Nat /\ Len(more) + 1 = end
    BY <1>1
  <2>2. K + 1 \in 1..Len(us) /\ us[K + 1] = f
    BY <1>3, <1>4
  <2>3. /\ g \in f + 1..end /\ Len(w) = g - f
        /\ \A i \in 1..Len(w) : w[i] = more[f + i - 1]
    BY <1>5, <2>1, <2>2
  <2>4. g < end => more[g] = "sp"
    BY <2>1, WordEndIs
  <2>5. w \in Seq(S)
    BY <1>5, <2>2, ElementOfSeq
  <2> HIDE DEF g, w
  <2>6. g = end
    <3> SUFFICES ASSUME g < end PROVE FALSE
      BY <2>1, <2>3
    <3>1. g - (n + 1) \in 1..m /\ n + 1 + (g - (n + 1)) = g
      BY <1>1, <2>3
    <3>2. more[g] # "sp"
      BY <1>2, <1>6, <3>1
    <3> QED BY <2>4, <3>2
  <2>7. Len(w) = m
    BY <1>1, <2>3, <2>6
  <2>8. ASSUME NEW i \in 1..m PROVE w[i] = word[i]
    <3>1. f + i - 1 = n + 1 + i
      BY <1>1
    <3> QED BY <1>2, <2>3, <2>7, <3>1
  <2>9. w = word
    BY <2>5, <2>7, <2>8, SeqEqual DEF m
  <2> QED BY <2>9 DEF w
<1> QED BY <1>3, <1>4, <1>5, <1>7, <1>8 DEF u, v, K

\* The first character of a line is its first word if a blank follows it or
\* nothing does.
LEMMA FirstWord ==
    ASSUME NEW S, NEW line \in Seq(S), Len(line) > 0, line[1] # "sp",
           Len(line) = 1 \/ line[2] = "sp"
    PROVE  /\ Words(line) # <<>> /\ Len(Words(line)) \in Nat /\ Words(line)[1] = <<line[1]>>
           /\ Len(line) = 1 => Len(Words(line)) = 1
<1> DEFINE n  == Len(line)
           ws == WordStarts(line)
           v  == Words(line)
           K  == Len(ws)
           e  == WordEnd(line, 1, n + 1)
<1>1. n \in Nat /\ n > 0
  BY LenProperties
<1>2. Listed(line, n, ws)
  BY <1>1, WordStartsAre
<1>3. /\ v \in Seq(Seq(S)) /\ Len(v) = K /\ K \in Nat
      /\ \A k \in 1..K :
           /\ ws[k] \in 1..n
           /\ WordEnd(line, ws[k], n + 1) \in ws[k] + 1..n + 1
           /\ Len(v[k]) = WordEnd(line, ws[k], n + 1) - ws[k]
           /\ \A i \in 1..Len(v[k]) : v[k][i] = line[ws[k] + i - 1]
  BY WordsSliced DEF Slice
<1>4. /\ 1 \in Nat /\ n + 1 \in Nat /\ 1 <= n + 1
  BY <1>1
<1>5. /\ \A i \in 1..e - 1 : line[i] # "sp"
      /\ e < n + 1 => line[e] = "sp"
  BY <1>4, WordEndIs
<1> HIDE DEF ws, v, K, e
<1>6. PICK k \in 1..K : ws[k] = 1
  <2>1. 1 \in 1..n /\ Starts(line, 1)
    BY <1>1 DEF Starts
  <2> QED BY <1>2, <2>1 DEF Listed, K
<1>7. k = 1
  <2> SUFFICES ASSUME k # 1 PROVE FALSE
    OBVIOUS
  <2>1. 1 \in 1..K /\ 1 < k
    BY <1>3
  <2>2. ws[1] < ws[k] /\ ws[1] \in 1..n
    BY <1>2, <1>3, <2>1 DEF Listed, K
  <2> QED BY <1>1, <1>6, <2>2
<1>8. /\ e \in 2..n + 1 /\ Len(v[1]) = e - 1 /\ 1 \in 1..K
      /\ \A i \in 1..Len(v[1]) : v[1][i] = line[1 + i - 1]
  <2>1. 1 + 1 = 2
    OBVIOUS
  <2> QED BY <1>3, <1>6, <1>7, <2>1 DEF e
<1>9. e = 2
  <2>1. CASE n = 1
    BY <1>8, <2>1
  <2>2. CASE line[2] = "sp"
    <3> SUFFICES ASSUME e # 2 PROVE FALSE
      OBVIOUS
    <3>1. 2 \in 1..e - 1
      BY <1>1, <1>8
    <3> QED BY <1>5, <2>2, <3>1
  <2> QED BY <2>1, <2>2
<1>10. Len(v[1]) = 1 /\ v[1][1] = line[1]
  <2>1. Len(v[1]) = 1 /\ 1 \in 1..1 /\ 1 + 1 - 1 = 1
    BY <1>8, <1>9
  <2> QED BY <1>8, <2>1
<1>11. v[1] \in Seq(S)
  BY <1>3, <1>8, ElementOfSeq
<1>12. v[1] = <<line[1]>>
  <2>1. v[1] = <<v[1][1]>>
    BY <1>10, <1>11, OneCharacter, Zenon
  <2> QED BY <1>10, <2>1
<1>13. v # <<>>
  <2>1. Len(v) # 0
    BY <1>3, <1>8
  <2> QED BY <2>1
<1>14. ASSUME n = 1 PROVE K = 1
  <2> SUFFICES ASSUME K # 1 PROVE FALSE
    OBVIOUS
  <2>1. 1 \in 1..K /\ 2 \in 1..K
    BY <1>3, <1>8
  <2>2. ws[1] < ws[2] /\ ws[1] \in 1..n /\ ws[2] \in 1..n
    BY <1>2, <1>3, <2>1 DEF Listed, K
  <2> QED BY <1>14, <2>2
<1> QED BY <1>3, <1>12, <1>13, <1>14 DEF v

-----------------------------------------------------------------------------
(***************************************************************************)
(* Replies one behind the other.                                           *)
(*                                                                         *)
(* Bytes are legible as some replies if they can be cut into pieces that   *)
(* are read as them, one by one; a reply behind them is one more.          *)
(***************************************************************************)

\* The bytes c begin with the reply, in its first n bytes.
ReadAs(c, reply, n) ==
    /\ Readable(c, Words(Line(c)))
    /\ ReplyOf(c, Words(Line(c))) = reply
    /\ ReplyLength(c, Words(Line(c))) = n

\* A reply that is read has a length, and it is there as a whole.
LEMMA ReplyInside ==
    ASSUME NEW S, NEW b \in Seq(S), Readable(b, Words(Line(b)))
    PROVE  /\ ReplyLength(b, Words(Line(b))) \in 2..Len(b)
           /\ FirstBreak(b) \in 1..Len(b) - 1
           /\ Words(Line(b))[1] = <<"VALUE">> => Denoted(Words(Line(b))[4]) \in Nat
<1> DEFINE words == Words(Line(b))
           d == Denoted(words[4])
           k == FirstBreak(b)
<1>1. LineError(b) = "OK" /\ ReplyLength(b, words) <= Len(b)
  BY DEF Readable
<1>2. /\ k \in 1..Len(b) - 1 /\ Len(b) \in Nat /\ Line(b) \in Seq(S)
  BY <1>1, LineIs
<1>3. words \in Seq(Seq(S))
  BY <1>2, WordsTyped
<1>4. ASSUME words[1] = <<"VALUE">> PROVE d \in Nat
  <2>1. Len(words) = 4 /\ \A i \in DOMAIN words[4] : IsDigit(words[4][i])
    BY <1>4 DEF Readable
  <2>2. words[4] \in Seq(S)
    <3>1. 4 \in 1..Len(words)
      <4> HIDE DEF words
      <4>1. \A n : n = 4 => 4 \in 1..n
        OBVIOUS
      <4> QED BY <2>1, <4>1, Zenon
    <3> HIDE DEF words
    <3> QED BY <1>3, <3>1, ElementOfSeq
  <2> DEFINE word == words[4]
  <2>3. word \in Seq(S) /\ Len(word) \in Nat /\ \A i \in 1..Len(word) : IsDigit(word[i])
    <3> HIDE DEF words
    <3> QED BY <2>1, <2>2, LenProperties
  <2> HIDE DEF word
  <2>4. PICK h : h \in [0..Len(word) -> Nat] /\ Denoted(word) = h[Len(word)]
    BY <2>3, DenotedIs
  <2>5. Denoted(word) \in Nat
    BY <2>3, <2>4
  <2> QED BY <2>5 DEF word
<1> HIDE DEF words, d, k
<1>5. ReplyLength(b, words) = k + 1 + IF words[1] = <<"VALUE">> THEN d + 2 ELSE 0
  BY DEF ReplyLength, d, k
<1>6. ReplyLength(b, words) >= 2 /\ ReplyLength(b, words) \in Int
  BY <1>2, <1>4, <1>5
<1> QED BY <1>1, <1>2, <1>4, <1>6 DEF words, d, k

\* A reply that is there as a whole stays the same whatever follows it.
LEMMA ReadStays ==
    ASSUME NEW S, NEW b \in Seq(S), NEW c \in Seq(S), Continues(c, b), NEW reply, NEW n,
           ReadAs(b, reply, n)
    PROVE  ReadAs(c, reply, n)
<1> DEFINE words == Words(Line(b))
           d == Denoted(words[4])
           k == FirstBreak(b)
<1>1. Readable(b, words) /\ ReplyOf(b, words) = reply /\ ReplyLength(b, words) = n
  BY DEF ReadAs
<1>2. /\ n \in 2..Len(b) /\ k \in 1..Len(b) - 1
      /\ words[1] = <<"VALUE">> => d \in Nat
  BY <1>1, ReplyInside
<1>3. /\ Len(b) \in Nat /\ Len(c) \in Nat /\ Len(b) <= Len(c)
      /\ \A i \in 1..Len(b) : c[i] = b[i]
  BY LenProperties DEF Continues
<1>4. LineError(b) = "OK"
  BY <1>1 DEF Readable
<1>5. LineError(c) = "OK" /\ FirstBreak(c) = k /\ Line(c) = Line(b)
  BY <1>4, LineStays
<1>6. Words(Line(c)) = words
  BY <1>5
<1> HIDE DEF words, d, k
<1>7. ReplyLength(c, words) = n
  BY <1>1, <1>5 DEF ReplyLength, k
<1>8. Readable(c, words)
  BY <1>1, <1>2, <1>3, <1>5, <1>7 DEF Readable
<1>9. ASSUME NEW f \in 1..Len(b) + 1, NEW g \in f - 1..Len(b)
      PROVE  SubSeq(c, f, g) = SubSeq(b, f, g)
  <2> DEFINE s == SubSeq(c, f, g)
             t == SubSeq(b, f, g)
  <2>1. f \in 1..Len(c) + 1 /\ g \in f - 1..Len(c)
    BY <1>3
  <2>2. /\ s \in Seq(S) /\ Len(s) = g - f + 1
        /\ \A i \in 1..g - f + 1 : s[i] = c[f + i - 1]
    BY <2>1, SliceIs
  <2>3. /\ t \in Seq(S) /\ Len(t) = g - f + 1
        /\ \A i \in 1..g - f + 1 : t[i] = b[f + i - 1]
    BY <1>9, SliceIs
  <2> HIDE DEF s, t
  <2>4. \A i \in 1..g - f + 1 : f + i - 1 \in 1..Len(b)
    BY <1>3, <1>9
  <2>5. \A i \in 1..Len(s) : s[i] = t[i]
    BY <1>3, <2>2, <2>3, <2>4
  <2>6. s = t
    BY <2>2, <2>3, <2>5, SeqEqual
  <2> QED BY <2>6 DEF s, t
<1>10. CASE words[1] = <<"VALUE">>
  <2>1. n = k + 1 + (d + 2) /\ d \in Nat
    BY <1>1, <1>2, <1>10 DEF ReplyLength, d, k
  <2>2. k + 2 \in 1..Len(b) + 1 /\ k + 1 + d \in k + 2 - 1..Len(b)
    BY <1>2, <1>3, <2>1
  <2>3. SubSeq(c, k + 2, k + 1 + d) = SubSeq(b, k + 2, k + 1 + d)
    BY <1>9, <2>2
  <2>0. words[1][1] \notin {"VERSION", "CLIENT_ERROR", "SERVER_ERROR"}
    BY <1>10
  <2>4. ReplyOf(c, words) = <<"VALUE", words[2], Denoted(words[3]), SubSeq(c, k + 2, k + 1 + d)>>
    BY <1>5, <1>10, <2>0 DEF ReplyOf, d
  <2>5. ReplyOf(b, words) = <<"VALUE", words[2], Denoted(words[3]), SubSeq(b, k + 2, k + 1 + d)>>
    BY <1>10, <2>0 DEF ReplyOf, d, k
  <2> QED BY <1>1, <1>6, <1>7, <1>8, <2>3, <2>4, <2>5, Zenon DEF ReadAs
<1>11. CASE words[1] # <<"VALUE">> /\ words[1][1] \in {"VERSION", "CLIENT_ERROR", "SERVER_ERROR"}
  <2>1. ReplyOf(c, words) = <<words[1][1], SubSeq(c, 3, k - 1)>>
    BY <1>5, <1>11, Zenon DEF ReplyOf
  <2>2. ReplyOf(b, words) = <<words[1][1], SubSeq(b, 3, k - 1)>>
    BY <1>11, Zenon DEF ReplyOf, k
  <2>3. SubSeq(c, 3, k - 1) = SubSeq(b, 3, k - 1)
    <3>1. CASE k >= 3
      <4>1. 3 \in 1..Len(b) + 1 /\ k - 1 \in 3 - 1..Len(b)
        BY <1>2, <1>3, <3>1
      <4> QED BY <1>9, <4>1
    <3>2. CASE k < 3
      <4>1. k - 1 < 3 /\ k - 1 \in Int /\ 3 \in Int
        BY <1>2, <3>2
      <4>2. \A i \in 3..k - 1 : FALSE
        BY <4>1
      <4> DEFINE s == SubSeq(c, 3, k - 1)
                 t == SubSeq(b, 3, k - 1)
      <4>3. s \in Seq(S) /\ t \in Seq(S) /\ Len(s) = 0 /\ Len(t) = 0
        BY <4>1, <4>2, SubSeqProperties
      <4> HIDE DEF s, t
      <4>4. s = <<>> /\ t = <<>>
        BY <4>3, EmptySeq
      <4> QED BY <4>4 DEF s, t
    <3> QED BY <1>2, <3>1, <3>2
  <2> QED BY <1>1, <1>6, <1>7, <1>8, <2>1, <2>2, <2>3, Zenon DEF ReadAs
<1>12. CASE words[1] # <<"VALUE">> /\ words[1][1] \notin {"VERSION", "CLIENT_ERROR", "SERVER_ERROR"}
  <2>1. ReplyOf(c, words) = words[1] /\ ReplyOf(b, words) = words[1]
    BY <1>12, Zenon DEF ReplyOf
  <2> QED BY <1>1, <1>6, <1>7, <1>8, <2>1, Zenon DEF ReadAs
<1> QED BY <1>10, <1>11, <1>12

\* The replies found in some bytes: where each begins.
Cut(cuts, bytes, read) ==
    /\ cuts \in [1..Len(read) + 1 -> Nat]
    /\ cuts[1] = 1 /\ cuts[Len(read) + 1] = Len(bytes) + 1
    /\ \A i \in 1..Len(read) :
         /\ cuts[i] \in 1..Len(bytes)
         /\ ReadAs(SubSeq(bytes, cuts[i], Len(bytes)), read[i], cuts[i + 1] - cuts[i])

\* The bytes are these replies, one behind the other.
Legible(bytes, read) == IsSeq(bytes) /\ IsSeq(read) /\ \E cuts : Cut(cuts, bytes, read)

\* No bytes are no replies.
LEMMA NothingLegible == Legible(<<>>, <<>>)
<1> DEFINE cuts == [i \in 1..1 |-> 1]
<1>1. Len(<<>>) = 0 /\ IsSeq(<<>>)
  BY EmptySeq DEF IsSeq
<1>2. Cut(cuts, <<>>, <<>>)
  BY <1>1 DEF Cut
<1> QED BY <1>1, <1>2, Zenon DEF Legible

\* The rest of some bytes, with more bytes behind it.
LEMMA RestGrows ==
    ASSUME NEW S, NEW b \in Seq(S), NEW w \in Seq(S), NEW f \in 1..Len(b) + 1
    PROVE  /\ SubSeq(b, f, Len(b)) \in Seq(S) /\ SubSeq(b \o w, f, Len(b \o w)) \in Seq(S)
           /\ Continues(SubSeq(b \o w, f, Len(b \o w)), SubSeq(b, f, Len(b)))
           /\ f = Len(b) + 1 => SubSeq(b \o w, f, Len(b \o w)) = w
           /\ b \o w \in Seq(S) /\ Len(b \o w) = Len(b) + Len(w)
<1> DEFINE m == Len(b)
           n == Len(w)
           c == b \o w
           s == SubSeq(b, f, m)
           t == SubSeq(c, f, Len(c))
<1>1. m \in Nat /\ n \in Nat
  BY LenProperties
<1>2. /\ c \in Seq(S) /\ Len(c) = m + n
      /\ \A i \in 1..m + n : c[i] = IF i <= m THEN b[i] ELSE w[i - m]
  BY ConcatProperties
<1>3. s \in Seq(S) /\ Len(s) = m - f + 1 /\ \A i \in 1..m - f + 1 : s[i] = b[f + i - 1]
  <2>1. m \in f - 1..Len(b)
    BY <1>1
  <2> QED BY <2>1, SliceIs
<1> HIDE DEF c, s
<1>4. t \in Seq(S) /\ Len(t) = m + n - f + 1 /\ \A i \in 1..m + n - f + 1 : t[i] = c[f + i - 1]
  <2>1. f \in 1..Len(c) + 1 /\ Len(c) \in f - 1..Len(c)
    BY <1>1, <1>2
  <2> QED BY <1>2, <2>1, SliceIs
<1> HIDE DEF t, m, n
<1>5. f \in 1..m + 1
  BY DEF m
<1>6. ASSUME NEW i \in 1..m - f + 1 PROVE t[i] = s[i]
  <2>1. i \in 1..m + n - f + 1 /\ f + i - 1 \in 1..m + n /\ f + i - 1 <= m
    BY <1>1, <1>5
  <2> QED BY <1>2, <1>3, <1>4, <2>1
<1>7. Len(s) <= Len(t)
  BY <1>1, <1>3, <1>4, <1>5
<1>8. Continues(t, s)
  BY <1>3, <1>6, <1>7 DEF Continues
<1>9. ASSUME f = m + 1 PROVE t = w
  <2>1. Len(t) = n
    BY <1>1, <1>4, <1>9
  <2>2. ASSUME NEW i \in 1..n PROVE t[i] = w[i]
    <3> DEFINE j == f + i - 1
    <3>1. i \in 1..m + n - f + 1 /\ j \in 1..m + n /\ ~(j <= m) /\ j - m = i
      BY <1>1, <1>9
    <3>2. t[i] = c[j]
      BY <1>4, <3>1
    <3> HIDE DEF j
    <3>3. c[j] = w[j - m]
      BY <1>2, <3>1
    <3> QED BY <3>1, <3>2, <3>3, Zenon
  <2> QED BY <1>4, <2>1, <2>2, SeqEqual DEF n
<1> QED BY <1>2, <1>3, <1>4, <1>8, <1>9 DEF m, n, c, s, t

\* Another reply behind the bytes is another reply read.
LEMMA ReplyAdded ==
    ASSUME NEW bytes, NEW read, Legible(bytes, read), NEW w, IsSeq(w), NEW reply,
           ReadAs(w, reply, Len(w))
    PROVE  Legible(bytes \o w, Append(read, reply))
<1>1. PICK S1, S2 : bytes \in Seq(S1) /\ w \in Seq(S2)
  BY DEF Legible, IsSeq
<1>2. PICK R : read \in Seq(R)
  BY DEF Legible, IsSeq
<1> DEFINE S == S1 \cup S2
           T == R \cup {reply}
           all == bytes \o w
           more == Append(read, reply)
           m == Len(bytes)
           l == Len(w)
           n == Len(read)
<1>3. bytes \in Seq(S) /\ w \in Seq(S)
  <2>1. S1 \subseteq S /\ S2 \subseteq S
    OBVIOUS
  <2> HIDE DEF S
  <2> QED BY <1>1, <2>1, SeqMonotonic
<1>4. read \in Seq(T) /\ reply \in T
  <2>1. R \subseteq T /\ reply \in T
    OBVIOUS
  <2> HIDE DEF T
  <2> QED BY <1>2, <2>1, SeqMonotonic
<1> HIDE DEF S, T
<1>5. m \in Nat /\ l \in Nat /\ n \in Nat
  BY <1>3, <1>4, LenProperties
<1>6. /\ more \in Seq(T) /\ Len(more) = n + 1 /\ more[n + 1] = reply
      /\ \A i \in 1..n : more[i] = read[i]
  BY <1>4, AppendProperties
<1>7. l > 0
  <2>1. Readable(w, Words(Line(w))) /\ ReplyLength(w, Words(Line(w))) = l
    BY DEF ReadAs
  <2>2. l \in 2..Len(w)
    BY <1>3, <2>1, ReplyInside
  <2> QED BY <2>2
<1>8. /\ all \in Seq(S) /\ Len(all) = m + l
      /\ \A f \in 1..m + 1 :
           /\ SubSeq(bytes, f, m) \in Seq(S) /\ SubSeq(all, f, Len(all)) \in Seq(S)
           /\ Continues(SubSeq(all, f, Len(all)), SubSeq(bytes, f, m))
           /\ f = m + 1 => SubSeq(all, f, Len(all)) = w
  <2>1. m + 1 \in 1..m + 1
    BY <1>5
  <2> QED BY <1>3, <2>1, RestGrows
<1>9. PICK cuts : Cut(cuts, bytes, read)
  BY DEF Legible
<1>10. /\ cuts \in [1..n + 1 -> Nat] /\ cuts[1] = 1 /\ cuts[n + 1] = m + 1
       /\ \A i \in 1..n :
            /\ cuts[i] \in 1..m
            /\ ReadAs(SubSeq(bytes, cuts[i], m), read[i], cuts[i + 1] - cuts[i])
  BY <1>9 DEF Cut
<1>r. ReadAs(w, reply, l)
  OBVIOUS
<1> HIDE DEF all, more, m, l, n
<1> DEFINE new == [i \in 1..n + 1 + 1 |-> IF i = n + 1 + 1 THEN m + l + 1 ELSE cuts[i]]
<1>11. new \in [1..n + 1 + 1 -> Nat]
  <2>1. m + l + 1 \in Nat
    BY <1>5
  <2>2. ASSUME NEW i \in 1..n + 1 + 1, i # n + 1 + 1 PROVE cuts[i] \in Nat
    <3>1. i \in 1..n + 1
      BY <1>5, <2>2
    <3> QED BY <1>10, <3>1
  <2> QED BY <2>1, <2>2
<1>12. new[1] = 1 /\ new[n + 1 + 1] = m + l + 1 /\ new[n + 1] = m + 1
       /\ \A i \in 1..n : new[i] = cuts[i] /\ new[i + 1] = cuts[i + 1]
  <2>1. /\ 1 \in 1..n + 1 + 1 /\ 1 # n + 1 + 1
        /\ n + 1 + 1 \in 1..n + 1 + 1
        /\ n + 1 \in 1..n + 1 + 1 /\ n + 1 # n + 1 + 1
        /\ \A i \in 1..n : /\ i \in 1..n + 1 + 1 /\ i # n + 1 + 1
                           /\ i + 1 \in 1..n + 1 + 1 /\ i + 1 # n + 1 + 1
    BY <1>5
  <2> QED BY <1>10, <2>1
<1> HIDE DEF new
<1>13. ASSUME NEW i \in 1..n + 1
       PROVE  /\ new[i] \in 1..m + l
              /\ ReadAs(SubSeq(all, new[i], Len(all)), more[i], new[i + 1] - new[i])
  <2>1. CASE i = n + 1
    <3>1. new[i] = m + 1 /\ new[i + 1] = m + l + 1 /\ more[i] = reply
      BY <1>6, <1>12, <2>1
    <3>2. m + 1 \in 1..m + l /\ m + 1 \in 1..m + 1 /\ m + l + 1 - (m + 1) = l
      BY <1>5, <1>7
    <3>3. SubSeq(all, m + 1, Len(all)) = w
      BY <1>8, <3>2
    <3>4. new[i + 1] - new[i] = l
      <4>1. \A x, y : x = m + l + 1 /\ y = m + 1 => x - y = l
        BY <1>5
      <4> QED BY <3>1, <4>1, Zenon
    <3>5. new[i] \in 1..m + l
      BY <3>1, <3>2
    <3> QED BY <1>r, <3>1, <3>3, <3>4, <3>5, Zenon
  <2>2. CASE i # n + 1
    <3> DEFINE f == cuts[i]
    <3>1. i \in 1..n
      BY <1>5, <2>2
    <3>2. new[i] = f /\ new[i + 1] = cuts[i + 1] /\ more[i] = read[i] /\ f \in 1..m
          /\ ReadAs(SubSeq(bytes, f, m), read[i], cuts[i + 1] - f)
      BY <1>6, <1>10, <1>12, <3>1
    <3> HIDE DEF f
    <3>3. f \in 1..m + 1 /\ f \in 1..m + l
      BY <1>5, <3>2
    <3>4. /\ SubSeq(bytes, f, m) \in Seq(S) /\ SubSeq(all, f, Len(all)) \in Seq(S)
          /\ Continues(SubSeq(all, f, Len(all)), SubSeq(bytes, f, m))
      BY <1>8, <3>3
    <3>5. ReadAs(SubSeq(all, f, Len(all)), read[i], cuts[i + 1] - f)
      BY <3>2, <3>4, ReadStays
    <3> QED BY <3>2, <3>3, <3>5
  <2> QED BY <2>1, <2>2
<1>14. Cut(new, all, more)
  BY <1>6, <1>8, <1>11, <1>12, <1>13 DEF Cut
<1>15. IsSeq(all) /\ IsSeq(more)
  BY <1>6, <1>8, SeqIs
<1> QED BY <1>14, <1>15, Zenon DEF Legible, all, more

-----------------------------------------------------------------------------
(***************************************************************************)
(* What a client reads from legible bytes.                                 *)
(***************************************************************************)

\* The replies from position p on, by the replies from later positions on.
DecodedFrom(f, bytes, p) ==
    LET b == SubSeq(bytes, p, Len(bytes))
    IN  IF b = <<>> THEN <<>>
        ELSE IF ~Readable(b, Words(Line(b))) THEN << <<"unreadable">> >>
        ELSE <<ReplyOf(b, Words(Line(b)))>> \o f[p + ReplyLength(b, Words(Line(b)))]

\* f has the replies from each of the last n + 1 positions on.
Decodes(f, bytes, n) ==
    f = [p \in Len(bytes) + 1 - n..Len(bytes) + 1 |-> DecodedFrom(f, bytes, p)]

\* Such lists exist for every position: a reply has a length.
LEMMA DecodedDefined ==
    ASSUME NEW S, NEW bytes \in Seq(S)
    PROVE  \E f : Decodes(f, bytes, Len(bytes))
<1> DEFINE m == Len(bytes)
           Done == {n \in Nat : n <= m => \E f : Decodes(f, bytes, n)}
<1>1. m \in Nat
  BY LenProperties
<1>2. ASSUME NEW p \in 1..m
      PROVE  SubSeq(bytes, p, m) \in Seq(S) /\ Len(SubSeq(bytes, p, m)) = m - p + 1
  <2>1. p \in 1..m + 1 /\ m \in p - 1..m
    BY <1>1
  <2> QED BY <2>1, SliceIs
<1>3. ASSUME NEW p \in 1..m, NEW f, NEW g,
             \A q \in p + 1..m + 1 : f[q] = g[q]
      PROVE  DecodedFrom(f, bytes, p) = DecodedFrom(g, bytes, p)
  <2> DEFINE b == SubSeq(bytes, p, m)
             words == Words(Line(b))
             q == p + ReplyLength(b, words)
  <2>1. CASE ~Readable(b, words)
    BY <2>1, Zenon DEF DecodedFrom
  <2>2. CASE Readable(b, words)
    <3>1. b \in Seq(S) /\ Len(b) = m - p + 1
      BY <1>2
    <3>2. ReplyLength(b, words) \in 2..Len(b)
      BY <2>2, <3>1, ReplyInside
    <3>3. q \in p + 1..m + 1
      <4> HIDE DEF b, words
      <4> QED BY <1>1, <3>1, <3>2
    <3>4. f[q] = g[q]
      BY <1>3, <3>3
    <3>5. DecodedFrom(f, bytes, p) = IF b = <<>> THEN <<>>
                                     ELSE <<ReplyOf(b, words)>> \o f[q]
      BY <2>2, Zenon DEF DecodedFrom
    <3>6. DecodedFrom(g, bytes, p) = IF b = <<>> THEN <<>>
                                     ELSE <<ReplyOf(b, words)>> \o g[q]
      BY <2>2, Zenon DEF DecodedFrom
    <3> HIDE DEF b, words, q
    <3> DEFINE x == f[q]
               y == g[q]
    <3>7. x = y
      BY <3>4
    <3> HIDE DEF x, y
    <3>8. <<ReplyOf(b, words)>> \o x = <<ReplyOf(b, words)>> \o y
      BY <3>7, Zenon
    <3>9. CASE b = <<>>
      BY <3>5, <3>6, <3>9, Zenon
    <3>10. CASE b # <<>>
      BY <3>5, <3>6, <3>8, <3>10, Zenon DEF x, y
    <3> QED BY <3>9, <3>10
  <2> QED BY <2>1, <2>2
<1>4. 0 \in Done
  <2> DEFINE f == [p \in m + 1..m + 1 |-> <<>>]
  <2>1. SubSeq(bytes, m + 1, m) = <<>>
    <3>1. m + 1 \in 1..m + 1 /\ m \in m + 1 - 1..m
      BY <1>1
    <3>2. SubSeq(bytes, m + 1, m) \in Seq(S) /\ Len(SubSeq(bytes, m + 1, m)) = m - (m + 1) + 1
      BY <3>1, SliceIs
    <3>3. m - (m + 1) + 1 = 0
      BY <1>1
    <3> QED BY <3>2, <3>3, EmptySeq
  <2>2. \A g : DecodedFrom(g, bytes, m + 1) = <<>>
    BY <2>1, Zenon DEF DecodedFrom
  <2>3. \A p \in m + 1..m + 1 : p = m + 1
    BY <1>1
  <2>4. f = [p \in m + 1..m + 1 |-> DecodedFrom(f, bytes, p)]
    BY <2>2, <2>3
  <2>5. m + 1 - 0 = m + 1
    BY <1>1
  <2>6. Decodes(f, bytes, 0)
    BY <2>4, <2>5, Zenon DEF Decodes
  <2>7. \E g : Decodes(g, bytes, 0)
    <3> HIDE DEF f
    <3> QED BY <2>6
  <2> QED BY <2>7
<1>5. ASSUME NEW n \in Done PROVE n + 1 \in Done
  <2> SUFFICES ASSUME n + 1 <= m PROVE \E f : Decodes(f, bytes, n + 1)
    OBVIOUS
  <2> DEFINE l == m + 1 - n
             k == m + 1 - (n + 1)
  <2>1. l \in Nat /\ k \in Nat /\ l = k + 1 /\ k >= 1
    BY <1>1
  <2>2. n <= m
    BY <1>1
  <2>3. PICK f : Decodes(f, bytes, n)
    BY <2>2
  <2> HIDE DEF Done
  <2>4. f = [p \in l..m + 1 |-> DecodedFrom(f, bytes, p)]
    BY <2>3 DEF Decodes
  <2> HIDE DEF l, k
  <2> DEFINE g == [p \in k..m + 1 |-> DecodedFrom(f, bytes, p)]
  <2>5. ASSUME NEW q \in l..m + 1 PROVE f[q] = g[q]
    <3>1. q \in k..m + 1
      BY <1>1, <2>1
    <3> QED BY <2>4, <3>1
  <2>6. ASSUME NEW p \in k..m + 1 PROVE g[p] = DecodedFrom(g, bytes, p)
    <3>1. g[p] = DecodedFrom(f, bytes, p)
      OBVIOUS
    <3>2. CASE p = m + 1
      <4>1. SubSeq(bytes, m + 1, m) = <<>>
        <5>1. m + 1 \in 1..m + 1 /\ m \in m + 1 - 1..m
          BY <1>1
        <5>2. /\ SubSeq(bytes, m + 1, m) \in Seq(S)
              /\ Len(SubSeq(bytes, m + 1, m)) = m - (m + 1) + 1
          BY <5>1, SliceIs
        <5>3. m - (m + 1) + 1 = 0
          BY <1>1
        <5> QED BY <5>2, <5>3, EmptySeq
      <4>2. \A h : DecodedFrom(h, bytes, m + 1) = <<>>
        BY <4>1, Zenon DEF DecodedFrom
      <4> QED BY <3>1, <3>2, <4>2, Zenon
    <3>3. CASE p # m + 1
      <4>1. p \in 1..m
        BY <1>1, <2>1, <3>3
      <4>2. \A q \in p + 1..m + 1 : q \in l..m + 1
        BY <1>1, <2>1
      <4> HIDE DEF g
      <4>3. \A q \in p + 1..m + 1 : f[q] = g[q]
        BY <2>5, <4>2
      <4>4. DecodedFrom(f, bytes, p) = DecodedFrom(g, bytes, p)
        BY <1>3, <4>1, <4>3
      <4> QED BY <3>1, <4>4 DEF g
    <3> QED BY <3>2, <3>3
  <2>7. g = [p \in k..m + 1 |-> DecodedFrom(g, bytes, p)]
    BY <2>6
  <2>8. Decodes(g, bytes, n + 1)
    <3> HIDE DEF g
    <3> QED BY <2>7, Zenon DEF Decodes, k
  <2> HIDE DEF g
  <2> QED BY <2>8
<1>6. m \in Done
  <2> HIDE DEF Done
  <2>1. Done \in SUBSET Nat
    BY DEF Done
  <2> QED BY <1>1, <1>4, <1>5, <2>1, Induction
<1> QED BY <1>1, <1>6

\* Legible bytes are read as the replies they are.
LEMMA LegibleDecoded ==
    ASSUME NEW bytes, NEW read, Legible(bytes, read)
    PROVE  Decoded(bytes) = read
<1>1. PICK S : bytes \in Seq(S)
  BY DEF Legible, IsSeq
<1>2. PICK R : read \in Seq(R)
  BY DEF Legible, IsSeq
<1> DEFINE m == Len(bytes)
           n == Len(read)
           F(g) == g = [p \in 1..m + 1 |-> DecodedFrom(g, bytes, p)]
           f == CHOOSE g : F(g)
<1>3. m \in Nat /\ n \in Nat
  BY <1>1, <1>2, LenProperties
<1>4. \E g : F(g)
  <2>1. m + 1 - m = 1
    BY <1>3
  <2>2. PICK g : Decodes(g, bytes, m)
    BY <1>1, DecodedDefined
  <2>3. F(g)
    BY <2>1, <2>2, Zenon DEF Decodes
  <2> HIDE DEF F
  <2> QED BY <2>3
<1>5. F(f)
  BY <1>4, Zenon
<1>6. Decoded(bytes) = f[1]
  BY Zenon DEF Decoded, DecodedFrom
<1> HIDE DEF f
<1>7. \A p \in 1..m + 1 : f[p] = DecodedFrom(f, bytes, p)
  BY <1>5
<1> HIDE DEF F
<1>8. PICK cuts : Cut(cuts, bytes, read)
  BY DEF Legible
<1>9. /\ cuts \in [1..n + 1 -> Nat] /\ cuts[1] = 1 /\ cuts[n + 1] = m + 1
      /\ \A i \in 1..n :
           /\ cuts[i] \in 1..m
           /\ ReadAs(SubSeq(bytes, cuts[i], m), read[i], cuts[i + 1] - cuts[i])
  BY <1>8 DEF Cut
<1> HIDE DEF m, n
<1> DEFINE Rest_(i) == SubSeq(read, i, n)
           Good == {k \in Nat : k <= n => f[cuts[n + 1 - k]] = Rest_(n + 1 - k)}
<1>10. \A i \in 1..n + 1 : Rest_(i) \in Seq(R) /\ Len(Rest_(i)) = n - i + 1
                           /\ \A j \in 1..n - i + 1 : Rest_(i)[j] = read[i + j - 1]
  <2> TAKE i \in 1..n + 1
  <2>1. i \in 1..Len(read) + 1 /\ n \in i - 1..Len(read)
    BY <1>3 DEF n
  <2> QED BY <1>2, <2>1, SliceIs
<1> HIDE DEF Rest_
<1>11. 0 \in Good
  <2>1. n + 1 - 0 = n + 1 /\ n + 1 \in 1..n + 1 /\ n - (n + 1) + 1 = 0
    BY <1>3
  <2>2. Rest_(n + 1) = <<>>
    <3>1. Rest_(n + 1) \in Seq(R) /\ Len(Rest_(n + 1)) = 0
      BY <1>10, <2>1
    <3> QED BY <3>1, EmptySeq
  <2>3. SubSeq(bytes, m + 1, m) = <<>>
    <3>1. m + 1 \in 1..Len(bytes) + 1 /\ m \in m + 1 - 1..Len(bytes) /\ m - (m + 1) + 1 = 0
      BY <1>3 DEF m
    <3>2. SubSeq(bytes, m + 1, m) \in Seq(S) /\ Len(SubSeq(bytes, m + 1, m)) = m - (m + 1) + 1
      BY <1>1, <3>1, SliceIs
    <3> QED BY <3>1, <3>2, EmptySeq
  <2>4. f[m + 1] = <<>>
    <3>1. m + 1 \in 1..m + 1
      BY <1>3
    <3>2. f[m + 1] = DecodedFrom(f, bytes, m + 1)
      BY <1>7, <3>1
    <3> QED BY <2>3, <3>2, Zenon DEF DecodedFrom, m
  <2> QED BY <1>9, <2>1, <2>2, <2>4
<1>12. ASSUME NEW k \in Good PROVE k + 1 \in Good
  <2> DEFINE i == n + 1 - (k + 1)
  <2> SUFFICES ASSUME k + 1 <= n PROVE f[cuts[i]] = Rest_(i)
    OBVIOUS
  <2>1. i \in 1..n /\ n + 1 - k = i + 1 /\ i + 1 \in 1..n + 1 /\ i \in 1..n + 1 /\ k <= n
    BY <1>3
  <2>2. f[cuts[i + 1]] = Rest_(i + 1)
    BY <2>1
  <2> HIDE DEF i, Good
  <2> DEFINE b == SubSeq(bytes, cuts[i], m)
             p == cuts[i]
  <2>3. p \in 1..m /\ ReadAs(b, read[i], cuts[i + 1] - p)
    BY <1>9, <2>1
  <2>4. cuts[i + 1] \in Nat
    BY <1>9, <2>1
  <2> HIDE DEF p
  <2>5. /\ Readable(b, Words(Line(b))) /\ ReplyOf(b, Words(Line(b))) = read[i]
        /\ ReplyLength(b, Words(Line(b))) = cuts[i + 1] - p
    BY <2>3 DEF ReadAs
  <2>6. b # <<>>
    <3>1. p \in 1..Len(bytes) + 1 /\ m \in p - 1..Len(bytes)
      BY <1>3, <2>3 DEF m
    <3>2. Len(b) = m - p + 1
      BY <1>1, <3>1, SliceIs DEF p
    <3>3. Len(b) # 0
      <4> HIDE DEF b
      <4> QED BY <1>3, <2>3, <3>2
    <3> HIDE DEF b
    <3> QED BY <3>3, EmptySeq
  <2>7. p + (cuts[i + 1] - p) = cuts[i + 1]
    BY <2>3, <2>4
  <2>8. DecodedFrom(f, bytes, p) = <<read[i]>> \o f[cuts[i + 1]]
    BY <2>5, <2>6, <2>7, Zenon DEF DecodedFrom, m, p
  <2>9. f[p] = DecodedFrom(f, bytes, p)
    <3>1. p \in 1..m + 1
      BY <1>3, <2>3
    <3> QED BY <1>7, <3>1
  <2>10. <<read[i]>> \o Rest_(i + 1) = Rest_(i)
    <3> DEFINE r == read[i]
               s == Rest_(i + 1)
               t == Rest_(i)
               c == <<r>> \o s
    <3>1. r \in R
      BY <1>2, <2>1, ElementOfSeq DEF n
    <3>2. i \in Nat /\ n - (i + 1) + 1 = n - i /\ n - i + 1 \in Nat /\ n - i \in Nat
      BY <1>3, <2>1
    <3>3. s \in Seq(R) /\ Len(s) = n - i /\ \A j \in 1..n - i : s[j] = read[i + 1 + j - 1]
      BY <1>10, <2>1, <3>2
    <3>4. t \in Seq(R) /\ Len(t) = n - i + 1 /\ \A j \in 1..n - i + 1 : t[j] = read[i + j - 1]
      BY <1>10, <2>1
    <3>5. t[1] = r
      <4>1. 1 \in 1..n - i + 1 /\ i + 1 - 1 = i
        BY <1>3, <2>1
      <4> QED BY <3>4, <4>1
    <3> HIDE DEF r, s, t
    <3> DEFINE x == <<r>>
    <3>6. x \in Seq(R) /\ Len(x) = 1 /\ x[1] = r
      BY <3>1
    <3> HIDE DEF x
    <3>7. /\ x \o s \in Seq(R) /\ Len(x \o s) = Len(x) + Len(s)
          /\ \A j \in 1..Len(x) + Len(s) : (x \o s)[j] = IF j <= Len(x) THEN x[j] ELSE s[j - Len(x)]
      BY <3>3, <3>6, ConcatProperties
    <3> DEFINE y == x \o s
    <3>8. /\ y \in Seq(R) /\ Len(y) = n - i + 1
          /\ \A j \in 1..n - i + 1 : y[j] = IF j <= 1 THEN x[j] ELSE s[j - 1]
      <4>1. Len(x) + Len(s) = n - i + 1
        BY <3>2, <3>3, <3>6
      <4> QED BY <3>6, <3>7, <4>1, Zenon
    <3> HIDE DEF y
    <3>9. ASSUME NEW j \in 1..n - i + 1 PROVE y[j] = t[j]
      <4>1. CASE j = 1
        BY <3>5, <3>6, <3>8, <4>1
      <4>2. CASE j # 1
        <5>1. j - 1 \in 1..n - i /\ ~(j <= 1) /\ i + 1 + (j - 1) - 1 = i + j - 1
          BY <3>2, <4>2
        <5>2. s[j - 1] = read[i + 1 + (j - 1) - 1]
          BY <3>3, <5>1, Zenon
        <5>3. y[j] = s[j - 1]
          BY <3>8, <5>1
        <5>4. t[j] = read[i + j - 1]
          BY <3>4
        <5> QED BY <5>1, <5>2, <5>3, <5>4, Zenon
      <4> QED BY <4>1, <4>2
    <3>10. y = t
      BY <3>4, <3>8, <3>9, SeqEqual
    <3> QED BY <3>10, Zenon DEF y, x, r, s, t
  <2> QED BY <2>2, <2>8, <2>9, <2>10, Zenon DEF p
<1>13. n \in Good
  <2> HIDE DEF Good
  <2>1. Good \in SUBSET Nat
    BY DEF Good
  <2>2. Good = Nat
    BY <1>11, <1>12, <2>1, Induction
  <2> QED BY <1>3, <2>2
<1>14. f[1] = Rest_(1)
  <2>1. n + 1 - n = 1
    BY <1>3
  <2>2. f[cuts[n + 1 - n]] = Rest_(n + 1 - n)
    BY <1>3, <1>13
  <2> QED BY <1>9, <2>1, <2>2
<1>15. Rest_(1) = read
  <2>1. 1 \in 1..n + 1 /\ n - 1 + 1 = n
    BY <1>3
  <2>2. Rest_(1) \in Seq(R) /\ Len(Rest_(1)) = n /\ \A j \in 1..n : Rest_(1)[j] = read[1 + j - 1]
    BY <1>10, <2>1
  <2>3. \A j \in 1..n : 1 + j - 1 = j
    OBVIOUS
  <2>4. \A j \in 1..n : Rest_(1)[j] = read[j]
    BY <2>2, <2>3
  <2> QED BY <1>2, <2>2, <2>4, SeqEqual DEF n
<1> QED BY <1>6, <1>14, <1>15

-----------------------------------------------------------------------------
(***************************************************************************)
(* What is read from what the writers put out.                             *)
(***************************************************************************)

\* z is x with y behind it.
Behind(x, y, z) ==
    /\ Len(z) = Len(x) + Len(y) /\ Len(x) \in Nat /\ Len(y) \in Nat
    /\ \A i \in 1..Len(x) : z[i] = x[i]
    /\ \A i \in 1..Len(y) : z[Len(x) + i] = y[i]

\* Two sequences in a row, position by position.
LEMMA Joined ==
    ASSUME NEW S, NEW x \in Seq(S), NEW y \in Seq(S)
    PROVE  x \o y \in Seq(S) /\ Behind(x, y, x \o y)
<1> DEFINE m == Len(x)
           n == Len(y)
           z == x \o y
<1>1. m \in Nat /\ n \in Nat
  BY LenProperties
<1>2. /\ z \in Seq(S) /\ Len(z) = m + n
      /\ \A i \in 1..m + n : z[i] = IF i <= m THEN x[i] ELSE y[i - m]
  BY ConcatProperties
<1> HIDE DEF m, n, z
<1>3. ASSUME NEW i \in 1..m PROVE z[i] = x[i]
  BY <1>1, <1>2
<1>4. ASSUME NEW i \in 1..n PROVE z[m + i] = y[i]
  <2> DEFINE j == m + i
  <2>1. j \in 1..m + n /\ ~(j <= m) /\ j - m = i
    BY <1>1
  <2> HIDE DEF j
  <2>2. z[j] = y[j - m]
    BY <1>2, <2>1
  <2> QED BY <2>1, <2>2, Zenon DEF j
<1> QED BY <1>1, <1>2, <1>3, <1>4 DEF Behind, m, n, z

\* A line with its end.
LEMMA LineChunk ==
    ASSUME NEW S, NEW line \in Seq(S), {"CR", "LF"} \subseteq S,
           \A i \in 1..Len(line) : line[i] \notin {"CR", "LF"}
    PROVE  /\ line \o CRLF \in Seq(S) /\ Len(line \o CRLF) = Len(line) + 2 /\ Len(line) \in Nat
           /\ LineError(line \o CRLF) = "OK" /\ FirstBreak(line \o CRLF) = Len(line) + 1
           /\ Line(line \o CRLF) = line
           /\ \A i \in 1..Len(line) : (line \o CRLF)[i] = line[i]
<1> DEFINE n == Len(line)
           ends == CRLF
           c == line \o ends
           pre == SubSeq(c, 1, n)
<1>1. ends \in Seq(S) /\ Len(ends) = 2 /\ ends[1] = "CR" /\ ends[2] = "LF"
  BY DEF CRLF
<1> HIDE DEF ends
<1>c. c \in Seq(S) /\ Behind(line, ends, c)
  BY <1>1, Joined
<1> HIDE DEF c
<1>2. /\ c \in Seq(S) /\ Len(c) = n + 2 /\ n \in Nat
      /\ \A i \in 1..n : c[i] = line[i]
      /\ \A i \in 1..2 : c[n + i] = ends[i]
  BY <1>1, <1>c, Zenon DEF Behind
<1>3. \A i \in 1..n : line[i] \notin {"CR", "LF"}
  OBVIOUS
<1> HIDE DEF n
<1>4. c[n + 1] = "CR" /\ c[n + 2] = "LF"
  BY <1>1, <1>2
<1>5. LineOf(c, n)
  BY <1>2, <1>3, <1>4 DEF LineOf
<1>6. LineError(c) = "OK" /\ FirstBreak(c) = n + 1 /\ Line(c) = pre
  BY <1>2, <1>5, LineFound
<1>7. pre = line
  <2>1. 1 \in 1..Len(c) + 1 /\ n \in 1 - 1..Len(c)
    BY <1>2
  <2>2. pre \in Seq(S) /\ Len(pre) = n - 1 + 1 /\ \A i \in 1..n - 1 + 1 : pre[i] = c[1 + i - 1]
    BY <1>2, <2>1, SliceIs
  <2>3. n - 1 + 1 = n /\ \A i \in 1..n : 1 + i - 1 = i
    BY <1>2
  <2> HIDE DEF pre
  <2>4. \A i \in 1..n : pre[i] = line[i]
    BY <1>2, <2>2, <2>3
  <2> QED BY <2>2, <2>3, <2>4, SeqEqual DEF n
<1> QED BY <1>2, <1>6, <1>7 DEF c, n, ends

\* A reply of one word is read as that word.
LEMMA WordReply ==
    ASSUME NEW type,
           type \notin {"VALUE", "VERSION", "CLIENT_ERROR", "SERVER_ERROR", "sp", "CR", "LF"}
    PROVE  ReadAs(<<type>> \o CRLF, <<type>>, Len(<<type>> \o CRLF))
<1> DEFINE S == {type, "CR", "LF"}
           line == <<type>>
           c == line \o CRLF
           words == Words(line)
<1>1. line \in Seq(S) /\ {"CR", "LF"} \subseteq S /\ Len(line) = 1 /\ line[1] = type
  OBVIOUS
<1> HIDE DEF S, line
<1>2. \A i \in 1..Len(line) : line[i] \notin {"CR", "LF"}
  <2>1. \A i \in 1..1 : i = 1
    OBVIOUS
  <2> QED BY <1>1, <2>1
<1>3. c \in Seq(S) /\ Len(c) = 1 + 2 /\ LineError(c) = "OK" /\ FirstBreak(c) = 1 + 1 /\ Line(c) = line
  BY <1>1, <1>2, LineChunk
<1>4. words # <<>> /\ words[1] = <<type>>
  BY <1>1, FirstWord
<1> HIDE DEF c, words
<1>5. Words(Line(c)) = words
  BY <1>3 DEF words
<1>6. words[1] # <<"VALUE">> /\ words[1][1] \notin {"VERSION", "CLIENT_ERROR", "SERVER_ERROR"}
  <2>1. words[1][1] = type
    BY <1>4
  <2>2. words[1] = <<"VALUE">> => words[1][1] = "VALUE"
    OBVIOUS
  <2> QED BY <2>1, <2>2
<1>7. ReplyLength(c, words) = Len(c)
  BY <1>3, <1>6 DEF ReplyLength
<1>8. Readable(c, words)
  <2>1. Len(c) <= Len(c)
    BY <1>3
  <2> QED BY <1>3, <1>4, <1>6, <1>7, <2>1, Zenon DEF Readable
<1>9. ReplyOf(c, words) = <<type>>
  BY <1>4, <1>6, Zenon DEF ReplyOf
<1> QED BY <1>5, <1>7, <1>8, <1>9, Zenon DEF ReadAs, c, line

\* A reply with a text is read with this text.
LEMMA TextReply ==
    ASSUME NEW prefix \in {"VERSION", "CLIENT_ERROR", "SERVER_ERROR"}, NEW T, NEW text \in Seq(T),
           \A i \in DOMAIN text : text[i] \notin {"CR", "LF"}
    PROVE  ReadAs(<<prefix, "sp">> \o text \o CRLF, <<prefix, text>>,
                  Len(<<prefix, "sp">> \o text \o CRLF))
<1> DEFINE S == T \cup {prefix, "sp", "CR", "LF"}
           head == <<prefix, "sp">>
           line == head \o text
           c == line \o CRLF
           words == Words(line)
           n == Len(text)
<1>1. /\ head \in Seq(S) /\ {"CR", "LF"} \subseteq S /\ Len(head) = 2
      /\ head[1] = prefix /\ head[2] = "sp"
  OBVIOUS
<1>2. text \in Seq(S)
  <2>1. T \subseteq S
    OBVIOUS
  <2> HIDE DEF S
  <2> QED BY <2>1, SeqMonotonic
<1>3. n \in Nat /\ \A i \in 1..n : text[i] \notin {"CR", "LF"}
  BY LenProperties
<1> HIDE DEF S, head
<1>c. line \in Seq(S) /\ Behind(head, text, line)
  BY <1>1, <1>2, Joined
<1> HIDE DEF line
<1>4. /\ line \in Seq(S) /\ Len(line) = 2 + n
      /\ \A i \in 1..2 : line[i] = head[i]
      /\ \A i \in 1..n : line[2 + i] = text[i]
  BY <1>1, <1>c, Zenon DEF Behind
<1> HIDE DEF n
<1>5. line[1] = prefix /\ line[2] = "sp"
  BY <1>1, <1>4
<1>6. ASSUME NEW i \in 1..Len(line) PROVE line[i] \notin {"CR", "LF"}
  <2>1. CASE i = 1 \/ i = 2
    BY <1>5, <2>1
  <2>2. CASE i # 1 /\ i # 2
    <3> DEFINE j == i - 2
    <3>1. j \in 1..n /\ 2 + j = i
      BY <1>3, <1>4, <2>2
    <3> HIDE DEF j
    <3>2. line[2 + j] = text[j]
      BY <1>4, <3>1
    <3> QED BY <1>3, <3>1, <3>2
  <2> QED BY <2>1, <2>2
<1>7. /\ c \in Seq(S) /\ Len(c) = 2 + n + 2
      /\ LineError(c) = "OK" /\ FirstBreak(c) = 2 + n + 1 /\ Line(c) = line
      /\ \A i \in 1..2 + n : c[i] = line[i]
  BY <1>1, <1>4, <1>6, LineChunk
<1>8. words # <<>> /\ words[1] = <<prefix>>
  <2>1. Len(line) > 0 /\ line[1] # "sp"
    BY <1>3, <1>4, <1>5
  <2>2. words # <<>> /\ words[1] = <<line[1]>>
    BY <1>4, <1>5, <2>1, FirstWord
  <2> QED BY <1>5, <2>2
<1> HIDE DEF c, words
<1>9. Words(Line(c)) = words
  BY <1>7 DEF words
<1>10. /\ words[1] # <<"VALUE">> /\ words[1][1] \in {"VERSION", "CLIENT_ERROR", "SERVER_ERROR"}
       /\ words[1][1] = prefix
  <2>1. words[1][1] = prefix
    BY <1>8
  <2>2. words[1] = <<"VALUE">> => words[1][1] = "VALUE"
    OBVIOUS
  <2> QED BY <2>1, <2>2
<1>11. ReplyLength(c, words) = Len(c)
  BY <1>3, <1>7, <1>10 DEF ReplyLength
<1>12. Readable(c, words)
  <2>1. Len(c) <= Len(c)
    BY <1>3, <1>7
  <2> QED BY <1>7, <1>8, <1>10, <1>11, <2>1, Zenon DEF Readable
<1>13. ReplyOf(c, words) = <<prefix, SubSeq(c, 3, 2 + n + 1 - 1)>>
  <2>1. ReplyOf(c, words) = <<words[1][1], SubSeq(c, 3, FirstBreak(c) - 1)>>
    BY <1>10, Zenon DEF ReplyOf
  <2> QED BY <1>3, <1>7, <1>10, <2>1
<1>14. SubSeq(c, 3, 2 + n + 1 - 1) = text
  <2> DEFINE k == 2 + n + 1 - 1
             s == SubSeq(c, 3, k)
  <2>1. 3 \in 1..Len(c) + 1 /\ k \in 3 - 1..Len(c) /\ k = n + 2
    BY <1>3, <1>7
  <2> HIDE DEF k
  <2>2. s \in Seq(S) /\ Len(s) = k - 3 + 1 /\ \A i \in 1..k - 3 + 1 : s[i] = c[3 + i - 1]
    BY <1>7, <2>1, SliceIs
  <2> HIDE DEF s
  <2>3. k - 3 + 1 = n /\ \A i \in 1..n : 3 + i - 1 = 2 + i /\ 2 + i \in 1..2 + n
    BY <1>3, <2>1
  <2>4. \A i \in 1..n : s[i] = text[i]
    BY <1>4, <1>7, <2>2, <2>3
  <2>5. s = text
    BY <1>2, <2>2, <2>3, <2>4, SeqEqual DEF n
  <2> QED BY <2>5, Zenon DEF s, k
<1> QED BY <1>9, <1>11, <1>12, <1>13, <1>14, Zenon DEF ReadAs, c, line, head

\* A word without a blank or the end of a line in it.
Plain(word) == Len(word) > 0 /\ \A i \in 1..Len(word) : word[i] \notin {"sp", "CR", "LF"}

\* One line is another with a word behind it, and still a line.
Lengthened(line, word, more) ==
    /\ WordAdded(line, word, more)
    /\ \A i \in 1..Len(more) : more[i] \notin {"CR", "LF"}

\* A blank and a word behind a line lengthen it by the word.
LEMMA WordPut ==
    ASSUME NEW S, NEW line \in Seq(S), NEW word \in Seq(S), NEW head \in Seq(S), Plain(word),
           Behind(line, <<"sp">>, head), \A i \in 1..Len(line) : line[i] \notin {"CR", "LF"}
    PROVE  head \o word \in Seq(S) /\ Lengthened(line, word, head \o word)
<1> DEFINE n == Len(line)
           m == Len(word)
           more == head \o word
           blank == <<"sp">>
<1>1. more \in Seq(S) /\ Behind(head, word, more)
  BY Joined
<1>2. Len(blank) = 1 /\ blank[1] = "sp"
  OBVIOUS
<1> HIDE DEF more, blank
<1>3. /\ Len(head) = n + 1 /\ n \in Nat /\ \A i \in 1..n : head[i] = line[i]
      /\ \A i \in 1..1 : head[n + i] = blank[i]
  BY <1>2, Zenon DEF Behind, blank
<1>4. head[n + 1] = "sp"
  BY <1>2, <1>3
<1>5. /\ Len(more) = n + 1 + m /\ m \in Nat /\ m > 0
      /\ \A i \in 1..n + 1 : more[i] = head[i]
      /\ \A i \in 1..m : more[n + 1 + i] = word[i]
  BY <1>1, <1>3, Zenon DEF Behind, Plain
<1> HIDE DEF n, m
<1>6. WordAdded(line, word, more)
  <2>1. \A i \in 1..n : i \in 1..n + 1
    BY <1>3
  <2>2. n + 1 \in 1..n + 1
    BY <1>3
  <2>3. \A i \in 1..n : more[i] = line[i]
    BY <1>3, <1>5, <2>1
  <2> QED BY <1>4, <1>5, <2>2, <2>3 DEF WordAdded, n, m
<1>7. ASSUME NEW i \in 1..Len(more) PROVE more[i] \notin {"CR", "LF"}
  <2>1. CASE i \in 1..n
    BY <1>6, <2>1 DEF WordAdded, n
  <2>2. CASE i = n + 1
    BY <1>6, <2>2 DEF WordAdded, n
  <2>3. CASE i > n + 1
    <3> DEFINE j == i - (n + 1)
    <3>1. j \in 1..m /\ n + 1 + j = i
      BY <1>3, <1>5, <2>3
    <3> HIDE DEF j
    <3>2. more[n + 1 + j] = word[j]
      BY <1>5, <3>1
    <3> QED BY <3>1, <3>2 DEF Plain, m
  <2> QED BY <1>3, <1>5, <2>1, <2>2, <2>3
<1> QED BY <1>1, <1>6, <1>7, Zenon DEF Lengthened, more

\* Some words are others with one more behind them.
OneMore(words, word, more) ==
    /\ Len(more) = Len(words) + 1
    /\ \A k \in 1..Len(words) : more[k] = words[k]
    /\ more[Len(words) + 1] = word

\* The words of such a line.
LEMMA WordPutIs ==
    ASSUME NEW S, NEW line \in Seq(S), NEW word \in Seq(S), NEW more \in Seq(S), Plain(word),
           Lengthened(line, word, more)
    PROVE  OneMore(Words(line), word, Words(more))
<1>1. Len(word) > 0 /\ (\A i \in 1..Len(word) : word[i] # "sp") /\ WordAdded(line, word, more)
  BY DEF Plain, Lengthened
<1> QED BY <1>1, WordAddedIs DEF OneMore

\* The first four words of a VALUE line.
FourWords(line, key, flags, size) ==
    /\ \A i \in 1..Len(line) : line[i] \notin {"CR", "LF"}
    /\ Len(Words(line)) = 4
    /\ Words(line)[1] = <<"VALUE">> /\ Words(line)[2] = key
    /\ Words(line)[3] = flags /\ Words(line)[4] = size

\* VALUE and three words behind it are four words.
LEMMA ValueLine ==
    ASSUME NEW S, {"VALUE", "sp"} \subseteq S,
           NEW key \in Seq(S), NEW flags \in Seq(S), NEW size \in Seq(S),
           Plain(key), Plain(flags), Plain(size)
    PROVE  LET line == <<"VALUE", "sp">> \o key \o <<"sp">> \o flags \o <<"sp">> \o size
           IN  line \in Seq(S) /\ FourWords(line, key, flags, size)
<1> DEFINE l0 == <<"VALUE">>
           blank == <<"sp">>
           h1 == <<"VALUE", "sp">>
           l1 == h1 \o key
           h2 == l1 \o blank
           l2 == h2 \o flags
           h3 == l2 \o blank
           l3 == h3 \o size
<1>1. l0 \in Seq(S) /\ h1 \in Seq(S) /\ blank \in Seq(S)
  OBVIOUS
<1>2. Behind(l0, blank, h1)
  <2>1. /\ Len(l0) = 1 /\ Len(blank) = 1 /\ Len(h1) = 1 + 1 /\ 1 \in Nat
        /\ h1[1] = l0[1] /\ h1[1 + 1] = blank[1]
    OBVIOUS
  <2>2. \A i \in 1..1 : i = 1
    OBVIOUS
  <2> HIDE DEF l0, blank, h1
  <2> QED BY <2>1, <2>2 DEF Behind
<1>3. (\A i \in 1..Len(l0) : l0[i] \notin {"CR", "LF"}) /\ Len(Words(l0)) = 1
      /\ Words(l0)[1] = <<"VALUE">>
  <2>1. Len(l0) = 1 /\ l0[1] = "VALUE" /\ \A i \in 1..1 : i = 1
    OBVIOUS
  <2> HIDE DEF l0
  <2> QED BY <1>1, <2>1, FirstWord
<1> HIDE DEF l0, h1
<1>4. l1 \in Seq(S) /\ Lengthened(l0, key, l1)
  BY <1>1, <1>2, <1>3, WordPut DEF blank
<1> HIDE DEF blank, l1
<1>5. h2 \in Seq(S) /\ Behind(l1, blank, h2)
  BY <1>1, <1>4, Joined
<1> HIDE DEF h2
<1>6. l2 \in Seq(S) /\ Lengthened(l1, flags, l2)
  BY <1>4, <1>5, WordPut DEF blank, Lengthened
<1> HIDE DEF l2
<1>7. h3 \in Seq(S) /\ Behind(l2, blank, h3)
  BY <1>1, <1>6, Joined
<1> HIDE DEF h3
<1>8. l3 \in Seq(S) /\ Lengthened(l2, size, l3)
  BY <1>6, <1>7, WordPut DEF blank, Lengthened
<1> HIDE DEF l3
<1> DEFINE w1 == Words(l1)
           w2 == Words(l2)
           w3 == Words(l3)
<1>9. Len(w1) = 2 /\ w1[1] = <<"VALUE">> /\ w1[2] = key
  <2>1. 1 + 1 = 2 /\ 1 \in 1..1
    OBVIOUS
  <2>2. OneMore(Words(l0), key, w1)
    BY <1>1, <1>4, WordPutIs
  <2> HIDE DEF w1
  <2> QED BY <1>3, <2>1, <2>2 DEF OneMore
<1>10. Len(w2) = 3 /\ w2[1] = <<"VALUE">> /\ w2[2] = key /\ w2[3] = flags
  <2>1. 2 + 1 = 3 /\ 1 \in 1..2 /\ 2 \in 1..2
    OBVIOUS
  <2>2. OneMore(w1, flags, w2)
    BY <1>4, <1>6, WordPutIs
  <2> HIDE DEF w1, w2
  <2> QED BY <1>9, <2>1, <2>2 DEF OneMore
<1>11. Len(w3) = 4 /\ w3[1] = <<"VALUE">> /\ w3[2] = key /\ w3[3] = flags /\ w3[4] = size
  <2>1. 3 + 1 = 4 /\ 1 \in 1..3 /\ 2 \in 1..3 /\ 3 \in 1..3
    OBVIOUS
  <2>2. OneMore(w2, size, w3)
    BY <1>6, <1>8, WordPutIs
  <2> HIDE DEF w2, w3
  <2> QED BY <1>10, <2>1, <2>2 DEF OneMore
<1>12. FourWords(l3, key, flags, size)
  BY <1>8, <1>11 DEF FourWords, Lengthened
<1> QED BY <1>8, <1>12, Zenon DEF l3, h3, l2, h2, l1, h1, blank

\* What is written for a number is a word.
LEMMA WrittenPlain ==
    ASSUME NEW value \in Nat
    PROVE  Plain(FormatUint(value)) /\ FormatUint(value) \in Seq(ToSet(Digits))
<1> DEFINE w == FormatUint(value)
           D == ToSet(Digits)
<1>1. Denotes(w, value)
  BY WrittenDenotes
<1> HIDE DEF w
<1>2. w \in Seq(D) /\ Len(w) > 0 /\ \A i \in 1..Len(w) : IsDigit(w[i])
  BY <1>1 DEF Denotes
<1>3. ASSUME NEW i \in 1..Len(w) PROVE w[i] \notin {"sp", "CR", "LF"}
  <2>1. PICK d \in 1..Base : Digits[d] = w[i]
    BY <1>2, <1>3 DEF IsDigit
  <2>2. DOMAIN Digits = 1..Base
    BY ProtocolAssumption, LenProperties DEF Base
  <2> QED BY <2>1, <2>2, ProtocolAssumption
<1> QED BY <1>2, <1>3, Zenon DEF Plain, w

\* The block behind the header of an item.
LEMMA BlockBehind ==
    ASSUME NEW S, NEW head \in Seq(S), NEW value \in Seq(S), {"CR", "LF"} \subseteq S,
           LineError(head) = "OK"
    PROVE  LET c == head \o value \o CRLF
           IN  /\ c \in Seq(S) /\ Len(c) = Len(head) + Len(value) + 2
               /\ LineError(c) = "OK" /\ FirstBreak(c) = FirstBreak(head) /\ Line(c) = Line(head)
               /\ SubSeq(c, Len(head) + 1, Len(head) + Len(value)) = value
<1> DEFINE n == Len(head)
           m == Len(value)
           p == head \o value
           ends == CRLF
           c == p \o ends
<1>1. ends \in Seq(S) /\ Len(ends) = 2
  BY DEF CRLF
<1>2. p \in Seq(S) /\ Behind(head, value, p)
  BY Joined
<1> HIDE DEF ends, p
<1>3. c \in Seq(S) /\ Behind(p, ends, c)
  BY <1>1, <1>2, Joined
<1> HIDE DEF c
<1>4. /\ Len(p) = n + m /\ n \in Nat /\ m \in Nat
      /\ \A i \in 1..n : p[i] = head[i]
      /\ \A i \in 1..m : p[n + i] = value[i]
  BY <1>2, Zenon DEF Behind
<1>5. /\ Len(c) = n + m + 2
      /\ \A i \in 1..n + m : c[i] = p[i]
  BY <1>1, <1>3, <1>4, Zenon DEF Behind
<1> HIDE DEF n, m
<1>6. Continues(c, head)
  <2>1. \A i \in 1..n : i \in 1..n + m
    BY <1>4
  <2>2. \A i \in 1..n : c[i] = head[i]
    BY <1>4, <1>5, <2>1
  <2> QED BY <1>4, <1>5, <2>2 DEF Continues, n
<1>7. LineError(c) = "OK" /\ FirstBreak(c) = FirstBreak(head) /\ Line(c) = Line(head)
  <2>1. LineError(head) # "INCOMPLETE"
    OBVIOUS
  <2> QED BY <1>3, <1>6, <2>1, LineStays
<1>8. SubSeq(c, n + 1, n + m) = value
  <2> DEFINE f == n + 1
             g == n + m
             s == SubSeq(c, f, g)
  <2>1. f \in 1..Len(c) + 1 /\ g \in f - 1..Len(c) /\ g - f + 1 = m
    BY <1>4, <1>5
  <2>2. \A i \in 1..m : f + i - 1 = n + i /\ n + i \in 1..n + m
    BY <1>4
  <2> HIDE DEF f, g
  <2>3. s \in Seq(S) /\ Len(s) = g - f + 1 /\ \A i \in 1..g - f + 1 : s[i] = c[f + i - 1]
    BY <1>3, <2>1, SliceIs
  <2> HIDE DEF s
  <2>4. ASSUME NEW i \in 1..m PROVE s[i] = value[i]
    <3>1. s[i] = c[f + i - 1] /\ f + i - 1 = n + i /\ n + i \in 1..n + m
      BY <2>1, <2>2, <2>3
    <3>2. c[n + i] = p[n + i] /\ p[n + i] = value[i]
      BY <1>4, <1>5, <3>1
    <3> QED BY <3>1, <3>2
  <2>5. s = value
    BY <2>1, <2>3, <2>4, SeqEqual DEF m
  <2> QED BY <2>5, Zenon DEF s, f, g
<1> QED BY <1>3, <1>5, <1>7, <1>8, Zenon DEF c, p, ends, n, m

\* An item is read with its key, its flags and the bytes of its value.
LEMMA ItemReply ==
    ASSUME NEW T, NEW key \in Seq(T), Plain(key), NEW flags \in Nat, NEW V, NEW value \in Seq(V)
    PROVE  ReadAs(GetResultHeader(key, flags, value) \o value \o CRLF,
                  <<"VALUE", key, flags, value>>,
                  Len(GetResultHeader(key, flags, value) \o value \o CRLF))
<1> DEFINE D == ToSet(Digits)
           S == T \cup V \cup D \cup {"VALUE", "sp", "CR", "LF"}
           m == Len(value)
           f3 == FormatUint(flags)
           f4 == FormatUint(m)
           line == <<"VALUE", "sp">> \o key \o <<"sp">> \o f3 \o <<"sp">> \o f4
           head == line \o CRLF
           c == head \o value \o CRLF
           n == Len(line)
           words == Words(line)
<1>1. m \in Nat
  BY LenProperties
<1>2. {"VALUE", "sp"} \subseteq S /\ {"CR", "LF"} \subseteq S
      /\ T \subseteq S /\ V \subseteq S /\ D \subseteq S
  OBVIOUS
<1> HIDE DEF S, m
<1>3. f3 \in Seq(D) /\ f4 \in Seq(D) /\ Plain(f3) /\ Plain(f4)
      /\ Denotes(f3, flags) /\ Denotes(f4, m)
  BY <1>1, WrittenPlain, WrittenDenotes
<1> HIDE DEF f3, f4, D
<1>4. key \in Seq(S) /\ value \in Seq(S) /\ f3 \in Seq(S) /\ f4 \in Seq(S)
  BY <1>2, <1>3, SeqMonotonic
<1>5. line \in Seq(S) /\ FourWords(line, key, f3, f4)
  BY <1>2, <1>3, <1>4, ValueLine
<1> HIDE DEF line
<1>6. /\ \A i \in 1..Len(line) : line[i] \notin {"CR", "LF"}
      /\ Len(words) = 4 /\ words[1] = <<"VALUE">> /\ words[2] = key
      /\ words[3] = f3 /\ words[4] = f4
  BY <1>5, Zenon DEF FourWords
<1>7. /\ head \in Seq(S) /\ Len(head) = n + 2 /\ n \in Nat
      /\ LineError(head) = "OK" /\ FirstBreak(head) = n + 1 /\ Line(head) = line
  BY <1>2, <1>5, <1>6, LineChunk
<1>8. c = GetResultHeader(key, flags, value) \o value \o CRLF
  BY DEF GetResultHeader, line, f3, f4, m
<1> HIDE DEF head, n, words
<1>9. /\ c \in Seq(S) /\ Len(c) = n + 2 + m + 2 /\ LineError(c) = "OK"
      /\ FirstBreak(c) = n + 1 /\ Line(c) = line
      /\ SubSeq(c, n + 2 + 1, n + 2 + m) = value
  <2>1. /\ c \in Seq(S) /\ Len(c) = Len(head) + Len(value) + 2
        /\ LineError(c) = "OK" /\ FirstBreak(c) = FirstBreak(head) /\ Line(c) = Line(head)
        /\ SubSeq(c, Len(head) + 1, Len(head) + Len(value)) = value
    BY <1>2, <1>4, <1>7, BlockBehind, Zenon
  <2> HIDE DEF c
  <2> QED BY <1>7, <2>1 DEF m
<1> HIDE DEF c
<1>10. Words(Line(c)) = words
  BY <1>9 DEF words
<1>11. Denoted(words[3]) = flags /\ Denoted(words[4]) = m
  BY <1>3, <1>6 DEF Denotes
<1>12. ReplyLength(c, words) = Len(c)
  BY <1>1, <1>6, <1>7, <1>9, <1>11 DEF ReplyLength
<1>13. Readable(c, words)
  <2>1. Len(c) <= Len(c)
    BY <1>1, <1>7, <1>9
  <2>2. words # <<>>
    BY <1>6, EmptySeq
  <2>3. ASSUME NEW k \in 3..4, NEW i \in DOMAIN words[k] PROVE IsDigit(words[k][i])
    <3>1. k = 3 \/ k = 4
      OBVIOUS
    <3>2. words[k] \in Seq(D) /\ \A j \in 1..Len(words[k]) : IsDigit(words[k][j])
      BY <1>3, <1>6, <3>1, Zenon DEF Denotes
    <3> QED BY <2>3, <3>2, LenProperties
  <2> QED BY <1>6, <1>9, <1>12, <2>1, <2>2, <2>3, Zenon DEF Readable
<1>14. ReplyOf(c, words) = <<"VALUE", key, flags, value>>
  <2>1. words[1][1] \notin {"VERSION", "CLIENT_ERROR", "SERVER_ERROR"}
    BY <1>6
  <2>2. ReplyOf(c, words) = <<"VALUE", words[2], Denoted(words[3]),
                              SubSeq(c, FirstBreak(c) + 2, FirstBreak(c) + 1 + Denoted(words[4]))>>
    BY <1>6, <2>1 DEF ReplyOf
  <2>3. n + 1 + 2 = n + 2 + 1 /\ n + 1 + 1 + m = n + 2 + m
    BY <1>1, <1>7
  <2> QED BY <1>6, <1>9, <1>11, <2>2, <2>3
<1> QED BY <1>8, <1>10, <1>12, <1>13, <1>14, Zenon DEF ReadAs

-----------------------------------------------------------------------------
(***************************************************************************)
(* The replies of a conversation.                                          *)
(***************************************************************************)

\* What a writer puts out is read back as the reply.
PutsOut(written, reply) ==
    written.err = "OK" =>
        IsSeq(written.bytes) /\ ReadAs(written.bytes, reply, Len(written.bytes))

\* proto_write_bytes puts out the bytes it is given.
LEMMA BytesPutOut ==
    ASSUME NEW bytes, IsSeq(bytes), NEW reply, ReadAs(bytes, reply, Len(bytes)), NEW cap
    PROVE  PutsOut(WriteBytes(cap, bytes), reply)
<1>1. CASE cap < Len(bytes)
  BY <1>1 DEF PutsOut, WriteBytes, WriteFailed
<1>2. CASE ~(cap < Len(bytes))
  <2>1. WriteBytes(cap, bytes) = [err |-> "OK", bytes |-> bytes]
    BY <1>2, Zenon DEF WriteBytes
  <2>2. WriteBytes(cap, bytes).bytes = bytes
    BY <2>1
  <2> QED BY <2>2, Zenon DEF PutsOut
<1> QED BY <1>1, <1>2

\* A failed writer puts out nothing.
LEMMA NothingPutOut ==
    ASSUME NEW err, err # "OK", NEW reply
    PROVE  PutsOut(WriteFailed(err), reply)
  BY DEF PutsOut, WriteFailed

\* protocol_write_get_result.
LEMMA ItemPutOut ==
    ASSUME NEW T, NEW key \in Seq(T), Plain(key), NEW flags \in Nat, NEW V, NEW value \in Seq(V),
           NEW cap
    PROVE  PutsOut(WriteGetResult(cap, key, flags, value), <<"VALUE", key, flags, value>>)
<1> DEFINE bytes == GetResultHeader(key, flags, value) \o value \o CRLF
           reply == <<"VALUE", key, flags, value>>
<1>1. ReadAs(bytes, reply, Len(bytes))
  BY ItemReply
<1>2. IsSeq(bytes)
  <2>1. IsSeq(FormatUint(flags)) /\ IsSeq(FormatUint(Len(value)))
    <3>1. Len(value) \in Nat
      BY LenProperties
    <3>2. FormatUint(flags) \in Seq(ToSet(Digits)) /\ FormatUint(Len(value)) \in Seq(ToSet(Digits))
      BY <3>1, FormatUintIs
    <3> QED BY <3>2, SeqIs
  <2>2. IsSeq(key) /\ IsSeq(value)
    BY SeqIs
  <2>3. IsSeq(GetResultHeader(key, flags, value))
    BY <2>1, <2>2, ShortSeqs, ConcatIs, Zenon DEF GetResultHeader
  <2> QED BY <2>2, <2>3, ShortSeqs, ConcatIs, Zenon
<1> HIDE DEF reply
<1>3. \/ WriteGetResult(cap, key, flags, value) = WriteBytes(cap, bytes)
      \/ \E err \in {"INVALID_ARGUMENTS", "KEY_TOO_LONG", "INVALID_VALUE_LENGTH"} :
           WriteGetResult(cap, key, flags, value) = WriteFailed(err)
  BY Zenon DEF WriteGetResult
<1> HIDE DEF bytes
<1>4. PutsOut(WriteBytes(cap, bytes), reply)
  BY <1>1, <1>2, BytesPutOut
<1>5. PutsOut(WriteGetResult(cap, key, flags, value), reply)
  BY <1>3, <1>4, NothingPutOut
<1> QED BY <1>5 DEF reply

\* protocol_write_get_end and protocol_write_response.
LEMMA WordPutOut ==
    ASSUME NEW type \in {"END", "STORED", "NOT_FOUND", "ERROR"}, NEW cap
    PROVE  PutsOut(WriteBytes(cap, <<type>> \o CRLF), <<type>>)
<1> DEFINE bytes == <<type>> \o CRLF
<1>1. ReadAs(bytes, <<type>>, Len(bytes))
  BY WordReply
<1>2. IsSeq(bytes)
  BY ShortSeqs, ConcatIs, Zenon
<1> HIDE DEF bytes
<1>3. PutsOut(WriteBytes(cap, bytes), <<type>>)
  BY <1>1, <1>2, BytesPutOut
<1> QED BY <1>3 DEF bytes

\* proto_write_text_line: a text with a line end in it is put out by no call.
LEMMA TextPutOut ==
    ASSUME NEW prefix \in {"VERSION", "CLIENT_ERROR", "SERVER_ERROR"}, NEW T, NEW text \in Seq(T),
           NEW cap \in Int
    PROVE  PutsOut(WriteTextLine(cap, prefix, text), <<prefix, text>>)
<1> DEFINE bytes == <<prefix, "sp">> \o text \o CRLF
           reply == <<prefix, text>>
<1>1. CASE \E i \in DOMAIN text : text[i] \in {"CR", "LF", "ctl"}
  <2>1. CASE cap >= Len(text) + 4
    <3>1. WriteTextLine(cap, prefix, text) = WriteFailed("INVALID_ARGUMENTS")
      BY <1>1, <2>1, Zenon DEF WriteTextLine
    <3> QED BY <3>1, NothingPutOut
  <2>2. CASE ~(cap >= Len(text) + 4)
    <3> DEFINE head == <<prefix, "sp">>
               ends == CRLF
               S == T \cup {prefix, "sp", "CR", "LF"}
    <3>1. /\ head \in Seq(S) /\ Len(head) = 2 /\ ends \in Seq(S) /\ Len(ends) = 2
          /\ T \subseteq S
      BY DEF CRLF
    <3> HIDE DEF S, head, ends
    <3>2. text \in Seq(S) /\ Len(text) \in Nat
      BY <3>1, SeqMonotonic, LenProperties
    <3>3. head \o text \in Seq(S) /\ Len(head \o text) = 2 + Len(text)
      <4>1. head \o text \in Seq(S) /\ Len(head \o text) = Len(head) + Len(text)
        BY <3>1, <3>2, ConcatProperties, Zenon
      <4> QED BY <3>1, <4>1
    <3>4. Len((head \o text) \o ends) = 2 + Len(text) + 2
      BY <3>1, <3>3, ConcatProperties
    <3>5. Len(bytes) = Len(text) + 4
      BY <3>2, <3>4 DEF head, ends
    <3> HIDE DEF bytes
    <3>6. cap < Len(bytes)
      BY <2>2, <3>2, <3>5
    <3>7. WriteBytes(cap, bytes) = WriteFailed("BUFFER_TOO_SMALL")
      BY <3>6, Zenon DEF WriteBytes
    <3>8. \/ WriteTextLine(cap, prefix, text) = WriteBytes(cap, bytes)
          \/ WriteTextLine(cap, prefix, text) = WriteFailed("INVALID_ARGUMENTS")
      BY Zenon DEF WriteTextLine, bytes
    <3> QED BY <3>7, <3>8, NothingPutOut
  <2> QED BY <2>1, <2>2
<1>2. CASE \A i \in DOMAIN text : text[i] \notin {"CR", "LF", "ctl"}
  <2>1. \A i \in DOMAIN text : text[i] \notin {"CR", "LF"}
    BY <1>2
  <2>2. ReadAs(bytes, reply, Len(bytes))
    BY <2>1, TextReply
  <2>3. IsSeq(bytes)
    <3>1. IsSeq(text)
      BY SeqIs
    <3> QED BY <3>1, ShortSeqs, ConcatIs, Zenon
  <2>4. \/ WriteTextLine(cap, prefix, text) = WriteBytes(cap, bytes)
        \/ WriteTextLine(cap, prefix, text) = WriteFailed("INVALID_ARGUMENTS")
    BY Zenon DEF WriteTextLine
  <2> HIDE DEF bytes, reply
  <2>5. PutsOut(WriteBytes(cap, bytes), reply)
    BY <2>2, <2>3, BytesPutOut
  <2>6. PutsOut(WriteTextLine(cap, prefix, text), reply)
    BY <2>4, <2>5, NothingPutOut
  <2> QED BY <2>6 DEF reply
<1> QED BY <1>1, <1>2

\* The key that is answered is a word.
LEMMA KeyPlain ==
    ASSUME Positions, CommandInside, Serving, phase = "reply", KeysLeft
    PROVE  Key \in Seq(ToSet(input)) /\ Plain(Key)
<1> DEFINE S     == ToSet(input)
           line  == Line(Frame)
           ws    == WordStarts(line)
           n     == Len(served) + 1
           e     == WordEnd(line, ws[n + 1], Len(line) + 1)
<1>1. /\ cmd.type = "get" /\ cmd.key # 0 /\ LineError(Frame) = "OK"
      /\ Shown(line, cmd, n)
  BY DEF KeysLeft, Serving
<1>2. /\ Key \in Seq(S) /\ Len(Key) = cmd.keyLen /\ cmd.keyLen \in Nat
      /\ \A i \in 1..cmd.keyLen : Key[i] = Frame[cmd.key + i - 1]
  BY <1>1, KeyIs
<1>3. Frame \in Seq(S)
  BY FrameIs
<1>4. line \in Seq(S) /\ Len(line) \in Nat
  BY <1>1, <1>3, LineIs, LenProperties
<1>5. \A i \in 1..Len(line) : line[i] = Frame[i] /\ Frame[i] \notin {"CR", "LF"}
  <2>1. /\ Len(line) = FirstBreak(Frame) - 1
        /\ \A i \in 1..FirstBreak(Frame) - 1 : line[i] = Frame[i]
    BY <1>1, <1>3, LineIs
  <2>2. \A i \in 1..FirstBreak(Frame) - 1 : Frame[i] \notin {"CR", "LF"}
    BY <1>1, <1>3, LineFound DEF LineOf
  <2> HIDE DEF line
  <2> QED BY <2>1, <2>2
<1>6. Key = Words(line)[n + 1]
  BY <1>1, KeyIsWord
<1> HIDE DEF S, line, n
<1>7. /\ n + 1 \in 1..Len(ws)
      /\ cmd.key = ws[n + 1] /\ cmd.keyLen = Len(Words(line)[n + 1])
  <2>1. n \in 1..Len(Words(line)) - 1 /\ Len(Words(line)) = Len(ws) /\ Len(ws) \in Nat
    BY <1>1, <1>4, WordsAre DEF Shown
  <2> HIDE DEF ws
  <2>2. n + 1 \in 1..Len(ws)
    BY <2>1
  <2> QED BY <1>1, <2>2 DEF Shown, ws
<1>8. /\ ws[n + 1] \in 1..Len(line) /\ e \in ws[n + 1] + 1..Len(line) + 1
      /\ Len(Words(line)[n + 1]) = e - ws[n + 1]
  BY <1>4, <1>7, WordsAre
<1> DEFINE f == ws[n + 1]
<1>9. \A i \in f..e - 1 : line[i] # "sp"
  <2>1. f \in Nat /\ Len(line) + 1 \in Nat /\ f <= Len(line) + 1
    BY <1>4, <1>8
  <2> QED BY <2>1, WordEndIs
<1> HIDE DEF f, ws, e
<1>10. /\ f \in 1..Len(line) /\ e \in f + 1..Len(line) + 1
       /\ cmd.key = f /\ Len(Key) = e - f
  BY <1>2, <1>7, <1>8 DEF f
<1>11. ASSUME NEW i \in 1..Len(Key) PROVE Key[i] \notin {"sp", "CR", "LF"}
  <2>1. f + i - 1 \in f..e - 1 /\ f + i - 1 \in 1..Len(line)
    BY <1>4, <1>10
  <2>2. Key[i] = Frame[f + i - 1]
    BY <1>2, <1>10
  <2> QED BY <1>5, <1>9, <2>1, <2>2
<1>12. Len(Key) > 0
  BY <1>4, <1>10
<1> QED BY <1>2, <1>11, <1>12 DEF Plain, S

\* A reply that is put out is one more that is read back.
LEMMA PutAdds ==
    ASSUME Legible(out, replies), NEW written, NEW reply, NEW more, Put(written, reply, more),
           PutsOut(written, reply)
    PROVE  Legible(out, replies)'
<1>1. out' = out \o written.bytes /\ replies' = Append(replies, reply)
  BY DEF Put
<1>2. IsSeq(written.bytes) /\ ReadAs(written.bytes, reply, Len(written.bytes))
  BY DEF Put, PutsOut
<1>3. Legible(out \o written.bytes, Append(replies, reply))
  BY <1>2, ReplyAdded
<1>4. Legible(out, replies)' = Legible(out', replies')
  OBVIOUS
<1> QED BY <1>1, <1>3, <1>4

\* Whatever the conversation does, its output stays the replies that were
\* written.
LEMMA LegibleKeeps ==
    ASSUME TInv, Serving, Legible(out, replies), [Next]_vars
    PROVE  Legible(out, replies)'
<1>0. Positions /\ CommandInside /\ OutputInside
  BY DEF TInv, IInv
<1>1. CASE UNCHANGED <<out, replies>>
  BY <1>1
<1>2. Room \in Int
  BY <1>0, SessionAssumption, SeqIs DEF Room, OutputInside, IsSeq
<1>3. CASE ReplyKey
  <2>1. CASE UNCHANGED <<out, replies>>
    BY <1>1, <2>1
  <2>2. CASE \E item \in Values :
               Put(WriteGetResult(Room, Key, item[1], item[2]),
                   <<"VALUE", Key, item[1], item[2]>>, TRUE)
    <3>1. PICK item \in Values :
               Put(WriteGetResult(Room, Key, item[1], item[2]),
                   <<"VALUE", Key, item[1], item[2]>>, TRUE)
      BY <2>2
    <3>2. Key \in Seq(ToSet(input)) /\ Plain(Key)
      BY <1>0, <1>3, KeyPlain DEF ReplyKey
    <3>3. item[1] \in Nat /\ item[2] \in Seq(ToSet(item[2]))
      BY SessionAssumption
    <3>4. PutsOut(WriteGetResult(Room, Key, item[1], item[2]), <<"VALUE", Key, item[1], item[2]>>)
      BY <3>2, <3>3, ItemPutOut
    <3> QED BY <3>1, <3>4, PutAdds
  <2> QED BY <1>3, <2>1, <2>2 DEF ReplyKey
<1>4. CASE ReplyEnd
  <2>1. Put(WriteGetEnd(Room), <<"END">>, FALSE)
    BY <1>4 DEF ReplyEnd
  <2>2. PutsOut(WriteGetEnd(Room), <<"END">>)
    BY WordPutOut DEF WriteGetEnd
  <2> QED BY <2>1, <2>2, PutAdds
<1>5. CASE ReplyLine
  <2>1. \A text \in Texts : text \in Seq(ToSet(text))
    BY SessionAssumption
  <2>2. ASSUME NEW type \in {"STORED", "NOT_FOUND", "ERROR"},
               Put(WriteResponse(Room, type), <<type>>, FALSE)
        PROVE  Legible(out, replies)'
    <3>1. WriteResponse(Room, type) = WriteBytes(Room, <<type>> \o CRLF)
      BY <2>2 DEF WriteResponse
    <3>2. PutsOut(WriteResponse(Room, type), <<type>>)
      BY <3>1, WordPutOut
    <3> QED BY <2>2, <3>2, PutAdds
  <2>3. ASSUME NEW text \in Texts, Put(WriteVersion(Room, text), <<"VERSION", text>>, FALSE)
        PROVE  Legible(out, replies)'
    <3>1. PutsOut(WriteVersion(Room, text), <<"VERSION", text>>)
      BY <1>2, <2>1, TextPutOut DEF WriteVersion
    <3> QED BY <2>3, <3>1, PutAdds
  <2>4. ASSUME NEW type \in {"CLIENT_ERROR", "SERVER_ERROR"}, NEW text \in Texts,
               Put(WriteError(Room, type, text), <<type, text>>, FALSE)
        PROVE  Legible(out, replies)'
    <3>1. WriteError(Room, type, text) = WriteTextLine(Room, type, text)
      BY <2>4 DEF WriteError
    <3>2. PutsOut(WriteError(Room, type, text), <<type, text>>)
      BY <1>2, <2>1, <3>1, TextPutOut
    <3> QED BY <2>4, <3>2, PutAdds
  <2> QED BY <1>5, <2>2, <2>3, <2>4 DEF ReplyLine
<1>6. CASE Flush
  <2>1. out' = <<>> /\ replies' = <<>>
    BY <1>6 DEF Flush
  <2> QED BY <2>1, NothingLegible
<1>7. CASE Accept \/ Stop \/ (\E n \in 1..Len(input) : Grow(n))
  BY <1>1, <1>7 DEF Accept, Stop, Grow
<1>8. CASE NoReply \/ Terminating \/ UNCHANGED vars
  BY <1>1, <1>8 DEF NoReply, Terminating, vars
<1> QED BY <1>3, <1>4, <1>5, <1>6, <1>7, <1>8 DEF Next

\* A client reads back the replies that were written, whatever bytes the
\* values hold: a reply is in the output as a whole or not at all.
THEOREM RepliesCorrect == Spec => []RepliesReadBack
<1>1. Init => Serving /\ Legible(out, replies)
  BY NothingLegible DEF Init, Serving
<1>2. TInv /\ Serving /\ Legible(out, replies) /\ [Next]_vars => Serving' /\ Legible(out, replies)'
  BY ServingKeeps, LegibleKeeps DEF TInv, IInv
<1>3. Legible(out, replies) => RepliesReadBack
  BY LegibleDecoded DEF RepliesReadBack
<1> QED BY <1>1, <1>2, <1>3, Invariance, PTL DEF Spec
=============================================================================
