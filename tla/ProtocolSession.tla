--------------------------- MODULE ProtocolSession ---------------------------
(***************************************************************************)
(* One conversation over src/protocol.c: the loop of parse_chunked         *)
(* (bench/protocol_bench.c), which reads a stream that arrives in pieces   *)
(* of any size, and for each command a caller that writes replies with the *)
(* functions of protocol.h.  That caller is not written yet: which reply   *)
(* it chooses is left open, and it passes its output on when the next      *)
(* reply does not fit.                                                     *)
(***************************************************************************)
EXTENDS Protocol

CONSTANTS
    Streams,    \* what a client may send
    Values,     \* <<flags, value>> of the items found
    Texts,      \* versions and messages
    OutputCap   \* bytes of the output buffer

ASSUME SessionAssumption ==
    /\ \A s \in Streams : s \in Seq(ToSet(s)) /\ Len(s) <= SizeMax
    /\ \A v \in Values : v[1] \in Nat /\ v[2] \in Seq(ToSet(v[2]))
    /\ \A t \in Texts : t \in Seq(ToSet(t))
    /\ OutputCap \in Nat

VARIABLES
    input,    \* the stream of the client
    filled,   \* bytes of it that have arrived
    pos,      \* bytes of it that have been consumed
    start,    \* where the frame of the command begins
    cmd,      \* the command
    phase,    \* "parse", "reply", or why the conversation is over
    served,   \* the keys of the command that have been answered
    out,      \* bytes in the output buffer
    replies   \* the replies they stand for

vars == <<input, filled, pos, start, cmd, phase, served, out, replies>>

Window == SubSeq(input, pos + 1, filled)
Frame  == SubSeq(input, start + 1, filled)

Init ==
    /\ input \in Streams
    /\ filled = 0 /\ pos = 0 /\ start = 0
    /\ cmd = NoCommand /\ phase = "parse" /\ served = <<>>
    /\ out = <<>> /\ replies = <<>>

-----------------------------------------------------------------------------
Unfinished == phase = "parse" /\ pos < Len(input)

\* A command is there: its bytes are consumed.
Accept ==
    /\ Unfinished
    /\ LET parsed == ParseCommand(Window)
       IN  /\ parsed.err = "OK"
           /\ cmd' = parsed.cmd
           /\ start' = pos
           /\ pos' = pos + parsed.consumed
    /\ phase' = "reply"
    /\ served' = <<>>
    /\ UNCHANGED <<input, filled, out, replies>>

\* Part of a command is there: some more of the stream arrives.
Grow(n) ==
    /\ Unfinished
    /\ ParseCommand(Window).err = "INCOMPLETE"
    /\ filled < n
    /\ filled' = n
    /\ UNCHANGED <<input, pos, start, cmd, phase, served, out, replies>>

\* The conversation ends with an error, in the middle of a command, or well.
Stop ==
    /\ phase = "parse"
    /\ \/ pos = Len(input) /\ phase' = "done"
       \/ /\ Unfinished
          /\ ParseCommand(Window).err # "OK"
          /\ ParseCommand(Window).err = "INCOMPLETE" => filled = Len(input)
          /\ phase' = ParseCommand(Window).err
    /\ UNCHANGED <<input, filled, pos, start, cmd, served, out, replies>>

-----------------------------------------------------------------------------
(***************************************************************************)
(* Replies.                                                                *)
(***************************************************************************)
Key == SubSeq(Frame, cmd.key, cmd.key + cmd.keyLen - 1)

Room == OutputCap - Len(out)

\* The outcome of a writer, for a reply that ends the command or does not.
Put(written, reply, more) ==
    /\ written.err = "OK"
    /\ out' = out \o written.bytes
    /\ replies' = Append(replies, reply)
    /\ phase' = IF more THEN "reply" ELSE "parse"
    /\ UNCHANGED <<input, filled, pos, start>>

\* The output is passed on.
Flush ==
    /\ phase = "reply" /\ out # <<>>
    /\ out' = <<>> /\ replies' = <<>>
    /\ UNCHANGED <<input, filled, pos, start, cmd, phase, served>>

KeysLeft == cmd.type = "get" /\ cmd.key # 0

\* The next key, if protocol_next_key says there is one.
MoveOn ==
    /\ served' = Append(served, Key)
    /\ cmd' = IF HasNextKey(Frame, cmd) THEN NextKey(Frame, cmd) ELSE [cmd EXCEPT !.key = 0]

\* An item that is found is written out, one that is not found leaves no trace.
ReplyKey ==
    /\ phase = "reply" /\ KeysLeft
    /\ \/ /\ \E item \in Values :
                Put(WriteGetResult(Room, Key, item[1], item[2]),
                    <<"VALUE", Key, item[1], item[2]>>, TRUE)
          /\ MoveOn
       \/ /\ MoveOn
          /\ UNCHANGED <<input, filled, pos, start, phase, out, replies>>

ReplyEnd ==
    /\ phase = "reply" /\ cmd.type = "get" /\ ~KeysLeft
    /\ Put(WriteGetEnd(Room), <<"END">>, FALSE)
    /\ UNCHANGED <<cmd, served>>

ReplyLine ==
    /\ phase = "reply" /\ cmd.type # "get" /\ ~cmd.noreply
    /\ \/ \E type \in {"STORED", "NOT_FOUND", "ERROR"} :
            Put(WriteResponse(Room, type), <<type>>, FALSE)
       \/ \E text \in Texts :
            Put(WriteVersion(Room, text), <<"VERSION", text>>, FALSE)
       \/ \E type \in {"CLIENT_ERROR", "SERVER_ERROR"}, text \in Texts :
            Put(WriteError(Room, type, text), <<type, text>>, FALSE)
    /\ UNCHANGED <<cmd, served>>

NoReply ==
    /\ phase = "reply" /\ cmd.noreply
    /\ phase' = "parse"
    /\ UNCHANGED <<input, filled, pos, start, cmd, served, out, replies>>

Terminating == phase \notin {"parse", "reply"} /\ UNCHANGED vars

Next ==
    \/ Accept \/ Stop \/ (\E n \in 1..Len(input) : Grow(n))
    \/ ReplyKey \/ ReplyEnd \/ ReplyLine \/ NoReply \/ Flush
    \/ Terminating

Spec == Init /\ [][Next]_vars

-----------------------------------------------------------------------------
(***************************************************************************)
(* Properties.                                                             *)
(***************************************************************************)
Rest(from) == SubSeq(input, from + 1, Len(input))

\* The slices of a command lie inside its frame, and its numbers inside
\* their types.
TypeOK ==
    /\ input \in Streams
    /\ filled \in 0..Len(input) /\ pos \in 0..filled /\ start \in 0..pos
    /\ cmd.type \in {"get", "set", "delete", "touch", "version", "quit"}
    /\ cmd.flags \in 0..UintMax /\ cmd.exptime \in 0..UintMax
    /\ cmd.valueLen \in 0..SizeMax
    /\ cmd.key + cmd.keyLen <= cmd.keysEnd /\ cmd.keysEnd <= pos - start
    /\ cmd.value + cmd.valueLen <= pos - start
    /\ Len(out) <= OutputCap

\* However the stream is cut up, the commands and the final refusal are the
\* ones of a parser that sees all of it: what was answered on the bytes that
\* had arrived stands, whatever arrives later.
CutsDoNotMatter ==
    /\ phase = "reply" /\ served = <<>> =>
         ParseCommand(Rest(start)) = [err |-> "OK", cmd |-> cmd, consumed |-> pos - start]
    /\ phase \notin {"parse", "reply", "done"} => ParseCommand(Rest(pos)).err = phase

\* The power of the base that the digit with n digits behind it counts.
Place(n) ==
    LET place[m \in 0..n] == IF m = 0 THEN 1 ELSE Base * place[m - 1]
    IN  place[n]

\* What a word of digits denotes, in its own terms: the sum of its digits,
\* each at its place.
Denoted(word) ==
    LET sum[n \in 0..Len(word)] ==
            IF n = 0 THEN 0
            ELSE sum[n - 1] + DigitValue(word[n]) * Place(Len(word) - n)
    IN  sum[Len(word)]

Number(word, limit) == (\A i \in DOMAIN word : IsDigit(word[i])) /\ Denoted(word) <= limit

ValidKey(word) == Len(word) <= MaxKey /\ \A i \in DOMAIN word : word[i] # "ctl"

\* The request lines of the protocol, by their words.
LegalLine(words) ==
    LET w == IF Last(words) = <<"noreply">> /\ Len(words) > 2 THEN Front(words) ELSE words
    IN  \/ /\ words[1] = <<"get">> /\ Len(words) > 1
           /\ \A n \in 2..Len(words) : ValidKey(words[n])
        \/ /\ w[1] = <<"set">> /\ Len(w) = 5
           /\ ValidKey(w[2]) /\ Number(w[3], UintMax) /\ Number(w[4], UintMax)
           /\ Number(w[5], SizeMax)
        \/ w[1] = <<"touch">> /\ Len(w) = 3 /\ ValidKey(w[2]) /\ Number(w[3], UintMax)
        \/ w[1] = <<"delete">> /\ Len(w) = 2 /\ ValidKey(w[2])
        \/ words \in {<< <<"version">> >>, << <<"quit">> >>}

\* A request is a legal line and, for a set, a block of the length it names.
LegalFrame(frame) ==
    \E n \in 0..Len(frame) :
        LET line == SubSeq(frame, 1, n)
            rest == SubSeq(frame, n + 1, Len(frame))
        IN  /\ Breaks(line) = {}
            /\ Words(line) # <<>> /\ LegalLine(Words(line))
            /\ IF Words(line)[1] = <<"set">>
               THEN /\ Len(rest) = Denoted(Words(line)[5]) + 4
                    /\ rest = CRLF \o SubSeq(rest, 3, Len(rest) - 2) \o CRLF
               ELSE rest = CRLF

\* As far as complete lines tell, what has arrived may become a request: it is
\* a line without its end, whatever it holds, or a legal set whose block is
\* short.
MayBecomeLegal(b) ==
    \/ Breaks(b) \subseteq {Len(b)}
    \/ /\ Words(Line(b))[1] = <<"set">> /\ LegalLine(Words(Line(b)))
       /\ Len(b) < FirstBreak(b) + Denoted(Words(Line(b))[5]) + 3

\* The parser takes exactly the requests: each command consumes one, with the
\* numbers it denotes; where the conversation stops there is none, and a line
\* that is complete is waited behind only for the block of a legal set.
RequestsRecognized ==
    /\ phase = "reply" => LegalFrame(SubSeq(input, start + 1, pos))
    /\ phase = "reply" /\ cmd.type = "set" =>
         /\ Denoted(Words(Line(Frame))[3]) = cmd.flags
         /\ Denoted(Words(Line(Frame))[4]) = cmd.exptime
         /\ Denoted(Words(Line(Frame))[5]) = cmd.valueLen
    /\ phase \notin {"parse", "reply", "done"} =>
         \A n \in 0..Len(Rest(pos)) : ~LegalFrame(SubSeq(Rest(pos), 1, n))
    /\ phase = "INCOMPLETE" => MayBecomeLegal(Rest(pos))

\* A get is answered for each of its words, in order, once.
KeysServed ==
    phase = "reply" /\ cmd.type = "get" =>
        /\ IsPrefix(served, Tail(Words(Line(Frame))))
        /\ ~KeysLeft => served = Tail(Words(Line(Frame)))

-----------------------------------------------------------------------------
(***************************************************************************)
(* What a client makes of the output: lines, each one reply, and after a   *)
(* VALUE line the announced number of bytes.                               *)
(***************************************************************************)
ReplyOf(b, words) ==
    CASE words[1] = <<"VALUE">> ->
            <<"VALUE", words[2], Denoted(words[3]),
              SubSeq(b, FirstBreak(b) + 2, FirstBreak(b) + 1 + Denoted(words[4]))>>
      [] words[1][1] \in {"VERSION", "CLIENT_ERROR", "SERVER_ERROR"} ->
            <<words[1][1], SubSeq(b, 3, FirstBreak(b) - 1)>>
      [] OTHER -> words[1]

ReplyLength(b, words) ==
    FirstBreak(b) + 1 + IF words[1] = <<"VALUE">> THEN Denoted(words[4]) + 2 ELSE 0

Readable(b, words) ==
    /\ LineError(b) = "OK" /\ words # <<>>
    /\ words[1] = <<"VALUE">> =>
         Len(words) = 4 /\ \A n \in 3..4 : \A i \in DOMAIN words[n] : IsDigit(words[n][i])
    /\ ReplyLength(b, words) <= Len(b)

Decoded(bytes) ==
    LET from[p \in 1..Len(bytes) + 1] ==
            LET b == SubSeq(bytes, p, Len(bytes))
            IN  IF b = <<>> THEN <<>>
                ELSE IF ~Readable(b, Words(Line(b))) THEN << <<"unreadable">> >>
                ELSE <<ReplyOf(b, Words(Line(b)))>> \o from[p + ReplyLength(b, Words(Line(b)))]
    IN  from[1]

\* A client reads back the replies that were written, whatever bytes the
\* values hold: a reply is in the output as a whole or not at all.
RepliesReadBack == Decoded(out) = replies
=============================================================================
