------------------------------- MODULE Protocol -------------------------------
(***************************************************************************)
(* The request parser and the response writers of src/protocol.c, as       *)
(* operators on byte sequences.  The words the code compares as a whole    *)
(* ("get", "noreply", "VALUE") count as one character each, and so does    *)
(* "ctl", any byte a key must not contain.  Positions are 1-based offsets  *)
(* into the bytes a parse was given; 0 is the null pointer.                *)
(***************************************************************************)
EXTENDS Integers, Sequences, FiniteSetsExt, SequencesExt

CONSTANTS
    Digits,     \* the digits in order; their number is the base
    MaxTokens,  \* PROTO_MAX_TOKENS
    MaxKey,     \* PROTO_MAX_KEY_LENGTH
    UintMax,    \* UINT32_MAX
    SizeMax     \* SIZE_MAX

\* The digits differ from each other, from what ends words and lines and from
\* the word noreply; the longest request has six words.
ASSUME ProtocolAssumption ==
    /\ Digits \in Seq(ToSet(Digits)) /\ Len(Digits) > 1
    /\ \A i, j \in DOMAIN Digits : Digits[i] = Digits[j] => i = j
    /\ \A i \in DOMAIN Digits : Digits[i] \notin {"sp", "CR", "LF", "noreply"}
    /\ {MaxTokens, MaxKey, UintMax, SizeMax} \subseteq Nat \ {0}
    /\ MaxTokens >= 6

CRLF == <<"CR", "LF">>

Arity == [set |-> 5, delete |-> 2, touch |-> 3, version |-> 1, quit |-> 1]
TakesNoreply == {"set", "delete", "touch"}

-----------------------------------------------------------------------------
(***************************************************************************)
(* Lines and words.                                                        *)
(***************************************************************************)
Breaks(b) == {i \in 1..Len(b) : b[i] \in {"CR", "LF"}}

FirstBreak(b) == CHOOSE i \in Breaks(b) : \A j \in Breaks(b) : i <= j

\* Mutated form: a line whose last byte so far is the CR is refused at once.
LineErrorImpatient(b) ==
    IF Breaks(b) = {} THEN "INCOMPLETE"
    ELSE IF /\ b[FirstBreak(b)] = "CR" /\ FirstBreak(b) < Len(b)
            /\ b[FirstBreak(b) + 1] = "LF" THEN "OK"
    ELSE "EXPECTED_CRLF"

\* proto_find_line: the first CR or LF decides.
LineError(b) ==
    IF Breaks(b) = {} THEN "INCOMPLETE"
    ELSE IF b[FirstBreak(b)] = "LF" THEN "EXPECTED_CRLF"
    ELSE IF FirstBreak(b) = Len(b) THEN "INCOMPLETE"
    ELSE IF b[FirstBreak(b) + 1] # "LF" THEN "EXPECTED_CRLF"
    ELSE "OK"

Line(b) == SubSeq(b, 1, FirstBreak(b) - 1)

\* Where the words of a line start, in order: proto_tokenize.
WordStarts(line) ==
    LET starts[n \in 0..Len(line)] ==
            IF n = 0 THEN <<>>
            ELSE IF line[n] # "sp" /\ (n = 1 \/ line[n - 1] = "sp")
            THEN Append(starts[n - 1], n)
            ELSE starts[n - 1]
    IN  starts[Len(line)]

\* The position behind the word that starts at `from`, in a line that ends
\* before `end`.
WordEnd(b, from, end) ==
    Min({end} \cup {i \in from..end - 1 : b[i] = "sp"})

Word(line, from) == SubSeq(line, from, WordEnd(line, from, Len(line) + 1) - 1)

Words(line) == [n \in DOMAIN WordStarts(line) |-> Word(line, WordStarts(line)[n])]

-----------------------------------------------------------------------------
(***************************************************************************)
(* Numbers.                                                                *)
(***************************************************************************)
Base == Len(Digits)
IsDigit(ch) == \E d \in 1..Base : Digits[d] = ch
DigitValue(ch) == (CHOOSE d \in 1..Base : Digits[d] = ch) - 1
NotANumber == -1

\* Mutated form: the limit is tested before the digit is added, not after.
NextDigitLate(value, ch, limit) ==
    IF value = NotANumber \/ ~IsDigit(ch) \/ value > limit \div Base
    THEN NotANumber
    ELSE value * Base + DigitValue(ch)

\* One more digit, refused before the product could pass the limit.
NextDigit(value, ch, limit) ==
    IF \/ value = NotANumber
       \/ ~IsDigit(ch)
       \/ value > limit \div Base
       \/ value = limit \div Base /\ DigitValue(ch) > limit % Base
    THEN NotANumber
    ELSE value * Base + DigitValue(ch)

\* proto_parse_uint; no word is empty.
ParseUint(word, limit) ==
    LET value[n \in 0..Len(word)] ==
            IF n = 0 THEN 0 ELSE NextDigit(value[n - 1], word[n], limit)
    IN  value[Len(word)]

\* Mutated form: no digit is written for zero.
FormatUintOfZeroEmpty(value) ==
    LET digits[n \in 0..value] ==
            IF n = 0 THEN <<>> ELSE Append(digits[n \div Base], Digits[(n % Base) + 1])
    IN  digits[value]

\* proto_format_uint: at least one digit.
FormatUint(value) ==
    LET digits[n \in 0..value] ==
            IF n < Base THEN <<Digits[n + 1]>>
            ELSE Append(digits[n \div Base], Digits[(n % Base) + 1])
    IN  digits[value]

-----------------------------------------------------------------------------
(***************************************************************************)
(* The header: a line without its CRLF.                                    *)
(***************************************************************************)
NoCommand == [type |-> "get", key |-> 0, keyLen |-> 0, keysEnd |-> 0,
              value |-> 0, valueLen |-> 0, flags |-> 0, exptime |-> 0, noreply |-> FALSE]

\* proto_parse_key.
KeyError(key) ==
    IF Len(key) > MaxKey THEN "KEY_TOO_LONG"
    ELSE IF \E i \in DOMAIN key : key[i] = "ctl" THEN "INVALID_ARGUMENTS"
    ELSE "OK"

\* proto_parse_get_keys: every key is looked at before the first is answered.
GetError(words) ==
    IF Len(words) = 1 THEN "INVALID_ARGUMENTS"
    ELSE LET wrong == {n \in 2..Len(words) : KeyError(words[n]) # "OK"}
         IN  IF wrong = {} THEN "OK" ELSE KeyError(words[Min(wrong)])

\* proto_parse_noreply.
ArityError(words, type) ==
    IF \/ Len(words) = Arity[type]
       \/ /\ type \in TakesNoreply
          /\ Len(words) = Arity[type] + 1
          /\ Last(words) = <<"noreply">>
    THEN "OK" ELSE "INVALID_ARGUMENTS"

\* The fields behind the key, in the order they are parsed.
FieldError(words, type) ==
    IF type = "set" /\ ParseUint(words[3], UintMax) \notin Nat THEN "INVALID_FLAGS"
    ELSE IF type = "set" /\ ParseUint(words[4], UintMax) \notin Nat THEN "INVALID_EXPTIME"
    ELSE IF type = "touch" /\ ParseUint(words[3], UintMax) \notin Nat THEN "INVALID_EXPTIME"
    ELSE IF type = "set" /\ ParseUint(words[5], SizeMax) \notin Nat THEN "INVALID_VALUE_LENGTH"
    ELSE "OK"

IsCommand(word) == Len(word) = 1 /\ word[1] \in DOMAIN Arity

\* proto_parse_header, its tests in order; a get has any number of words.
HeaderError(words) ==
    IF words # <<>> /\ words[1] = <<"get">> THEN GetError(words)
    ELSE IF Len(words) > MaxTokens THEN "INVALID_ARGUMENTS"
    ELSE IF words = <<>> \/ ~IsCommand(words[1]) THEN "INVALID_COMMAND"
    ELSE IF ArityError(words, words[1][1]) # "OK" THEN ArityError(words, words[1][1])
    ELSE IF Len(words) = 1 THEN "OK"
    ELSE IF KeyError(words[2]) # "OK" THEN KeyError(words[2])
    ELSE FieldError(words, words[1][1])

\* Mutated form: the key list ends with the first key.
KeysEndAtFirst(line, type) ==
    WordStarts(line)[2] + Len(Words(line)[2])

\* A get may go on to the end of the line, any other command has one key.
KeysEnd(line, type) ==
    IF type = "get" THEN Len(line) + 1 ELSE WordStarts(line)[2] + Len(Words(line)[2])

\* The command a line without error stands for.
Command(line, words, type) ==
    IF Len(words) = 1 THEN [NoCommand EXCEPT !.type = type]
    ELSE [type     |-> type,
          key      |-> WordStarts(line)[2],
          keyLen   |-> Len(words[2]),
          keysEnd  |-> KeysEnd(line, type),
          value    |-> 0,
          valueLen |-> IF type = "set" THEN ParseUint(words[5], SizeMax) ELSE 0,
          flags    |-> IF type = "set" THEN ParseUint(words[3], UintMax) ELSE 0,
          exptime  |-> CASE type = "set"   -> ParseUint(words[4], UintMax)
                         [] type = "touch" -> ParseUint(words[3], UintMax)
                         [] OTHER          -> 0,
          noreply  |-> type \in TakesNoreply /\ Len(words) > Arity[type]]

-----------------------------------------------------------------------------
(***************************************************************************)
(* The whole request.                                                      *)
(***************************************************************************)

\* Mutated form: the block may end with any two bytes that start with a CR.
BodyErrorWithoutLF(b, offset, valueLen) ==
    IF SizeMax - offset < 2 \/ valueLen > SizeMax - offset - 2 THEN "INVALID_VALUE_LENGTH"
    ELSE IF Len(b) - offset <= valueLen THEN "INCOMPLETE"
    ELSE IF b[offset + valueLen + 1] # "CR" THEN "INVALID_DATA_BLOCK"
    ELSE IF Len(b) - offset = valueLen + 1 THEN "INCOMPLETE"
    ELSE "OK"

\* proto_parse_body, for a block of valueLen bytes behind the first `offset`.
BodyError(b, offset, valueLen) ==
    IF SizeMax - offset < 2 \/ valueLen > SizeMax - offset - 2 THEN "INVALID_VALUE_LENGTH"
    ELSE IF Len(b) - offset <= valueLen THEN "INCOMPLETE"
    ELSE IF b[offset + valueLen + 1] # "CR" THEN "INVALID_DATA_BLOCK"
    ELSE IF Len(b) - offset = valueLen + 1 THEN "INCOMPLETE"
    ELSE IF b[offset + valueLen + 2] # "LF" THEN "INVALID_DATA_BLOCK"
    ELSE "OK"

Failed(err) == [err |-> err, cmd |-> NoCommand, consumed |-> 0]

\* The answer to a header that ends before `offset`.
Framed(b, offset, err, cmd) ==
    IF err # "OK" THEN Failed(err)
    ELSE IF cmd.type # "set" THEN [err |-> "OK", cmd |-> cmd, consumed |-> offset]
    ELSE IF BodyError(b, offset, cmd.valueLen) # "OK"
    THEN Failed(BodyError(b, offset, cmd.valueLen))
    ELSE [err      |-> "OK",
          cmd      |-> [cmd EXCEPT !.value = offset + 1],
          consumed |-> offset + cmd.valueLen + 2]

HeaderCommand(line) ==
    IF HeaderError(Words(line)) = "OK"
    THEN Command(line, Words(line), Words(line)[1][1])
    ELSE NoCommand

\* protocol_parse_command.
ParseCommand(b) ==
    IF LineError(b) # "OK" THEN Failed(LineError(b))
    ELSE Framed(b, FirstBreak(b) + 1, HeaderError(Words(Line(b))), HeaderCommand(Line(b)))

\* The bytes before keysEnd and behind the key that belong to further keys.
FurtherKeyBytes(b, cmd) ==
    {i \in cmd.key + cmd.keyLen..cmd.keysEnd - 1 : b[i] # "sp"}

\* protocol_next_key: whether there is one, and the command that shows it.
HasNextKey(b, cmd) == cmd.key # 0 /\ FurtherKeyBytes(b, cmd) # {}

NextKey(b, cmd) ==
    LET start == Min(FurtherKeyBytes(b, cmd))
    IN  [cmd EXCEPT !.key = start, !.keyLen = WordEnd(b, start, cmd.keysEnd) - start]

-----------------------------------------------------------------------------
(***************************************************************************)
(* The writers: bytes for a destination of `cap` bytes, or none at all.    *)
(***************************************************************************)
WriteFailed(err) == [err |-> err, bytes |-> <<>>]

\* proto_write_bytes.
WriteBytes(cap, bytes) ==
    IF cap < Len(bytes) THEN WriteFailed("BUFFER_TOO_SMALL")
    ELSE [err |-> "OK", bytes |-> bytes]

\* protocol_write_get_result: VALUE <key> <flags> <bytes> and the value.
GetResultHeader(key, flags, value) ==
    <<"VALUE", "sp">> \o key \o <<"sp">> \o FormatUint(flags) \o <<"sp">>
        \o FormatUint(Len(value)) \o CRLF

WriteGetResult(cap, key, flags, value) ==
    IF key = <<>> THEN WriteFailed("INVALID_ARGUMENTS")
    ELSE IF Len(key) > MaxKey THEN WriteFailed("KEY_TOO_LONG")
    ELSE IF Len(value) > SizeMax - Len(GetResultHeader(key, flags, value)) - 2
    THEN WriteFailed("INVALID_VALUE_LENGTH")
    ELSE WriteBytes(cap, GetResultHeader(key, flags, value) \o value \o CRLF)

\* protocol_write_get_end.
WriteGetEnd(cap) == WriteBytes(cap, <<"END">> \o CRLF)

\* protocol_write_response: the answers that are one word.
WriteResponse(cap, type) ==
    IF type \in {"CLIENT_ERROR", "SERVER_ERROR"} THEN WriteFailed("INVALID_ARGUMENTS")
    ELSE WriteBytes(cap, <<type>> \o CRLF)

\* proto_write_text_line: for a destination too small the text is not looked at.
WriteTextLine(cap, prefix, text) ==
    IF text = <<>> \/ Len(text) > SizeMax - 4 THEN WriteFailed("INVALID_ARGUMENTS")
    ELSE IF cap >= Len(text) + 4 /\ \E i \in DOMAIN text : text[i] \in {"CR", "LF", "ctl"}
    THEN WriteFailed("INVALID_ARGUMENTS")
    ELSE WriteBytes(cap, <<prefix, "sp">> \o text \o CRLF)

\* protocol_write_version and protocol_write_error.
WriteVersion(cap, version) == WriteTextLine(cap, "VERSION", version)

WriteError(cap, type, message) ==
    IF type \in {"CLIENT_ERROR", "SERVER_ERROR"}
    THEN WriteTextLine(cap, type, message)
    ELSE WriteFailed("INVALID_ARGUMENTS")
=============================================================================
