-------------------------------- MODULE Config --------------------------------
(***************************************************************************)
(* The command line: flag_parse of src/flag.c, which reads argv one flag   *)
(* at a time, and parse_config of src/config.c, which binds the flag       *)
(* `listen` and takes its value apart.                                     *)
(*                                                                         *)
(* An argument is a record: its leading dashes, the name behind them, what *)
(* follows an equals sign (or Unset), and `text`, the argument as a whole  *)
(* when it serves as a value.  A text is classified by what the parsers    *)
(* look at: a boolean word, a number, a URL, anything else.                *)
(***************************************************************************)
EXTENDS Integers, Sequences

CONSTANTS
    Bound,     \* flags bound before parse_config binds its own, in order
    Arguments, \* what the command line is made of
    MaxArgs,   \* the longest command line
    IntMax,    \* INT64_MAX
    UlongMax,  \* UINT64_MAX and ULONG_MAX
    PortMax,   \* UINT16_MAX
    Unset      \* no value

ASSUME ConfigAssumption ==
    /\ Bound \in Seq({Bound[n] : n \in DOMAIN Bound})
    /\ MaxArgs \in Nat

VARIABLES
    argv,    \* the arguments behind the program's name
    i,       \* how many of them have been read
    dst,     \* what each flag's destination holds
    answer,  \* "running", "ok", or the error of flag_parse or parse_listener
    config   \* config->listener as the caller has it

configVars == <<argv, i, dst, answer, config>>

Listen == [type |-> "str", short |-> "l", long |-> "listen"]

\* flags[], after parse_config has bound its own.
Flags == Append(Bound, Listen)

-----------------------------------------------------------------------------
(***************************************************************************)
(* Values.  A number is its white space, sign, magnitude (-1 without any   *)
(* digit) and whether something follows it.                                *)
(***************************************************************************)
Refused == [ok |-> FALSE, value |-> Unset]
Stored(value) == [ok |-> TRUE, value |-> value]

Signed(text) == IF text.sign = "-" THEN -text.mag ELSE text.mag

IsNumber(text) == text.kind = "number" /\ text.mag >= 0 /\ ~text.junk

ParseI64(text) ==
    IF IsNumber(text) /\ Signed(text) \in -IntMax - 1..IntMax
    THEN Stored(Signed(text)) ELSE Refused

\* strtoumax would skip white space and wrap a negative number: both are
\* refused before it is called.
ParseU64(text) ==
    IF IsNumber(text) /\ ~text.space /\ text.sign = "" /\ text.mag <= UlongMax
    THEN Stored(text.mag) ELSE Refused

ParseBool(text) ==
    IF text.kind = "bool" THEN Stored(text.is) ELSE Refused

\* set_value.
SetValue(type, text) ==
    CASE type = "i64"  -> ParseI64(text)
      [] type = "u64"  -> ParseU64(text)
      [] type = "bool" -> ParseBool(text)
      [] type = "str"  -> Stored(text)

\* What strtoul makes of a number: a negative one wraps.
Strtoul(text) == Signed(text) % (UlongMax + 1)

ParsePort(text) ==
    /\ IsNumber(text) /\ text.mag <= UlongMax
    /\ Strtoul(text) \in 1..PortMax

NoListener == [type |-> Unset, host |-> Unset, port |-> Unset, path |-> Unset]

\* parse_listener.  A URL has a scheme, and behind it parts divided by colons.
\* An empty host is the null pointer.
ParseListener(text) ==
    IF text.kind # "url" THEN Refused
    ELSE IF text.scheme = "tcp" /\ Len(text.parts) = 2 /\ ParsePort(text.parts[2])
    THEN Stored([NoListener EXCEPT !.type = "tcp", !.port = text.parts[2],
                                   !.host = IF text.parts[1] = "" THEN Unset ELSE text.parts[1]])
    ELSE IF text.scheme = "unix" /\ text.parts[1] # ""
    THEN Stored([NoListener EXCEPT !.type = "unix", !.path = text.parts[1]])
    ELSE Refused

-----------------------------------------------------------------------------
(***************************************************************************)
(* One flag.                                                               *)
(***************************************************************************)
Malformed(arg) == arg.dashes \notin {1, 2} \/ arg.name = ""

\* name_matches: one dash for short names, two for long ones.
Matches(flag, arg) == arg.name = IF arg.dashes = 2 THEN flag.long ELSE flag.short

Matching(arg) == {n \in DOMAIN Flags : Matches(Flags[n], arg)}

\* lookup: the first of several bindings.
Lookup(arg) == CHOOSE n \in Matching(arg) : \A m \in Matching(arg) : n <= m

\* Mutated form: a boolean flag takes the argument behind it, too.
TakesNextGreedy(arg) == arg.eq = Unset

\* Whether the value is the next argument, whatever that looks like.
TakesNext(arg) == arg.eq = Unset /\ Flags[Lookup(arg)].type # "bool"

Value(arg, next) ==
    IF arg.eq # Unset THEN arg.eq
    ELSE IF Flags[Lookup(arg)].type = "bool" THEN [kind |-> "bool", is |-> TRUE]
    ELSE next

ConfigInit ==
    /\ argv \in UNION {[1..n -> Arguments] : n \in 0..MaxArgs}
    /\ i = 0
    /\ dst = [n \in DOMAIN Flags |-> Unset]
    /\ answer = "running"
    /\ config = NoListener

\* consume_flag, on the error paths: what was stored before stays stored.
RefuseFlag ==
    /\ answer = "running" /\ i < Len(argv)
    /\ LET arg == argv[i + 1]
       IN  \/ Malformed(arg) /\ answer' = "malformed"
           \/ ~Malformed(arg) /\ Matching(arg) = {} /\ answer' = "unknown"
           \/ /\ ~Malformed(arg) /\ Matching(arg) # {}
              /\ TakesNext(arg) /\ i + 1 = Len(argv)
              /\ answer' = "missing"
           \/ /\ ~Malformed(arg) /\ Matching(arg) # {}
              /\ TakesNext(arg) => i + 1 < Len(argv)
              /\ ~SetValue(Flags[Lookup(arg)].type,
                           Value(arg, IF TakesNext(arg) THEN argv[i + 2].text ELSE Unset)).ok
              /\ answer' = "invalid"
    /\ UNCHANGED <<argv, i, dst, config>>

\* consume_flag: a flag, with its value where that is an argument of its own.
ConsumeFlag ==
    /\ answer = "running" /\ i < Len(argv)
    /\ ~Malformed(argv[i + 1]) /\ Matching(argv[i + 1]) # {}
    /\ LET arg   == argv[i + 1]
           used  == IF TakesNext(arg) THEN 2 ELSE 1
       IN  /\ i + used <= Len(argv)
           /\ LET set == SetValue(Flags[Lookup(arg)].type, Value(arg, argv[i + used].text))
              IN  set.ok /\ dst' = [dst EXCEPT ![Lookup(arg)] = set.value]
           /\ i' = i + used
    /\ UNCHANGED <<argv, answer, config>>

\* All flags are read: the caller's configuration is written, or left alone.
Finish ==
    /\ answer = "running" /\ i = Len(argv)
    /\ LET listen   == dst[Len(Flags)]
           listener == IF listen = Unset THEN Refused ELSE ParseListener(listen)
       IN  IF listener.ok THEN answer' = "ok" /\ config' = listener.value
                          ELSE answer' = "unusable" /\ UNCHANGED config
    /\ UNCHANGED <<argv, i, dst>>

ConfigNext == RefuseFlag \/ ConsumeFlag \/ Finish

ConfigSpec == ConfigInit /\ [][ConfigNext]_configVars

-----------------------------------------------------------------------------
(***************************************************************************)
(* Properties.                                                             *)
(***************************************************************************)

\* A reading of the command line, in its own terms: P are the places of the
\* flags, every other place is the value of the flag before it.
Reading(P) ==
    /\ \A p \in P :
        /\ ~Malformed(argv[p]) /\ Matching(argv[p]) # {}
        /\ argv[p].eq = Unset /\ Flags[Lookup(argv[p])].type # "bool" <=> p + 1 \in DOMAIN argv \ P
        /\ SetValue(Flags[Lookup(argv[p])].type,
                    Value(argv[p], IF p < Len(argv) THEN argv[p + 1].text ELSE Unset)).ok
    /\ \A p \in DOMAIN argv \ P : p - 1 \in P

GivenBy(P, n) == {p \in P : Lookup(argv[p]) = n}

\* What the last occurrence of flag n gives.
Given(P, n) ==
    LET last == CHOOSE p \in GivenBy(P, n) : \A q \in GivenBy(P, n) : q <= p
    IN  SetValue(Flags[n].type,
                 Value(argv[last], IF last < Len(argv) THEN argv[last + 1].text ELSE Unset)).value

\* The command line is taken if and only if it has a reading; then each flag
\* holds what it was given last, and the configuration is the one the last
\* listen names.  Otherwise the configuration is not touched, however many
\* flags had been stored.
FlagsAsGiven ==
    /\ answer \in {"ok", "unusable"} =>
        \E P \in SUBSET DOMAIN argv :
            /\ Reading(P)
            /\ \A n \in DOMAIN Flags :
                dst[n] = IF GivenBy(P, n) = {} THEN Unset ELSE Given(P, n)
            /\ answer = "ok" => config = ParseListener(Given(P, Len(Flags))).value
    /\ answer \in {"malformed", "unknown", "missing", "invalid"} =>
        ~\E P \in SUBSET DOMAIN argv : Reading(P)
    /\ answer # "ok" => config = NoListener
=============================================================================
