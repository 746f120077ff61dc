----------------------------- MODULE ConfigProofs -----------------------------
(***************************************************************************)
(* Proofs about the command line, for any flags bound before parse_config  *)
(* binds its own and any arguments.                                        *)
(*                                                                         *)
(* The arguments that have been consumed have a reading, and each flag     *)
(* holds what that reading gave it last (ReadSoFar). Every reading of the  *)
(* whole command line has a flag at the next argument, so an argument      *)
(* flag_parse refuses leaves no reading at all (Ahead).                    *)
(***************************************************************************)
EXTENDS Config, TLAPS, SequenceTheorems, WellFoundedInduction

\* A set of numbers that is not empty has a least element.
LEMMA LeastNumber ==
    ASSUME NEW T \in SUBSET Nat, T # {}
    PROVE  \E x \in T : \A y \in T : x <= y
<1>1. \E x \in T : \A y \in T : ~(<<y, x>> \in OpToRel(<, Nat))
  BY NatLessThanWellFounded, WFMin
<1>2. PICK x \in T : \A y \in T : ~(<<y, x>> \in OpToRel(<, Nat))
  BY <1>1
<1>3. \A y \in T : ~(y < x)
  BY <1>2, Zenon DEF OpToRel
<1>4. \A y \in T : x <= y
  BY <1>3
<1> QED BY <1>4

\* The flags, with the one parse_config binds behind them.
LEMMA FlagsAre == DOMAIN Flags = 1..Len(Flags) /\ Len(Flags) \in Nat /\ Len(Flags) \in DOMAIN Flags
<1> DEFINE S == {Bound[n] : n \in DOMAIN Bound} \cup {Listen}
<1>1. Bound \in Seq(S) /\ Listen \in S
  <2>1. {Bound[n] : n \in DOMAIN Bound} \subseteq S
    OBVIOUS
  <2>2. Listen \in S
    OBVIOUS
  <2> HIDE DEF S
  <2> QED BY <2>1, <2>2, ConfigAssumption, SeqMonotonic
<1> HIDE DEF S
<1>2. Flags \in Seq(S) /\ Len(Flags) = Len(Bound) + 1 /\ Len(Bound) \in Nat
  BY <1>1, AppendProperties, LenProperties DEF Flags
<1> QED BY <1>2, LenProperties

\* lookup finds a flag that matches, where there is one.
LEMMA LookupIs ==
    ASSUME NEW arg, Matching(arg) # {}
    PROVE  Lookup(arg) \in DOMAIN Flags
<1>1. Matching(arg) \in SUBSET Nat
  BY FlagsAre DEF Matching
<1>2. \E n \in Matching(arg) : \A m \in Matching(arg) : n <= m
  BY <1>1, LeastNumber
<1>3. Lookup(arg) \in Matching(arg)
  BY <1>2, Zenon DEF Lookup
<1> QED BY <1>3 DEF Matching

\* A value that is not the next argument does not depend on it.
LEMMA ValueIsOwn ==
    ASSUME NEW arg, ~TakesNext(arg), NEW a, NEW b
    PROVE  Value(arg, a) = Value(arg, b)
BY DEF TakesNext, Value

-----------------------------------------------------------------------------
(***************************************************************************)
(* The invariant.                                                          *)
(***************************************************************************)

\* What set_value makes of the value of the flag at p.
SetAt(p) ==
    SetValue(Flags[Lookup(argv[p])].type,
             Value(argv[p], IF p < Len(argv) THEN argv[p + 1].text ELSE Unset))

\* P is a reading of the first k arguments.
ReadingOf(P, k) ==
    /\ P \subseteq 1..k
    /\ \A p \in P :
        /\ ~Malformed(argv[p]) /\ Matching(argv[p]) # {}
        /\ TakesNext(argv[p]) <=> p + 1 \in (1..k) \ P
        /\ SetAt(p).ok
    /\ \A p \in (1..k) \ P : p - 1 \in P

\* Each flag holds what it was given last.
HoldsGiven(P) ==
    dst = [n \in DOMAIN Flags |-> IF GivenBy(P, n) = {} THEN Unset ELSE Given(P, n)]

ReadSoFar == \E P : ReadingOf(P, i) /\ HoldsGiven(P)

\* The next argument is a flag, if there is a reading at all.
Ahead == \A Q \in SUBSET DOMAIN argv : Reading(Q) => (i < Len(argv) => i + 1 \in Q)

NoReading == ~\E P \in SUBSET DOMAIN argv : Reading(P)

Wrong == {"malformed", "unknown", "missing", "invalid"}

IInv ==
    /\ argv \in Seq(Arguments) /\ i \in 0..Len(argv)
    /\ answer \in {"running", "ok", "unusable"} \cup Wrong
    /\ answer # "ok" => config = NoListener
    /\ answer \notin Wrong => ReadSoFar
    /\ answer = "running" => Ahead
    /\ answer \in Wrong => NoReading
    /\ answer \in {"ok", "unusable"} => i = Len(argv)
    /\ answer = "ok" =>
         dst[Len(Flags)] # Unset /\ config = ParseListener(dst[Len(Flags)]).value

\* The last of some places.
LastOf(G) == CHOOSE p \in G : \A q \in G : q <= p

\* What the last flag among those at G gives to flag n.
GivenAt(G, n) ==
    SetValue(Flags[n].type,
             Value(argv[LastOf(G)],
                   IF LastOf(G) < Len(argv) THEN argv[LastOf(G) + 1].text ELSE Unset)).value

\* What is given depends on the places only, and on the arguments.
LEMMA GivenIs ==
    ASSUME NEW P, NEW n
    PROVE  /\ Given(P, n) = GivenAt(GivenBy(P, n), n)
           /\ argv' = argv => Given(P, n)' = Given(P, n) /\ GivenBy(P, n)' = GivenBy(P, n)
<1>1. Given(P, n) = GivenAt(GivenBy(P, n), n)
  BY Zenon DEF Given, GivenAt, LastOf
<1>2. ASSUME argv' = argv PROVE Given(P, n)' = Given(P, n) /\ GivenBy(P, n)' = GivenBy(P, n)
  <2>1. GivenBy(P, n)' = GivenBy(P, n)
    BY <1>2 DEF GivenBy
  <2> PICK G : G = GivenBy(P, n)
    OBVIOUS
  <2>2. Given(P, n)' =
          SetValue(Flags[n].type,
             Value(argv'[LastOf(GivenBy(P, n)')],
                   IF LastOf(GivenBy(P, n)') < Len(argv')
                   THEN argv'[LastOf(GivenBy(P, n)') + 1].text ELSE Unset)).value
    BY Zenon DEF Given, LastOf
  <2>3. Given(P, n)' = GivenAt(GivenBy(P, n), n)
    BY <1>2, <2>1, <2>2, Zenon DEF GivenAt
  <2> QED BY <1>1, <2>1, <2>3
<1> QED BY <1>1, <1>2

\* The arguments are numbered from 1.
LEMMA ArgumentsAre ==
    ASSUME argv \in Seq(Arguments)
    PROVE  DOMAIN argv = 1..Len(argv) /\ Len(argv) \in Nat
BY LenProperties

\* A reading of all arguments is a reading.
LEMMA WholeReading ==
    ASSUME argv \in Seq(Arguments), NEW P
    PROVE  ReadingOf(P, Len(argv)) <=> P \in SUBSET DOMAIN argv /\ Reading(P)
BY ArgumentsAre DEF ReadingOf, Reading, SetAt, TakesNext

-----------------------------------------------------------------------------
(***************************************************************************)
(* The steps.                                                              *)
(***************************************************************************)
LEMMA InitKeeps == ConfigInit => IInv
<1> SUFFICES ASSUME ConfigInit PROVE IInv
  OBVIOUS
<1>1. argv \in Seq(Arguments)
  <2>1. PICK n \in 0..MaxArgs : argv \in [1..n -> Arguments]
    BY DEF ConfigInit
  <2>2. n \in Nat
    BY <2>1, ConfigAssumption
  <2> QED BY <2>1, <2>2, SeqDef
<1>2. DOMAIN argv = 1..Len(argv) /\ Len(argv) \in Nat /\ i = 0 /\ answer = "running"
      /\ config = NoListener /\ dst = [n \in DOMAIN Flags |-> Unset]
  BY <1>1, ArgumentsAre DEF ConfigInit
<1>3. ReadSoFar
  <2>1. ReadingOf({}, 0)
    BY DEF ReadingOf
  <2>2. \A n : GivenBy({}, n) = {}
    BY DEF GivenBy
  <2>3. HoldsGiven({})
    BY <1>2, <2>2 DEF HoldsGiven
  <2> QED BY <1>2, <2>1, <2>3, Zenon DEF ReadSoFar
<1>4. Ahead
  <2> SUFFICES ASSUME NEW Q \in SUBSET DOMAIN argv, Reading(Q), i < Len(argv) PROVE i + 1 \in Q
    BY DEF Ahead
  <2>1. 1 \in DOMAIN argv /\ 1 - 1 \notin DOMAIN argv /\ i + 1 = 1
    BY <1>2
  <2> QED BY <2>1 DEF Reading
<1> QED BY <1>1, <1>2, <1>3, <1>4 DEF IInv, Wrong

\* What the next flag is set to, as far as the arguments behind it matter.
LEMMA SetNext ==
    ASSUME argv \in Seq(Arguments), i \in 0..Len(argv), i < Len(argv),
           TakesNext(argv[i + 1]) => i + 1 < Len(argv), NEW other
    PROVE  SetAt(i + 1) = SetValue(Flags[Lookup(argv[i + 1])].type,
                            Value(argv[i + 1],
                                  IF TakesNext(argv[i + 1]) THEN argv[i + 2].text ELSE other))
<1>1. i \in Nat /\ Len(argv) \in Nat /\ i + 1 + 1 = i + 2
  BY ArgumentsAre
<1>2. CASE TakesNext(argv[i + 1])
  BY <1>1, <1>2 DEF SetAt
<1>3. CASE ~TakesNext(argv[i + 1])
  <2> DEFINE next == IF i + 1 < Len(argv) THEN argv[i + 1 + 1].text ELSE Unset
  <2>1. Value(argv[i + 1], next) = Value(argv[i + 1], other)
    BY <1>3, ValueIsOwn
  <2> QED BY <1>3, <2>1, Zenon DEF SetAt
<1> QED BY <1>2, <1>3

\* An argument that is refused is the flag of no reading.
LEMMA RefuseKeeps == IInv /\ RefuseFlag => IInv'
<1> SUFFICES ASSUME IInv, RefuseFlag PROVE IInv'
  OBVIOUS
<1> DEFINE arg == argv[i + 1]
<1>1. /\ argv \in Seq(Arguments) /\ i \in 0..Len(argv) /\ i < Len(argv) /\ Ahead
      /\ answer = "running" /\ config = NoListener /\ answer' \in Wrong
      /\ argv' = argv /\ i' = i /\ dst' = dst /\ config' = config
  BY DEF IInv, RefuseFlag, Wrong
<1>2. DOMAIN argv = 1..Len(argv) /\ Len(argv) \in Nat
  BY <1>1, ArgumentsAre
<1>3. ASSUME NEW Q \in SUBSET DOMAIN argv, Reading(Q) PROVE FALSE
  <2>1. i + 1 \in Q
    BY <1>1, <1>3 DEF Ahead
  <2>2. ReadingOf(Q, Len(argv))
    BY <1>1, <1>3, WholeReading
  <2>3. /\ ~Malformed(arg) /\ Matching(arg) # {}
        /\ TakesNext(arg) => i + 1 + 1 \in 1..Len(argv)
        /\ SetAt(i + 1).ok
    BY <2>1, <2>2 DEF ReadingOf
  <2>4. TakesNext(arg) => i + 1 < Len(argv)
    BY <1>1, <1>2, <2>3
  <2>5. SetAt(i + 1) = SetValue(Flags[Lookup(arg)].type,
                         Value(arg, IF TakesNext(arg) THEN argv[i + 2].text ELSE Unset))
    BY <1>1, <2>4, SetNext
  <2>6. i + 1 < Len(argv) => i + 1 # Len(argv)
    <3> DEFINE n == Len(argv)
    <3>1. n \in Nat /\ i \in 0..n
      BY <1>1, <1>2
    <3> HIDE DEF n
    <3> QED BY <3>1 DEF n
  <2> HIDE DEF arg
  <2>7. TakesNext(arg) => i + 1 # Len(argv)
    BY <2>4, <2>6
  <2> QED BY <2>3, <2>5, <2>7 DEF RefuseFlag, arg
<1>4. NoReading
  BY <1>3 DEF NoReading
<1>5. NoReading'
  BY <1>1, <1>4 DEF NoReading, Reading
<1>6. answer' # "running" /\ answer' # "ok" /\ answer' # "unusable"
  BY <1>1 DEF Wrong
<1> QED BY <1>1, <1>5, <1>6 DEF IInv

\* The arguments that are consumed are read in one way more.
LEMMA ReadingGrows ==
    ASSUME argv \in Seq(Arguments), i \in 0..Len(argv), NEW P, ReadingOf(P, i),
           NEW used \in {1, 2}, i + used <= Len(argv),
           ~Malformed(argv[i + 1]), Matching(argv[i + 1]) # {}, SetAt(i + 1).ok,
           TakesNext(argv[i + 1]) <=> used = 2
    PROVE  ReadingOf(P \cup {i + 1}, i + used)
<1> DEFINE k == i + used
           R == P \cup {i + 1}
<1>1. i \in Nat /\ Len(argv) \in Nat /\ P \subseteq 1..i
  BY ArgumentsAre DEF ReadingOf
<1>2. R \subseteq 1..k
  BY <1>1
<1>3. ASSUME NEW p \in R
      PROVE  /\ ~Malformed(argv[p]) /\ Matching(argv[p]) # {}
             /\ TakesNext(argv[p]) <=> p + 1 \in (1..k) \ R
             /\ SetAt(p).ok
  <2>1. CASE p \in P
    <3>1. /\ ~Malformed(argv[p]) /\ Matching(argv[p]) # {}
          /\ TakesNext(argv[p]) <=> p + 1 \in (1..i) \ P
          /\ SetAt(p).ok
      BY <2>1 DEF ReadingOf
    <3>2. p + 1 \in (1..i) \ P <=> p + 1 \in (1..k) \ R
      BY <1>1, <2>1
    <3> QED BY <3>1, <3>2
  <2>2. CASE p = i + 1
    <3>1. p + 1 \in (1..k) \ R <=> used = 2
      BY <1>1, <2>2
    <3> QED BY <2>2, <3>1
  <2> QED BY <2>1, <2>2
<1>4. ASSUME NEW p \in (1..k) \ R PROVE p - 1 \in R
  <2>1. CASE p \in 1..i
    BY <2>1 DEF ReadingOf
  <2>2. CASE p \notin 1..i
    <3>1. p = i + 2
      BY <1>1, <2>2
    <3> QED BY <1>1, <3>1
  <2> QED BY <2>1, <2>2
<1> QED BY <1>2, <1>3, <1>4 DEF ReadingOf

\* The flag that is set holds what was given to it last, the others what
\* they held.
LEMMA GivenGrows ==
    ASSUME i \in Nat, NEW P \in SUBSET (1..i), NEW n \in DOMAIN Flags
    PROVE  /\ n = Lookup(argv[i + 1]) =>
                GivenBy(P \cup {i + 1}, n) # {} /\ Given(P \cup {i + 1}, n) = SetAt(i + 1).value
           /\ n # Lookup(argv[i + 1]) => GivenBy(P \cup {i + 1}, n) = GivenBy(P, n)
<1> DEFINE R == P \cup {i + 1}
           G == GivenBy(R, n)
           last == CHOOSE p \in G : \A q \in G : q <= p
<1>1. CASE n = Lookup(argv[i + 1])
  <2>1. i + 1 \in G /\ \A q \in G : q <= i + 1 /\ q \in Nat
    BY <1>1 DEF GivenBy
  <2> HIDE DEF G
  <2>2. \E p \in G : \A q \in G : q <= p
    BY <2>1
  <2>3. last \in G /\ \A q \in G : q <= last
    BY <2>2, Zenon
  <2> HIDE DEF last
  <2>4. last = i + 1
    BY <2>1, <2>3
  <2>5. Given(R, n) = SetValue(Flags[n].type,
            Value(argv[last], IF last < Len(argv) THEN argv[last + 1].text ELSE Unset)).value
    BY Zenon DEF Given, last, G
  <2>6. Given(R, n) = SetAt(i + 1).value
    BY <1>1, <2>4, <2>5, Zenon DEF SetAt
  <2>7. G # {}
    BY <2>1
  <2> QED BY <1>1, <2>6, <2>7 DEF G
<1>2. CASE n # Lookup(argv[i + 1])
  BY <1>2 DEF GivenBy
<1> QED BY <1>1, <1>2

LEMMA ConsumeKeeps == IInv /\ ConsumeFlag => IInv'
<1> SUFFICES ASSUME IInv, ConsumeFlag PROVE IInv'
  OBVIOUS
<1> DEFINE arg  == argv[i + 1]
           used == IF TakesNext(arg) THEN 2 ELSE 1
           set  == SetValue(Flags[Lookup(arg)].type, Value(arg, argv[i + used].text))
<1>1. /\ argv \in Seq(Arguments) /\ i \in 0..Len(argv) /\ i < Len(argv) /\ Ahead /\ ReadSoFar
      /\ answer = "running" /\ config = NoListener
      /\ ~Malformed(arg) /\ Matching(arg) # {}
      /\ i + used <= Len(argv) /\ set.ok /\ dst' = [dst EXCEPT ![Lookup(arg)] = set.value]
      /\ i' = i + used /\ argv' = argv /\ answer' = answer /\ config' = config
  BY DEF IInv, ConsumeFlag, Wrong
<1>2. DOMAIN argv = 1..Len(argv) /\ Len(argv) \in Nat /\ i \in Nat
  BY <1>1, ArgumentsAre
<1>3. used \in {1, 2} /\ (TakesNext(arg) <=> used = 2)
  OBVIOUS
<1>4. SetAt(i + 1) = set
  <2>1. TakesNext(arg) => i + 1 < Len(argv)
    BY <1>1, <1>2
  <2>2. SetAt(i + 1) = SetValue(Flags[Lookup(arg)].type,
          Value(arg, IF TakesNext(arg) THEN argv[i + 2].text ELSE argv[i + 1].text))
    BY <1>1, <2>1, SetNext
  <2>3. argv[i + used].text = IF TakesNext(arg) THEN argv[i + 2].text ELSE argv[i + 1].text
    BY <1>2
  <2> HIDE DEF arg, used
  <2> QED BY <2>2, <2>3 DEF set
<1> HIDE DEF used, set
<1>5. PICK P : ReadingOf(P, i) /\ HoldsGiven(P)
  BY <1>1 DEF ReadSoFar
<1> PICK R : R = P \cup {i + 1}
  OBVIOUS
<1>6. ReadingOf(R, i')
  BY <1>1, <1>2, <1>3, <1>4, <1>5, ReadingGrows
<1>7. dst' = [n \in DOMAIN Flags |-> IF GivenBy(R, n) = {} THEN Unset ELSE Given(R, n)]
  <2>1. P \in SUBSET (1..i)
    BY <1>5 DEF ReadingOf
  <2>2. dst = [n \in DOMAIN Flags |-> IF GivenBy(P, n) = {} THEN Unset ELSE Given(P, n)]
    BY <1>5 DEF HoldsGiven
  <2>3. Lookup(arg) \in DOMAIN Flags
    BY <1>1, LookupIs
  <2>4. ASSUME NEW n \in DOMAIN Flags
        PROVE  dst'[n] = IF GivenBy(R, n) = {} THEN Unset ELSE Given(R, n)
    <3>1. CASE n = Lookup(arg)
      <4>1. GivenBy(R, n) # {} /\ Given(R, n) = SetAt(i + 1).value
        BY <1>2, <2>1, <3>1, GivenGrows
      <4>2. dst'[n] = set.value
        BY <1>1, <2>2, <2>3, <3>1
      <4> QED BY <1>4, <4>1, <4>2
    <3>2. CASE n # Lookup(arg)
      <4>1. GivenBy(R, n) = GivenBy(P, n)
        BY <1>2, <2>1, <3>2, GivenGrows
      <4>2. Given(R, n) = Given(P, n)
        BY <4>1, GivenIs
      <4>3. dst'[n] = dst[n]
        BY <1>1, <2>2, <3>2
      <4> QED BY <2>2, <4>1, <4>2, <4>3
    <3> QED BY <3>1, <3>2
  <2>5. dst' = [n \in DOMAIN Flags |-> dst'[n]]
    BY <1>1, <2>2
  <2> QED BY <2>4, <2>5
<1>8. ReadSoFar'
  <2>1. ReadingOf(R, i)' = ReadingOf(R, i')
    BY <1>1 DEF ReadingOf, SetAt
  <2>2. HoldsGiven(R)'
    <3>1. /\ dst' = [n \in DOMAIN Flags |-> IF GivenBy(R, n) = {} THEN Unset ELSE Given(R, n)]
          /\ \A n : Given(R, n)' = Given(R, n) /\ GivenBy(R, n)' = GivenBy(R, n)
      BY <1>1, <1>7, GivenIs
    <3> QED BY <3>1 DEF HoldsGiven
  <2> QED BY <1>6, <2>1, <2>2, Zenon DEF ReadSoFar
<1>9. ASSUME NEW Q \in SUBSET DOMAIN argv, Reading(Q), i' < Len(argv) PROVE i' + 1 \in Q
  <2>1. i + 1 \in Q
    BY <1>1, <1>9 DEF Ahead
  <2>2. ReadingOf(Q, Len(argv))
    BY <1>1, <1>9, WholeReading
  <2>3. /\ TakesNext(arg) <=> i + 1 + 1 \in (1..Len(argv)) \ Q
        /\ \A p \in (1..Len(argv)) \ Q : p - 1 \in Q
    BY <2>1, <2>2 DEF ReadingOf
  <2>4. CASE used = 1
    <3>1. i + 1 + 1 \in 1..Len(argv) /\ i' + 1 = i + 1 + 1
      BY <1>1, <1>2, <1>9, <2>4
    <3> QED BY <1>3, <2>3, <2>4, <3>1
  <2>5. CASE used = 2
    <3>1. i + 1 + 1 \notin Q
      BY <1>3, <2>3, <2>5
    <3> DEFINE k == i' + 1
    <3>2. k \in 1..Len(argv) /\ k - 1 = i + 1 + 1
      BY <1>1, <1>2, <1>9, <2>5
    <3> HIDE DEF k
    <3>3. k \in Q
      BY <2>3, <3>1, <3>2
    <3> QED BY <3>3 DEF k
  <2> QED BY <1>3, <2>4, <2>5
<1>10. Ahead'
  BY <1>1, <1>9 DEF Ahead, Reading
<1>11. i' \in 0..Len(argv)
  BY <1>1, <1>2, <1>3
<1> QED BY <1>1, <1>8, <1>10, <1>11 DEF IInv, Wrong

\* Where no argument is consumed, the reading stays.
LEMMA ReadingStays ==
    ASSUME ReadSoFar, UNCHANGED <<argv, i, dst>>
    PROVE  ReadSoFar'
<1>1. PICK P : ReadingOf(P, i) /\ HoldsGiven(P)
  BY DEF ReadSoFar
<1>2. ReadingOf(P, i)'
  BY <1>1 DEF ReadingOf, SetAt
<1>3. \A n : Given(P, n)' = Given(P, n) /\ GivenBy(P, n)' = GivenBy(P, n)
  BY GivenIs
<1>4. HoldsGiven(P)'
  BY <1>1, <1>3 DEF HoldsGiven
<1> QED BY <1>2, <1>4, Zenon DEF ReadSoFar

\* The configuration is what the last listen names, or left alone.
LEMMA FinishKeeps == IInv /\ Finish => IInv'
<1> SUFFICES ASSUME IInv, Finish PROVE IInv'
  OBVIOUS
<1> DEFINE listen == dst[Len(Flags)]
<1>1. /\ argv \in Seq(Arguments) /\ i \in 0..Len(argv) /\ i = Len(argv) /\ ReadSoFar
      /\ answer = "running" /\ config = NoListener
      /\ argv' = argv /\ i' = i /\ dst' = dst
  BY DEF IInv, Finish, Wrong
<1>2. \/ answer' = "ok" /\ listen # Unset /\ config' = ParseListener(listen).value
      \/ answer' = "unusable" /\ config' = config
  <2>1. CASE listen = Unset
    BY <2>1 DEF Finish, Refused
  <2>2. CASE listen # Unset
    BY <2>2, Zenon DEF Finish
  <2> QED BY <2>1, <2>2
<1>3. ReadSoFar'
  BY <1>1, ReadingStays
<1>4. /\ answer' # "running" /\ answer' \notin Wrong
      /\ answer' \in {"running", "ok", "unusable"} \cup Wrong
  BY <1>2 DEF Wrong
<1>5. answer' # "ok" => config' = NoListener
  BY <1>1, <1>2
<1>6. answer' = "ok" =>
        dst'[Len(Flags)] # Unset /\ config' = ParseListener(dst'[Len(Flags)]).value
  BY <1>1, <1>2
<1> QED BY <1>1, <1>3, <1>4, <1>5, <1>6 DEF IInv

LEMMA Inductive == ConfigSpec => []IInv
<1>1. IInv /\ UNCHANGED configVars => IInv'
  BY ReadingStays DEF IInv, configVars, Ahead, NoReading, Reading
<1>2. IInv /\ [ConfigNext]_configVars => IInv'
  BY <1>1, RefuseKeeps, ConsumeKeeps, FinishKeeps DEF ConfigNext
<1> QED BY InitKeeps, <1>2, PTL DEF ConfigSpec

-----------------------------------------------------------------------------
\* The command line is taken if and only if it has a reading; then each flag
\* holds what it was given last, and the configuration is the one the last
\* listen names. Otherwise the configuration is not touched.
THEOREM FlagsCorrect == ConfigSpec => []FlagsAsGiven
<1>1. IInv => FlagsAsGiven
  <2> SUFFICES ASSUME IInv PROVE FlagsAsGiven
    OBVIOUS
  <2>1. ASSUME answer \in {"ok", "unusable"}
        PROVE  \E P \in SUBSET DOMAIN argv :
                 /\ Reading(P)
                 /\ \A n \in DOMAIN Flags :
                      dst[n] = IF GivenBy(P, n) = {} THEN Unset ELSE Given(P, n)
                 /\ answer = "ok" => config = ParseListener(Given(P, Len(Flags))).value
    <3>1. PICK P : ReadingOf(P, Len(argv)) /\ HoldsGiven(P)
      BY <2>1 DEF IInv, ReadSoFar, Wrong
    <3>2. P \in SUBSET DOMAIN argv /\ Reading(P)
      BY <3>1, WholeReading DEF IInv
    <3>3. \A n \in DOMAIN Flags :
            dst[n] = IF GivenBy(P, n) = {} THEN Unset ELSE Given(P, n)
      BY <3>1 DEF HoldsGiven
    <3>4. answer = "ok" => config = ParseListener(Given(P, Len(Flags))).value
      <4>1. dst[Len(Flags)] # Unset => dst[Len(Flags)] = Given(P, Len(Flags))
        BY <3>3, FlagsAre
      <4> QED BY <4>1 DEF IInv
    <3> QED BY <3>2, <3>3, <3>4, Zenon
  <2>2. answer \in Wrong => NoReading
    BY DEF IInv
  <2>3. answer # "ok" => config = NoListener
    BY DEF IInv
  <2> QED BY <2>1, <2>2, <2>3 DEF FlagsAsGiven, NoReading, Wrong
<1> QED BY <1>1, Inductive, PTL
=============================================================================
