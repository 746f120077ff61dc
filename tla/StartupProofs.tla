---------------------------- MODULE StartupProofs ----------------------------
(***************************************************************************)
(* Proofs about the constructors of listeners, for any number of addresses,*)
(* any platform and any errno, and about the poller, for any number of     *)
(* descriptors and any order of calls and failures, of either backend.     *)
(*                                                                         *)
(* The invariant of the listener follows the descriptor in the making: it  *)
(* is the only one open, and every call that comes before the next one is  *)
(* behind it. The one of the poller relates what the kernel holds to what  *)
(* the last successful call asked for.                                     *)
(***************************************************************************)
EXTENDS Listener, Netpoll, TLAPS, SequenceTheorems

-----------------------------------------------------------------------------
(***************************************************************************)
(* The calls of the listener.                                              *)
(***************************************************************************)
AllCalls == Options \cup {"bind", "listen"}

\* The order of the calls, by name.
LEMMA Ranks ==
    /\ Rank["nonblock"] = 1 /\ Rank["cloexec"] = 2 /\ Rank["reuseaddr"] = 3
    /\ Rank["reuseport"] = 4 /\ Rank["v6only"] = 5 /\ Rank["bind"] = 6 /\ Rank["listen"] = 7
BY DEF Rank

LEMMA RanksDiffer ==
    /\ \A c \in AllCalls : Rank[c] \in 1..7
    /\ \A c, d \in AllCalls : Rank[c] = Rank[d] => c = d
    /\ \A c \in AllCalls : c # "listen" => Rank[c] < Rank["listen"]
BY Ranks DEF AllCalls, Options

\* Every descriptor goes through these calls.
LEMMA CallsAreCalls ==
    ASSUME NEW fam
    PROVE  Calls(fam) \subseteq AllCalls /\ {"bind", "listen"} \subseteq Calls(fam)
BY DEF Calls, AllCalls, Options

\* A set of calls that holds the last one has a first.
LEMMA FirstIsFirst ==
    ASSUME NEW S \in SUBSET AllCalls, "listen" \in S
    PROVE  First(S) \in S /\ \A c \in S : Rank[First(S)] <= Rank[c]
<1>1. \E c \in S : \A d \in S : Rank[c] <= Rank[d]
  <2>1. ASSUME NEW c \in AllCalls PROVE
          c \in {"nonblock", "cloexec", "reuseaddr", "reuseport", "v6only", "bind", "listen"}
    BY <2>1 DEF AllCalls, Options
  <2>2. CASE "nonblock" \in S
    BY <2>1, <2>2, Ranks
  <2>3. CASE "nonblock" \notin S /\ "cloexec" \in S
    BY <2>1, <2>3, Ranks
  <2>4. CASE {"nonblock", "cloexec"} \cap S = {} /\ "reuseaddr" \in S
    BY <2>1, <2>4, Ranks
  <2>5. CASE {"nonblock", "cloexec", "reuseaddr"} \cap S = {} /\ "reuseport" \in S
    BY <2>1, <2>5, Ranks
  <2>6. CASE {"nonblock", "cloexec", "reuseaddr", "reuseport"} \cap S = {} /\ "v6only" \in S
    BY <2>1, <2>6, Ranks
  <2>7. CASE {"nonblock", "cloexec", "reuseaddr", "reuseport", "v6only"} \cap S = {} /\ "bind" \in S
    BY <2>1, <2>7, Ranks
  <2>8. CASE {"nonblock", "cloexec", "reuseaddr", "reuseport", "v6only", "bind"} \cap S = {}
    BY <2>1, <2>8, Ranks
  <2> QED BY <2>2, <2>3, <2>4, <2>5, <2>6, <2>7, <2>8
<1> QED BY <1>1, Zenon DEF First

-----------------------------------------------------------------------------
(***************************************************************************)
(* The invariant of the listener.                                          *)
(***************************************************************************)
Marks == AllCalls \cup {"closed"}

AllClosed == \A d \in DOMAIN open : open[d] = {"closed"}

\* A descriptor in the making is the last one, has all earlier calls behind
\* it, and is the only one open.
InTheMaking ==
    /\ Len(open) \in Nat \ {0} /\ fd = Len(open)
    /\ \A d \in DOMAIN open \ {fd} : open[d] = {"closed"}

ListenerInv ==
    /\ open \in Seq(SUBSET Marks)
    /\ at \in {"idle", "socket", "returned", "close", "close_unlink"} \cup AllCalls
    /\ at \in {"idle", "socket"} => AllClosed
    /\ at \in {"close", "close_unlink"} => InTheMaking /\ saved = cause
    /\ at \in AllCalls =>
         /\ InTheMaking
         /\ at \in Calls(family)
         /\ NewSocket \subseteq open[fd]
         /\ \A c \in Calls(family) : Rank[c] < Rank[at] => c \in open[fd]
    /\ at # "returned" => result = -1
    /\ path # "lost"
    /\ at = "close_unlink" => path = "ours"
    /\ at # "returned" => (path = "ours" <=> family = "unix" /\ at \in {"listen", "close_unlink"})
    /\ ListenerDelivers

LEMMA ListenerInitKeeps == ListenerInit => ListenerInv
<1> SUFFICES ASSUME ListenerInit PROVE ListenerInv
  OBVIOUS
<1>1. open \in Seq(SUBSET Marks) /\ AllClosed
  BY EmptySeq DEF ListenerInit, AllClosed
<1> QED BY <1>1 DEF ListenerInit, ListenerInv, ListenerDelivers, AllCalls, Options

\* None of the states between the calls is the name of a call.
LEMMA NotCalls ==
    /\ {"idle", "socket", "returned", "close", "close_unlink"} \cap AllCalls = {}
    /\ "closed" \notin AllCalls
BY DEF AllCalls, Options

LEMMA ResolveKeeps == ListenerInv /\ Resolve => ListenerInv'
<1> SUFFICES ASSUME ListenerInv, Resolve PROVE ListenerInv'
  OBVIOUS
<1>1. AllClosed /\ AllClosed' /\ result' = -1 /\ path' = path /\ path # "ours" /\ path # "lost"
  BY DEF ListenerInv, Resolve, AllClosed
<1>2. CASE at' = "socket"
  BY <1>1, <1>2, NotCalls DEF ListenerInv, Resolve, ListenerDelivers
<1>3. CASE at' = "returned" /\ cause' = errno'
  <2>1. ListenerDelivers'
    BY <1>1, <1>3 DEF ListenerDelivers, AllClosed, ListenerInv, Resolve
  <2> QED BY <1>1, <1>3, <2>1, NotCalls DEF ListenerInv, Resolve
<1> QED BY <1>2, <1>3 DEF Resolve

LEMMA CreateUnixKeeps == ListenerInv /\ CreateUnix => ListenerInv'
<1> SUFFICES ASSUME ListenerInv, CreateUnix PROVE ListenerInv'
  OBVIOUS
<1>1. AllClosed /\ AllClosed' /\ result' = -1 /\ path' = path /\ path # "ours" /\ path # "lost"
  BY DEF ListenerInv, CreateUnix, AllClosed
<1> QED BY <1>1, NotCalls DEF ListenerInv, CreateUnix, ListenerDelivers

LEMMA SocketKeeps == ListenerInv /\ Socket => ListenerInv'
<1> SUFFICES ASSUME ListenerInv, Socket PROVE ListenerInv'
  OBVIOUS
<1>1. /\ AllClosed /\ result = -1 /\ path' = path /\ path # "ours" /\ path # "lost"
      /\ open \in Seq(SUBSET Marks)
  BY DEF ListenerInv, Socket
<1>2. CASE /\ fd' = Len(open) + 1 /\ open' = Append(open, NewSocket)
           /\ at' = First(Calls(family))
           /\ UNCHANGED <<family, left, errno, cause, saved, result>>
  <2>1. NewSocket \in SUBSET Marks
    BY DEF NewSocket, Marks, AllCalls, Options
  <2>2. /\ open' \in Seq(SUBSET Marks) /\ Len(open') = Len(open) + 1 /\ Len(open) \in Nat
        /\ DOMAIN open' = 1..Len(open') /\ DOMAIN open = 1..Len(open)
        /\ \A d \in 1..Len(open) : open'[d] = open[d]
        /\ open'[Len(open) + 1] = NewSocket
    BY <1>1, <1>2, <2>1, AppendProperties, LenProperties
  <2>3. InTheMaking' /\ NewSocket' \subseteq open'[fd']
    BY <1>1, <1>2, <2>2 DEF InTheMaking, AllClosed, NewSocket
  <2>4. /\ at' \in Calls(family) /\ \A c \in Calls(family) : Rank[at'] <= Rank[c]
        /\ Calls(family) \subseteq AllCalls
    BY <1>2, CallsAreCalls, FirstIsFirst
  <2>5. family' = family /\ Calls(family)' = Calls(family) /\ at' \in AllCalls
    BY <1>2, <2>4 DEF Calls
  <2>6. at' = "listen" => FALSE
    BY <2>4, CallsAreCalls, Ranks
  <2>7. \A c \in Calls(family) : Rank[c] < Rank[at'] => c \in open'[fd']
    BY <2>4, <2>5, RanksDiffer
  <2>8. /\ at' \notin {"idle", "socket", "returned", "close", "close_unlink"} /\ result' = -1
    BY <1>1, <1>2, <2>5, NotCalls
  <2> QED BY <1>1, <2>2, <2>3, <2>4, <2>5, <2>6, <2>7, <2>8 DEF ListenerInv, ListenerDelivers
<1>3. CASE \E e \in Errno :
             /\ cause' = e /\ saved' = e
             /\ IF Len(left) > 1
                THEN /\ at' = "socket" /\ errno' = e
                     /\ left' = Tail(left) /\ family' = left[2]
                ELSE GiveUp(e) /\ UNCHANGED <<left, family>>
             /\ UNCHANGED <<open, fd, result>>
  <2>1. AllClosed' /\ result' = -1 /\ open' = open
    BY <1>1, <1>3 DEF AllClosed
  <2>2. CASE at' = "socket"
    BY <1>1, <2>1, <2>2, NotCalls DEF ListenerInv, ListenerDelivers
  <2>3. CASE at' = "returned" /\ errno' = cause'
    <3>1. ListenerDelivers'
      BY <1>1, <2>1, <2>3 DEF ListenerDelivers, AllClosed
    <3> QED BY <1>1, <2>1, <2>3, <3>1, NotCalls DEF ListenerInv
  <2> QED BY <1>3, <2>2, <2>3 DEF GiveUp
<1> QED BY <1>2, <1>3 DEF Socket

\* What has been done to the descriptor in the making.
LEMMA Underway ==
    ASSUME ListenerInv, at \in AllCalls
    PROVE  /\ open \in Seq(SUBSET Marks) /\ Len(open) \in Nat \ {0} /\ fd = Len(open)
           /\ DOMAIN open = 1..Len(open) /\ fd \in DOMAIN open
           /\ \A d \in DOMAIN open \ {fd} : open[d] = {"closed"}
           /\ open[fd] \in SUBSET Marks
           /\ at \in Calls(family) /\ NewSocket \subseteq open[fd]
           /\ \A c \in Calls(family) : Rank[c] < Rank[at] => c \in open[fd]
           /\ result = -1 /\ path # "lost" /\ (path = "ours" <=> family = "unix" /\ at = "listen")
<1>1. /\ open \in Seq(SUBSET Marks) /\ InTheMaking
      /\ at \in Calls(family) /\ NewSocket \subseteq open[fd]
      /\ \A c \in Calls(family) : Rank[c] < Rank[at] => c \in open[fd]
  BY DEF ListenerInv
<1>2. DOMAIN open = 1..Len(open) /\ fd \in DOMAIN open
  BY <1>1, LenProperties DEF InTheMaking
<1>3. open[fd] \in SUBSET Marks
  BY <1>1, <1>2, ElementOfSeq
<1>4. /\ at \notin {"idle", "socket", "returned", "close", "close_unlink"}
  BY NotCalls
<1>5. result = -1 /\ path # "lost" /\ (path = "ours" <=> family = "unix" /\ at = "listen")
  BY <1>4 DEF ListenerInv
<1> QED BY <1>1, <1>2, <1>3, <1>5 DEF InTheMaking

LEMMA StepKeeps == ListenerInv /\ Step => ListenerInv'
<1> SUFFICES ASSUME ListenerInv, Step PROVE ListenerInv'
  OBVIOUS
<1> DEFINE new == open[fd] \cup {at}
<1>1. at \in AllCalls
  BY DEF Step, AllCalls
<1>2. /\ open \in Seq(SUBSET Marks) /\ Len(open) \in Nat \ {0} /\ fd = Len(open)
      /\ DOMAIN open = 1..Len(open) /\ fd \in DOMAIN open
      /\ \A d \in DOMAIN open \ {fd} : open[d] = {"closed"}
      /\ open[fd] \in SUBSET Marks
      /\ at \in Calls(family) /\ NewSocket \subseteq open[fd]
      /\ \A c \in Calls(family) : Rank[c] < Rank[at] => c \in open[fd]
      /\ result = -1 /\ path # "lost" /\ (path = "ours" <=> family = "unix" /\ at = "listen")
  BY <1>1, Underway
<1>3. new \in SUBSET Marks /\ fd \in 1..Len(open)
  BY <1>1, <1>2 DEF Marks
<1>4. open' = [open EXCEPT ![fd] = new] /\ fd' = fd /\ family' = family
  BY DEF Step
<1> HIDE DEF new
<1>5. /\ open' \in Seq(SUBSET Marks) /\ Len(open') = Len(open)
      /\ open'[fd] = new /\ \A d \in 1..Len(open) : d # fd => open'[d] = open[d]
      /\ DOMAIN open' = 1..Len(open)
  BY <1>2, <1>3, <1>4, ExceptSeq, LenProperties
<1>6. InTheMaking'
  BY <1>2, <1>4, <1>5 DEF InTheMaking
<1>7. path' # "lost"
  BY <1>2 DEF Step
<1>8. CASE at = "listen"
  <2>1. at' = "returned" /\ result' = fd /\ path' = path
    BY <1>8 DEF Step, Following
  <2>2. \A c \in Calls(family) : c \in new
    <3>1. Calls(family) \subseteq AllCalls
      BY CallsAreCalls
    <3> QED BY <1>2, <1>8, <3>1, RanksDiffer DEF new
  <2>3. {"nonblock", "cloexec"} \subseteq new
    BY <1>2, <2>2 DEF NewSocket, Calls, new
  <2>4. /\ {"nonblock", "cloexec", "bind", "listen"} \subseteq new
        /\ family # "unix" => "reuseaddr" \in new
        /\ family # "unix" /\ ReusePort => "reuseport" \in new
        /\ family = "inet6" => "v6only" \in new
    BY <2>2, <2>3 DEF Calls
  <2>5. family = "unix" => path' = "ours"
    BY <1>2, <1>8, <2>1
  <2>6. result' # -1 /\ \A d \in DOMAIN open' \ {result'} : open'[d] = {"closed"}
    BY <1>2, <1>5, <2>1
  <2>7. ListenerDelivers'
    BY <1>4, <1>5, <1>7, <2>1, <2>4, <2>5, <2>6 DEF ListenerDelivers
  <2> QED BY <1>5, <1>7, <2>1, <2>7, NotCalls DEF ListenerInv
<1>9. CASE at # "listen"
  <2> DEFINE later == {c \in Calls(family) : Rank[c] > Rank[at]}
  <2>1. at' = First(later) /\ result' = -1
    BY <1>2, <1>9 DEF Step, Following
  <2>2. later \in SUBSET AllCalls /\ "listen" \in later
    BY <1>1, <1>9, CallsAreCalls, RanksDiffer
  <2>3. at' \in later /\ \A c \in later : Rank[at'] <= Rank[c]
    BY <2>1, <2>2, FirstIsFirst
  <2>4. /\ at' \in Calls(family) /\ Rank[at'] > Rank[at] /\ at' \in AllCalls
        /\ \A c \in Calls(family) : Rank[c] > Rank[at] => Rank[at'] <= Rank[c]
    BY <2>2, <2>3
  <2> HIDE DEF later
  <2>5. Calls(family)' = Calls(family) /\ NewSocket' = NewSocket
    BY <1>4 DEF Calls, NewSocket
  <2>6. ASSUME NEW c \in Calls(family), Rank[c] < Rank[at'] PROVE c \in new
    <3>1. c \in AllCalls /\ Rank[c] \in 1..7 /\ Rank[at] \in 1..7 /\ Rank[at'] \in 1..7
      BY <1>1, <2>4, CallsAreCalls, RanksDiffer
    <3>2. ~(Rank[c] > Rank[at])
      BY <2>4, <2>6, <3>1
    <3>3. Rank[c] < Rank[at] \/ c = at
      BY <1>1, <3>1, <3>2, RanksDiffer
    <3> QED BY <1>2, <3>3 DEF new
  <2>7. path' = "ours" <=> family' = "unix" /\ at' = "listen"
    <3>1. CASE at = "bind" /\ family = "unix"
      <4>1. path' = "ours"
        BY <3>1 DEF Step
      <4>2. at' = "listen"
        BY <2>4, <3>1, Ranks DEF AllCalls, Options
      <4> QED BY <1>4, <3>1, <4>1, <4>2
    <3>2. CASE ~(at = "bind" /\ family = "unix")
      <4>1. path' = path
        BY <3>2 DEF Step
      <4>2. at # "bind" => at' # "listen"
        BY <1>1, <1>9, <2>4, CallsAreCalls, Ranks DEF AllCalls, Options
      <4> QED BY <1>2, <1>4, <1>9, <3>2, <4>1, <4>2
    <3> QED BY <3>1, <3>2
  <2>8. at' \notin {"idle", "socket", "returned", "close", "close_unlink"}
    BY <2>4, NotCalls
  <2>9. NewSocket' \subseteq open'[fd']
    BY <1>2, <1>4, <1>5, <2>5 DEF new
  <2> QED BY <1>4, <1>5, <1>6, <1>7, <2>1, <2>4, <2>5, <2>6, <2>7, <2>8, <2>9 DEF ListenerInv, ListenerDelivers
<1> QED BY <1>8, <1>9

LEMMA StepFailsKeeps == ListenerInv /\ StepFails => ListenerInv'
<1> SUFFICES ASSUME ListenerInv, StepFails PROVE ListenerInv'
  OBVIOUS
<1>1. at \in AllCalls
  BY DEF StepFails, AllCalls
<1>2. /\ InTheMaking /\ open \in Seq(SUBSET Marks)
      /\ result = -1 /\ path # "lost" /\ (path = "ours" <=> family = "unix" /\ at = "listen")
  BY <1>1, Underway DEF ListenerInv
<1>3. InTheMaking' /\ open' = open /\ result' = -1 /\ path' = path /\ family' = family /\ saved' = cause'
  BY <1>2 DEF StepFails, InTheMaking
<1>4. /\ at' \in {"close", "close_unlink"}
      /\ at' = "close_unlink" <=> (family = "unix" /\ at = "listen")
  BY DEF StepFails, HasName
<1>5. at' \notin AllCalls
  BY <1>4, NotCalls
<1> QED BY <1>2, <1>3, <1>4, <1>5 DEF ListenerInv, ListenerDelivers

\* Closing the descriptor in the making leaves none open.
LEMMA ClosedLeavesNone ==
    ASSUME ListenerInv, at \in {"close", "close_unlink"}, open' = Closed
    PROVE  AllClosed' /\ open' \in Seq(SUBSET Marks)
<1>1. /\ InTheMaking /\ open \in Seq(SUBSET Marks)
  BY DEF ListenerInv
<1>2. fd \in 1..Len(open) /\ DOMAIN open = 1..Len(open) /\ {"closed"} \in SUBSET Marks
  BY <1>1, LenProperties DEF InTheMaking, Marks
<1>3. /\ open' \in Seq(SUBSET Marks) /\ Len(open') = Len(open)
      /\ \A d \in 1..Len(open) : open'[d] = IF d = fd THEN {"closed"} ELSE open[d]
      /\ DOMAIN open' = 1..Len(open)
  BY <1>1, <1>2, ExceptSeq, LenProperties DEF Closed
<1> QED BY <1>1, <1>2, <1>3 DEF AllClosed, InTheMaking

LEMMA CloseKeeps == ListenerInv /\ Close => ListenerInv'
<1> SUFFICES ASSUME ListenerInv, Close PROVE ListenerInv'
  OBVIOUS
<1>1. AllClosed' /\ open' \in Seq(SUBSET Marks)
  BY ClosedLeavesNone DEF Close
<1>2. /\ result' = -1 /\ path' = path /\ path # "ours" /\ path # "lost" /\ saved = cause /\ cause' = cause
  BY DEF ListenerInv, Close
<1>3. CASE at' = "socket"
  BY <1>1, <1>2, <1>3, NotCalls DEF ListenerInv, ListenerDelivers
<1>4. CASE at' = "returned" /\ errno' = saved
  <2>1. ListenerDelivers'
    BY <1>1, <1>2, <1>4 DEF ListenerDelivers, AllClosed
  <2> QED BY <1>1, <1>2, <1>4, <2>1, NotCalls DEF ListenerInv
<1> QED BY <1>3, <1>4 DEF Close, GiveUp

LEMMA CloseUnlinkKeeps == ListenerInv /\ CloseUnlink => ListenerInv'
<1> SUFFICES ASSUME ListenerInv, CloseUnlink PROVE ListenerInv'
  OBVIOUS
<1>1. AllClosed' /\ open' \in Seq(SUBSET Marks)
  BY ClosedLeavesNone DEF CloseUnlink
<1>2. /\ result' = -1 /\ path' = "absent" /\ saved = cause /\ cause' = cause
      /\ at' = "returned" /\ errno' = saved
  BY DEF ListenerInv, CloseUnlink, GiveUp
<1>3. ListenerDelivers'
  BY <1>1, <1>2 DEF ListenerDelivers, AllClosed
<1> QED BY <1>1, <1>2, <1>3, NotCalls DEF ListenerInv

-----------------------------------------------------------------------------
\* listener_create_tcp and listener_create_unix deliver a finished descriptor,
\* or -1 with the errno of the failure that counted, no descriptor left open
\* and the file system as it was.
THEOREM ListenerCorrect == ListenerSpec => []ListenerDelivers
<1>1. ListenerInv /\ [ListenerNext]_listenerVars => ListenerInv'
  <2> SUFFICES ASSUME ListenerInv, [ListenerNext]_listenerVars PROVE ListenerInv'
    OBVIOUS
  <2>1. CASE UNCHANGED listenerVars
    BY <2>1 DEF listenerVars, ListenerInv, AllClosed, InTheMaking, NewSocket, Calls, ListenerDelivers
  <2> QED BY <2>1, ResolveKeeps, CreateUnixKeeps, SocketKeeps, StepKeeps, StepFailsKeeps,
             CloseKeeps, CloseUnlinkKeeps DEF ListenerNext
<1>2. ListenerInv => ListenerDelivers
  BY DEF ListenerInv
<1> QED BY ListenerInitKeeps, <1>1, <1>2, PTL DEF ListenerSpec

-----------------------------------------------------------------------------
(***************************************************************************)
(* The invariant of the poller.                                            *)
(***************************************************************************)

Wakes         == [Direction -> Data \cup {None}]
Registrations == [Direction -> Filter \cup {None}]

InterestTypes ==
    /\ filter \in [Fd -> Registrations]
    /\ agreed \in [Fd -> Wakes]
    /\ refused \in [Fd -> SUBSET (Data \cup {None})]
    /\ dropped \subseteq Fd

\* What is registered fits what was agreed and refused.  What the property does
\* not say: the writing filter is never there without the reading one, so that
\* deleting the reading one first deletes both.
Fits(now, yes, no) ==
    /\ WokenBy(now)["w"] = yes["w"]
    /\ WokenBy(now)["r"] # yes["r"] => backend = "kqueue" /\ WokenBy(now)["r"] \in no
    /\ now["w"] # None => now["r"] # None

InterestInv ==
    /\ InterestTypes
    /\ \A f \in Fd : Fits(filter[f], agreed[f], refused[f])
    /\ NothingAfterDel

\* A poller that is live has taken at most what its destruction gives back,
\* the array of the epoll backend aside.
HeldByBackend ==
    /\ backend \in {"epoll", "kqueue"}
    /\ poller \in {"none", "live", "refused"}
    /\ held \subseteq {"poll", "events", "fd"}
    /\ OnlyTheArrayIsLost

PollerInv == InterestInv /\ HeldByBackend

-----------------------------------------------------------------------------
LEMMA NothingWakes ==
    /\ NoFilter \in Registrations /\ NoFilter \in Wakes
    /\ NoFilter["r"] = None /\ NoFilter["w"] = None
    /\ WokenBy(NoFilter)["r"] = None /\ WokenBy(NoFilter)["w"] = None
BY PollerAssumption DEF NoFilter, Registrations, Wakes, WokenBy, Direction

\* The interest a call asks for is a registration of both directions.
LEMMA InterestIs ==
    ASSUME NEW data \in Data, NEW write \in BOOLEAN
    PROVE  LET interest == Interest(data, write)
           IN  /\ interest \in Registrations
               /\ interest["r"] \in Filter /\ interest["w"] \in Filter
               /\ interest["r"] # None /\ interest["w"] # None
<1> DEFINE interest == Interest(data, write)
<1>1. interest["r"] \in Filter /\ interest["w"] \in Filter
  BY DEF Interest, Filter, Direction
<1>2. interest \in Registrations
  BY DEF Interest, Filter, Direction, Registrations
<1> QED BY <1>1, <1>2, PollerAssumption

LEMMA WokenType ==
    ASSUME NEW now \in Registrations
    PROVE  WokenBy(now) \in Wakes
BY DEF WokenBy, Registrations, Wakes, Filter

LEMMA PollerInitKeeps == PollerInit => PollerInv
<1> SUFFICES ASSUME PollerInit PROVE PollerInv
  OBVIOUS
<1>1. InterestTypes
  BY NothingWakes DEF PollerInit, InterestTypes
<1>2. ASSUME NEW f \in Fd PROVE Fits(filter[f], agreed[f], refused[f])
  <2>1. filter[f] = NoFilter /\ agreed[f] = NoFilter
    BY DEF PollerInit
  <2> QED BY <2>1, NothingWakes DEF Fits
<1>3. NothingAfterDel /\ HeldByBackend
  BY DEF PollerInit, NothingAfterDel, HeldByBackend, OnlyTheArrayIsLost
<1> QED BY <1>1, <1>2, <1>3 DEF PollerInv, InterestInv

\* A call about one descriptor is judged by what it leaves there.
LEMMA CallKeeps ==
    ASSUME InterestInv, backend' = backend,
           NEW f \in Fd, NEW now \in Registrations, NEW yes \in Wakes,
           NEW no \in SUBSET (Data \cup {None}),
           Returns(f, now),
           agreed' = [agreed EXCEPT ![f] = yes],
           refused' = [refused EXCEPT ![f] = no],
           \/ dropped' = dropped \ {f}
           \/ dropped' = dropped \cup {f} /\ now = NoFilter,
           Fits(now, yes, no)
    PROVE  InterestInv'
<1>1. InterestTypes'
  BY DEF InterestInv, InterestTypes, Returns
<1>2. /\ filter'[f] = now /\ agreed'[f] = yes /\ refused'[f] = no
      /\ \A g \in Fd \ {f} : filter'[g] = filter[g] /\ agreed'[g] = agreed[g] /\ refused'[g] = refused[g]
  BY DEF InterestInv, InterestTypes, Returns
<1>3. ASSUME NEW g \in Fd PROVE Fits(filter[g], agreed[g], refused[g])'
  <2>1. CASE g = f
    BY <1>2, <2>1 DEF Fits, WokenBy
  <2>2. CASE g # f
    <3>1. Fits(filter[g], agreed[g], refused[g])
      BY DEF InterestInv
    <3> QED BY <1>2, <2>2, <3>1 DEF Fits, WokenBy
  <2> QED BY <2>1, <2>2
<1>4. ASSUME NEW g \in dropped' PROVE ~Registered(g)'
  <2>1. CASE g = f
    BY <1>2, <1>4, <2>1 DEF Registered
  <2>2. CASE g # f
    <3>1. g \in dropped /\ g \in Fd
      BY <1>4, <2>2 DEF InterestInv, InterestTypes
    <3> QED BY <1>2, <2>2, <3>1 DEF InterestInv, NothingAfterDel, Registered
  <2> QED BY <2>1, <2>2
<1> QED BY <1>1, <1>3, <1>4 DEF InterestInv, NothingAfterDel

LEMMA SucceedsKeeps ==
    ASSUME InterestInv, backend' = backend,
           NEW f \in Fd, NEW now \in Registrations, NEW wanted \in Wakes,
           Succeeds(f, now, wanted),
           \/ dropped' = dropped \ {f}
           \/ dropped' = dropped \cup {f} /\ now = NoFilter,
           WokenBy(now)["r"] = wanted["r"], WokenBy(now)["w"] = wanted["w"],
           now["w"] # None => now["r"] # None
    PROVE  InterestInv'
<1>1. Fits(now, wanted, {})
  BY DEF Fits
<1> QED BY <1>1, CallKeeps DEF Succeeds

\* A failed call leaves the writing direction as it was, and the reading one
\* too, unless kqueue has changed it.
LEMMA FailsKeeps ==
    ASSUME InterestInv, backend' = backend,
           NEW f \in Fd, NEW now \in Registrations, NEW wanted \in Wakes,
           Fails(f, now, wanted),
           \/ dropped' = dropped \ {f}
           \/ dropped' = dropped \cup {f} /\ now = NoFilter,
           now["w"] = filter[f]["w"],
           \/ now["r"] = filter[f]["r"]
           \/ /\ backend = "kqueue" /\ WokenBy(now)["r"] = wanted["r"]
              /\ now["w"] # None => now["r"] # None
    PROVE  InterestInv'
<1> DEFINE no == refused[f] \cup {wanted["r"]}
<1>1. /\ agreed[f] \in Wakes /\ no \in SUBSET (Data \cup {None})
      /\ agreed' = [agreed EXCEPT ![f] = agreed[f]]
      /\ refused' = [refused EXCEPT ![f] = no]
      /\ Returns(f, now)
  BY DEF InterestInv, InterestTypes, Fails, Wakes, Direction
<1>2. Fits(filter[f], agreed[f], refused[f])
  BY DEF InterestInv
<1>3. WokenBy(now)["w"] = WokenBy(filter[f])["w"]
  BY DEF WokenBy, Direction
<1>4. Fits(now, agreed[f], no)
  <2>1. CASE now["r"] = filter[f]["r"]
    <3>1. WokenBy(now)["r"] = WokenBy(filter[f])["r"]
      BY <2>1 DEF WokenBy, Direction
    <3> QED BY <1>2, <1>3, <2>1, <3>1 DEF Fits
  <2>2. CASE /\ backend = "kqueue" /\ WokenBy(now)["r"] = wanted["r"]
             /\ now["w"] # None => now["r"] # None
    BY <1>2, <1>3, <2>2 DEF Fits
  <2> QED BY <2>1, <2>2
<1> HIDE DEF no
<1> QED BY <1>1, <1>4, CallKeeps

LEMMA ResourcesKept ==
    ASSUME PollerInv, UNCHANGED <<backend, held, poller>>
    PROVE  HeldByBackend'
BY DEF PollerInv, HeldByBackend, OnlyTheArrayIsLost

\* What two changes, to the reading and to the writing filter, make of a
\* registration.
LEMMA ChangedIs ==
    ASSUME NEW now \in Registrations, NEW to \in Filter \cup {None}
    PROVE  /\ Changed(now, Change("r", to)) \in Registrations
           /\ Changed(now, Change("w", to)) \in Registrations
           /\ Changed(now, Change("r", to))["r"] = to
           /\ Changed(now, Change("r", to))["w"] = now["w"]
           /\ Changed(now, Change("w", to))["r"] = now["r"]
           /\ Changed(now, Change("w", to))["w"] = to
BY DEF Changed, Change, Registrations, Direction

LEMMA WokenByReading ==
    ASSUME NEW now \in Registrations, NEW other \in Registrations, NEW d \in Direction,
           now[d] = other[d]
    PROVE  WokenBy(now)[d] = WokenBy(other)[d]
BY DEF WokenBy

LEMMA UpdateKeeps ==
    ASSUME PollerInv, NEW f \in Fd, NEW add \in BOOLEAN, NEW data \in Data,
           NEW write \in BOOLEAN, Update(f, add, Interest(data, write))
    PROVE  PollerInv'
<1> DEFINE interest == Interest(data, write)
           wanted   == WokenBy(interest)
           half     == Changed(filter[f], Change("r", interest["r"]))
           full     == Changed(half, Change("w", interest["w"]))
<1> SUFFICES InterestInv'
  BY ResourcesKept DEF Update, PollerInv
<1>1. /\ interest \in Registrations /\ wanted \in Wakes /\ filter[f] \in Registrations
      /\ interest["r"] \in Filter /\ interest["w"] \in Filter
      /\ interest["r"] # None /\ interest["w"] # None
  BY InterestIs, WokenType DEF PollerInv, InterestInv, InterestTypes
<1>2. /\ InterestInv /\ backend' = backend /\ dropped' = dropped \ {f}
  BY DEF Update, PollerInv
<1>3. Update(f, add, interest)
  OBVIOUS
<1> HIDE DEF interest
<1>4. CASE backend = "epoll" /\ EpollControl(f, add, interest)
  <2>1. CASE Succeeds(f, interest, wanted)
    BY <1>1, <1>2, <2>1, SucceedsKeeps
  <2>2. CASE Fails(f, filter[f], wanted)
    BY <1>1, <1>2, <2>2, FailsKeeps
  <2> QED BY <1>4, <2>1, <2>2 DEF EpollControl
<1>5. CASE backend = "kqueue" /\ Kevent(f, UpdateChanges(interest), wanted)
  <2>1. /\ half \in Registrations /\ half["r"] = interest["r"] /\ half["w"] = filter[f]["w"]
    <3>1. interest["r"] \in Filter \cup {None} /\ filter[f] \in Registrations
      BY <1>1
    <3> QED BY <3>1, ChangedIs
  <2>2. /\ full \in Registrations /\ full["r"] = interest["r"] /\ full["w"] = interest["w"]
    BY <1>1, <2>1, ChangedIs
  <2>3. /\ WokenBy(half)["r"] = wanted["r"]
        /\ WokenBy(full)["r"] = wanted["r"] /\ WokenBy(full)["w"] = wanted["w"]
    BY <1>1, <2>1, <2>2, WokenByReading DEF Direction
  <2>4. \/ Fails(f, filter[f], wanted) \/ Fails(f, half, wanted) \/ Succeeds(f, full, wanted)
    BY <1>5 DEF Kevent, UpdateChanges
  <2> HIDE DEF half, full, wanted
  <2>5. CASE Fails(f, filter[f], wanted)
    BY <1>1, <1>2, <2>5, FailsKeeps
  <2>6. CASE Fails(f, half, wanted)
    BY <1>1, <1>2, <1>5, <2>1, <2>3, <2>6, FailsKeeps
  <2>7. CASE Succeeds(f, full, wanted)
    BY <1>1, <1>2, <2>2, <2>3, <2>7, SucceedsKeeps
  <2> QED BY <2>4, <2>5, <2>6, <2>7
<1> QED BY <1>3, <1>4, <1>5 DEF Update

\* Deleting the reading filter first either finds nothing, and then there is
\* nothing, or leaves the writing filter alone, to be deleted or found missing.
LEMMA DeleteKeeps ==
    ASSUME PollerInv, NEW f \in Fd, NetpollDel(f)
    PROVE  PollerInv'
<1> DEFINE half == Changed(filter[f], Change("r", None))
           full == Changed(half, Change("w", None))
<1> SUFFICES InterestInv'
  BY ResourcesKept DEF NetpollDel, PollerInv
<1>1. /\ InterestInv /\ backend' = backend /\ dropped' = dropped \cup {f}
      /\ filter[f] \in Registrations
  BY DEF NetpollDel, PollerInv, InterestInv, InterestTypes
<1>2. filter[f]["w"] # None => filter[f]["r"] # None
  BY <1>1 DEF InterestInv, Fits
<1>3. ASSUME NEW now \in Registrations, now["r"] = None, now["w"] = None
      PROVE  now = NoFilter
  BY <1>3 DEF Registrations, NoFilter, Direction
<1>4. CASE backend = "epoll" /\ EpollDelete(f)
  <2>1. CASE Succeeds(f, NoFilter, NoFilter)
    BY <1>1, <2>1, NothingWakes, SucceedsKeeps
  <2>2. CASE ~Registered(f) /\ Fails(f, NoFilter, NoFilter)
    <3>1. filter[f] = NoFilter
      BY <2>2 DEF Registered
    <3> QED BY <1>1, <2>2, <3>1, NothingWakes, FailsKeeps
  <2> QED BY <1>4, <2>1, <2>2 DEF EpollDelete
<1>5. CASE backend = "kqueue" /\ Kevent(f, DeleteChanges, NoFilter)
  <2>1. /\ half \in Registrations /\ half["r"] = None /\ half["w"] = filter[f]["w"]
    BY <1>1, ChangedIs
  <2>2. full \in Registrations /\ full["r"] = None /\ full["w"] = None
    BY <2>1, ChangedIs
  <2>3. \/ filter[f]["r"] = None /\ Fails(f, filter[f], NoFilter)
        \/ half["w"] = None /\ Fails(f, half, NoFilter)
        \/ Succeeds(f, full, NoFilter)
    BY <1>5 DEF Kevent, DeleteChanges, Refusable, Change
  <2> HIDE DEF half, full
  <2>4. CASE filter[f]["r"] = None /\ Fails(f, filter[f], NoFilter)
    <3>1. filter[f] = NoFilter
      BY <1>1, <1>2, <1>3, <2>4
    <3> QED BY <1>1, <2>4, <3>1, NothingWakes, FailsKeeps
  <2>5. CASE half["w"] = None /\ Fails(f, half, NoFilter)
    <3>1. half = NoFilter
      BY <1>3, <2>1, <2>5
    <3> QED BY <1>1, <1>5, <2>1, <2>5, <3>1, NothingWakes, FailsKeeps
  <2>6. CASE Succeeds(f, full, NoFilter)
    <3>1. full = NoFilter
      BY <1>3, <2>2
    <3> QED BY <1>1, <2>6, <3>1, NothingWakes, SucceedsKeeps
  <2> QED BY <2>3, <2>4, <2>5, <2>6
<1> QED BY <1>4, <1>5 DEF NetpollDel

LEMMA NoInterestKeeps ==
    ASSUME PollerInv, NoInterest
    PROVE  InterestInv'
<1>1. InterestTypes'
  BY NothingWakes DEF NoInterest, InterestTypes
<1>2. ASSUME NEW f \in Fd PROVE Fits(filter[f], agreed[f], refused[f])'
  <2>1. filter'[f] = NoFilter /\ agreed'[f] = NoFilter
    BY DEF NoInterest
  <2> QED BY <2>1, NothingWakes DEF Fits, WokenBy
<1>3. NothingAfterDel'
  BY DEF NoInterest, NothingAfterDel
<1> QED BY <1>1, <1>2, <1>3 DEF InterestInv

\* Whatever the constructor had taken when it failed is given back, but for
\* the array; what it keeps when it succeeds is what the destructor knows.
LEMMA InitialiseKeeps ==
    ASSUME PollerInv, NetpollInit
    PROVE  PollerInv'
<1>1. ASSUME backend = "kqueue" PROVE HeldByBackend'
  BY <1>1 DEF NetpollInit, KqueueInit, Refuse, HeldAfterFailure, NoInterest,
              PollerInv, HeldByBackend, OnlyTheArrayIsLost
<1>2. ASSUME backend = "epoll" PROVE HeldByBackend'
  BY <1>2 DEF NetpollInit, EpollInit, Refuse, HeldAfterFailure, NoInterest,
              PollerInv, HeldByBackend, OnlyTheArrayIsLost
<1>3. HeldByBackend' /\ InterestInv'
  BY <1>1, <1>2, NoInterestKeeps DEF NetpollInit, PollerInv, HeldByBackend
<1> QED BY <1>3 DEF PollerInv

LEMMA DestroyKeeps ==
    ASSUME PollerInv, NetpollDestroy
    PROVE  PollerInv'
<1>1. HeldByBackend'
  BY DEF NetpollDestroy, KqueueHeld, EpollHeld, NoInterest, PollerInv, HeldByBackend, OnlyTheArrayIsLost
<1> QED BY <1>1, NoInterestKeeps DEF NetpollDestroy, PollerInv

LEMMA PollerNextKeeps == PollerInv /\ [PollerNext]_pollerVars => PollerInv'
<1> SUFFICES ASSUME PollerInv, [PollerNext]_pollerVars PROVE PollerInv'
  OBVIOUS
<1>1. CASE UNCHANGED pollerVars
  BY <1>1 DEF pollerVars, PollerInv, InterestInv, InterestTypes, Fits, WokenBy,
              NothingAfterDel, Registered, HeldByBackend, OnlyTheArrayIsLost
<1>2. CASE NetpollInit \/ NetpollDestroy
  BY <1>2, InitialiseKeeps, DestroyKeeps
<1>3. CASE \E f \in Fd : NetpollDel(f)
  BY <1>3, DeleteKeeps
<1>4. ASSUME NEW f \in Fd, NEW data \in Data,
             NetpollAdd(f, data) \/ NetpollModR(f, data) \/ NetpollModRW(f, data)
      PROVE  PollerInv'
  BY <1>4, UpdateKeeps DEF NetpollAdd, NetpollModR, NetpollModRW
<1> QED BY <1>1, <1>2, <1>3, <1>4 DEF PollerNext

LEMMA PollerInductive == PollerSpec => []PollerInv
<1> QED BY PollerInitKeeps, PollerNextKeeps, PTL DEF PollerSpec

-----------------------------------------------------------------------------
\* However calls succeed, fail and fail half way, with either backend: writing
\* is watched as the last successful call asked, and nothing is read but with
\* the data of that call or of one kqueue refused since.
THEOREM InterestCorrect == PollerSpec => []WokenAsAgreed
<1>1. PollerInv => WokenAsAgreed
  BY DEF PollerInv, InterestInv, Fits, WokenAsAgreed
<1> QED BY <1>1, PollerInductive, PTL

\* After netpoll_del nothing is registered, whether it answered 0 or -1.
THEOREM DeletionCorrect == PollerSpec => []NothingAfterDel
<1>1. PollerInv => NothingAfterDel
  BY DEF PollerInv, InterestInv
<1> QED BY <1>1, PollerInductive, PTL

\* Of pollers that failed to start or were destroyed, in any number, nothing
\* is left but the event array of the epoll backend.
THEOREM ResourcesCorrect == PollerSpec => []OnlyTheArrayIsLost
<1>1. PollerInv => OnlyTheArrayIsLost
  BY DEF PollerInv, HeldByBackend
<1> QED BY <1>1, PollerInductive, PTL
=============================================================================
