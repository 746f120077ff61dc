------------------------------- MODULE Listener -------------------------------
(***************************************************************************)
(* listener_create_tcp and listener_create_unix of src/listener.c, one     *)
(* system call per step.  Every call may fail, close and unlink with an    *)
(* errno of their own.                                                     *)
(***************************************************************************)
EXTENDS Integers, Sequences

CONSTANTS
    MaxAddresses,  \* the longest answer of getaddrinfo
    AtomicFlags,   \* SOCK_NONBLOCK and SOCK_CLOEXEC are defined
    ReusePort,     \* LISTENER_TCP_REUSEPORT_OPTION is defined
    Errno          \* what a failing call may leave in errno

VARIABLES
    at,       \* the next system call, "idle" or "returned"
    family,   \* "unix", or the family of the address being tried
    left,     \* the addresses behind it
    open,     \* open descriptors, each with what has been set on it
    fd,       \* the local variable fd, -1 for none
    errno,
    cause,    \* errno as the failure that counts left it
    saved,    \* last_errno, saved_errno
    path,     \* "absent", "ours", "theirs": a name of somebody else, or "lost": that name removed
    result

listenerVars == <<at, family, left, open, fd, errno, cause, saved, path, result>>

Options == {"nonblock", "cloexec", "reuseaddr", "reuseport", "v6only"}

NewSocket == IF AtomicFlags THEN {"nonblock", "cloexec"} ELSE {}

\* The calls between socket() and the listening descriptor.
Calls(fam) ==
    {"bind", "listen"}
    \cup (IF AtomicFlags THEN {} ELSE {"nonblock", "cloexec"})
    \cup (IF fam = "unix" THEN {} ELSE {"reuseaddr"})
    \cup (IF fam # "unix" /\ ReusePort THEN {"reuseport"} ELSE {})
    \cup (IF fam = "inet6" THEN {"v6only"} ELSE {})

\* Their order.
Rank == [nonblock |-> 1, cloexec |-> 2, reuseaddr |-> 3, reuseport |-> 4, v6only |-> 5,
         bind |-> 6, listen |-> 7]

First(calls) == CHOOSE c \in calls : \A d \in calls : Rank[c] <= Rank[d]

Following(call, fam) ==
    IF call = "listen" THEN "returned" ELSE First({c \in Calls(fam) : Rank[c] > Rank[call]})

ListenerInit ==
    /\ at = "idle" /\ family = "unix" /\ left = <<>>
    /\ open = <<>> /\ fd = -1
    /\ errno = "none" /\ cause = "none" /\ saved = "none"
    /\ path \in {"absent", "theirs"}
    /\ result = -1

-----------------------------------------------------------------------------
\* listener_create_tcp is called: getaddrinfo resolves the host, or does not.
Resolve ==
    /\ at = "idle"
    /\ \/ /\ left' \in UNION {[1..n -> {"inet", "inet6"}] : n \in 1..MaxAddresses}
          /\ at' = "socket" /\ family' = Head(left')
          /\ saved' = "EADDRNOTAVAIL"
          /\ UNCHANGED <<errno, cause>>
       \/ /\ at' = "returned"
          /\ errno' \in {"ENOMEM", "EAGAIN", "EADDRNOTAVAIL"} \cup Errno
          /\ cause' = errno'
          /\ UNCHANGED <<left, family, saved>>
    /\ UNCHANGED <<open, fd, path, result>>

\* listener_create_unix is called.
CreateUnix ==
    /\ at = "idle"
    /\ at' = "socket" /\ family' = "unix" /\ left' = <<"unix">>
    /\ UNCHANGED <<open, fd, errno, cause, saved, path, result>>

\* Without another address, the failure is returned with the errno kept for it.
GiveUp(kept) ==
    /\ at' = "returned"
    /\ errno' = kept

Socket ==
    /\ at = "socket"
    /\ \/ /\ fd' = Len(open) + 1
          /\ open' = Append(open, NewSocket)
          /\ at' = First(Calls(family))
          /\ UNCHANGED <<family, left, errno, cause, saved, result>>
       \/ \E e \in Errno :
            /\ cause' = e /\ saved' = e
            /\ IF Len(left) > 1
               THEN /\ at' = "socket" /\ errno' = e
                    /\ left' = Tail(left) /\ family' = left[2]
               ELSE GiveUp(e) /\ UNCHANGED <<left, family>>
            /\ UNCHANGED <<open, fd, result>>
    /\ UNCHANGED path

\* An option is set, the address bound, the socket listens.
Step ==
    /\ at \in Options \cup {"bind", "listen"}
    /\ at = "bind" /\ family = "unix" => path = "absent"
    /\ open' = [open EXCEPT ![fd] = @ \cup {at}]
    /\ path' = IF at = "bind" /\ family = "unix" THEN "ours" ELSE path
    /\ at' = Following(at, family)
    /\ result' = IF at = "listen" THEN fd ELSE result
    /\ UNCHANGED <<family, left, fd, errno, cause, saved>>

\* Mutated form: the name goes whenever a Unix socket fails from bind on.
UndoesName(call) == family = "unix" /\ call \in {"bind", "listen"}

\* Whether the name of the socket has been made.
HasName(call) == family = "unix" /\ call = "listen"

\* It fails: errno is kept before the descriptor is closed.
StepFails ==
    /\ at \in Options \cup {"bind", "listen"}
    /\ errno' \in Errno
    /\ cause' = errno' /\ saved' = errno'
    /\ at' = IF HasName(at) THEN "close_unlink" ELSE "close"
    /\ UNCHANGED <<family, left, open, fd, path, result>>

Closed == [open EXCEPT ![fd] = {"closed"}]

\* close() after a failure, whatever it answers; the next address, if any.
Close ==
    /\ at = "close"
    /\ open' = Closed /\ fd' = -1
    /\ IF Len(left) > 1
       THEN /\ at' = "socket" /\ left' = Tail(left) /\ family' = left[2]
            /\ errno' \in {errno} \cup Errno
       ELSE GiveUp(saved) /\ UNCHANGED <<left, family>>
    /\ UNCHANGED <<cause, saved, path, result>>

\* A Unix socket that is bound and does not listen takes its name along; a
\* name that has just been made can be removed.
CloseUnlink ==
    /\ at = "close_unlink"
    /\ open' = Closed /\ fd' = -1
    /\ path' = IF path = "theirs" THEN "lost" ELSE "absent"
    /\ GiveUp(saved)
    /\ UNCHANGED <<family, left, cause, saved, result>>

ListenerNext ==
    \/ Resolve \/ CreateUnix \/ Socket
    \/ Step \/ StepFails
    \/ Close \/ CloseUnlink

ListenerSpec == ListenerInit /\ [][ListenerNext]_listenerVars

-----------------------------------------------------------------------------
(***************************************************************************)
(* What the caller gets: a descriptor with everything set on it that its   *)
(* family needs and no other one left open, or -1, no descriptor at all,   *)
(* the errno of the failure that mattered and the file system as it was.   *)
(***************************************************************************)
ListenerDelivers ==
    at = "returned" =>
        /\ \A d \in DOMAIN open \ {result} : open[d] = {"closed"}
        /\ path # "lost"
        /\ IF result = -1
           THEN errno = cause /\ path # "ours"
           ELSE /\ {"nonblock", "cloexec", "bind", "listen"} \subseteq open[result]
                /\ family # "unix" => "reuseaddr" \in open[result]
                /\ family # "unix" /\ ReusePort => "reuseport" \in open[result]
                /\ family = "inet6" => "v6only" \in open[result]
                /\ family = "unix" => path = "ours"
=============================================================================
