------------------------------- MODULE Netpoll -------------------------------
(***************************************************************************)
(* The poller of src/netpoll_epoll.c and src/netpoll_kqueue.c: its own     *)
(* resources, and the interest the kernel holds for each descriptor.       *)
(***************************************************************************)
EXTENDS Integers, Sequences, FiniteSets

CONSTANTS
    Fd,    \* descriptors of connections
    Data,  \* what a caller attaches to a descriptor
    None   \* no data, no filter

Direction == {"r", "w"}

\* A filter for one direction: the data it reports, and whether it is enabled.
Filter == [data : Data, on : BOOLEAN]

ASSUME PollerAssumption == None \notin Data /\ None \notin Filter

VARIABLES
    backend,  \* "epoll" or "kqueue"
    held,     \* what netpoll_init has taken and nobody has given back
    poller,   \* "none", "live", or "refused" when netpoll_init answered NULL
    filter,   \* the kernel's table: filter[f][d] is a Filter, or None
    agreed,   \* history: what f is to be woken for by its last successful call
    refused,  \* history: what failed calls since then would have had f woken for
    dropped   \* history: the descriptors whose last call was netpoll_del

pollerVars == <<backend, held, poller, filter, agreed, refused, dropped>>

NoFilter == [d \in Direction |-> None]

\* The data f is woken with in each direction, None where it is not.
WokenBy(filters) ==
    [d \in Direction |-> IF filters[d] \in Filter /\ filters[d].on THEN filters[d].data ELSE None]

PollerInit ==
    /\ backend \in {"epoll", "kqueue"}
    /\ held = {} /\ poller = "none"
    /\ filter = [f \in Fd |-> NoFilter]
    /\ agreed = [f \in Fd |-> NoFilter]
    /\ refused = [f \in Fd |-> {}]
    /\ dropped = {}

-----------------------------------------------------------------------------
(***************************************************************************)
(* netpoll_init and netpoll_destroy.                                       *)
(***************************************************************************)

\* Mutated form: a failure of fcntl keeps the event array.
HeldAfterFailureLeaking(taken) ==
    IF backend = "epoll" \/ "fd" \in taken THEN taken \ {"poll", "fd"} ELSE {}

\* What a failing init gives back.  epoll_create1 may fail with the array
\* already there, and only the poller is freed.
HeldAfterFailure(taken) ==
    IF backend = "epoll" THEN taken \ {"poll"} ELSE {}

\* Nothing is registered with a poller that is new, or gone.
NoInterest ==
    /\ filter' = [f \in Fd |-> NoFilter]
    /\ agreed' = [f \in Fd |-> NoFilter]
    /\ refused' = [f \in Fd |-> {}]
    /\ dropped' = {}
    /\ UNCHANGED backend

Refuse(taken) ==
    /\ held' = held \cup HeldAfterFailure(taken)
    /\ poller' = "refused"

\* netpoll_init of the kqueue backend.
KqueueInit ==
    \/ held' = held \cup {"poll", "events", "fd"} /\ poller' = "live"
    \/ \E taken \in {{}, {"poll"}, {"poll", "events"}, {"poll", "events", "fd"}} : Refuse(taken)

\* netpoll_init of the epoll backend looks for a null pointer in poll->events,
\* which nobody has written, and not at the array it asked for: it may refuse
\* one it has got and go on without one.
EpollInit ==
    \/ \E events \in {{}, {"events"}} :
            held' = held \cup {"poll", "fd"} \cup events /\ poller' = "live"
    \/ \E taken \in {{}, {"poll"}, {"poll", "events"}} : Refuse(taken)

NetpollInit ==
    /\ poller # "live"
    /\ \/ backend = "kqueue" /\ KqueueInit
       \/ backend = "epoll" /\ EpollInit
    /\ NoInterest

\* What netpoll_destroy gives back: the epoll backend forgets the array.
KqueueHeld == {"poll", "events", "fd"}
EpollHeld  == {"poll", "fd"}

NetpollDestroy ==
    /\ poller = "live"
    /\ held' = held \ IF backend = "epoll" THEN EpollHeld ELSE KqueueHeld
    /\ poller' = "none"
    /\ NoInterest

-----------------------------------------------------------------------------
(***************************************************************************)
(* Interest.  A call asks for `wanted`, the data f is to be woken with.    *)
(***************************************************************************)
Registered(f) == filter[f] # NoFilter

\* Both directions are registered, the writing one disabled unless wanted.
Interest(data, write) == [d \in Direction |-> [data |-> data, on |-> d = "r" \/ write]]

\* The call returns, with `now` in the kernel.
Returns(f, now) == filter' = [filter EXCEPT ![f] = now]

Succeeds(f, now, wanted) ==
    /\ Returns(f, now)
    /\ agreed' = [agreed EXCEPT ![f] = wanted]
    /\ refused' = [refused EXCEPT ![f] = {}]

Fails(f, now, wanted) ==
    /\ Returns(f, now)
    /\ refused' = [refused EXCEPT ![f] = @ \cup {wanted["r"]}]
    /\ UNCHANGED agreed

\* epoll_ctl adds what is not there, modifies what is, or leaves all as it is.
EpollControl(f, add, interest) ==
    \/ Registered(f) # add /\ Succeeds(f, interest, WokenBy(interest))
    \/ Fails(f, filter[f], WokenBy(interest))

\* It deletes what is there; ENOENT is all that can go wrong.
EpollDelete(f) ==
    IF Registered(f) THEN Succeeds(f, NoFilter, NoFilter) ELSE Fails(f, NoFilter, NoFilter)

\* A change kevent is asked for: the filter of one direction becomes `to`,
\* None for EV_DELETE.
Change(dir, to) == [dir |-> dir, to |-> to]

Changed(filters, change) == [filters EXCEPT ![change.dir] = change.to]

\* EV_DELETE fails for a filter that is not there and for nothing else;
\* EV_ADD may fail whenever the kernel has no memory.
Possible(filters, change) == change.to # None \/ filters[change.dir] # None
Refusable(filters, change) == change.to # None \/ filters[change.dir] = None

\* kevent makes two changes in order and stops at the first that fails.
Kevent(f, changes, wanted) ==
    LET half == Changed(filter[f], changes[1])
        full == Changed(half, changes[2])
    IN  \/ Refusable(filter[f], changes[1]) /\ Fails(f, filter[f], wanted)
        \/ /\ Possible(filter[f], changes[1])
           /\ \/ Refusable(half, changes[2]) /\ Fails(f, half, wanted)
              \/ Possible(half, changes[2]) /\ Succeeds(f, full, wanted)

\* Mutated form: the write filter comes first.
UpdateChangesWriteFirst(interest) == <<Change("w", interest["w"]), Change("r", interest["r"])>>

\* netpoll_update of the kqueue backend: the write filter is always part of
\* the change, disabled if it is not asked for.
UpdateChanges(interest) == <<Change("r", interest["r"]), Change("w", interest["w"])>>

Update(f, add, interest) ==
    /\ poller = "live"
    /\ \/ backend = "epoll" /\ EpollControl(f, add, interest)
       \/ backend = "kqueue" /\ Kevent(f, UpdateChanges(interest), WokenBy(interest))
    /\ dropped' = dropped \ {f}
    /\ UNCHANGED <<backend, held, poller>>

NetpollAdd(f, data)   == Update(f, TRUE, Interest(data, FALSE))
NetpollModR(f, data)  == Update(f, FALSE, Interest(data, FALSE))
NetpollModRW(f, data) == Update(f, FALSE, Interest(data, TRUE))

\* Mutated form: the filters are deleted in the other order.
DeleteChangesWriteFirst == <<Change("w", None), Change("r", None)>>

DeleteChanges == <<Change("r", None), Change("w", None)>>

NetpollDel(f) ==
    /\ poller = "live"
    /\ \/ backend = "epoll" /\ EpollDelete(f)
       \/ backend = "kqueue" /\ Kevent(f, DeleteChanges, NoFilter)
    /\ dropped' = dropped \cup {f}
    /\ UNCHANGED <<backend, held, poller>>

PollerNext ==
    \/ NetpollInit \/ NetpollDestroy
    \/ \E f \in Fd : NetpollDel(f)
    \/ \E f \in Fd, data \in Data :
        NetpollAdd(f, data) \/ NetpollModR(f, data) \/ NetpollModRW(f, data)

PollerSpec == PollerInit /\ [][PollerNext]_pollerVars

-----------------------------------------------------------------------------
\* Whatever calls fail, and wherever a kevent stops (netpoll_kqueue.c:28): a
\* connection is woken to write exactly when, and with the data, its last
\* successful call asked for it, since the write filter changes last; it is
\* woken to read with the data of that call or, by kqueue, of one that failed
\* since.
WokenAsAgreed ==
    \A f \in Fd :
        LET woken == WokenBy(filter[f])
        IN  /\ woken["w"] = agreed[f]["w"]
            /\ woken["r"] # agreed[f]["r"] => backend = "kqueue" /\ woken["r"] \in refused[f]

\* After netpoll_del the kernel has nothing left of the descriptor, not even a
\* disabled filter, whatever the call answers: the filters of a registration
\* that stopped half way are deleted as far as they were made.
NothingAfterDel == \A f \in dropped : ~Registered(f)

\* Whatever fails in netpoll_init, and after netpoll_destroy, nothing is left
\* over, but for the array of the epoll backend: nobody frees that one.
OnlyTheArrayIsLost ==
    poller # "live" => held \subseteq IF backend = "epoll" THEN {"events"} ELSE {}
=============================================================================
