------------------------------ MODULE MCStartup ------------------------------
(***************************************************************************)
(* The parts a server is started from: command line, listening socket,     *)
(* poller.  They share nothing, so each behaviour exercises one of them,   *)
(* `part`, and leaves the others as they are.                              *)
(***************************************************************************)
EXTENDS Listener, Netpoll, Config

VARIABLE part

(***************************************************************************)
(* Flags of every type, one of them with the short name of another; words  *)
(* of four bits.                                                           *)
(***************************************************************************)
MCBound == << [type |-> "i64",  short |-> "n",   long |-> "num"],
              [type |-> "u64",  short |-> Unset, long |-> "uns"],
              [type |-> "bool", short |-> "v",   long |-> "verbose"],
              [type |-> "u64",  short |-> "n",   long |-> "late"] >>

Number(sign, mag) == [kind |-> "number", space |-> FALSE, sign |-> sign, mag |-> mag, junk |-> FALSE]
Other == [kind |-> "other"]
Url(scheme, parts) == [kind |-> "url", scheme |-> scheme, parts |-> parts]

Flag(dashes, name, eq) == [dashes |-> dashes, name |-> name, eq |-> eq, text |-> Other]
Plain(text) == [dashes |-> 0, name |-> "plain", eq |-> Unset, text |-> text]

MCArguments == {
    Flag(1, "l", Unset), Flag(2, "listen", Url("tcp", <<"h", Number("", 7)>>)),
    Flag(1, "l", Url("tcp", <<"", Number("-", 15)>>)),
    Flag(2, "listen", Url("tcp", <<"h", Number("", 8)>>)),
    Plain(Url("unix", <<"p">>)), Plain(Url("tcp", <<"h">>)),
    Flag(1, "n", Number("-", 8)), Flag(2, "uns", Unset), Flag(1, "v", Unset),
    Flag(2, "verbose", [kind |-> "bool", is |-> FALSE]), Plain([kind |-> "bool", is |-> FALSE]),
    [Flag(1, "1", Unset) EXCEPT !.text = Number("-", 1)],
    Plain(Number("", 15)), Plain(Number("", 16)), Flag(3, "l", Unset), Flag(2, "", Unset)}

Init ==
    /\ ConfigInit /\ ListenerInit /\ PollerInit
    /\ part \in {"config", "listener", "netpoll"}
    /\ part # "config" => argv = <<>>
    /\ part # "listener" => path = "absent"
    /\ part # "netpoll" => backend = "epoll"

Next ==
    \/ part = "config" /\ ConfigNext /\ UNCHANGED <<part, listenerVars, pollerVars>>
    \/ part = "listener" /\ ListenerNext /\ UNCHANGED <<part, configVars, pollerVars>>
    \/ part = "netpoll" /\ PollerNext /\ UNCHANGED <<part, configVars, listenerVars>>

Spec == Init /\ [][Next]_<<part, configVars, listenerVars, pollerVars>>
=============================================================================
