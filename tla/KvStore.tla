------------------------------- MODULE KvStore -------------------------------
(***************************************************************************)
(* What src/kv.h promises concurrent callers: every call takes effect at   *)
(* one moment between its start and its return, on one map from keys to    *)
(* values.                                                                 *)
(***************************************************************************)
EXTENDS Naturals

CONSTANTS
    Thread, Key, Value,
    Size,     \* Size[v]: the bytes of value v
    MaxSize,  \* the longest value an item can hold
    DstSizes, \* the buffer sizes callers of kv_get pass
    None      \* no value

Request ==
    [op : {"get"}, key : Key, dst : DstSizes] \cup
    [op : {"set"}, key : Key, value : Value] \cup
    [op : {"delete"}, key : Key]

Response == [code : {"OK", "NOT_FOUND", "NO_MEM", "TOO_LARGE"},
             value : Value \cup {None}, meta : Value \cup {None}, len : Nat \cup {None}]

Answer(code) == [code |-> code, value |-> None, meta |-> None, len |-> None]

NoRequest  == [op |-> "none"]
NoResponse == Answer("none")

VARIABLES
    store,  \* the value under each key, None when absent
    busy,   \* the threads inside a call
    req,    \* the call each thread makes or made last
    resp    \* what it was answered

vars == <<store, busy, req, resp>>

Init ==
    /\ store = [k \in Key |-> None]
    /\ busy = {}
    /\ req = [t \in Thread |-> NoRequest]
    /\ resp = [t \in Thread |-> NoResponse]

Invoke(t, r) ==
    /\ t \notin busy
    /\ busy' = busy \cup {t}
    /\ req' = [req EXCEPT ![t] = r]
    /\ resp' = [resp EXCEPT ![t] = NoResponse]
    /\ UNCHANGED store

\* A value too large for the caller's buffer is refused, not truncated, and
\* its length told; one too large for an item leaves the store as it was.
AnswerTo(r) ==
    CASE r.op = "get" /\ store[r.key] = None -> Answer("NOT_FOUND")
      [] r.op = "get" /\ store[r.key] # None ->
            IF Size[store[r.key]] > r.dst THEN [Answer("TOO_LARGE") EXCEPT !.len = Size[store[r.key]]]
            ELSE [code |-> "OK", value |-> store[r.key], meta |-> store[r.key],
                  len |-> Size[store[r.key]]]
      [] r.op = "set" -> Answer(IF Size[r.value] > MaxSize THEN "NO_MEM" ELSE "OK")
      [] r.op = "delete" -> Answer(IF store[r.key] = None THEN "NOT_FOUND" ELSE "OK")

StoreAfter(r) ==
    CASE r.op = "get" -> store
      [] r.op = "set" -> IF Size[r.value] > MaxSize THEN store
                         ELSE [store EXCEPT ![r.key] = r.value]
      [] r.op = "delete" -> [store EXCEPT ![r.key] = None]

Return(t) ==
    /\ t \in busy
    /\ busy' = busy \ {t}
    /\ resp' = [resp EXCEPT ![t] = AnswerTo(req[t])]
    /\ store' = StoreAfter(req[t])
    /\ UNCHANGED req

Next == \E t \in Thread : (\E r \in Request : Invoke(t, r)) \/ Return(t)

Spec == Init /\ [][Next]_vars
=============================================================================
