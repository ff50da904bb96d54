---------------------------- MODULE RegionStore -----------------------------
(***************************************************************************)
(* What the region database promises to the tasks that read and write      *)
(* nodes: a map from keys to values that survives the process.  A Set is   *)
(* there when it returns.  When the process is killed, a Set that had not  *)
(* returned is there or is not; and only if there was one may other keys   *)
(* be lost.  No key ever has a value that was not the last one set for it. *)
(*                                                                         *)
(* All this ends when the store breaks, which is left to it here: a Set    *)
(* that begins may find it broken, and from then on nothing is promised.   *)
(***************************************************************************)
CONSTANTS Key, Value, None, Thread

VARIABLES
    store,      \* the value of every key, or None
    pending,    \* the Set that each thread is in, or None
    broken

map  == <<store, pending>>
vars == <<store, pending, broken>>

Init ==
    /\ store = [k \in Key |-> None]
    /\ pending = [t \in Thread |-> None]
    /\ broken = FALSE

Begin(t, k, v) ==
    /\ pending[t] = None
    /\ pending' = [pending EXCEPT ![t] = [key |-> k, val |-> v]]
    /\ UNCHANGED store

End(t) ==
    /\ pending[t] # None
    /\ store' = [store EXCEPT ![pending[t].key] = pending[t].val]
    /\ pending' = [pending EXCEPT ![t] = None]

Kill ==
    LET cut == {t \in Thread : pending[t] # None}
    IN  /\ \A k \in Key : \/ store'[k] = store[k]
                          \/ \E t \in cut : pending[t] = [key |-> k, val |-> store'[k]]
                          \/ cut # {} /\ store'[k] = None
        /\ pending' = [t \in Thread |-> None]

Works ==
    \/ \E t \in Thread, k \in Key, v \in Value : Begin(t, k, v)
    \/ \E t \in Thread : End(t)
    \/ Kill

Break == \E t \in Thread : pending[t] = None /\ pending'[t] # None

Next ==
    \/ ~broken /\ ~broken' /\ Works
    \/ ~broken /\ broken' /\ Break
    \/ broken /\ broken'

Spec == Init /\ [][Next]_vars
=============================================================================
