----------------------------- MODULE UpdateLog ------------------------------
(***************************************************************************)
(* What the cache of the UniverseServer promises to the scripts that read  *)
(* it: the updates of the simulation form a log, and at every moment the   *)
(* cache is what a prefix of that log leaves.  The prefix only grows, so   *)
(* no update is lost, applied twice or overtaken by a later one.           *)
(***************************************************************************)
EXTENDS Integers, Sequences

CONSTANTS Slot, Info, NoInfo

VARIABLES
    log,    \* every update made so far
    shown,  \* how many of them the cache shows
    cache   \* the info in every slot

vars == <<log, shown, cache>>

Update == [slot : Slot, info : Info]

Init ==
    /\ log = <<>>
    /\ shown = 0
    /\ cache = [s \in Slot |-> NoInfo]

Write(u) ==
    /\ log' = Append(log, u)
    /\ UNCHANGED <<shown, cache>>

Show ==
    /\ shown < Len(log)
    /\ shown' = shown + 1
    /\ cache' = [cache EXCEPT ![log[shown + 1].slot] = log[shown + 1].info]
    /\ UNCHANGED log

Next == (\E u \in Update : Write(u)) \/ Show

Spec == Init /\ [][Next]_vars
=============================================================================
