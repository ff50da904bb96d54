----------------------------- MODULE SpinLocks ------------------------------
(***************************************************************************)
(* The shared spin lock that CommandServer, UniverseCache, PolyFactory,    *)
(* Debug and the database protect their state with: one counter of 32     *)
(* bits, 0 when the lock is free, the number of readers while it is        *)
(* shared, and INT32MAX or more while one thread has it for itself.        *)
(*                                                                         *)
(* A reader that comes while a writer has the lock has already added one   *)
(* to the counter when it finds out.  It does not take its one back: it    *)
(* loads the counter and, if that is above INT32MAX, sets it to INT32MAX   *)
(* unless it has changed since.  The writer's store of 0 forgets the rest. *)
(*                                                                         *)
(* lock, lock_shared and try_upgrade repeat a compare and exchange that    *)
(* fails without a trace, so only the one that succeeds is a step.         *)
(***************************************************************************)
EXTENDS Integers, FiniteSets

CONSTANTS
    Owner,          \* the threads that use the lock
    Exclusive,      \* INT32MAX, the count of a lock that a writer has
    MaxCount        \* the largest value of the counter: what the readers that
                    \* spin have added during one exclusive ownership stays
                    \* below it (2^32 - 1 in the code)

ASSUME SpinAssumption ==
    /\ IsFiniteSet(Owner)
    /\ Exclusive \in Nat /\ MaxCount \in Nat
    /\ Cardinality(Owner) < Exclusive /\ Exclusive < MaxCount

VARIABLES
    count,      \* count_
    owns,       \* what each thread has of the lock
    step,       \* where a thread is in lock_shared or try_lock_shared
    oldValue    \* what it has loaded there

spinVars == <<count, owns, step, oldValue>>

Has(what) == {t \in Owner : owns[t] = what}

(* Between two calls, or at the head of the loop of lock_shared.            *)
Idle(t, what) == step[t] = "idle" /\ owns[t] = what

Own(t, what) == owns' = [owns EXCEPT ![t] = what] /\ UNCHANGED <<step, oldValue>>

(* lock and try_lock.                                                       *)
Lock(t) ==
    /\ Idle(t, "none")
    /\ count = 0
    /\ count' = Exclusive
    /\ Own(t, "write")

Unlock(t) ==
    /\ Idle(t, "write")
    /\ count' = 0
    /\ Own(t, "none")

(* lock_shared and try_lock_shared: the counter is increased first.         *)
AddShared(t) ==
    /\ Idle(t, "none")
    /\ count < MaxCount
    /\ count' = count + 1
    /\ IF count < Exclusive
       THEN Own(t, "read")
       ELSE step' = [step EXCEPT ![t] = "load"] /\ UNCHANGED <<owns, oldValue>>

LoadCount(t) ==
    /\ step[t] = "load"
    /\ oldValue' = [oldValue EXCEPT ![t] = count]
    /\ step' = [step EXCEPT ![t] = IF count > Exclusive THEN "reset" ELSE "idle"]
    /\ UNCHANGED <<count, owns>>

(* Mutant: a reader that has failed takes its one back. *)
ResetCount_Sub(t) ==
    /\ step[t] = "reset"
    /\ count' = count - 1
    /\ step' = [step EXCEPT ![t] = "idle"]
    /\ UNCHANGED <<owns, oldValue>>

(* A weak compare and exchange also fails when the values are equal.        *)
ResetCount(t) ==
    /\ step[t] = "reset"
    /\ \/ count = oldValue[t] /\ count' = Exclusive
       \/ UNCHANGED count
    /\ step' = [step EXCEPT ![t] = "idle"]
    /\ UNCHANGED <<owns, oldValue>>

UnlockShared(t) ==
    /\ Idle(t, "read")
    /\ count' = count - 1
    /\ Own(t, "none")

TryUpgrade(t) ==
    /\ Idle(t, "read")
    /\ count = 1
    /\ count' = Exclusive
    /\ Own(t, "write")

Downgrade(t) ==
    /\ Idle(t, "write")
    /\ count' = 1
    /\ Own(t, "read")

SpinInit ==
    /\ count = 0
    /\ owns = [t \in Owner |-> "none"]
    /\ step = [t \in Owner |-> "idle"]
    /\ oldValue = [t \in Owner |-> 0]

SpinThread(t) ==
    \/ Lock(t) \/ Unlock(t) \/ AddShared(t) \/ LoadCount(t) \/ ResetCount(t)
    \/ UnlockShared(t) \/ TryUpgrade(t) \/ Downgrade(t)

SpinNext == \E t \in Owner : SpinThread(t)

SpinSpec == SpinInit /\ [][SpinNext]_spinVars

-----------------------------------------------------------------------------

SpinTypeOK ==
    /\ count \in 0..MaxCount
    /\ owns \in [Owner -> {"none", "read", "write"}]
    /\ step \in [Owner -> {"idle", "load", "reset"}]
    /\ oldValue \in [Owner -> 0..MaxCount]

(* A thread that has the lock for itself (lock_guard on the lists of         *)
(* commands, the factories, the cache) has it alone, whatever the readers    *)
(* that spin have left in the counter and whatever they set it back to.      *)
LockExclusive ==
    \A t, u \in Owner : owns[t] = "write" /\ t # u => owns[u] = "none"

(* Nothing that a spinning reader has added outlives the writer it has met:  *)
(* without a writer the counter is the number of the readers, so the lock    *)
(* is free for lock() once the last one has gone.                            *)
CountExact ==
    Has("write") = {} => count = Cardinality(Has("read"))

(* The counter that readers and writers share through additions, comparisons *)
(* and plain stores always gives the lock to one writer or to readers, and   *)
(* becomes free again.                                                       *)
LockSound == LockExclusive /\ CountExact
=============================================================================
