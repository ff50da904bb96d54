--------------------------- MODULE UniverseCache ----------------------------
(***************************************************************************)
(* How updates of the simulation reach the cache that scripts read         *)
(* (UniverseServer/UniverseCache.cpp, SwapBuffer in Util/PerThread.h): the *)
(* simulation thread collects them in m_updates_write and publishes them   *)
(* once per frame; the main thread retrieves and applies them once per     *)
(* frame.  Both meet in one SwapBuffer, without a lock.                    *)
(*                                                                         *)
(* A slot is a type and a key: UpdateInfo writes the single entry of an    *)
(* info type, under k_invalid_id, UpdateInfoMap an entry of a map type.    *)
(***************************************************************************)
EXTENDS Integers, Sequences

CONSTANTS
    InfoType,   \* the types GetInfo has an entry for
    MapType,    \* the types GetInfoMap has a map for
    ID,         \* the ids used as keys of the maps
    Info,       \* the dictionaries stored
    NoInfo,     \* a slot that was never written
    MaxUpdates  \* bound on the number of updates

k_invalid_id == 0

ASSUME CacheAssumption ==
    /\ k_invalid_id \notin ID
    /\ NoInfo \notin Info
    /\ MaxUpdates \in Nat

Type   == InfoType \union MapType
Slot   == (InfoType \X {k_invalid_id}) \union (MapType \X ID)
Update == [slot : Slot, info : Info]

VARIABLES
    writing,    \* where the simulation thread is in Publish
    reading,    \* where the main thread is in RetrieveUpdates
    m_updates_write,
    m_value,    \* SwapBuffer::m_value
    m_ready,    \* SwapBuffer::m_ready
    updates_read,
    cache,      \* the infos and info maps of UniverseCache
    log,        \* history: every update made
    shown       \* history: how many of them were applied

cacheVars == <<writing, reading, m_updates_write, m_value, m_ready, updates_read, cache, log, shown>>

-----------------------------------------------------------------------------
(* The simulation thread. *)

AddInfoUpdate(u) ==
    /\ m_updates_write' = Append(m_updates_write, u)
    /\ log' = Append(log, u)
    /\ UNCHANGED <<writing, reading, m_value, m_ready, updates_read, cache, shown>>

(* A type that has no such entry is an error and changes nothing. *)
UpdateInfo(type, info) ==
    /\ writing = "idle" /\ Len(log) < MaxUpdates
    /\ type \in InfoType
    /\ AddInfoUpdate([slot |-> <<type, k_invalid_id>>, info |-> info])

UpdateInfoMap(type, id, info) ==
    /\ writing = "idle" /\ Len(log) < MaxUpdates
    /\ type \in MapType
    /\ AddInfoUpdate([slot |-> <<type, id>>, info |-> info])

(* Mutant: the flag is not looked at. *)
PublishUnchecked ==
    /\ writing = "idle"
    /\ writing' = "swap"
    /\ UNCHANGED <<reading, m_updates_write, m_value, m_ready, updates_read, cache, log, shown>>

(* Publish while m_ready is set returns at once. *)
Publish ==
    /\ writing = "idle" /\ ~m_ready
    /\ writing' = "swap"
    /\ UNCHANGED <<reading, m_updates_write, m_value, m_ready, updates_read, cache, log, shown>>

PublishSwap ==
    /\ writing = "swap"
    /\ m_value' = m_updates_write
    /\ m_updates_write' = m_value
    /\ writing' = "store"
    /\ UNCHANGED <<reading, m_ready, updates_read, cache, log, shown>>

PublishStore ==
    /\ writing = "store"
    /\ m_ready' = TRUE
    /\ writing' = "idle"
    /\ UNCHANGED <<reading, m_updates_write, m_value, updates_read, cache, log, shown>>

-----------------------------------------------------------------------------
(* The main thread. *)

(* Retrieve with m_ready unset leaves updates_read empty. *)
Retrieve ==
    /\ reading = "idle" /\ m_ready
    /\ reading' = "swap"
    /\ UNCHANGED <<writing, m_updates_write, m_value, m_ready, updates_read, cache, log, shown>>

RetrieveSwap ==
    /\ reading = "swap"
    /\ updates_read' = m_value
    /\ m_value' = updates_read
    /\ reading' = "store"
    /\ UNCHANGED <<writing, m_updates_write, m_ready, cache, log, shown>>

(* Mutant: the flag is not reset. *)
RetrieveStoreForgets ==
    /\ reading = "store"
    /\ reading' = "apply"
    /\ UNCHANGED <<writing, m_updates_write, m_value, m_ready, updates_read, cache, log, shown>>

RetrieveStore ==
    /\ reading = "store"
    /\ m_ready' = FALSE
    /\ reading' = "apply"
    /\ UNCHANGED <<writing, m_updates_write, m_value, updates_read, cache, log, shown>>

(* Mutant: an entry that is there already is kept. *)
ApplyFirst(u) ==
    cache' = [cache EXCEPT ![u.slot] = IF @ = NoInfo THEN u.info ELSE @]

Apply(u) == cache' = [cache EXCEPT ![u.slot] = u.info]

(* The loop over updates_read, a local variable, under the lock of the     *)
(* cache.                                                                  *)
RetrieveApply ==
    /\ reading = "apply" /\ updates_read # <<>>
    /\ Apply(Head(updates_read))
    /\ shown' = shown + 1
    /\ updates_read' = Tail(updates_read)
    /\ UNCHANGED <<writing, reading, m_updates_write, m_value, m_ready, log>>

RetrieveEnd ==
    /\ reading = "apply" /\ updates_read = <<>>
    /\ reading' = "idle"
    /\ UNCHANGED <<writing, m_updates_write, m_value, m_ready, updates_read, cache, log, shown>>

-----------------------------------------------------------------------------

CacheInit ==
    /\ writing = "idle" /\ reading = "idle"
    /\ m_updates_write = <<>> /\ m_value = <<>> /\ m_ready = FALSE
    /\ updates_read = <<>>
    /\ cache = [s \in Slot |-> NoInfo]
    /\ log = <<>> /\ shown = 0

PublishUpdates  == Publish \/ PublishSwap \/ PublishStore
RetrieveUpdates == Retrieve \/ RetrieveSwap \/ RetrieveStore \/ RetrieveApply \/ RetrieveEnd

CacheNext ==
    \/ \E type \in Type : \E info \in Info :
          UpdateInfo(type, info) \/ \E id \in ID : UpdateInfoMap(type, id, info)
    \/ PublishUpdates
    \/ RetrieveUpdates

CacheSpec == CacheInit /\ [][CacheNext]_cacheVars

(* The simulation thread publishes and the main thread retrieves in every   *)
(* frame.                                                                  *)
Fairness == WF_cacheVars(PublishUpdates) /\ WF_cacheVars(RetrieveUpdates)

FairCacheSpec == CacheSpec /\ Fairness

-----------------------------------------------------------------------------
(* Properties. *)

(* Every variable keeps its type. *)
CacheTypeOK ==
    /\ writing \in {"idle", "swap", "store"}
    /\ reading \in {"idle", "swap", "store", "apply"}
    /\ m_updates_write \in Seq(Update)
    /\ m_value \in Seq(Update)
    /\ m_ready \in BOOLEAN
    /\ updates_read \in Seq(Update)
    /\ cache \in [Slot -> Info \union {NoInfo}]
    /\ log \in Seq(Update)
    /\ shown \in Nat

(* The two threads never touch m_value at the same time: between the test   *)
(* of m_ready and the store of m_ready it belongs to one of them, although  *)
(* nothing locks it.                                                       *)
SwapExclusive ==
    ~(writing \in {"swap", "store"} /\ reading \in {"swap", "store"})

(* Every update is shown after some frames. *)
UpdatesShown ==
    \A n \in 1 .. MaxUpdates : Len(log) >= n ~> shown >= n

Log == INSTANCE UpdateLog WITH
    Slot <- Slot, Info <- Info, NoInfo <- NoInfo, log <- log, shown <- shown, cache <- cache

(* The cache behaves as a prefix of the log of updates does: whatever the   *)
(* two threads do, scripts see every update once and in order.             *)
Refinement == Log!Spec

-----------------------------------------------------------------------------
(* What the properties rest on: which thread owns m_value, which buffers    *)
(* are empty, and where in the log every buffer begins.                    *)

Ownership ==
    /\ writing \in {"swap", "store"} => ~m_ready
    /\ reading \in {"swap", "store"} => m_ready
    /\ ~m_ready /\ writing # "store" => m_value = <<>>
    /\ reading = "store" => m_value = <<>>
    /\ writing = "store" => m_updates_write = <<>>
    /\ reading \in {"idle", "swap"} => updates_read = <<>>

(* Buffer b holds the updates of the log after the first k. *)
HoldsLog(b, k) == \A i \in 1 .. Len(b) : b[i] = log[k + i]

Placement ==
    /\ Len(log) = shown + Len(updates_read) + Len(m_value) + Len(m_updates_write)
    /\ HoldsLog(updates_read, shown)
    /\ HoldsLog(m_value, shown + Len(updates_read))
    /\ HoldsLog(m_updates_write, shown + Len(updates_read) + Len(m_value))

CacheInv == CacheTypeOK /\ Ownership /\ Placement
=============================================================================
