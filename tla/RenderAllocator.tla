--------------------------- MODULE RenderAllocator --------------------------
(***************************************************************************)
(* The AllocatorServer and the Allocators of Render/RenderAllocator.cpp,   *)
(* as the render module uses them: the server keeps a pool of RIDs of each *)
(* type; the thread that runs the simulation fills the allocator of every  *)
(* thread context from it once per frame, and asks the render thread to    *)
(* refill the pool; the contexts give their RIDs back when the simulation  *)
(* is deleted, and the server is deleted after the last simulation.        *)
(*                                                                         *)
(* Abstractions.  A RID is its number among the RIDs of its type.  The     *)
(* render thread runs what call_on_render_thread gave it in order; when    *)
(* the caller is the render thread itself the call runs at once, which is  *)
(* the interleaving where the render thread runs it next.  What happens    *)
(* under m_mutex is one step.  AnyRequired reads the pool without it.      *)
(***************************************************************************)
EXTENDS Integers, Sequences, SequencesExt, FiniteSetsExt

CONSTANTS
    Type,           \* RIDType
    Context,        \* the thread contexts, each with an allocator
    Preallocated,   \* k_max_preallocated
    Share,          \* a request gets at most k_max_preallocated / Share
    Wrap,           \* the number of values of m_requests
    MaxUsed,        \* bound on the RIDs of one type that are used
    MaxSessions     \* bound on the simulations

ASSUME AllocatorAssumption ==
    /\ Preallocated \in [Type -> Nat]
    /\ Share \in Nat \ {0}
    /\ Wrap \in Nat /\ Wrap > 3
    /\ MaxUsed \in Nat /\ MaxSessions \in Nat

VARIABLES
    phase,      \* what the simulation thread is doing
    todo,       \* the contexts it has still to do it for
    counting,   \* it has made a request and not incremented m_requests yet
    m_requests, \* AllocatorServer::m_requests
    rids,       \* TypeData::rids
    held,       \* Allocator::m_rids
    calls,      \* the calls the render thread has to make
    filling,    \* it is in AllocateRIDsInternal, after AnyRequired
    created,    \* number of RIDs created
    used,       \* the RIDs GetRID and EnsureRID returned
    freed,      \* the RIDs DeallocateRIDsInternal freed
    session     \* number of simulations

serverVars == <<m_requests, rids>>
renderVars == <<calls, filling, created, freed>>
vars == <<phase, todo, counting, serverVars, held, renderVars, used, session>>

(* What follows when the simulation thread is done with every context. *)
Then == [construct |-> "request", process |-> "frame", delete |-> "none"]

-----------------------------------------------------------------------------
(* The simulation thread. *)

(* simulation::Initialize constructs the contexts. *)
StartSession ==
    /\ phase = "none" /\ session < MaxSessions
    /\ session' = session + 1
    /\ phase' = "construct" /\ todo' = Context
    /\ UNCHANGED <<counting, serverVars, held, renderVars, used>>

(* RequestRIDs: the call, unless a request is in progress; m_requests is    *)
(* incremented after it.                                                   *)
RequestRIDs ==
    IF m_requests = 0
      THEN calls' = Append(calls, "allocate") /\ counting' = TRUE
      ELSE UNCHANGED <<calls, counting>>

Count ==
    /\ counting
    /\ counting' = FALSE
    /\ m_requests' = (m_requests + 1) % Wrap
    /\ UNCHANGED <<phase, todo, rids, held, renderVars, used, session>>

Giving(c) == [t \in Type |-> Min({Len(rids[t]), Preallocated[t] - Len(held[c][t]), Preallocated[t] \div Share})]

(* Mutant: a frame takes RIDs and does not ask for more. *)
GetRIDsUnrequested(c) ==
    /\ held' = [held EXCEPT ![c] = [t \in Type |->
                  held[c][t] \o SubSeq(rids[t], Len(rids[t]) - Giving(c)[t] + 1, Len(rids[t]))]]
    /\ rids' = [t \in Type |-> SubSeq(rids[t], 1, Len(rids[t]) - Giving(c)[t])]
    /\ UNCHANGED <<calls, counting>>

(* GetRIDs for the allocator of c. *)
GetRIDs(c) ==
    /\ held' = [held EXCEPT ![c] = [t \in Type |->
                  held[c][t] \o SubSeq(rids[t], Len(rids[t]) - Giving(c)[t] + 1, Len(rids[t]))]]
    /\ rids' = [t \in Type |-> SubSeq(rids[t], 1, Len(rids[t]) - Giving(c)[t])]
    /\ IF \E t \in Type : Giving(c)[t] > 0 THEN RequestRIDs ELSE UNCHANGED <<calls, counting>>

(* Allocator::Process, in the constructor and in Initialize and Update of   *)
(* the render module.                                                      *)
Process(c) ==
    /\ phase \in {"construct", "process"} /\ c \in todo /\ ~counting
    /\ GetRIDs(c)
    /\ todo' = todo \ {c}
    /\ UNCHANGED <<phase, m_requests, filling, created, freed, used, session>>

(* Mutant: the RIDs are not given back. *)
FreeRIDsLost(c) ==
    /\ phase = "delete" /\ c \in todo
    /\ held' = [held EXCEPT ![c] = [t \in Type |-> <<>>]]
    /\ todo' = todo \ {c}
    /\ UNCHANGED <<phase, counting, serverVars, renderVars, used, session>>

(* FreeRIDs, from ~Allocator. *)
FreeRIDs(c) ==
    /\ phase = "delete" /\ c \in todo
    /\ rids' = [t \in Type |-> rids[t] \o held[c][t]]
    /\ held' = [held EXCEPT ![c] = [t \in Type |-> <<>>]]
    /\ todo' = todo \ {c}
    /\ UNCHANGED <<phase, counting, m_requests, renderVars, used, session>>

Done ==
    /\ phase \in DOMAIN Then /\ todo = {} /\ ~counting
    /\ phase' = Then[phase]
    /\ UNCHANGED <<todo, counting, serverVars, held, renderVars, used, session>>

(* rendering::Initialize: RequestRIDs(true). *)
Request ==
    /\ phase = "request"
    /\ RequestRIDs
    /\ phase' = IF m_requests = 0 THEN "sync" ELSE "initialize"
    /\ UNCHANGED <<todo, serverVars, held, filling, created, freed, used, session>>

(* force_sync returns when the render thread has made every call. *)
ForceSync ==
    /\ phase = "sync" /\ ~counting
    /\ calls = <<>> /\ ~filling
    /\ phase' = "initialize"
    /\ UNCHANGED <<todo, counting, serverVars, held, renderVars, used, session>>

(* The rest of rendering::Initialize, or rendering::Update. *)
Update ==
    /\ phase \in {"initialize", "frame"}
    /\ phase' = "process" /\ todo' = Context
    /\ UNCHANGED <<counting, serverVars, held, renderVars, used, session>>

(* Allocator::GetRID on a pool thread; with no RID it returns an invalid    *)
(* one and changes nothing.                                                *)
GetRID(c, t) ==
    /\ phase = "frame" /\ Cardinality(used[t]) < MaxUsed
    /\ held[c][t] # <<>>
    /\ used' = [used EXCEPT ![t] = @ \union {Last(held[c][t])}]
    /\ held' = [held EXCEPT ![c][t] = Front(@)]
    /\ UNCHANGED <<phase, todo, counting, serverVars, renderVars, session>>

(* Allocator::EnsureRID when GetRID has none. *)
EnsureRID(c, t) ==
    /\ phase = "frame" /\ Cardinality(used[t]) < MaxUsed
    /\ held[c][t] = <<>>
    /\ created' = [created EXCEPT ![t] = @ + 1]
    /\ used' = [used EXCEPT ![t] = @ \union {created[t] + 1}]
    /\ UNCHANGED <<phase, todo, counting, serverVars, held, calls, filling, freed, session>>

(* The simulation is deleted with its contexts. *)
EndSession ==
    /\ phase = "frame"
    /\ phase' = "delete" /\ todo' = Context
    /\ UNCHANGED <<counting, serverVars, held, renderVars, used, session>>

(* ~AllocatorServer *)
DeleteServer ==
    /\ phase = "none"
    /\ phase' = "wait"
    /\ calls' = Append(calls, "deallocate")
    /\ counting' = TRUE
    /\ UNCHANGED <<todo, serverVars, held, filling, created, freed, used, session>>

(* Mutant: the destructor does not wait. *)
WaitForRequestsNever ==
    /\ phase = "wait" /\ ~counting
    /\ phase' = "deleted"
    /\ UNCHANGED <<todo, counting, serverVars, held, renderVars, used, session>>

WaitForRequests ==
    /\ phase = "wait" /\ ~counting
    /\ m_requests = 0
    /\ phase' = "deleted"
    /\ UNCHANGED <<todo, counting, serverVars, held, renderVars, used, session>>

-----------------------------------------------------------------------------
(* The render thread. *)

AnyRequired == \E t \in Type : Len(rids[t]) < Preallocated[t]

(* AllocateRIDsInternal before the lock.  When nothing is required it       *)
(* returns, and m_requests keeps the request.                              *)
CheckRequired ==
    /\ ~filling /\ calls # <<>> /\ Head(calls) = "allocate"
    /\ calls' = Tail(calls)
    /\ filling' = AnyRequired
    /\ UNCHANGED <<phase, todo, counting, serverVars, held, created, freed, used, session>>

Missing(t) == IF Len(rids[t]) < Preallocated[t] THEN Preallocated[t] - Len(rids[t]) ELSE 0

AllocateRIDsInternal ==
    /\ filling
    /\ rids' = [t \in Type |-> rids[t] \o [i \in 1 .. Missing(t) |-> created[t] + i]]
    /\ created' = [t \in Type |-> created[t] + Missing(t)]
    /\ m_requests' = (m_requests - 1) % Wrap
    /\ filling' = FALSE
    /\ UNCHANGED <<phase, todo, counting, held, calls, freed, used, session>>

DeallocateRIDsInternal ==
    /\ ~filling /\ calls # <<>> /\ Head(calls) = "deallocate"
    /\ calls' = Tail(calls)
    /\ freed' = [t \in Type |-> freed[t] \union ToSet(rids[t])]
    /\ m_requests' = (m_requests - 1) % Wrap
    /\ UNCHANGED <<phase, todo, counting, rids, held, filling, created, used, session>>

-----------------------------------------------------------------------------

Init ==
    /\ phase = "none" /\ todo = {} /\ counting = FALSE
    /\ m_requests = 0
    /\ rids = [t \in Type |-> <<>>]
    /\ held = [c \in Context |-> [t \in Type |-> <<>>]]
    /\ calls = <<>> /\ filling = FALSE
    /\ created = [t \in Type |-> 0]
    /\ used = [t \in Type |-> {}]
    /\ freed = [t \in Type |-> {}]
    /\ session = 0

(* The steps the simulation thread takes by itself. *)
OwnerStep ==
    \/ Count \/ Done \/ Request \/ ForceSync \/ Update \/ WaitForRequests
    \/ \E c \in Context : Process(c) \/ FreeRIDs(c)

RenderStep == CheckRequired \/ AllocateRIDsInternal \/ DeallocateRIDsInternal

(* The server is deleted, or waits for a request that was lost. *)
Stopped == phase \in {"deleted", "wait"} /\ UNCHANGED vars

Next ==
    \/ StartSession \/ EndSession \/ DeleteServer
    \/ \E c \in Context : \E t \in Type : GetRID(c, t) \/ EnsureRID(c, t)
    \/ OwnerStep
    \/ RenderStep
    \/ Stopped

Spec == Init /\ [][Next]_vars

(* Both threads keep running. *)
Fairness == WF_vars(OwnerStep) /\ WF_vars(RenderStep)

FairSpec == Spec /\ Fairness

-----------------------------------------------------------------------------
(* Properties. *)

Phase == DOMAIN Then \union
         {"none", "request", "sync", "initialize", "frame", "wait", "deleted"}

(* Every variable keeps its type. *)
TypeOK ==
    /\ phase \in Phase /\ todo \subseteq Context /\ counting \in BOOLEAN
    /\ m_requests \in 0 .. (Wrap - 1)
    /\ rids \in [Type -> Seq(Nat)]
    /\ held \in [Context -> [Type -> Seq(Nat)]]
    /\ calls \in Seq({"allocate", "deallocate"}) /\ filling \in BOOLEAN
    /\ created \in [Type -> Nat]
    /\ used \in [Type -> SUBSET Nat] /\ freed \in [Type -> SUBSET Nat]
    /\ session \in 0 .. MaxSessions

(* The first n RIDs of a type lie in a pool, in the allocators and in use:    *)
(* every one of them in one place, and once.                               *)
OwnedOnce(pool, allocators, inUse, n) ==
    /\ IsInjective(pool)
    /\ \A c \in Context :
         /\ IsInjective(allocators[c])
         /\ ToSet(allocators[c]) \intersect (ToSet(pool) \union inUse) = {}
         /\ \A d \in Context \ {c} : ToSet(allocators[c]) \intersect ToSet(allocators[d]) = {}
    /\ ToSet(pool) \intersect inUse = {}
    /\ ToSet(pool) \union inUse \union UNION {ToSet(allocators[c]) : c \in Context} = 1 .. n

(* Every RID created is in exactly one place: in the pool, in one allocator *)
(* or in use.  No two allocators hand out the same RID, and none is lost    *)
(* when a session gives its RIDs back while the render thread refills the   *)
(* pool for the last request.                                              *)
RIDsOwnedOnce ==
    \A t \in Type : OwnedOnce(rids[t], [c \in Context |-> held[c][t]], used[t], created[t])

(* An allocator never holds more than GetRIDs is asked for: the unsigned    *)
(* difference of required and rids_out.size() cannot wrap; and the numbers  *)
(* of the server stay within their width.                                  *)
AllocatorsBounded ==
    TypeOK /\ \A c \in Context : \A t \in Type : Len(held[c][t]) <= Preallocated[t]

(* Pools and allocators share the RIDs there are, each RID in one place and  *)
(* each place with as many as it may have.                                   *)
RIDsExact == RIDsOwnedOnce /\ AllocatorsBounded

(* The calls the render thread has not finished, and the requests made.    *)
Pending  == Len(calls) + (IF filling THEN 1 ELSE 0)
Requests == m_requests + (IF counting THEN 1 ELSE 0)

(* m_requests counts the calls that are not finished, although it is        *)
(* incremented after the call, which may already have decremented it past   *)
(* zero; at most one request is ever lost.                                 *)
RequestsCounted == (Requests - Pending) % Wrap \in {0, 1}

Lost == (Requests - Pending) % Wrap # 0

(* The server is deleted after the last call the render thread makes on it, *)
(* and then every RID that is not in use has been freed.                   *)
DeletedQuiet ==
    phase = "deleted" =>
        /\ calls = <<>> /\ ~filling
        /\ \A t \in Type : freed[t] \union used[t] = 1 .. created[t]

(* m_requests, which the destructor waits for, says when the render thread   *)
(* will make no more calls: the server is never deleted under one.           *)
RequestsExact == RequestsCounted /\ DeletedQuiet

(* Unless a request is lost, a pool below its size is filled again in every *)
(* session.                                                                *)
RefilledUnlessLost ==
    \A t \in Type :
        phase \notin {"none", "wait", "deleted"} /\ Len(rids[t]) < Preallocated[t]
            ~> Len(rids[t]) >= Preallocated[t] \/ Lost

(* "Any taken render objects will automatically be refilled".  The render   *)
(* thread keeps the request when nothing is required, and RequestRIDs asks  *)
(* no more.                                                                *)
Refilled ==
    \A t \in Type :
        phase \notin {"none", "wait", "deleted"} /\ Len(rids[t]) < Preallocated[t]
            ~> Len(rids[t]) >= Preallocated[t]

-----------------------------------------------------------------------------
(* What keeps RequestsExact true.                                          *)

(* No more than one request and the call of the destructor are ever waiting; *)
(* once a request was lost none is.  The number of requests made is what     *)
(* waits, or one more, or all that m_requests can count: the render thread   *)
(* has answered before the request was counted.                             *)
RequestsInv ==
    /\ counting => phase \in {"construct", "process", "sync", "wait"}
    /\ calls \in {<<>>, <<"allocate">>, <<"deallocate">>, <<"allocate", "deallocate">>}
    /\ filling => calls \in {<<>>, <<"deallocate">>}
    /\ calls # <<>> /\ Last(calls) = "deallocate" => phase = "wait"
    /\ Requests - Pending \in {0, 1, Wrap}
    /\ Requests - Pending = 1 => ~filling /\ calls \in {<<>>, <<"deallocate">>}

(* Between two sessions no allocator holds a RID; nothing is freed before    *)
(* the destructor's call is made, and when it has been made nothing waits    *)
(* and every RID is freed or in use.                                        *)
Deallocated ==
    phase \in {"wait", "deleted"} /\ (calls # <<>> => Last(calls) # "deallocate")

QuietInv ==
    /\ phase \in {"none", "wait", "deleted"} =>
         \A c \in Context : \A t \in Type : held[c][t] = <<>>
    /\ phase = "delete" =>
         \A c \in Context \ todo : \A t \in Type : held[c][t] = <<>>
    /\ ~Deallocated => \A t \in Type : freed[t] = {}
    /\ Deallocated =>
         /\ calls = <<>> /\ ~filling
         /\ \A t \in Type : freed[t] \union used[t] = 1 .. created[t]

AllocatorInv == RequestsInv /\ QuietInv
=============================================================================
