-------------------------- MODULE UtilitiesProofs ---------------------------
(***************************************************************************)
(* That the vector, the thread checker, the spin lock, the mapped file,    *)
(* the sphere of a loader and the settings are right under every sequence  *)
(* of calls, for any number of threads and for all sizes.                  *)
(*                                                                         *)
(* A behaviour of Utilities is about one of them, so a step is a step of   *)
(* one part and leaves the variables of the others alone.                  *)
(***************************************************************************)
EXTENDS Utilities, FiniteSetTheorems, FunctionTheorems, SequenceTheorems, WellFoundedInduction, TLAPS

-----------------------------------------------------------------------------
(* The parts of a step. *)

VectorStep ==
    \/ \E n \in 1 .. MaxLen : Reserve(n)
    \/ \E v \in Value : PushBack(v)
    \/ PushOutside
    \/ PopBack
    \/ \E first, last \in 1 .. Len(list) + 1 : first < last /\ Erase(first, last)
    \/ \E i \in DOMAIN list : UnorderedErase(i)
    \/ ClearVector

CheckerStep ==
    \/ \E t \in Thread, write \in BOOLEAN : BeginCheck(t, write)
    \/ \E t \in Thread : EndCheck(t)

LoaderStep == \E a \in Axis, d \in {-1, 1} : MoveLoader(a, d)

(* Every step of Utilities is one of each part, or leaves it alone. *)
LEMMA StepsApart ==
    ASSUME [Next]_vars
    PROVE  /\ [VectorStep]_vectorVars
           /\ [CheckerStep]_checkVars
           /\ [SpinNext]_spinVars
           /\ [MapNext]_mapVars
           /\ [LoaderStep]_loaderVars
           /\ [ConfigNext]_configVars
<1> USE DEF vars, sharedVars
<1>1. CASE (\E p \in Position, v \in Item \union {InvalidItem} : SetItem(p, v)) \/ Shrink \/ ClearItems
  BY <1>1 DEF SetItem, Shrink, ClearItems
<1>2. CASE VectorStep
  <2>1. UNCHANGED <<kind, sharedVars, octreeVars, checkVars>>
    BY <1>2 DEF VectorStep, Reserve, PushBack, PushOutside, PopBack, Erase, UnorderedErase, ClearVector, Call
  <2> QED BY <1>2, <2>1
<1>3. CASE CheckerStep
  <2>1. UNCHANGED <<kind, sharedVars, octreeVars, vectorVars>>
    BY <1>3 DEF CheckerStep, BeginCheck, EndCheck
  <2> QED BY <1>3, <2>1
<1>4. CASE \E t \in Owner : UseLock(t) BY <1>4 DEF UseLock, SpinNext
<1>5. CASE UseFile BY <1>5 DEF UseFile
<1>6. CASE LoaderStep BY <1>6 DEF LoaderStep, MoveLoader
<1>7. CASE UseConfig BY <1>7 DEF UseConfig
<1>8. CASE UNCHANGED vars BY <1>8
<1> QED BY <1>1, <1>2, <1>3, <1>4, <1>5, <1>6, <1>7, <1>8 DEF Next, VectorStep, CheckerStep, LoaderStep

-----------------------------------------------------------------------------
(* The spin lock. *)

WriterCounts == Has("write") # {} => count >= Exclusive

StepsSound ==
    \A t \in Owner : /\ step[t] # "idle" => owns[t] = "none"
                     /\ step[t] = "reset" => oldValue[t] > Exclusive

SpinInv == SpinTypeOK /\ LockExclusive /\ CountExact /\ WriterCounts /\ StepsSound

(* The threads that have some part of the lock are finitely many, and fewer  *)
(* than INT32MAX.                                                            *)
LEMMA HasFinite ==
    ASSUME NEW what
    PROVE  /\ IsFiniteSet(Has(what))
           /\ Cardinality(Has(what)) \in Nat
           /\ Cardinality(Has(what)) < Exclusive
<1>1. Has(what) \subseteq Owner
    BY DEF Has
<1>2. IsFiniteSet(Has(what)) /\ Cardinality(Has(what)) <= Cardinality(Owner)
    BY <1>1, FS_Subset, SpinAssumption
<1>3. Cardinality(Has(what)) \in Nat /\ Cardinality(Owner) \in Nat
    BY <1>2, FS_CardinalityType, SpinAssumption
<1> QED
    BY <1>2, <1>3, SpinAssumption

(* One more thread has a part of the lock that it had not: the count of them *)
(* grows by one.                                                             *)
LEMMA HasMore ==
    ASSUME NEW t \in Owner, NEW what, owns \in [Owner -> {"none", "read", "write"}],
           owns[t] # what, what \in {"none", "read", "write"},
           owns' = [owns EXCEPT ![t] = what]
    PROVE  Has(what)' = Has(what) \union {t} /\ Cardinality(Has(what)') = Cardinality(Has(what)) + 1
<1>1. Has(what)' = Has(what) \union {t}
    BY DEF Has
<1>2. t \notin Has(what)
    BY DEF Has
<1> QED
    BY <1>1, <1>2, HasFinite, FS_AddElement

(* One thread gives its part back: the count of them falls by one.           *)
LEMMA HasFewer ==
    ASSUME NEW t \in Owner, NEW what, NEW now, owns \in [Owner -> {"none", "read", "write"}],
           owns[t] = what, now # what,
           owns' = [owns EXCEPT ![t] = now]
    PROVE  Has(what)' = Has(what) \ {t} /\ Cardinality(Has(what)') = Cardinality(Has(what)) - 1
<1>1. Has(what)' = Has(what) \ {t}
    BY DEF Has
<1>2. t \in Has(what)
    BY DEF Has
<1> QED
    BY <1>1, <1>2, HasFinite, FS_RemoveElement

(* A step of a thread keeps the invariant.                                   *)
LEMMA SpinStep ==
    ASSUME SpinInv, NEW t \in Owner, SpinThread(t)
    PROVE  SpinInv'
<1> USE SpinAssumption
<1>0. SpinTypeOK /\ LockExclusive /\ CountExact /\ WriterCounts /\ StepsSound
    BY DEF SpinInv
<1>1. CASE Lock(t)
    <2>1. /\ step[t] = "idle" /\ owns[t] = "none" /\ count = 0 /\ count' = Exclusive
          /\ owns' = [owns EXCEPT ![t] = "write"] /\ step' = step /\ oldValue' = oldValue
        BY <1>1 DEF Lock, Idle, Own
    <2>2. Has("write") = {}
        BY <1>0, <2>1, HasFinite DEF WriterCounts
    <2>3. Cardinality(Has("read")) = 0
        BY <1>0, <2>1, <2>2 DEF CountExact
    <2>4. Has("read") = {}
        BY <2>3, HasFinite, FS_EmptySet
    <2>5. \A u \in Owner : owns[u] = "none"
        BY <1>0, <2>2, <2>4 DEF Has, SpinTypeOK
    <2>6. Has("write")' # {}
        BY <1>0, <2>1 DEF Has, SpinTypeOK
    <2>7. SpinTypeOK'
        BY <1>0, <2>1 DEF SpinTypeOK
    <2>8. LockExclusive'
        BY <1>0, <2>1, <2>5 DEF LockExclusive, SpinTypeOK
    <2>9. CountExact' /\ WriterCounts'
        BY <2>1, <2>6 DEF CountExact, WriterCounts
    <2>10. StepsSound'
        BY <1>0, <2>1 DEF StepsSound, SpinTypeOK
    <2> QED
        BY <2>7, <2>8, <2>9, <2>10 DEF SpinInv
<1>2. CASE Unlock(t)
    <2>1. /\ step[t] = "idle" /\ owns[t] = "write" /\ count' = 0
          /\ owns' = [owns EXCEPT ![t] = "none"] /\ step' = step /\ oldValue' = oldValue
        BY <1>2 DEF Unlock, Idle, Own
    <2>2. \A u \in Owner : owns'[u] = "none"
        BY <1>0, <2>1 DEF LockExclusive, SpinTypeOK
    <2>3. Has("write")' = {} /\ Has("read")' = {}
        BY <2>2 DEF Has
    <2>4. SpinTypeOK'
        BY <1>0, <2>1 DEF SpinTypeOK
    <2>5. LockExclusive'
        BY <2>2 DEF LockExclusive
    <2>6. CountExact' /\ WriterCounts'
        BY <2>1, <2>3, FS_EmptySet DEF CountExact, WriterCounts
    <2>7. StepsSound'
        BY <1>0, <2>1, <2>2 DEF StepsSound
    <2> QED
        BY <2>4, <2>5, <2>6, <2>7 DEF SpinInv
<1>3. CASE AddShared(t) /\ count < Exclusive
    <2>1. /\ step[t] = "idle" /\ owns[t] = "none" /\ count' = count + 1 /\ count < MaxCount
          /\ owns' = [owns EXCEPT ![t] = "read"] /\ step' = step /\ oldValue' = oldValue
        BY <1>3 DEF AddShared, Idle, Own
    <2>2. Has("write") = {}
        BY <1>0, <1>3 DEF WriterCounts, SpinTypeOK
    <2>3. Has("write")' = {}
        BY <1>0, <2>1, <2>2 DEF Has, SpinTypeOK
    <2>4. Cardinality(Has("read")') = Cardinality(Has("read")) + 1
        BY <1>0, <2>1, HasMore DEF SpinTypeOK
    <2>5. SpinTypeOK'
        BY <1>0, <2>1 DEF SpinTypeOK
    <2>6. LockExclusive'
        BY <2>3 DEF LockExclusive, Has
    <2>7. CountExact' /\ WriterCounts'
        BY <1>0, <2>1, <2>2, <2>3, <2>4 DEF CountExact, WriterCounts
    <2>8. StepsSound'
        BY <1>0, <2>1 DEF StepsSound, SpinTypeOK
    <2> QED
        BY <2>5, <2>6, <2>7, <2>8 DEF SpinInv
<1>4. CASE AddShared(t) /\ ~(count < Exclusive)
    <2>1. /\ step[t] = "idle" /\ owns[t] = "none" /\ count' = count + 1 /\ count < MaxCount
          /\ owns' = owns /\ step' = [step EXCEPT ![t] = "load"] /\ oldValue' = oldValue
        BY <1>4 DEF AddShared, Idle
    <2>2. Has("write") # {}
        BY <1>0, <1>4, HasFinite DEF CountExact, SpinTypeOK
    <2>3. Has("write")' = Has("write")
        BY <2>1 DEF Has
    <2>4. SpinTypeOK'
        BY <1>0, <2>1 DEF SpinTypeOK
    <2>5. LockExclusive'
        BY <1>0, <2>1 DEF LockExclusive
    <2>6. CountExact' /\ WriterCounts'
        BY <1>0, <1>4, <2>1, <2>2, <2>3 DEF CountExact, WriterCounts, SpinTypeOK
    <2>7. StepsSound'
        BY <1>0, <2>1 DEF StepsSound, SpinTypeOK
    <2> QED
        BY <2>4, <2>5, <2>6, <2>7 DEF SpinInv
<1>5. CASE LoadCount(t)
    <2>1. /\ step[t] = "load" /\ count' = count /\ owns' = owns
          /\ oldValue' = [oldValue EXCEPT ![t] = count]
          /\ step' = [step EXCEPT ![t] = IF count > Exclusive THEN "reset" ELSE "idle"]
        BY <1>5 DEF LoadCount
    <2>2. \A what : Has(what)' = Has(what)
        BY <2>1 DEF Has
    <2>3. SpinTypeOK'
        BY <1>0, <2>1 DEF SpinTypeOK
    <2>4. LockExclusive'
        BY <1>0, <2>1 DEF LockExclusive
    <2>5. CountExact' /\ WriterCounts'
        BY <1>0, <2>1, <2>2 DEF CountExact, WriterCounts
    <2>6. StepsSound'
        BY <1>0, <2>1 DEF StepsSound, SpinTypeOK
    <2> QED
        BY <2>3, <2>4, <2>5, <2>6 DEF SpinInv
<1>6. CASE ResetCount(t)
    <2>1. /\ step[t] = "reset" /\ owns' = owns /\ oldValue' = oldValue
          /\ step' = [step EXCEPT ![t] = "idle"]
          /\ (count = oldValue[t] /\ count' = Exclusive) \/ count' = count
        BY <1>6 DEF ResetCount
    <2>2. \A what : Has(what)' = Has(what)
        BY <2>1 DEF Has
    <2>3. CASE count' = count
        <3>1. SpinTypeOK' /\ StepsSound'
            BY <1>0, <2>1, <2>3 DEF SpinTypeOK, StepsSound
        <3>2. LockExclusive' /\ CountExact' /\ WriterCounts'
            BY <1>0, <2>1, <2>2, <2>3 DEF LockExclusive, CountExact, WriterCounts
        <3> QED
            BY <3>1, <3>2 DEF SpinInv
    <2>4. CASE count = oldValue[t] /\ count' = Exclusive
        <3>1. count > Exclusive
            BY <1>0, <2>1, <2>4 DEF StepsSound
        <3>2. Has("write") # {}
            BY <1>0, <3>1, HasFinite DEF CountExact, SpinTypeOK
        <3>3. SpinTypeOK' /\ StepsSound'
            BY <1>0, <2>1, <2>4 DEF SpinTypeOK, StepsSound
        <3>4. LockExclusive' /\ CountExact' /\ WriterCounts'
            BY <1>0, <2>1, <2>2, <2>4, <3>2 DEF LockExclusive, CountExact, WriterCounts
        <3> QED
            BY <3>3, <3>4 DEF SpinInv
    <2> QED
        BY <2>1, <2>3, <2>4
<1>7. CASE UnlockShared(t)
    <2>1. /\ step[t] = "idle" /\ owns[t] = "read" /\ count' = count - 1
          /\ owns' = [owns EXCEPT ![t] = "none"] /\ step' = step /\ oldValue' = oldValue
        BY <1>7 DEF UnlockShared, Idle, Own
    <2>2. Has("write") = {}
        BY <1>0, <2>1 DEF LockExclusive, Has
    <2>3. Has("write")' = {}
        BY <1>0, <2>1, <2>2 DEF Has, SpinTypeOK
    <2>4. Cardinality(Has("read")') = Cardinality(Has("read")) - 1
        BY <1>0, <2>1, HasFewer DEF SpinTypeOK
    <2>5. Cardinality(Has("read")') \in Nat
        <3>1. IsFiniteSet(Has("read")')
            <4>1. Has("read")' = Has("read") \ {t}
                BY <1>0, <2>1, HasFewer DEF SpinTypeOK
            <4> QED
                BY <4>1, HasFinite, FS_RemoveElement
        <3> QED
            BY <3>1, FS_CardinalityType
    <2>6. count' \in 0..MaxCount
        BY <1>0, <2>1, <2>2, <2>4, <2>5, HasFinite DEF SpinTypeOK, CountExact
    <2>7. SpinTypeOK'
        BY <1>0, <2>1, <2>6 DEF SpinTypeOK
    <2>8. LockExclusive'
        BY <2>3 DEF LockExclusive, Has
    <2>9. CountExact' /\ WriterCounts'
        BY <1>0, <2>1, <2>2, <2>3, <2>4 DEF CountExact, WriterCounts
    <2>10. StepsSound'
        BY <1>0, <2>1 DEF StepsSound, SpinTypeOK
    <2> QED
        BY <2>7, <2>8, <2>9, <2>10 DEF SpinInv
<1>8. CASE TryUpgrade(t)
    <2>1. /\ step[t] = "idle" /\ owns[t] = "read" /\ count = 1 /\ count' = Exclusive
          /\ owns' = [owns EXCEPT ![t] = "write"] /\ step' = step /\ oldValue' = oldValue
        BY <1>8 DEF TryUpgrade, Idle, Own
    <2>2. Has("write") = {}
        BY <1>0, <2>1 DEF LockExclusive, Has
    <2>3. Cardinality(Has("read")) = 1
        BY <1>0, <2>1, <2>2 DEF CountExact
    <2>4. PICK reader : Has("read") = {reader}
        BY <2>3, HasFinite, FS_Singleton
    <2>5. \A u \in Owner : u # t => owns[u] = "none"
        BY <1>0, <2>1, <2>2, <2>4 DEF Has, SpinTypeOK
    <2>6. Has("write")' # {}
        BY <1>0, <2>1 DEF Has, SpinTypeOK
    <2>7. SpinTypeOK'
        BY <1>0, <2>1 DEF SpinTypeOK
    <2>8. LockExclusive'
        BY <1>0, <2>1, <2>5 DEF LockExclusive, SpinTypeOK
    <2>9. CountExact' /\ WriterCounts'
        BY <2>1, <2>6 DEF CountExact, WriterCounts
    <2>10. StepsSound'
        BY <1>0, <2>1 DEF StepsSound, SpinTypeOK
    <2> QED
        BY <2>7, <2>8, <2>9, <2>10 DEF SpinInv
<1>9. CASE Downgrade(t)
    <2>1. /\ step[t] = "idle" /\ owns[t] = "write" /\ count' = 1
          /\ owns' = [owns EXCEPT ![t] = "read"] /\ step' = step /\ oldValue' = oldValue
        BY <1>9 DEF Downgrade, Idle, Own
    <2>2. \A u \in Owner : u # t => owns'[u] = "none"
        BY <1>0, <2>1 DEF LockExclusive, SpinTypeOK
    <2>3. Has("write")' = {} /\ Has("read")' = {t}
        BY <1>0, <2>1, <2>2 DEF Has, SpinTypeOK
    <2>4. Cardinality(Has("read")') = 1
        BY <2>3, FS_Singleton
    <2>5. SpinTypeOK'
        BY <1>0, <2>1 DEF SpinTypeOK
    <2>6. LockExclusive'
        BY <2>3 DEF LockExclusive, Has
    <2>7. CountExact' /\ WriterCounts'
        BY <2>1, <2>3, <2>4 DEF CountExact, WriterCounts
    <2>8. StepsSound'
        BY <1>0, <2>1 DEF StepsSound, SpinTypeOK
    <2> QED
        BY <2>5, <2>6, <2>7, <2>8 DEF SpinInv
<1> QED
    BY <1>1, <1>2, <1>3, <1>4, <1>5, <1>6, <1>7, <1>8, <1>9 DEF SpinThread

(* The invariant holds in every state of the lock.                           *)
THEOREM SpinInvariant == SpinSpec => []SpinInv
<1>1. SpinInit => SpinInv
    <2> SUFFICES ASSUME SpinInit PROVE SpinInv
        OBVIOUS
    <2>1. Has("write") = {} /\ Has("read") = {}
        BY DEF SpinInit, Has
    <2>2. SpinTypeOK /\ StepsSound
        BY SpinAssumption DEF SpinInit, SpinTypeOK, StepsSound
    <2>3. LockExclusive
        BY DEF SpinInit, LockExclusive
    <2>4. CountExact /\ WriterCounts
        BY <2>1, FS_EmptySet DEF SpinInit, CountExact, WriterCounts
    <2> QED
        BY <2>2, <2>3, <2>4 DEF SpinInv
<1>2. SpinInv /\ [SpinNext]_spinVars => SpinInv'
    <2> SUFFICES ASSUME SpinInv, [SpinNext]_spinVars PROVE SpinInv'
        OBVIOUS
    <2>1. CASE SpinNext
        BY <2>1, SpinStep DEF SpinNext
    <2>2. CASE UNCHANGED spinVars
        BY <2>2 DEF spinVars, SpinInv, SpinTypeOK, LockExclusive, CountExact, WriterCounts, StepsSound, Has
    <2> QED
        BY <2>1, <2>2
<1> QED
    BY <1>1, <1>2, PTL DEF SpinSpec

(* A thread that has the lock for itself has it alone, for every set of      *)
(* fewer than INT32MAX threads, as long as the counter does not overflow.    *)
THEOREM LockIsExclusive == SpinSpec => []LockExclusive
BY SpinInvariant, PTL DEF SpinInv

(* Without a writer the counter is the number of the readers: no spinning    *)
(* reader leaves anything behind that would keep the lock taken.             *)
THEOREM LockIsNotLeaked == SpinSpec => []CountExact
BY SpinInvariant, PTL DEF SpinInv

(* Both, in every behaviour of Utilities: the lock is exclusive and becomes  *)
(* free again.                                                               *)
THEOREM LockIsSound == Spec => []LockSound
<1>1. Init => SpinInit BY DEF Init
<1>2. [Next]_vars => [SpinNext]_spinVars BY StepsApart
<1>3. Spec => SpinSpec BY <1>1, <1>2, PTL DEF Spec, SpinSpec
<1> QED BY <1>3, LockIsExclusive, LockIsNotLeaked, PTL DEF LockSound

-----------------------------------------------------------------------------
(* The mapped file. *)

(* What the step a thread is at knows of the file.  A thread looks at        *)
(* file_size_ and map_size_ before it has the lock; what it has seen stays   *)
(* true because neither becomes smaller while a call is in progress.         *)
CallInv(t) ==
    /\ call[t].pc # "idle" => isOpen
    /\ call[t].pc \in {"allocate", "remap", "reserve"} => EndOf(t) <= MaxFile
    /\ call[t].pc = "reserve" => EndOf(t) <= mapSize
    /\ call[t].pc \in {"share", "hold"} => EndOf(t) <= fileSize
    /\ call[t].pc = "hold" => call[t].base = address

SizeInv == isOpen => fileSize <= mapSize /\ mapSize <= disk /\ address \in 1 .. 2

MapInv == MapTypeOK /\ SizeInv /\ PlacesGivenOnce /\ \A t \in Caller : CallInv(t)

-----------------------------------------------------------------------------

(* Aligning makes no number smaller. *)
LEMMA AlignedLarger ==
    ASSUME NEW n \in Nat
    PROVE  Aligned(n) \in Nat /\ Aligned(n) >= n
<1>1. n % PageSize \in 0 .. PageSize - 1
  BY MappedAssumption
<1> QED BY <1>1, MappedAssumption DEF Aligned

(* Between calls no call is remembered. *)
LEMMA NoCallTyped == NoCall \in FileCall
<1>1. 0 \in 0 .. MaxFile /\ 0 \in 0 .. 2 BY MappedAssumption
<1> QED BY <1>1, Zenon DEF NoCall, FileCall

(* The new size of the map is at least the size that was asked for. *)
LEMMA MapForLarger ==
    ASSUME NEW n \in Nat
    PROVE  MapFor(n) \in Nat /\ MapFor(n) >= n
BY AlignedLarger, MappedAssumption DEF MapFor, Larger

(* A step that changes only the call of one thread keeps the invariant if    *)
(* the new call has what its step needs.                                     *)
LEMMA CallStep ==
    ASSUME MapInv, NEW t \in Caller, NEW c,
           c \in FileCall,
           call' = [call EXCEPT ![t] = c],
           UNCHANGED <<disk, isOpen, fileSize, mapSize, address, given>>,
           CallInv(t)'
    PROVE  MapInv'
<1>1. MapTypeOK' BY DEF MapInv, MapTypeOK
<1>2. SizeInv' /\ PlacesGivenOnce' BY DEF MapInv, SizeInv, PlacesGivenOnce
<1>3. ASSUME NEW u \in Caller PROVE CallInv(u)'
  <2>1. CASE u = t BY <2>1
  <2>2. CASE u # t BY <2>2 DEF MapInv, MapTypeOK, CallInv, EndOf
  <2> QED BY <2>1, <2>2
<1> QED BY <1>1, <1>2, <1>3 DEF MapInv

-----------------------------------------------------------------------------

(* Open keeps the invariant. *)
LEMMA OpenStep ==
    ASSUME MapInv, Open PROVE MapInv'
<1> USE DEF MapInv, MapTypeOK, Open
<1>1. MapFor(disk) \in Nat /\ MapFor(disk) >= disk
  BY MapForLarger, MappedAssumption
<1>2. MapTypeOK' BY <1>1, MappedAssumption DEF SizeInv
<1>3. SizeInv' BY <1>1, MappedAssumption DEF SizeInv
<1>4. PlacesGivenOnce' BY <1>1, MappedAssumption DEF PlacesGivenOnce, Place
<1>5. ASSUME NEW t \in Caller PROVE CallInv(t)'
  BY DEF CallInv, AllIdle, NoCall
<1> QED BY <1>2, <1>3, <1>4, <1>5

(* Close keeps the invariant. *)
LEMMA CloseStep ==
    ASSUME MapInv, Close \/ Kill PROVE MapInv'
<1>1. MapTypeOK'
  <2>1. isOpen' \in BOOLEAN BY DEF Close, Kill
  <2>2. CASE Close
    <3>1. /\ disk' \in 0 .. MaxMap /\ fileSize' \in 0 .. MaxFile /\ mapSize' \in 0 .. MaxMap
          /\ address' \in 0 .. 2
      BY <2>2, MappedAssumption DEF MapInv, MapTypeOK, Close
    <3> QED BY <2>1, <2>2, <3>1 DEF MapInv, MapTypeOK, Close
  <2>3. CASE Kill
    <3>1. /\ disk' \in 0 .. MaxMap /\ fileSize' \in 0 .. MaxFile /\ mapSize' \in 0 .. MaxMap
          /\ address' \in 0 .. 2
      BY <2>3, MappedAssumption DEF MapInv, MapTypeOK, Kill
    <3>2. call' \in [Caller -> FileCall] BY <2>3, NoCallTyped DEF Kill
    <3> QED BY <2>1, <2>3, <3>1, <3>2 DEF MapInv, MapTypeOK, Kill
  <2> QED BY <2>2, <2>3
<1>2. isOpen' = FALSE BY DEF Close, Kill
<1>3. ASSUME NEW t \in Caller PROVE call'[t] = NoCall
  BY DEF Close, Kill, AllIdle
<1>4. SizeInv' /\ PlacesGivenOnce' BY <1>2 DEF SizeInv, PlacesGivenOnce
<1>5. ASSUME NEW t \in Caller PROVE CallInv(t)'
  BY <1>3 DEF CallInv, NoCall
<1> QED BY <1>1, <1>4, <1>5 DEF MapInv

(* Truncate keeps the invariant. *)
LEMMA TruncateStep ==
    ASSUME MapInv, NEW size \in 0 .. MaxFile, Truncate(size) PROVE MapInv'
<1> USE DEF MapInv, MapTypeOK, Truncate
<1>1. MapFor(size) \in Nat /\ MapFor(size) >= size
  BY MapForLarger, MappedAssumption
<1>2. MapTypeOK' BY <1>1, MappedAssumption DEF SizeInv
<1>3. SizeInv' BY <1>1, MappedAssumption DEF SizeInv
<1>4. PlacesGivenOnce' BY <1>1, MappedAssumption DEF PlacesGivenOnce, Place
<1>5. ASSUME NEW t \in Caller PROVE CallInv(t)'
  BY DEF CallInv, AllIdle, NoCall
<1> QED BY <1>2, <1>3, <1>4, <1>5

(* A call begins with an end it has read, or a part of the file that exists. *)
LEMMA BeginStep ==
    ASSUME MapInv, NEW t \in Caller, NEW off \in 0 .. MaxFile, NEW n \in ZoneSize,
           BeginAppend(t, n) \/ BeginWrite(t, off, n) \/ BeginRead(t, off, n)
    PROVE  MapInv'
<1>0. n \in 1 .. MaxFile /\ n \in 0 .. MaxFile BY MappedAssumption
<1> USE DEF MapInv, MapTypeOK, FileCall
<1>1. CASE BeginAppend(t, n)
  <2> DEFINE c == [NoCall EXCEPT !.pc = "allocate", !.off = fileSize, !.size = n, !.append = TRUE]
  <2>1. c \in FileCall
    BY <1>0, NoCallTyped DEF FileCall
  <2>2. call' = [call EXCEPT ![t] = c] BY <1>1 DEF BeginAppend, Goes
  <2>3. CallInv(t)'
    BY <1>0, <1>1, <2>2, MappedAssumption DEF BeginAppend, CallInv, EndOf, NoCall
  <2> QED BY <1>1, <2>1, <2>2, <2>3, CallStep DEF BeginAppend
<1>2. CASE BeginWrite(t, off, n)
  <2> DEFINE c == [NoCall EXCEPT !.pc = "allocate", !.off = off, !.size = n]
  <2>1. c \in FileCall
    BY <1>0, NoCallTyped DEF FileCall
  <2>2. call' = [call EXCEPT ![t] = c] BY <1>2 DEF BeginWrite, Goes
  <2>3. CallInv(t)'
    BY <1>0, <1>2, <2>2, MappedAssumption DEF BeginWrite, CallInv, EndOf, NoCall
  <2> QED BY <1>2, <2>1, <2>2, <2>3, CallStep DEF BeginWrite
<1>3. CASE BeginRead(t, off, n)
  <2> DEFINE m == IF off + n <= fileSize THEN n ELSE fileSize - off
             c == [NoCall EXCEPT !.pc = "share", !.off = off, !.size = m]
  <2>0. m \in 0 .. MaxFile /\ off + m <= fileSize
    BY <1>0, <1>3, MappedAssumption DEF BeginRead
  <2>1. c \in FileCall
    BY <2>0, NoCallTyped DEF FileCall
  <2>2. call' = [call EXCEPT ![t] = c] BY <1>3 DEF BeginRead, Goes
  <2>3. CallInv(t)'
    BY <2>0, <1>3, <2>2, MappedAssumption DEF BeginRead, CallInv, EndOf, NoCall
  <2> QED BY <1>3, <2>1, <2>2, <2>3, CallStep DEF BeginRead
<1> QED BY <1>1, <1>2, <1>3

(* The check for space, the two ends of a zone and a failed remap keep the invariant. *)
LEMMA CheckSpaceStep ==
    ASSUME MapInv, NEW t \in Caller, CheckSpace(t) \/ Share(t) \/ Release(t) \/ RemapFails(t)
    PROVE  MapInv'
<1> USE DEF MapInv, MapTypeOK, FileCall
<1>1. CASE CheckSpace(t)
  <2> DEFINE c == [call[t] EXCEPT !.pc = IF EndOf(t) <= mapSize THEN "reserve" ELSE "remap"]
  <2>1. c \in FileCall
    BY DEF FileCall
  <2>2. call' = [call EXCEPT ![t] = c] BY <1>1 DEF CheckSpace, To, Goes
  <2>3. CallInv(t)'
    BY <1>1, <2>2, MappedAssumption DEF CheckSpace, CallInv, EndOf
  <2> QED BY <1>1, <2>1, <2>2, <2>3, CallStep DEF CheckSpace
<1>2. CASE Share(t)
  <2> DEFINE c == [call[t] EXCEPT !.pc = "hold", !.base = address]
  <2>1. c \in FileCall
    BY DEF FileCall
  <2>2. call' = [call EXCEPT ![t] = c] BY <1>2 DEF Share, Goes
  <2>3. CallInv(t)'
    BY <1>2, <2>2, MappedAssumption DEF Share, CallInv, EndOf
  <2> QED BY <1>2, <2>1, <2>2, <2>3, CallStep DEF Share
<1>3. CASE Release(t) \/ RemapFails(t)
  <2>1. NoCall \in FileCall
    BY NoCallTyped
  <2>2. call' = [call EXCEPT ![t] = NoCall] BY <1>3 DEF Release, RemapFails, Goes
  <2>3. CallInv(t)' BY <2>2 DEF CallInv, NoCall
  <2> QED BY <1>3, <2>1, <2>2, <2>3, CallStep DEF Release, RemapFails
<1> QED BY <1>1, <1>2, <1>3

(* The mapping only moves when no thread has a zone, and only grows.         *)
LEMMA RemapStep ==
    ASSUME MapInv, NEW t \in Caller, Remap(t)
    PROVE  MapInv'
<1> USE DEF MapInv, MapTypeOK, FileCall
<1>1. EndOf(t) \in Nat BY MappedAssumption DEF EndOf
<1>2. isOpen BY DEF CallInv, Remap
<1>3. mapSize' \in 0 .. MaxMap /\ disk' \in 0 .. MaxMap /\ mapSize' <= disk'
  /\ mapSize' >= mapSize /\ mapSize' >= EndOf(t) /\ address' \in 1 .. 2
  <2>1. CASE EndOf(t) <= mapSize
    BY <1>1, <1>2, <2>1, MappedAssumption DEF Remap, SizeInv
  <2>2. CASE ~(EndOf(t) <= mapSize)
    <3> DEFINE n == Larger(Larger(EndOf(t), 2 * mapSize), PageSize)
    <3>1. n \in Nat /\ n >= EndOf(t) /\ n >= mapSize
      BY <1>1, MappedAssumption DEF Larger
    <3>2. Aligned(n) \in Nat /\ Aligned(n) >= n BY <3>1, AlignedLarger
    <3>3. mapSize' = Aligned(n) /\ disk' = Aligned(n) /\ Aligned(n) <= MaxMap
      BY <2>2 DEF Remap, NewMapSize
    <3>4. address' \in 1 .. 2 BY <1>2, <2>2 DEF Remap, SizeInv
    <3> QED BY <1>1, <3>1, <3>2, <3>3, <3>4, MappedAssumption
  <2> QED BY <2>1, <2>2
<1> DEFINE c == [call[t] EXCEPT !.pc = "reserve"]
<1>4. call' = [call EXCEPT ![t] = c] /\ isOpen' = isOpen /\ fileSize' = fileSize /\ given' = given
  BY DEF Remap, To, Goes
<1>5. MapTypeOK'
  <2>1. c \in FileCall
    BY DEF FileCall
  <2> QED BY <1>3, <1>4, <2>1
<1>6. SizeInv' BY <1>2, <1>3, <1>4, MappedAssumption DEF SizeInv
<1>7. PlacesGivenOnce' BY <1>4 DEF PlacesGivenOnce
<1>8. ASSUME NEW u \in Caller PROVE CallInv(u)'
  <2>1. CASE u = t
    BY <1>1, <1>2, <1>3, <1>4, <2>1, MappedAssumption DEF CallInv, EndOf, Remap
  <2>2. CASE u # t
    <3>1. call'[u] = call[u] /\ call[u].pc # "hold" BY <1>4, <2>2 DEF Remap
    <3>2. CallInv(u) OBVIOUS
    <3> QED BY <1>3, <1>4, <3>1, <3>2, MappedAssumption DEF CallInv, EndOf
  <2> QED BY <2>1, <2>2
<1> QED BY <1>5, <1>6, <1>7, <1>8

(* The end of the file moves from where every place is given out to where    *)
(* every place is given out, and never back.                                 *)
LEMMA TakeEndStep ==
    ASSUME MapInv, NEW t \in Caller, TakeEnd(t)
    PROVE  MapInv'
<1> USE DEF MapInv, MapTypeOK, FileCall
<1>1. /\ EndOf(t) \in 0 .. MaxFile /\ EndOf(t) <= mapSize /\ isOpen
      /\ EndOf(t) = call[t].off + call[t].size
      /\ CallInv(t)
  BY MappedAssumption DEF CallInv, EndOf, TakeEnd
<1>2. CASE call[t].append /\ fileSize + call[t].size <= MaxFile
           /\ Goes(t, [call[t] EXCEPT !.pc = "allocate", !.off = fileSize]) /\ UNCHANGED <<fileSize, given>>
  <2> DEFINE c == [call[t] EXCEPT !.pc = "allocate", !.off = fileSize]
  <2>1. c \in FileCall
    BY DEF FileCall
  <2>2. call' = [call EXCEPT ![t] = c] BY <1>2 DEF Goes
  <2>3. CallInv(t)'
    BY <1>1, <1>2, <2>2, MappedAssumption DEF TakeEnd, CallInv, EndOf
  <2> QED BY <1>2, <2>1, <2>2, <2>3, CallStep DEF TakeEnd
<1>3. CASE /\ fileSize' = Larger(fileSize, EndOf(t))
           /\ given' = Counted(fileSize, EndOf(t) - 1)
           /\ To(t, "share")
  <2> DEFINE c == [call[t] EXCEPT !.pc = "share"]
  <2>1. fileSize' \in 0 .. MaxFile /\ fileSize <= fileSize' /\ EndOf(t) <= fileSize' /\ fileSize' <= mapSize
    BY <1>1, <1>3, MappedAssumption DEF Larger, SizeInv
  <2>2. call' = [call EXCEPT ![t] = c] /\ UNCHANGED <<disk, isOpen, mapSize, address>>
    BY <1>3 DEF TakeEnd, To, Goes
  <2>3. given' \in [Place -> Nat]
    BY <1>3 DEF Counted
  <2>4. MapTypeOK'
    <3>1. c \in FileCall
      BY DEF FileCall
    <3> QED BY <2>1, <2>2, <2>3, <3>1
  <2>5. SizeInv' BY <2>1, <2>2 DEF SizeInv
  <2>6. PlacesGivenOnce'
    <3>1. ASSUME NEW p \in Place PROVE given'[p] = IF p < fileSize' THEN 1 ELSE 0
      <4>1. given[p] = IF p < fileSize THEN 1 ELSE 0 BY <1>1 DEF PlacesGivenOnce
      <4>2. given'[p] = IF p \in fileSize .. EndOf(t) - 1 THEN given[p] + 1 ELSE given[p]
        BY <1>3 DEF Counted
      <4> QED BY SMTT(30), <1>1, <1>3, <4>1, <4>2, MappedAssumption DEF Larger, Place
    <3> QED BY <3>1 DEF PlacesGivenOnce
  <2>7. ASSUME NEW u \in Caller PROVE CallInv(u)'
    <3>1. CASE u = t
      BY <1>1, <2>1, <2>2, <3>1, MappedAssumption DEF CallInv, EndOf
    <3>2. CASE u # t
      <4>1. call'[u] = call[u] BY <2>2, <3>2
      <4>2. CallInv(u) OBVIOUS
      <4> QED BY <2>1, <2>2, <4>1, <4>2, MappedAssumption DEF CallInv, EndOf
    <3> QED BY <3>1, <3>2
  <2> QED BY <2>4, <2>5, <2>6, <2>7
<1>4. ASSUME call[t].append, fileSize = call[t].off PROVE Larger(fileSize, EndOf(t)) = EndOf(t)
  BY <1>1, <1>4, MappedAssumption DEF Larger
<1> QED BY <1>2, <1>3, <1>4 DEF TakeEnd

-----------------------------------------------------------------------------

(* The invariant of the mapped file: sizes, calls and places agree at every  *)
(* step of every thread, and at Open, Close, Truncate and the kill.          *)
THEOREM MapInvariant == MapSpec => []MapInv
<1>1. MapInit => MapInv
  <2> SUFFICES ASSUME MapInit PROVE MapInv
    OBVIOUS
  <2>1. MapTypeOK
    <3>1. isOpen \in BOOLEAN BY DEF MapInit
    <3>2. call \in [Caller -> FileCall] BY NoCallTyped DEF MapInit
    <3> QED BY <3>1, <3>2, MappedAssumption DEF MapInit, MapTypeOK
  <2>2. SizeInv /\ PlacesGivenOnce BY DEF MapInit, SizeInv, PlacesGivenOnce
  <2>3. ASSUME NEW t \in Caller PROVE CallInv(t) BY DEF MapInit, CallInv, NoCall
  <2> QED BY <2>1, <2>2, <2>3 DEF MapInv
<1>2. MapInv /\ [MapNext]_mapVars => MapInv'
  <2> SUFFICES ASSUME MapInv, [MapNext]_mapVars PROVE MapInv'
    OBVIOUS
  <2>1. CASE Open BY <2>1, OpenStep
  <2>2. CASE Close \/ Kill BY <2>2, CloseStep
  <2>3. ASSUME NEW size \in 0 .. MaxFile, Truncate(size) PROVE MapInv'
    BY <2>3, TruncateStep
  <2>4. ASSUME NEW t \in Caller, MapThread(t) PROVE MapInv'
    <3>1. ASSUME NEW n \in ZoneSize, BeginAppend(t, n) PROVE MapInv'
      <4>1. 0 \in 0 .. MaxFile BY MappedAssumption
      <4> QED BY <3>1, <4>1, BeginStep
    <3>2. ASSUME NEW o \in 0 .. MaxFile, NEW n \in ZoneSize, BeginWrite(t, o, n) \/ BeginRead(t, o, n) PROVE MapInv'
      BY <3>2, BeginStep
    <3>3. CASE CheckSpace(t) \/ Share(t) \/ Release(t) \/ RemapFails(t) BY <3>3, CheckSpaceStep
    <3>4. CASE Remap(t) BY <3>4, RemapStep
    <3>5. CASE TakeEnd(t) BY <3>5, TakeEndStep
    <3> QED BY <2>4, <3>1, <3>2, <3>3, <3>4, <3>5 DEF MapThread
  <2>5. CASE UNCHANGED mapVars
    BY <2>5 DEF mapVars, MapInv, MapTypeOK, SizeInv, PlacesGivenOnce, CallInv, EndOf
  <2> QED BY <2>1, <2>2, <2>3, <2>4, <2>5 DEF MapNext
<1> QED BY <1>1, <1>2, PTL DEF MapSpec

(* A thread that has a zone of the file can use all of it, and every place of *)
(* the file was given out once: atomic sizes read without the lock and a      *)
(* compare and exchange are enough for appending in parallel.                 *)
THEOREM FileIsShared == Spec => []FileShared
<1>1. MapInv => FileShared
  BY MappedAssumption DEF MapInv, MapTypeOK, FileCall, FileShared, ZonesMapped, SizeInv, CallInv, EndOf
<1>2. Init => MapInit BY DEF Init
<1>3. [Next]_vars => [MapNext]_mapVars BY StepsApart
<1>4. Spec => MapSpec BY <1>2, <1>3, PTL DEF Spec, MapSpec
<1> QED BY <1>1, <1>4, MapInvariant, PTL

-----------------------------------------------------------------------------
(* The settings. *)

(* What the user has chosen is a value of the dictionary, and is there under *)
(* its name: a look-up that misses would say nothing.                        *)
SettingsInv ==
    /\ SettingsKept
    /\ \A k \in DOMAIN chosen : chosen[k] \in Choice /\ text.is \in {"whole", "cut"}
    /\ at # "down" => DOMAIN chosen \subseteq DOMAIN values
    /\ text.is # "cut" => DOMAIN chosen \subseteq DOMAIN text.says

(* What one dictionary over another has. *)
LEMMA OverHas ==
    ASSUME NEW f, NEW g
    PROVE  /\ DOMAIN Over(f, g) = DOMAIN f \union DOMAIN g
           /\ \A k \in DOMAIN f : Over(f, g)[k] = f[k]
           /\ \A k \in DOMAIN g \ DOMAIN f : Over(f, g)[k] = g[k]
BY DEF Over

(* The user changes one setting in the file. *)
LEMMA UserKeepsSettings ==
    ASSUME SettingsInv, NEW k \in Setting, NEW v \in Choice, UserWrites(k, v)
    PROVE  SettingsInv'
<1>0. PICK one : one = [j \in {k} |-> v] OBVIOUS
<1>1. DOMAIN one = {k} /\ one[k] = v BY <1>0
<1>2. /\ at = "down" /\ at' = "down"
      /\ text' = [is |-> "whole", says |-> Over(one, text.says)] /\ chosen' = Over(one, chosen)
  BY <1>0 DEF UserWrites, WholeText
<1>3. text'.is = "whole" /\ text'.says = Over(one, text.says) BY <1>2
<1>4. ASSUME NEW f
      PROVE  /\ DOMAIN Over(one, f) = {k} \union DOMAIN f /\ Over(one, f)[k] = v
             /\ \A j \in DOMAIN f \ {k} : Over(one, f)[j] = f[j]
  BY <1>1, OverHas
<1>5. DOMAIN chosen' = {k} \union DOMAIN chosen /\ DOMAIN text'.says = {k} \union DOMAIN text.says
  BY <1>2, <1>3, <1>4
<1>6. /\ chosen'[k] = v /\ \A j \in DOMAIN chosen \ {k} : chosen'[j] = chosen[j]
  BY <1>2, <1>4
<1>7. /\ text'.says[k] = v /\ \A j \in DOMAIN text.says \ {k} : text'.says[j] = text.says[j]
  BY <1>3, <1>4
<1>8. \A j \in DOMAIN chosen' : chosen'[j] \in Choice BY <1>5, <1>6 DEF SettingsInv
<1>9. \A j \in DOMAIN chosen : text.is = "whole" /\ j \in DOMAIN text.says
  BY <1>2 DEF SettingsInv, SettingsKept
<1>10. DOMAIN chosen' \subseteq DOMAIN text'.says BY <1>5, <1>9
<1>11. ASSUME NEW j \in DOMAIN chosen' PROVE text'.says[j] \in {chosen'[j], AsRead[chosen'[j]]}
  <2>1. CASE j = k BY <2>1, <1>6, <1>7
  <2>2. CASE j # k
    <3>1. j \in DOMAIN chosen /\ j \in DOMAIN text.says BY <2>2, <1>5, <1>9, <1>11
    <3>2. text.says[j] \in {chosen[j], AsRead[chosen[j]]}
      BY <3>1, <1>9 DEF SettingsInv, SettingsKept
    <3> QED BY <3>1, <3>2, <2>2, <1>6, <1>7
  <2> QED BY <2>1, <2>2
<1> QED BY <1>2, <1>3, <1>8, <1>10, <1>11 DEF SettingsInv, SettingsKept

(* SimulationSetPath: what was read, and defaults below it. *)
LEMMA LoadKeepsSettings ==
    ASSUME SettingsInv, LoadConfig
    PROVE  SettingsInv'
<1>1. /\ at = "down" /\ at' = "save" /\ text' = text /\ chosen' = chosen
      /\ values' = Over(Parsed(text), ConfigDefaults)
  BY DEF LoadConfig, InitializeConfig
<1>2. PICK read : read = Parsed(text) OBVIOUS
<1>3. values' = Over(read, ConfigDefaults) BY <1>1, <1>2
<1>4. DOMAIN ConfigDefaults \subseteq DOMAIN values' BY <1>3, OverHas
<1>5. DOMAIN read = DOMAIN text.says /\ \A k \in DOMAIN text.says : read[k] = AsRead[text.says[k]]
  BY <1>2 DEF Parsed
<1>6. ASSUME NEW k \in DOMAIN chosen PROVE k \in DOMAIN values' /\ values'[k] = AsRead[chosen[k]]
  <2>1. text.is = "whole" BY <1>1 DEF SettingsInv, SettingsKept
  <2>2. k \in DOMAIN text.says /\ text.says[k] \in {chosen[k], AsRead[chosen[k]]}
    BY <2>1 DEF SettingsInv, SettingsKept
  <2>3. k \in DOMAIN read /\ read[k] = AsRead[text.says[k]] BY <1>5, <2>2
  <2>4. AsRead[AsRead[chosen[k]]] = AsRead[chosen[k]] BY ConfigAssumption DEF SettingsInv
  <2>5. k \in DOMAIN values' /\ values'[k] = read[k] BY <1>3, <2>3, OverHas, ZenonT(60)
  <2> QED BY <2>2, <2>3, <2>4, <2>5
<1> QED BY <1>1, <1>4, <1>6 DEF SettingsInv, SettingsKept

(* With a file that cannot be opened it begins with the defaults. *)
LEMMA NothingReadKeepsSettings ==
    ASSUME SettingsInv, LoadFails
    PROVE  SettingsInv'
<1>1. at' = "save" /\ chosen' = NoSettings /\ values' = Over(NoSettings, ConfigDefaults)
  BY DEF LoadFails, InitializeConfig
<1>2. DOMAIN ConfigDefaults \subseteq DOMAIN values'
  <2>1. PICK read : read = NoSettings OBVIOUS
  <2> QED BY <1>1, <2>1, OverHas
<1>3. DOMAIN chosen' = {} BY <1>1 DEF NoSettings
<1> QED BY <1>1, <1>2, <1>3 DEF SettingsInv, SettingsKept

(* Saves that succeed, fail or are cut, and the end of the program. *)
LEMMA SavesKeepSettings ==
    ASSUME SettingsInv,
           OpenToWrite \/ SaveFails \/ StoreConfig \/ StoreFails \/ SaveAgain \/ EndProgram
    PROVE  SettingsInv'
<1>1. CASE OpenToWrite
  <2>1. at = "save" /\ at' = "write" /\ text'.is = "cut" /\ values' = values /\ chosen' = chosen
    BY <1>1 DEF OpenToWrite, CutText
  <2> QED BY <2>1 DEF SettingsInv, SettingsKept
<1>2. CASE SaveFails \/ SaveAgain \/ StoreFails
  <2>1. at # "down" /\ at' # "down" /\ text' = text /\ values' = values /\ chosen' = chosen
    BY <1>2 DEF SaveFails, SaveAgain, StoreFails
  <2> QED BY <2>1 DEF SettingsInv, SettingsKept
<1>3. CASE StoreConfig
  <2>1. /\ at = "write" /\ at' = "run" /\ text'.is = "whole" /\ text'.says = values
        /\ values' = values /\ chosen' = chosen
    BY <1>3 DEF StoreConfig, WholeText
  <2> QED BY <2>1 DEF SettingsInv, SettingsKept
<1>4. CASE EndProgram
  <2>1. /\ at' = "down" /\ text' = text
        /\ chosen' = IF text.is = "cut" THEN NoSettings ELSE chosen
    BY <1>4 DEF EndProgram
  <2>2. CASE text.is = "cut"
    <3>1. DOMAIN chosen' = {} BY <2>1, <2>2 DEF NoSettings
    <3> QED BY <2>1, <2>2, <3>1 DEF SettingsInv, SettingsKept
  <2>3. CASE text.is # "cut"
    <3>1. \A k \in DOMAIN chosen : text.is = "whole"
      BY <2>3 DEF SettingsInv
    <3> QED BY <2>1, <2>3, <3>1 DEF SettingsInv, SettingsKept
  <2> QED BY <2>2, <2>3
<1> QED BY <1>1, <1>2, <1>3, <1>4

(* SettingsKept: what the user wrote since the last loss stays, with every   *)
(* default the program has, through any sequence of runs, kills and saves    *)
(* that fail before or while they write.                                     *)
THEOREM SettingsAlwaysKept == Spec => []SettingsKept
<1>1. Init => SettingsInv
  BY DEF Init, ConfigInit, NoSettings, SettingsInv, SettingsKept
<1>2. SettingsInv /\ [Next]_vars => SettingsInv'
  <2> SUFFICES ASSUME SettingsInv, [Next]_vars PROVE SettingsInv'
    OBVIOUS
  <2>1. [ConfigNext]_configVars BY StepsApart
  <2>2. CASE UNCHANGED configVars BY <2>2 DEF configVars, SettingsInv, SettingsKept
  <2>3. CASE ConfigNext
    BY <2>3, UserKeepsSettings, LoadKeepsSettings, NothingReadKeepsSettings, SavesKeepSettings DEF ConfigNext
  <2> QED BY <2>1, <2>2, <2>3
<1>3. SettingsInv => SettingsKept BY DEF SettingsInv
<1> QED BY <1>1, <1>2, <1>3, PTL DEF Spec

-----------------------------------------------------------------------------
(* The sphere of a loader. *)

(* A position has a number of quarters on each axis. *)
Somewhere(pos) == pos[1] \in Int /\ pos[2] \in Int /\ pos[3] \in Int

(* A square that is not larger than another belongs to a number between the   *)
(* other one and its opposite.                                               *)
LEMMA SquareBounds ==
    ASSUME NEW x \in Int, NEW r \in Nat
    PROVE  /\ x * x \in Nat
           /\ x * x <= r * r => -r <= x /\ x <= r
<1>1. x * x \in Nat
  <2>1. CASE x >= 0 BY <2>1
  <2>2. CASE x <= 0
    <3>1. (-x) * (-x) \in Nat BY <2>2
    <3>2. (-x) * (-x) = x * x OBVIOUS
    <3> QED BY <3>1, <3>2
  <2> QED BY <2>1, <2>2
<1>2. ASSUME NEW n \in Nat, n > r PROVE n * n > r * r
  <2>1. n * n >= n * r BY <1>2
  <2>2. r * n >= r * r BY <1>2
  <2>3. CASE r = 0 BY <2>3, <1>2
  <2>4. CASE r > 0
    <3>1. r * n > r * r BY <2>4, <1>2
    <3> QED BY <2>1, <3>1
  <2> QED BY <2>3, <2>4
<1>3. ASSUME x > r PROVE x * x > r * r
  <2>1. x \in Nat BY <1>3
  <2> QED BY <2>1, <1>2, <1>3
<1>4. ASSUME x < -r PROVE x * x > r * r
  <2>1. -x \in Nat /\ -x > r BY <1>4
  <2>2. (-x) * (-x) > r * r BY <2>1, <1>2
  <2>3. (-x) * (-x) = x * x OBVIOUS
  <2> QED BY <2>2, <2>3
<1>5. x * x \in Int /\ r * r \in Int OBVIOUS
<1> QED BY <1>1, <1>3, <1>4, <1>5

(* The sum of three squares that is within a square. *)
LEMMA SumBounds ==
    ASSUME NEW x \in Int, NEW y \in Int, NEW z \in Int, NEW r \in Nat,
           Square(x) + Square(y) + Square(z) <= Square(r)
    PROVE  -r <= x /\ x <= r /\ -r <= y /\ y <= r /\ -r <= z /\ z <= r
<1>1. Square(x) \in Nat /\ Square(y) \in Nat /\ Square(z) \in Nat /\ Square(r) \in Nat
  BY SquareBounds DEF Square
<1>2. Square(x) <= Square(r) /\ Square(y) <= Square(r) /\ Square(z) <= Square(r) BY <1>1
<1> QED BY <1>2, SquareBounds DEF Square

(* How far the middle of a node is, for the loops and for the reference.     *)
LEMMA SameDistance ==
    ASSUME NEW pos, Somewhere(pos), NEW it, it[1] \in Int, it[2] \in Int, it[3] \in Int
    PROVE  DistanceSquared(pos, it) = MiddleDistance(pos, it)
<1>1. ASSUME NEW p \in Int, NEW n \in Int PROVE Square(p - 2 - Quarters(n)) = Square(Quarters(n) + 2 - p)
  <2>1. p - 2 - Quarters(n) = -(Quarters(n) + 2 - p) BY DEF Quarters
  <2>2. Quarters(n) + 2 - p \in Int BY DEF Quarters
  <2>3. ASSUME NEW x \in Int PROVE Square(-x) = Square(x) BY DEF Square
  <2> QED BY <2>1, <2>2, <2>3
<1> QED BY <1>1 DEF Somewhere, DistanceSquared, MiddleDistance

(* The loops of one axis: a node whose middle is half a node inside the       *)
(* radius is reached, and so is the node the position is in.                 *)
LEMMA LoopReaches ==
    ASSUME NEW q \in Int, NEW radius \in Nat \ {0}, NEW n \in Int,
           \/ n = q \div 4
           \/ -(Quarters(radius) - 2) <= Quarters(n) + 2 - q /\ Quarters(n) + 2 - q <= Quarters(radius) - 2
    PROVE  n \in Loop(q, radius)
<1> DEFINE a == q - 4 * radius
           b == q + 4 * radius
<1>1. a \in Int /\ b \in Int OBVIOUS
<1>2. 4 * (q \div 4) <= q /\ q < 4 * (q \div 4) + 4 /\ q \div 4 \in Int OBVIOUS
<1>3. a <= 4 * n /\ 4 * n + 4 <= b BY <1>2 DEF Quarters
<1>4. Truncated(a) \in Int /\ Truncated(b) \in Int BY <1>1 DEF Truncated
<1>5. Truncated(a) <= n
  <2>1. CASE a >= 0
    <3>1. Truncated(a) = a \div 4 BY <2>1 DEF Truncated
    <3> QED BY <3>1, <1>1, <1>3
  <2>2. CASE a < 0
    <3>1. Truncated(a) = -((-a) \div 4) BY <2>2 DEF Truncated
    <3> QED BY <3>1, <1>1, <1>3
  <2> QED BY <2>1, <2>2, <1>1
<1>6. n <= Truncated(b) - 1
  <2>1. CASE b >= 0
    <3>1. Truncated(b) = b \div 4 BY <2>1 DEF Truncated
    <3> QED BY <3>1, <1>1, <1>3
  <2>2. CASE b < 0
    <3>1. Truncated(b) = -((-b) \div 4) BY <2>2 DEF Truncated
    <3> QED BY <3>1, <1>1, <1>3
  <2> QED BY <2>1, <2>2, <1>1
<1>7. Loop(q, radius) = Truncated(a) .. Truncated(b) - 1 BY DEF Loop, Quarters
<1> QED BY <1>4, <1>5, <1>6, <1>7

(* A node the loops reach, and whose distance is right, is in the ball: its   *)
(* number on each axis is in the span of the ball.                           *)
LEMMA SpanReaches ==
    ASSUME NEW p \in Int, NEW q \in Nat, NEW n \in Int,
           -q <= Quarters(n) + 2 - p /\ Quarters(n) + 2 - p <= q
    PROVE  n \in (p - q - 4) \div 4 .. (p + q + 4) \div 4
<1>1. p - q - 4 <= 4 * n /\ 4 * n <= p + q + 4 BY DEF Quarters
<1>2. ASSUME NEW a \in Int, a <= 4 * n PROVE a \div 4 <= n BY <1>2
<1>3. ASSUME NEW b \in Int, 4 * n <= b PROVE n <= b \div 4 BY <1>3
<1>4. p - q - 4 \in Int /\ p + q + 4 \in Int OBVIOUS
<1>5. (p - q - 4) \div 4 \in Int /\ (p + q + 4) \div 4 \in Int BY <1>4
<1> QED BY <1>1, <1>2, <1>3, <1>4, <1>5

(* The members of the loops and of the sphere. *)
LEMMA SphereHas ==
    ASSUME NEW pos, Somewhere(pos), NEW radius \in Nat, NEW it
    PROVE  /\ it \in ForEachCoordInSphere(pos, radius) <=>
                /\ it \in Loop(pos[1], radius) \X Loop(pos[2], radius) \X Loop(pos[3], radius)
                /\ DistanceSquared(pos, it) < Square(Quarters(radius))
           /\ it \in Inside(pos, radius) <=>
                /\ it \in ((pos[1] - Quarters(radius) - 4) \div 4 .. (pos[1] + Quarters(radius) + 4) \div 4)
                        \X ((pos[2] - Quarters(radius) - 4) \div 4 .. (pos[2] + Quarters(radius) + 4) \div 4)
                        \X ((pos[3] - Quarters(radius) - 4) \div 4 .. (pos[3] + Quarters(radius) + 4) \div 4)
                /\ MiddleDistance(pos, it) < Square(Quarters(radius))
BY DEF ForEachCoordInSphere, Inside

(* Numbers of nodes are whole. *)
LEMMA NodeNumbers ==
    ASSUME NEW pos, Somewhere(pos), NEW radius \in Nat, NEW it,
           it \in ForEachCoordInSphere(pos, radius) \/ it \in Inside(pos, radius)
    PROVE  it = <<it[1], it[2], it[3]>> /\ it[1] \in Int /\ it[2] \in Int /\ it[3] \in Int
BY SphereHas DEF Loop

(* The node a position is in is touched. *)
LEMMA OwnNodeTouched ==
    ASSUME NEW pos, Somewhere(pos), NEW radius \in Nat \ {0}
    PROVE  NodeOf(pos) \in ForEachCoordInSphere(pos, radius)
<1>1. PICK it : it = NodeOf(pos) OBVIOUS
<1>2. /\ it = <<it[1], it[2], it[3]>>
      /\ it[1] = pos[1] \div 4 /\ it[2] = pos[2] \div 4 /\ it[3] = pos[3] \div 4
  BY <1>1 DEF NodeOf
<1>3. it[1] \in Int /\ it[2] \in Int /\ it[3] \in Int BY <1>2 DEF Somewhere
<1>4. it \in Loop(pos[1], radius) \X Loop(pos[2], radius) \X Loop(pos[3], radius)
  BY <1>2, <1>3, LoopReaches DEF Somewhere
<1>5. ASSUME NEW p \in Int PROVE Square(p - 2 - Quarters(p \div 4)) \in 0 .. 4
  <2>1. p - 2 - Quarters(p \div 4) \in {-2, -1, 0, 1} BY DEF Quarters
  <2>2. \A x \in {-2, -1, 0, 1} : Square(x) \in 0 .. 4 BY DEF Square
  <2> QED BY <2>1, <2>2
<1>6. DistanceSquared(pos, it) <= 12 BY <1>2, <1>5 DEF DistanceSquared, Somewhere
<1>7. Square(Quarters(radius)) >= 16
  <2>1. radius * radius >= 1
    <3>1. radius >= 1 BY radius \in Nat \ {0}
    <3> QED BY <3>1
  <2>2. Square(Quarters(radius)) = 16 * (radius * radius) BY DEF Square, Quarters
  <2>3. radius * radius \in Int OBVIOUS
  <2> QED BY <2>1, <2>2, <2>3
<1>8. DistanceSquared(pos, it) < Square(Quarters(radius))
  <2>1. DistanceSquared(pos, it) \in Int BY <1>2, <1>5 DEF DistanceSquared, Somewhere
  <2>2. Square(Quarters(radius)) \in Int BY DEF Square, Quarters
  <2> QED BY <2>1, <2>2, <1>6, <1>7
<1> QED BY <1>1, <1>4, <1>8, SphereHas

(* Every node of the sphere that does not stick out is touched. *)
LEMMA InnerTouched ==
    ASSUME NEW pos, Somewhere(pos), NEW radius \in Nat \ {0}, NEW it \in Inside(pos, radius),
           \A a \in Axis : ~SticksOut(pos, radius, it, a)
    PROVE  it \in ForEachCoordInSphere(pos, radius)
<1>1. /\ it = <<it[1], it[2], it[3]>> /\ it[1] \in Int /\ it[2] \in Int /\ it[3] \in Int
      /\ MiddleDistance(pos, it) < Square(Quarters(radius))
  BY NodeNumbers, SphereHas
<1>2. ASSUME NEW a \in Axis, it[a] \in Int, pos[a] \in Int PROVE it[a] \in Loop(pos[a], radius)
  <2>1. ~SticksOut(pos, radius, it, a) OBVIOUS
  <2> DEFINE n == it[a]
             q == pos[a]
  <2>2. n \in Int /\ q \in Int BY <1>2
  <2>3. ~(Quarters(n) < q - Quarters(radius)) /\ ~(Quarters(n) + 4 > q + Quarters(radius))
    BY <2>1 DEF SticksOut
  <2> HIDE DEF n, q
  <2>4. -(Quarters(radius) - 2) <= Quarters(n) + 2 - q /\ Quarters(n) + 2 - q <= Quarters(radius) - 2
    BY <2>2, <2>3 DEF Quarters
  <2>5. n \in Loop(q, radius) BY <2>2, <2>4, LoopReaches
  <2> QED BY <2>5 DEF n, q
<1>3. it[1] \in Loop(pos[1], radius) /\ it[2] \in Loop(pos[2], radius) /\ it[3] \in Loop(pos[3], radius)
  BY <1>1, <1>2 DEF Axis, Somewhere
<1>4. it \in Loop(pos[1], radius) \X Loop(pos[2], radius) \X Loop(pos[3], radius)
  BY <1>1, <1>3
<1>5. DistanceSquared(pos, it) < Square(Quarters(radius)) BY <1>1, SameDistance
<1> QED BY <1>4, <1>5, SphereHas

(* No node whose middle is outside is touched. *)
LEMMA OuterUntouched ==
    ASSUME NEW pos, Somewhere(pos), NEW radius \in Nat
    PROVE  ForEachCoordInSphere(pos, radius) \subseteq Inside(pos, radius)
<1> DEFINE q == Quarters(radius)
<1>1. q \in Nat BY DEF Quarters
<1> HIDE DEF q
<1>2. SUFFICES ASSUME NEW it \in ForEachCoordInSphere(pos, radius) PROVE it \in Inside(pos, radius)
  OBVIOUS
<1>3. /\ it = <<it[1], it[2], it[3]>> /\ it[1] \in Int /\ it[2] \in Int /\ it[3] \in Int
      /\ DistanceSquared(pos, it) < Square(q)
  BY NodeNumbers, SphereHas DEF q
<1> DEFINE x == Quarters(it[1]) + 2 - pos[1]
           y == Quarters(it[2]) + 2 - pos[2]
           z == Quarters(it[3]) + 2 - pos[3]
<1>4. x \in Int /\ y \in Int /\ z \in Int /\ MiddleDistance(pos, it) = Square(x) + Square(y) + Square(z)
  BY <1>3 DEF Somewhere, Quarters, MiddleDistance
<1>5. MiddleDistance(pos, it) < Square(q) BY <1>3, SameDistance
<1>6. -q <= x /\ x <= q /\ -q <= y /\ y <= q /\ -q <= z /\ z <= q
  <2>1. Square(x) \in Int /\ Square(y) \in Int /\ Square(z) \in Int BY <1>4 DEF Square
  <2>2. Square(q) \in Int BY <1>1 DEF Square
  <2> HIDE DEF x, y, z
  <2>3. Square(x) + Square(y) + Square(z) <= Square(q) BY <1>4, <1>5, <2>1, <2>2
  <2> QED BY <1>1, <1>4, <2>3, SumBounds
<1>7. /\ it[1] \in (pos[1] - q - 4) \div 4 .. (pos[1] + q + 4) \div 4
      /\ it[2] \in (pos[2] - q - 4) \div 4 .. (pos[2] + q + 4) \div 4
      /\ it[3] \in (pos[3] - q - 4) \div 4 .. (pos[3] + q + 4) \div 4
  BY <1>1, <1>3, <1>6, SpanReaches DEF Somewhere
<1> QED BY <1>3, <1>5, <1>7, SphereHas DEF q

(* Where a loader is, and what it has touched. *)
LoaderInv == loader \in [1 .. 3 -> Int] /\ touched = ForEachCoordInSphere(loader, DistPerLod)

(* SphereCovered: on whichever side of the origin and however far out, and    *)
(* for every radius from one node up, the loops touch no node outside of the *)
(* sphere, and miss only nodes that stick out of the cube around it.         *)
THEOREM SphereAlwaysCovered == Spec => []SphereCovered
<1>1. Init => LoaderInv
  <2>1. <<0, 0, 0>> \in [1 .. 3 -> Int] OBVIOUS
  <2> QED BY <2>1 DEF Init, LoaderInv
<1>2. LoaderInv /\ [Next]_vars => LoaderInv'
  <2> SUFFICES ASSUME LoaderInv, [Next]_vars PROVE LoaderInv'
    OBVIOUS
  <2>1. [LoaderStep]_loaderVars BY StepsApart
  <2>2. CASE UNCHANGED loaderVars BY <2>2 DEF loaderVars, LoaderInv
  <2>3. ASSUME NEW a \in Axis, NEW d \in {-1, 1}, MoveLoader(a, d) PROVE LoaderInv'
    <3>1. loader' = [loader EXCEPT ![a] = @ + d] /\ touched' = ForEachCoordInSphere(loader', DistPerLod)
      BY <2>3 DEF MoveLoader
    <3>2. loader[a] + d \in Int BY DEF LoaderInv, Axis
    <3> QED BY <3>1, <3>2 DEF LoaderInv
  <2> QED BY <2>1, <2>2, <2>3 DEF LoaderStep
<1>3. LoaderInv => SphereCovered
  <2> SUFFICES ASSUME LoaderInv PROVE SphereCovered
    OBVIOUS
  <2>1. Somewhere(loader) BY DEF LoaderInv, Somewhere
  <2>2. DistPerLod \in Nat \ {0} BY UtilitiesAssumption
  <2> QED BY <2>1, <2>2, OwnNodeTouched, InnerTouched, OuterUntouched DEF LoaderInv, SphereCovered
<1> QED BY <1>1, <1>2, <1>3, PTL DEF Spec

-----------------------------------------------------------------------------
(* The vector. *)

Cell == Value \union {Garbage}

(* Memory of so many cells holds a list. *)
Stored(cells, size, capacity, l) ==
    /\ capacity \in Nat \ {0} /\ cells \in [1 .. capacity -> Cell]
    /\ l \in Seq(Cell) /\ size = Len(l) /\ size <= capacity
    /\ \A i \in 1 .. size : cells[i] = l[i]

VectorOK(v, l) ==
    /\ v = [m_size |-> v.m_size, m_capacity |-> v.m_capacity, heap |-> v.heap, cells |-> v.cells]
    /\ v.heap \in BOOLEAN
    /\ Stored(v.cells, v.m_size, v.m_capacity, l)

(* Front without the folding of its definition. *)
LEMMA FrontIs ==
    ASSUME NEW S, NEW l \in Seq(S), l # <<>>
    PROVE  /\ Len(l) \in Nat \ {0}
           /\ Front(l) \in Seq(S) /\ Len(Front(l)) = Len(l) - 1
           /\ \A i \in 1 .. Len(l) - 1 : Front(l)[i] = l[i]
<1> DEFINE n == Len(l) - 1
<1>1. Len(l) \in Nat \ {0} /\ n \in Nat BY EmptySeq
<1>2. \A i \in 1 .. n : l[i] \in S BY <1>1
<1> HIDE DEF n
<1>3. /\ SubSeq(l, 1, n) \in Seq(S)
      /\ Len(SubSeq(l, 1, n)) = IF 1 <= n THEN n - 1 + 1 ELSE 0
      /\ \A i \in 1 .. n - 1 + 1 : SubSeq(l, 1, n)[i] = l[1 + i - 1]
  BY <1>1, <1>2, SubSeqProperties
<1>4. Front(l) = SubSeq(l, 1, n) BY DEF Front, n
<1>5. Len(Front(l)) = n /\ \A i \in 1 .. n : Front(l)[i] = l[i]
  BY <1>1, <1>3, <1>4
<1> QED BY <1>1, <1>3, <1>4, <1>5 DEF n

(* What Contents returns is the list exactly if the cells hold it.            *)
LEMMA ContentsAre ==
    ASSUME NEW cells, NEW capacity \in Nat, cells \in [1 .. capacity -> Cell],
           NEW l \in Seq(Cell), Len(l) <= capacity
    PROVE  SubSeq(cells, 1, Len(l)) = l <=> \A i \in 1 .. Len(l) : cells[i] = l[i]
<1> DEFINE n == Len(l)
           m == SubSeq(cells, 1, n)
<1>1. n \in Nat /\ n <= capacity OBVIOUS
<1>2. \A i \in 1 .. n : cells[i] \in Cell BY <1>1
<1>3. m \in Seq(Cell) /\ Len(m) = n /\ \A i \in 1 .. n : m[i] = cells[i]
  <2> HIDE DEF n
  <2>1. /\ SubSeq(cells, 1, n) \in Seq(Cell)
        /\ Len(SubSeq(cells, 1, n)) = IF 1 <= n THEN n - 1 + 1 ELSE 0
        /\ \A i \in 1 .. n - 1 + 1 : SubSeq(cells, 1, n)[i] = cells[1 + i - 1]
    BY <1>1, <1>2, SubSeqProperties
  <2> QED BY <1>1, <2>1
<1>4. l \in Seq(Cell) OBVIOUS
<1> HIDE DEF m, n
<1>5. (\A i \in 1 .. n : cells[i] = l[i]) => m = l BY <1>3, <1>4, SeqEqual DEF n
<1>6. m = l => \A i \in 1 .. n : cells[i] = l[i] BY <1>3
<1> QED BY <1>5, <1>6 DEF m, n

(* A function on the first numbers is a sequence, and the other way round.    *)
LEMMA CellsAre ==
    ASSUME NEW cells, NEW capacity \in Nat
    PROVE  cells \in [1 .. capacity -> Cell] <=> cells \in Seq(Cell) /\ Len(cells) = capacity
<1>1. ASSUME cells \in [1 .. capacity -> Cell] PROVE cells \in Seq(Cell) /\ Len(cells) = capacity
  <2>1. cells \in Seq(Cell) BY <1>1, SeqDef
  <2>2. 1 .. Len(cells) = 1 .. capacity /\ Len(cells) \in Nat BY <1>1, <2>1, LenProperties
  <2> QED BY <2>1, <2>2
<1>2. ASSUME cells \in Seq(Cell), Len(cells) = capacity PROVE cells \in [1 .. capacity -> Cell]
  BY <1>2, LenProperties
<1> QED BY <1>1, <1>2

(* The invariant, said of the cells. *)
LEMMA VectorInvIs == VectorInv <=> VectorOK(vector, list)
<1>1. ASSUME VectorInv PROVE VectorOK(vector, list)
  <2>1. /\ vector.m_capacity \in Nat \ {0} /\ vector.cells \in Seq(Cell)
        /\ Len(vector.cells) = vector.m_capacity
        /\ vector = [m_size |-> vector.m_size, m_capacity |-> vector.m_capacity,
                     heap |-> vector.heap, cells |-> vector.cells]
        /\ vector.heap \in BOOLEAN
    BY <1>1 DEF VectorInv, VectorHolds, Cell
  <2>2. vector.cells \in [1 .. vector.m_capacity -> Cell] BY <2>1, CellsAre
  <2>3. /\ list \in Seq(Cell) /\ vector.m_size = Len(list) /\ Len(list) <= vector.m_capacity
        /\ SubSeq(vector.cells, 1, Len(list)) = list
    BY <1>1 DEF VectorInv, VectorHolds, Contents, Cell
  <2>4. \A i \in 1 .. Len(list) : vector.cells[i] = list[i]
    BY <2>1, <2>2, <2>3, ContentsAre
  <2> QED BY <2>1, <2>2, <2>3, <2>4 DEF VectorOK, Stored
<1>2. ASSUME VectorOK(vector, list) PROVE VectorInv
  <2>1. /\ vector.m_capacity \in Nat \ {0} /\ vector.cells \in [1 .. vector.m_capacity -> Cell]
        /\ vector.heap \in BOOLEAN
        /\ vector = [m_size |-> vector.m_size, m_capacity |-> vector.m_capacity,
                     heap |-> vector.heap, cells |-> vector.cells]
        /\ list \in Seq(Cell) /\ vector.m_size = Len(list) /\ Len(list) <= vector.m_capacity
        /\ \A i \in 1 .. Len(list) : vector.cells[i] = list[i]
    BY <1>2 DEF VectorOK, Stored
  <2>2. vector.cells \in Seq(Cell) /\ Len(vector.cells) = vector.m_capacity BY <2>1, CellsAre
  <2>3. vector.m_size \in Nat BY <2>1
  <2>4. vector \in [m_size : Nat, m_capacity : Nat \ {0}, heap : BOOLEAN, cells : Seq(Cell)]
    BY <2>1, <2>2, <2>3
  <2>5. Contents(vector) = list BY <2>1, ContentsAre DEF Contents
  <2> QED BY <2>1, <2>2, <2>4, <2>5 DEF VectorInv, VectorHolds, Cell
<1> QED BY <1>1, <1>2

(* A vector and what it is called with. *)
LEMMA VectorFields ==
    ASSUME NEW v, NEW l, VectorOK(v, l)
    PROVE  /\ v.m_capacity \in Nat \ {0} /\ v.cells \in [1 .. v.m_capacity -> Cell]
           /\ l \in Seq(Cell) /\ v.m_size = Len(l) /\ Len(l) \in Nat /\ v.m_size <= v.m_capacity
           /\ \A i \in 1 .. v.m_size : v.cells[i] = l[i]
           /\ v.heap \in BOOLEAN /\ Garbage \in Cell /\ Value \subseteq Cell
BY LenProperties DEF VectorOK, Stored, Cell

(* A vector by its fields, for the prover. *)
IsVector(v, s, c, h, k) == v = [m_size |-> s, m_capacity |-> c, heap |-> h, cells |-> k]

LEMMA ReserveIs ==
    ASSUME NEW s, NEW c, NEW h, NEW k, NEW v, IsVector(v, s, c, h, k), NEW n, ~(n <= c)
    PROVE  IsVector(reserve(v, n), s, n, TRUE, reserve(v, n).cells)
BY DEF IsVector, reserve

LEMMA WrittenIs ==
    ASSUME NEW s, NEW c, NEW h, NEW k, NEW v, IsVector(v, s, c, h, k), NEW value,
           s + 1 \in DOMAIN k
    PROVE  IsVector(Written(v, value), s + 1, c, h, [k EXCEPT ![s + 1] = value])
<1> DEFINE r == [m_size |-> s, m_capacity |-> c, heap |-> h, cells |-> k]
<1>1. v = r BY DEF IsVector
<1>2. r.m_size = s /\ r.cells = k OBVIOUS
<1>3. s + 1 \in DOMAIN r.cells BY <1>2
<1>4. Written(r, value) = [r EXCEPT !.cells = [k EXCEPT ![s + 1] = value], !.m_size = s + 1]
  BY <1>2, <1>3 DEF Written
<1>5. Written(r, value) = [m_size |-> s + 1, m_capacity |-> c, heap |-> h, cells |-> [k EXCEPT ![s + 1] = value]]
  BY <1>4
<1> QED BY <1>1, <1>5 DEF IsVector

LEMMA PopIs ==
    ASSUME NEW s, NEW c, NEW h, NEW k, NEW v, IsVector(v, s, c, h, k), s # 0
    PROVE  IsVector(pop_back(v), s - 1, c, h, [k EXCEPT ![s] = Garbage])
BY DEF IsVector, pop_back

LEMMA CellsIs ==
    ASSUME NEW s, NEW c, NEW h, NEW k, NEW v, IsVector(v, s, c, h, k), NEW new
    PROVE  IsVector([v EXCEPT !.cells = new], s, c, h, new)
BY DEF IsVector

LEMMA OwnFields ==
    ASSUME NEW v, NEW l, VectorOK(v, l)
    PROVE  IsVector(v, v.m_size, v.m_capacity, v.heap, v.cells)
BY DEF VectorOK, IsVector

(* What becomes of a list when a vector gets another block. *)
ListAfter(v, new, l) == IF new.heap /\ ~v.heap THEN [i \in DOMAIN l |-> Garbage] ELSE l

LEMMA ListAfterHas ==
    ASSUME NEW v, NEW new, NEW l \in Seq(Cell)
    PROVE  /\ ListAfter(v, new, l) \in Seq(Cell) /\ Len(ListAfter(v, new, l)) = Len(l)
           /\ ~(new.heap /\ ~v.heap) => ListAfter(v, new, l) = l
           /\ new.heap /\ ~v.heap => \A i \in 1 .. Len(l) : ListAfter(v, new, l)[i] = Garbage
<1> DEFINE g == [i \in DOMAIN l |-> Garbage]
<1>1. DOMAIN l = 1 .. Len(l) /\ Len(l) \in Nat BY LenProperties
<1>2. g \in [1 .. Len(l) -> Cell] /\ \A i \in 1 .. Len(l) : g[i] = Garbage BY <1>1 DEF Cell
<1> HIDE DEF g
<1>3. g \in Seq(Cell) /\ Len(g) = Len(l) BY <1>1, <1>2, CellsAre
<1>4. CASE new.heap /\ ~v.heap
  <2>1. ListAfter(v, new, l) = g BY <1>4 DEF ListAfter, g
  <2> QED BY <1>2, <1>3, <1>4, <2>1
<1>5. CASE ~(new.heap /\ ~v.heap)
  <2>1. ListAfter(v, new, l) = l BY <1>5 DEF ListAfter
  <2> QED BY <1>5, <2>1
<1> QED BY <1>4, <1>5

(* reserve keeps the items of the heap, and leaves those behind that were in  *)
(* the vector's own cells.                                                   *)
LEMMA ReserveKeeps ==
    ASSUME NEW v, NEW l, VectorOK(v, l), NEW n \in Nat
    PROVE  VectorOK(reserve(v, n), ListAfter(v, reserve(v, n), l))
<1>1. CASE n <= v.m_capacity
  <2>1. reserve(v, n) = v BY <1>1 DEF reserve
  <2>2. ListAfter(v, v, l) = l BY DEF ListAfter
  <2> QED BY <2>1, <2>2
<1>2. CASE ~(n <= v.m_capacity)
  <2> DEFINE cells == [i \in 1 .. n |-> IF v.heap /\ i <= v.m_size THEN v.cells[i] ELSE Garbage]
             w == [m_size |-> v.m_size, m_capacity |-> n, heap |-> TRUE, cells |-> cells]
  <2>1. /\ v.m_capacity \in Nat \ {0} /\ v.cells \in [1 .. v.m_capacity -> Cell]
        /\ l \in Seq(Cell) /\ v.m_size = Len(l) /\ Len(l) \in Nat /\ v.m_size <= v.m_capacity
        /\ \A i \in 1 .. v.m_size : v.cells[i] = l[i]
        /\ v.heap \in BOOLEAN /\ Garbage \in Cell
    BY VectorFields
  <2>2. reserve(v, n) = w BY <1>2 DEF reserve, VectorOK
  <2>3. cells \in [1 .. n -> Cell]
    <3>1. ASSUME NEW i \in 1 .. n, i <= v.m_size PROVE v.cells[i] \in Cell
      <4>1. i \in 1 .. v.m_capacity BY <2>1, <3>1
      <4> QED BY <2>1, <4>1
    <3> QED BY <2>1, <3>1
  <2>4. w.heap = TRUE /\ w.m_size = v.m_size /\ w.m_capacity = n /\ w.cells = cells
        /\ w = [m_size |-> w.m_size, m_capacity |-> w.m_capacity, heap |-> w.heap, cells |-> w.cells]
    OBVIOUS
  <2>5. n \in Nat \ {0} /\ v.m_size <= n /\ \A i \in 1 .. v.m_size : i \in 1 .. n /\ i <= v.m_size
    BY <1>2, <2>1
  <2> DEFINE k == ListAfter(v, w, l)
  <2>6. /\ k \in Seq(Cell) /\ Len(k) = Len(l)
        /\ v.heap => k = l
        /\ ~v.heap => \A i \in 1 .. Len(l) : k[i] = Garbage
    <3> HIDE DEF w
    <3> QED BY <2>1, <2>4, ListAfterHas
  <2>7. ASSUME NEW i \in 1 .. v.m_size PROVE cells[i] = k[i]
    <3> HIDE DEF k
    <3>1. i \in 1 .. n /\ i <= v.m_size /\ i \in 1 .. Len(l) BY <2>1, <2>5
    <3>2. CASE v.heap
      <4>1. cells[i] = v.cells[i] BY <3>1, <3>2
      <4> QED BY <2>1, <2>6, <3>2, <4>1
    <3>3. CASE ~v.heap
      <4>1. cells[i] = Garbage BY <3>1, <3>3
      <4> QED BY <2>6, <3>1, <3>3, <4>1
    <3> QED BY <3>2, <3>3
  <2> HIDE DEF cells, w, k
  <2>8. VectorOK(w, k) BY <2>1, <2>3, <2>4, <2>5, <2>6, <2>7 DEF VectorOK, Stored
  <2> QED BY <2>2, <2>8 DEF k
<1> QED BY <1>1, <1>2

(* A vector of which everything but its cells and its size stays.             *)
LEMMA NewCells ==
    ASSUME NEW v, NEW l, VectorOK(v, l),
           NEW cells \in [1 .. v.m_capacity -> Cell], NEW k \in Seq(Cell),
           Len(k) <= v.m_capacity,
           \A i \in 1 .. Len(k) : cells[i] = k[i]
    PROVE  VectorOK([m_size |-> Len(k), m_capacity |-> v.m_capacity, heap |-> v.heap, cells |-> cells], k)
BY VectorFields DEF VectorOK, Stored

(* An item that fits is put behind the others. *)
LEMMA WrittenKeeps ==
    ASSUME NEW v, NEW l, VectorOK(v, l), NEW value \in Value, v.m_size + 1 <= v.m_capacity
    PROVE  VectorOK(Written(v, value), Append(l, value))
<1> DEFINE n == v.m_size + 1
           cells == [v.cells EXCEPT ![n] = value]
<1>1. /\ v.m_capacity \in Nat \ {0} /\ v.cells \in [1 .. v.m_capacity -> Cell]
      /\ l \in Seq(Cell) /\ v.m_size = Len(l) /\ Len(l) \in Nat /\ v.m_size <= v.m_capacity
      /\ \A i \in 1 .. v.m_size : v.cells[i] = l[i]
      /\ v.heap \in BOOLEAN /\ Garbage \in Cell /\ Value \subseteq Cell
  BY VectorFields
<1>2. /\ Append(l, value) \in Seq(Cell) /\ Len(Append(l, value)) = n
      /\ \A i \in 1 .. Len(l) : Append(l, value)[i] = l[i]
      /\ Append(l, value)[Len(l) + 1] = value
  BY <1>1, AppendProperties
<1>3. n \in DOMAIN v.cells BY <1>1
<1>4. Written(v, value) = [m_size |-> n, m_capacity |-> v.m_capacity, heap |-> v.heap, cells |-> cells]
  BY <1>3, OwnFields, WrittenIs DEF IsVector
<1>5. cells \in [1 .. v.m_capacity -> Cell] BY <1>1
<1>6. ASSUME NEW i \in 1 .. n PROVE cells[i] = Append(l, value)[i] BY <1>1, <1>2
<1> HIDE DEF cells
<1>7. VectorOK([m_size |-> Len(Append(l, value)), m_capacity |-> v.m_capacity, heap |-> v.heap, cells |-> cells],
               Append(l, value))
  BY <1>1, <1>2, <1>5, <1>6, NewCells
<1> QED BY <1>2, <1>4, <1>7

(* emplace_back appends the item, in a larger block if need be. *)
LEMMA EmplaceKeeps ==
    ASSUME NEW v, NEW l, VectorOK(v, l), NEW value \in Value
    PROVE  VectorOK(emplace_back(v, value), Append(ListAfter(v, emplace_back(v, value), l), value))
<1> DEFINE n == v.m_size + 1
           g == grow(v, n)
           k == ListAfter(v, g, l)
           e == emplace_back(v, value)
<1>1. v.m_capacity \in Nat \ {0} /\ v.m_size \in Nat /\ v.m_size <= v.m_capacity BY VectorFields
<1>2. VectorOK(g, k) /\ g.m_size = v.m_size /\ n <= g.m_capacity
  <2>1. CASE ~(n > v.m_capacity)
    <3>1. g = v BY <2>1 DEF grow
    <3>2. ListAfter(v, v, l) = l BY DEF ListAfter
    <3> QED BY <1>1, <2>1, <3>1, <3>2
  <2>2. CASE n > v.m_capacity
    <3> DEFINE c == v.m_capacity * 2
    <3>1. c \in Nat /\ ~(c <= v.m_capacity) /\ n <= c BY <1>1, <2>2
    <3>2. g = reserve(v, c) BY <2>2 DEF grow
    <3> HIDE DEF c, g
    <3>3. VectorOK(reserve(v, c), ListAfter(v, reserve(v, c), l)) BY <3>1, ReserveKeeps
    <3>4. IsVector(reserve(v, c), v.m_size, c, TRUE, reserve(v, c).cells) BY <3>1, OwnFields, ReserveIs
    <3>5. g.m_size = v.m_size /\ g.m_capacity = c BY <3>2, <3>4 DEF IsVector
    <3> QED BY <3>1, <3>2, <3>3, <3>5 DEF k
  <2> QED BY <2>1, <2>2
<1>3. e = Written(g, value) BY DEF emplace_back
<1> HIDE DEF g, k
<1>4. VectorOK(Written(g, value), Append(k, value))
  <2>1. g.m_size + 1 <= g.m_capacity BY <1>2
  <2> QED BY <1>2, <2>1, WrittenKeeps
<1>5. Written(g, value).heap = g.heap
  <2>1. IsVector(g, g.m_size, g.m_capacity, g.heap, g.cells) BY <1>2, OwnFields
  <2>2. g.m_size + 1 \in DOMAIN g.cells BY <1>1, <1>2, VectorFields
  <2>3. IsVector(Written(g, value), g.m_size + 1, g.m_capacity, g.heap, [g.cells EXCEPT ![g.m_size + 1] = value])
    BY <2>1, <2>2, WrittenIs
  <2> QED BY <2>3 DEF IsVector
<1>6. ListAfter(v, e, l) = k BY <1>3, <1>5 DEF ListAfter, k
<1> QED BY <1>3, <1>4, <1>6

(* pop_back removes the last item. *)
LEMMA PopKeeps ==
    ASSUME NEW v, NEW l, VectorOK(v, l), l # <<>>
    PROVE  VectorOK(pop_back(v), Front(l))
<1> DEFINE n == v.m_size
           cells == [v.cells EXCEPT ![n] = Garbage]
<1>1. /\ v.m_capacity \in Nat \ {0} /\ v.cells \in [1 .. v.m_capacity -> Cell]
      /\ l \in Seq(Cell) /\ v.m_size = Len(l) /\ Len(l) \in Nat /\ v.m_size <= v.m_capacity
      /\ \A i \in 1 .. v.m_size : v.cells[i] = l[i]
      /\ v.heap \in BOOLEAN /\ Garbage \in Cell
  BY VectorFields
<1>2. v = [m_size |-> v.m_size, m_capacity |-> v.m_capacity, heap |-> v.heap, cells |-> v.cells]
  BY DEF VectorOK
<1>3. n \in Nat \ {0} BY <1>1, EmptySeq
<1>4. Front(l) \in Seq(Cell) /\ Len(Front(l)) = n - 1 /\ \A i \in 1 .. n - 1 : Front(l)[i] = l[i]
  BY <1>1, <1>3, FrontIs
<1>5. pop_back(v) = [m_size |-> n - 1, m_capacity |-> v.m_capacity, heap |-> v.heap, cells |-> cells]
  BY <1>3, OwnFields, PopIs DEF IsVector
<1>6. cells \in [1 .. v.m_capacity -> Cell] BY <1>1
<1>7. \A i \in 1 .. n - 1 : cells[i] = Front(l)[i] BY <1>1, <1>3, <1>4
<1>8. Len(Front(l)) <= v.m_capacity BY <1>1, <1>3, <1>4
<1> HIDE DEF cells
<1>9. VectorOK([m_size |-> Len(Front(l)), m_capacity |-> v.m_capacity, heap |-> v.heap, cells |-> cells], Front(l))
  BY <1>1, <1>4, <1>6, <1>7, <1>8, NewCells
<1> QED BY <1>4, <1>5, <1>9

(* erase closes the gap. *)
LEMMA EraseKeeps ==
    ASSUME NEW v, NEW l, VectorOK(v, l),
           NEW first \in 1 .. Len(l) + 1, NEW last \in 1 .. Len(l) + 1, first < last
    PROVE  VectorOK(erase(v, first, last), SubSeq(l, 1, first - 1) \o SubSeq(l, last, Len(l)))
<1> DEFINE n == v.m_size
           d == last - first
           cells == [i \in DOMAIN v.cells |->
                       IF i < first \/ i > n THEN v.cells[i]
                       ELSE IF i + d <= n THEN v.cells[i + d]
                       ELSE Garbage]
           a == SubSeq(l, 1, first - 1)
           b == SubSeq(l, last, n)
           k == a \o b
<1>1. /\ v.m_capacity \in Nat \ {0} /\ v.cells \in [1 .. v.m_capacity -> Cell]
      /\ l \in Seq(Cell) /\ n = Len(l) /\ n \in Nat /\ n <= v.m_capacity
      /\ \A i \in 1 .. n : v.cells[i] = l[i]
      /\ v.heap \in BOOLEAN /\ Garbage \in Cell
  BY VectorFields
<1>2. first \in Nat \ {0} /\ last \in Nat /\ last <= n + 1 /\ d \in Nat \ {0}
      /\ first - 1 \in Nat
  BY <1>1
<1>3. erase(v, first, last) = [m_size |-> n - d, m_capacity |-> v.m_capacity, heap |-> v.heap, cells |-> cells]
  <2>1. erase(v, first, last) = [v EXCEPT !.cells = cells, !.m_size = n - d] BY DEF erase
  <2>2. v = [m_size |-> n, m_capacity |-> v.m_capacity, heap |-> v.heap, cells |-> v.cells]
    BY OwnFields DEF IsVector
  <2> HIDE DEF n, d, cells
  <2> QED BY <2>1, <2>2
<1> HIDE DEF n, d
<1>4. a \in Seq(Cell) /\ Len(a) = first - 1 /\ \A i \in 1 .. first - 1 : a[i] = l[i]
  <2>1. \A i \in 1 .. first - 1 : l[i] \in Cell BY <1>1, <1>2 DEF d
  <2>2. /\ a \in Seq(Cell) /\ Len(a) = IF 1 <= first - 1 THEN first - 1 - 1 + 1 ELSE 0
        /\ \A i \in 1 .. first - 1 - 1 + 1 : a[i] = l[1 + i - 1]
    BY <1>2, <2>1, SubSeqProperties
  <2> HIDE DEF a
  <2> QED BY <1>2, <2>2
<1>5. b \in Seq(Cell) /\ Len(b) = n - last + 1 /\ \A i \in 1 .. n - last + 1 : b[i] = l[last + i - 1]
  <2>1. \A i \in last .. n : l[i] \in Cell BY <1>1, <1>2
  <2>2. /\ b \in Seq(Cell) /\ Len(b) = IF last <= n THEN n - last + 1 ELSE 0
        /\ \A i \in 1 .. n - last + 1 : b[i] = l[last + i - 1]
    BY <1>1, <1>2, <2>1, SubSeqProperties
  <2>3. n \in Nat /\ last \in Nat /\ last <= n + 1 BY <1>1, <1>2
  <2>4. (IF last <= n THEN n - last + 1 ELSE 0) = n - last + 1 BY <2>3
  <2> HIDE DEF b
  <2> QED BY ONLY <2>2, <2>4
<1> HIDE DEF a, b
<1>6. k \in Seq(Cell) /\ Len(k) = n - d
      /\ \A i \in 1 .. n - d : k[i] = IF i < first THEN l[i] ELSE l[i + d]
  <2>1. /\ k \in Seq(Cell) /\ Len(k) = Len(a) + Len(b)
        /\ \A i \in 1 .. Len(a) + Len(b) : k[i] = IF i <= Len(a) THEN a[i] ELSE b[i - Len(a)]
    BY <1>4, <1>5, ConcatProperties
  <2>2. Len(a) + Len(b) = n - d BY <1>1, <1>2, <1>4, <1>5 DEF d
  <2>3. ASSUME NEW i \in 1 .. n - d PROVE k[i] = IF i < first THEN l[i] ELSE l[i + d]
    <3>1. CASE i < first BY <1>2, <1>4, <2>1, <2>2, <3>1
    <3>2. CASE ~(i < first)
      <4>1. k[i] = b[i - (first - 1)] BY <1>2, <1>4, <2>1, <2>2, <3>2
      <4>2. i - (first - 1) \in 1 .. n - last + 1 BY <1>1, <1>2, <3>2 DEF d
      <4>3. b[i - (first - 1)] = l[last + (i - (first - 1)) - 1] BY <1>5, <4>2
      <4>4. last + (i - (first - 1)) - 1 = i + d BY <1>2 DEF d
      <4> QED BY <3>2, <4>1, <4>3, <4>4
    <3> QED BY <3>1, <3>2
  <2> QED BY <2>1, <2>2, <2>3
<1>7. cells \in [1 .. v.m_capacity -> Cell]
  <2>1. ASSUME NEW i \in 1 .. v.m_capacity, i + d <= n PROVE v.cells[i + d] \in Cell
    <3>1. i + d \in 1 .. v.m_capacity BY <1>1, <1>2, <2>1
    <3> QED BY <1>1, <3>1
  <2> QED BY <1>1, <2>1
<1>8. ASSUME NEW i \in 1 .. n - d PROVE cells[i] = k[i]
  <2>1. i \in DOMAIN v.cells /\ i \in 1 .. n /\ i + d \in 1 .. n /\ ~(i > n)
    BY <1>1, <1>2
  <2>2. v.cells[i] = l[i] /\ v.cells[i + d] = l[i + d] BY <1>1, <1>8, <2>1
  <2>3. cells[i] = IF i < first THEN v.cells[i] ELSE v.cells[i + d] BY <1>1, <1>2, <2>1
  <2> QED BY <1>6, <2>2, <2>3
<1>9. n - d <= v.m_capacity BY <1>1, <1>2
<1> HIDE DEF cells
<1>10. VectorOK([m_size |-> Len(k), m_capacity |-> v.m_capacity, heap |-> v.heap, cells |-> cells], k)
  BY <1>1, <1>6, <1>7, <1>8, <1>9, NewCells
<1> QED BY <1>1, <1>3, <1>6, <1>10 DEF a, b

(* unordered_erase moves the last item into the gap. *)
LEMMA UnorderedEraseKeeps ==
    ASSUME NEW v, NEW l, VectorOK(v, l), NEW p \in DOMAIN l
    PROVE  VectorOK(unordered_erase_it(v, p), Front([l EXCEPT ![p] = Last(l)]))
<1> DEFINE n == v.m_size
           k == [l EXCEPT ![p] = l[n]]
           cells == [v.cells EXCEPT ![p] = v.cells[n]]
           w == [v EXCEPT !.cells = cells]
<1>1. /\ v.m_capacity \in Nat \ {0} /\ v.cells \in [1 .. v.m_capacity -> Cell]
      /\ l \in Seq(Cell) /\ n = Len(l) /\ n \in Nat /\ n <= v.m_capacity
      /\ \A i \in 1 .. n : v.cells[i] = l[i]
      /\ v.heap \in BOOLEAN /\ Garbage \in Cell
  BY VectorFields
<1>2. p \in 1 .. n /\ n \in 1 .. n /\ n \in 1 .. v.m_capacity /\ p \in 1 .. v.m_capacity BY <1>1, LenProperties
<1>3. k \in Seq(Cell) /\ Len(k) = n /\ \A i \in 1 .. n : k[i] = IF i = p THEN l[n] ELSE l[i]
  BY <1>1, <1>2, ElementOfSeq, ExceptSeq
<1>4. w = [m_size |-> n, m_capacity |-> v.m_capacity, heap |-> v.heap, cells |-> cells]
  BY OwnFields, CellsIs DEF IsVector
<1>5. cells \in [1 .. v.m_capacity -> Cell] BY <1>1, <1>2
<1>6. ASSUME NEW i \in 1 .. n PROVE cells[i] = k[i] BY <1>1, <1>2, <1>3, <1>6
<1>7. Last(l) = l[n] BY <1>1 DEF Last
<1>8. unordered_erase_it(v, p) = pop_back(w) BY DEF unordered_erase_it
<1> HIDE DEF cells, k, w
<1>9. VectorOK(w, k)
  <2>1. VectorOK([m_size |-> Len(k), m_capacity |-> v.m_capacity, heap |-> v.heap, cells |-> cells], k)
    BY <1>1, <1>3, <1>5, <1>6, NewCells
  <2> QED BY <1>3, <1>4, <2>1
<1>10. k # <<>> BY <1>2, <1>3, EmptySeq
<1>11. VectorOK(pop_back(w), Front(k)) BY <1>9, <1>10, PopKeeps
<1> QED BY <1>7, <1>8, <1>11 DEF k

(* clear leaves nothing, in the same block. *)
LEMMA ClearKeeps ==
    ASSUME NEW v, NEW l, VectorOK(v, l)
    PROVE  VectorOK(clear(v), <<>>)
<1> DEFINE cells == [i \in DOMAIN v.cells |-> IF i <= v.m_size THEN Garbage ELSE v.cells[i]]
<1>1. /\ v.m_capacity \in Nat \ {0} /\ v.cells \in [1 .. v.m_capacity -> Cell]
      /\ Garbage \in Cell
  BY VectorFields
<1>2. clear(v) = [m_size |-> 0, m_capacity |-> v.m_capacity, heap |-> v.heap, cells |-> cells]
  <2>1. clear(v) = [v EXCEPT !.cells = cells, !.m_size = 0] BY DEF clear
  <2>2. IsVector(v, v.m_size, v.m_capacity, v.heap, v.cells) BY OwnFields
  <2> HIDE DEF cells
  <2> QED BY <2>1, <2>2 DEF IsVector
<1>3. cells \in [1 .. v.m_capacity -> Cell] BY <1>1
<1>4. <<>> \in Seq(Cell) /\ Len(<<>>) = 0 BY EmptySeq
<1> HIDE DEF cells
<1> DEFINE k == <<>>
<1>a. k \in Seq(Cell) /\ Len(k) = 0 BY <1>4
<1> HIDE DEF k
<1>5. VectorOK([m_size |-> Len(k), m_capacity |-> v.m_capacity, heap |-> v.heap, cells |-> cells], k)
  <2>1. Len(k) <= v.m_capacity BY <1>1, <1>a
  <2>2. \A i \in 1 .. Len(k) : cells[i] = k[i] BY <1>a
  <2> QED BY <1>1, <1>3, <1>a, <2>1, <2>2, NewCells
<1> QED BY <1>2, <1>a, <1>5 DEF k

(* VectorExact: up to the first push that moves the vector to a larger block *)
(* (which shifts memory of two blocks), whatever is called, it holds its     *)
(* list, but for what it left in its own cells, inside of its memory.        *)
THEOREM VectorAlwaysExact == Spec => []VectorExact
<1>1. Init => VectorInv
  <2> SUFFICES ASSUME Init PROVE VectorOK(vector, list)
    BY VectorInvIs
  <2> DEFINE cells == Memory(Capacity)
  <2>1. vector = [m_size |-> 0, m_capacity |-> Capacity, heap |-> FALSE, cells |-> cells]
        /\ list = <<>>
    BY DEF Init, NewVector
  <2>2. cells \in [1 .. Capacity -> Cell] BY DEF Memory, Cell
  <2>3. list \in Seq(Cell) /\ Len(list) = 0
    <3>1. <<>> \in Seq(Cell) /\ Len(<<>>) = 0 BY EmptySeq
    <3> QED BY <2>1, <3>1
  <2> HIDE DEF cells
  <2>4. Stored(cells, 0, Capacity, list)
    <3>1. Capacity \in Nat \ {0} /\ 0 <= Capacity BY VectorAssumption
    <3>2. \A i \in 1 .. 0 : cells[i] = list[i] OBVIOUS
    <3> QED BY <2>2, <2>3, <3>1, <3>2 DEF Stored
  <2>5. vector.m_size = 0 /\ vector.m_capacity = Capacity /\ vector.heap = FALSE /\ vector.cells = cells
    BY <2>1
  <2> QED BY <2>1, <2>4, <2>5 DEF VectorOK
<1>2. VectorInv /\ [Next]_vars => VectorInv'
  <2> SUFFICES ASSUME VectorInv, [Next]_vars PROVE VectorInv'
    OBVIOUS
  <2>1. VectorOK(vector, list) BY VectorInvIs
  <2>2. [VectorStep]_vectorVars BY StepsApart
  <2>3. list \in Seq(Cell) BY <2>1, VectorFields
  <2> SUFFICES VectorOK(vector', list')
    <3>1. VectorInv' <=> VectorOK(vector, list)' BY VectorInvIs, PTL
    <3>2. VectorOK(vector, list)' <=> VectorOK(vector', list') BY DEF VectorOK, Stored
    <3> QED BY <3>1, <3>2
  <2>4. CASE UNCHANGED vectorVars BY <2>1, <2>4 DEF vectorVars
  <2>5. ASSUME NEW n \in 1 .. MaxLen, Reserve(n) PROVE VectorOK(vector', list')
    <3>1. vector' = reserve(vector, n) /\ list' = ListAfter(vector, reserve(vector, n), list)
      BY <2>5 DEF Reserve, Call, ListIn, ListAfter
    <3>2. n \in Nat BY UtilitiesAssumption
    <3>3. VectorOK(reserve(vector, n), ListAfter(vector, reserve(vector, n), list))
      BY <2>1, <3>2, ReserveKeeps
    <3> QED BY <3>1, <3>3
  <2>6. ASSUME NEW value \in Value, PushBack(value) PROVE VectorOK(vector', list')
    <3>1. /\ vector' = emplace_back(vector, value)
          /\ list' = Append(ListAfter(vector, emplace_back(vector, value), list), value)
      BY <2>6 DEF PushBack, Call, ListIn, ListAfter
    <3>2. VectorOK(emplace_back(vector, value),
                   Append(ListAfter(vector, emplace_back(vector, value), list), value))
      BY <2>1, EmplaceKeeps
    <3> QED BY <3>1, <3>2
  <2>7. CASE PushOutside BY <2>1, <2>7 DEF PushOutside
  <2>8. CASE PopBack BY <2>1, <2>8, PopKeeps DEF PopBack, Call
  <2>9. ASSUME NEW first \in 1 .. Len(list) + 1, NEW last \in 1 .. Len(list) + 1, first < last,
               Erase(first, last)
        PROVE  VectorOK(vector', list')
    <3> DEFINE k == SubSeq(list, 1, first - 1) \o SubSeq(list, last, Len(list))
    <3>1. vector' = erase(vector, first, last) /\ list' = k BY <2>9 DEF Erase, Call
    <3>2. VectorOK(erase(vector, first, last), k) BY <2>1, <2>9, EraseKeeps
    <3> QED BY <3>1, <3>2
  <2>10. ASSUME NEW i \in DOMAIN list, UnorderedErase(i) PROVE VectorOK(vector', list')
    <3>1. vector' = unordered_erase_it(vector, i) /\ list' = Front([list EXCEPT ![i] = Last(list)])
      BY <2>10 DEF UnorderedErase, Call
    <3>2. VectorOK(unordered_erase_it(vector, i), Front([list EXCEPT ![i] = Last(list)]))
      BY <2>1, UnorderedEraseKeeps
    <3> QED BY <3>1, <3>2
  <2>11. CASE ClearVector BY <2>1, <2>11, ClearKeeps DEF ClearVector, Call
  <2> QED BY <2>2, <2>4, <2>5, <2>6, <2>7, <2>8, <2>9, <2>10, <2>11 DEF VectorStep
<1>3. VectorInv => VectorExact BY DEF VectorInv, VectorExact
<1> QED BY <1>1, <1>2, <1>3, PTL DEF Spec

-----------------------------------------------------------------------------
(* The thread checker. *)

(* A set of numbers that is not empty has a least one. *)
LEMMA LeastNumber ==
    ASSUME NEW S \in SUBSET Nat, S # {}
    PROVE  (CHOOSE i \in S : \A j \in S : i <= j) \in S
<1>1. PICK i \in S : \A j \in S : ~(<<j, i>> \in OpToRel(<, Nat))
  BY NatLessThanWellFounded, WFMin
<1>2. \A j \in S : i <= j
  <2> TAKE j \in S
  <2>1. i \in Nat /\ j \in Nat OBVIOUS
  <2>2. ~(j < i) BY <1>1, <2>1 DEF OpToRel
  <2> QED BY <2>1, <2>2
<1> QED BY <1>2

(* Every checker of S has its own place in the list, with its thread. *)
Listed(S, read) ==
    \E place \in Bijection(S, DOMAIN read) : \A c \in S : read[place[c]] = c[1]

LEMMA ListedIs ==
    ASSUME NEW S, NEW read, NEW place \in [S -> DOMAIN read],
           \A c, d \in S : place[c] = place[d] => c = d,
           \A i \in DOMAIN read : \E c \in S : place[c] = i,
           \A c \in S : read[place[c]] = c[1]
    PROVE  Listed(S, read)
<1>1. place \in Bijection(S, DOMAIN read) BY DEF Bijection, Injection, Surjection, IsInjective
<1> QED BY <1>1 DEF Listed

LEMMA PlacesOf ==
    ASSUME NEW S, NEW read, Listed(S, read)
    PROVE  \E place \in [S -> DOMAIN read] :
              /\ \A c, d \in S : place[c] = place[d] => c = d
              /\ \A i \in DOMAIN read : \E c \in S : place[c] = i
              /\ \A c \in S : read[place[c]] = c[1]
<1>1. PICK place \in Bijection(S, DOMAIN read) : \A c \in S : read[place[c]] = c[1] BY DEF Listed
<1>2. place \in [S -> DOMAIN read] /\ \A c, d \in S : place[c] = place[d] => c = d
  BY DEF Bijection, Injection, IsInjective
<1>3. \A i \in DOMAIN read : \E c \in S : place[c] = i BY DEF Bijection, Surjection
<1> QED BY <1>1, <1>2, <1>3

LEMMA PlacesNow ==
    ASSUME ReadersListed
    PROVE  \E place \in [OnStacks(FALSE) -> DOMAIN entry.read] :
              /\ \A c, d \in OnStacks(FALSE) : place[c] = place[d] => c = d
              /\ \A i \in DOMAIN entry.read : \E c \in OnStacks(FALSE) : place[c] = i
              /\ \A c \in OnStacks(FALSE) : entry.read[place[c]] = c[1]
<1> DEFINE S == OnStacks(FALSE)
           read == entry.read
<1>1. Listed(S, read) BY DEF ReadersListed, Listed
<1> HIDE DEF S, read
<1>2. \E place \in [S -> DOMAIN read] :
              /\ \A c, d \in S : place[c] = place[d] => c = d
              /\ \A i \in DOMAIN read : \E c \in S : place[c] = i
              /\ \A c \in S : read[place[c]] = c[1]
  BY <1>1, PlacesOf
<1> QED BY <1>2 DEF S, read

(* A reader that comes is put at the end. *)
LEMMA ListedAppend ==
    ASSUME NEW S, NEW read \in Seq(Thread), Listed(S, read),
           NEW new, new \notin S, new[1] \in Thread
    PROVE  Listed(S \union {new}, Append(read, new[1]))
<1> DEFINE n == Len(read)
           longer == Append(read, new[1])
<1>1. n \in Nat /\ DOMAIN read = 1 .. n BY LenProperties
<1>2. /\ DOMAIN longer = 1 .. n + 1 /\ longer[n + 1] = new[1]
      /\ \A i \in 1 .. n : longer[i] = read[i]
  BY AppendProperties, LenProperties
<1> HIDE DEF n, longer
<1>p. PICK place \in [S -> DOMAIN read] :
        /\ \A c, d \in S : place[c] = place[d] => c = d
        /\ \A i \in DOMAIN read : \E c \in S : place[c] = i
        /\ \A c \in S : read[place[c]] = c[1]
  BY PlacesOf
<1>3. /\ place \in [S -> 1 .. n]
      /\ \A c, d \in S : place[c] = place[d] => c = d
      /\ \A i \in 1 .. n : \E c \in S : place[c] = i
      /\ \A c \in S : read[place[c]] = c[1]
  BY <1>1, <1>p
<1> DEFINE more == [c \in S \union {new} |-> IF c = new THEN n + 1 ELSE place[c]]
<1>4. more[new] = n + 1 /\ \A c \in S : more[c] = place[c] /\ place[c] \in 1 .. n BY <1>3
<1>5. more \in [S \union {new} -> DOMAIN longer] BY <1>1, <1>2, <1>4
<1> HIDE DEF more
<1>6. \A c, d \in S \union {new} : more[c] = more[d] => c = d BY <1>1, <1>3, <1>4
<1>7. \A i \in DOMAIN longer : \E c \in S \union {new} : more[c] = i
  <2> TAKE i \in DOMAIN longer
  <2>1. CASE i = n + 1 BY <1>4, <2>1
  <2>2. CASE i # n + 1
    <3>1. i \in 1 .. n BY <1>1, <1>2, <2>2
    <3> QED BY <1>3, <1>4, <3>1
  <2> QED BY <2>1, <2>2
<1>8. \A c \in S \union {new} : longer[more[c]] = c[1] BY <1>2, <1>3, <1>4
<1>9. Listed(S \union {new}, longer) BY <1>5, <1>6, <1>7, <1>8, ListedIs
<1> QED BY <1>9 DEF longer

(* The list less is the list read with its last entry put at first. *)
Erased(read, t, first, less) ==
    /\ read[first] = t
    /\ less \in Seq(Thread)
    /\ DOMAIN less = 1 .. Len(read) - 1
    /\ \A i \in 1 .. Len(read) - 1 : less[i] = IF i = first THEN read[Len(read)] ELSE read[i]

(* What EraseReader does to a list that has the thread. *)
LEMMA EraseReaderIs ==
    ASSUME NEW read \in Seq(Thread), NEW t, NEW k \in 1 .. Len(read), read[k] = t
    PROVE  \E first \in 1 .. Len(read) : Erased(read, t, first, EraseReader(read, t))
<1> DEFINE n == Len(read)
           found == {i \in DOMAIN read : read[i] = t}
           first == CHOOSE i \in found : \A j \in found : i <= j
           m == [read EXCEPT ![first] = read[n]]
<1>1. n \in Nat /\ DOMAIN read = 1 .. n /\ n \in 1 .. n BY LenProperties
<1>2. found \in SUBSET Nat /\ k \in found BY <1>1
<1>3. first \in found
  <2> HIDE DEF found
  <2> QED BY <1>2, LeastNumber
<1>4. first \in 1 .. n /\ read[first] = t BY <1>1, <1>3
<1>5. EraseReader(read, t) = Front(m)
  <2>1. found # {} BY <1>2
  <2>2. Last(read) = read[n] BY DEF Last
  <2> QED BY <2>1, <2>2 DEF EraseReader
<1> HIDE DEF first, found
<1>6. m \in Seq(Thread) /\ Len(m) = n /\ \A i \in 1 .. n : m[i] = IF i = first THEN read[n] ELSE read[i]
  BY <1>1, <1>4, ElementOfSeq, ExceptSeq
<1> HIDE DEF m
<1>7. m # <<>> BY <1>1, <1>6, EmptySeq
<1>8. Front(m) \in Seq(Thread) /\ Len(Front(m)) = n - 1 /\ \A i \in 1 .. n - 1 : Front(m)[i] = m[i]
  BY <1>6, <1>7, FrontIs
<1>9. DOMAIN Front(m) = 1 .. n - 1 BY <1>8, LenProperties
<1>10. \A i \in 1 .. n - 1 : Front(m)[i] = IF i = first THEN read[n] ELSE read[i]
  BY <1>1, <1>6, <1>8
<1>11. Erased(read, t, first, Front(m)) BY <1>4, <1>8, <1>9, <1>10 DEF Erased
<1> QED BY <1>4, <1>5, <1>11

(* A reader that goes frees the place of some checker of its thread; this one *)
(* gets the place of the reader that goes, and the last place is moved.      *)
LessListed(S, read, gone, less) ==
    /\ Listed(S \ {gone}, less)
    /\ less \in Seq(Thread)
    /\ \A i \in DOMAIN less : \E j \in DOMAIN read : less[i] = read[j]

LEMMA ListedErase ==
    ASSUME NEW S, NEW read \in Seq(Thread), Listed(S, read), NEW gone \in S
    PROVE  LessListed(S, read, gone, EraseReader(read, gone[1]))
<1> DEFINE n == Len(read)
           t == gone[1]
           less == EraseReader(read, t)
<1>1. n \in Nat /\ DOMAIN read = 1 .. n BY LenProperties
<1>p. PICK place \in [S -> DOMAIN read] :
        /\ \A c, d \in S : place[c] = place[d] => c = d
        /\ \A i \in DOMAIN read : \E c \in S : place[c] = i
        /\ \A c \in S : read[place[c]] = c[1]
  BY PlacesOf
<1>2. /\ place \in [S -> 1 .. n]
      /\ \A c, d \in S : place[c] = place[d] => c = d
      /\ \A i \in 1 .. n : \E c \in S : place[c] = i
      /\ \A c \in S : read[place[c]] = c[1]
  BY <1>1, <1>p
<1> DEFINE k == place[gone]
<1>3. k \in 1 .. n /\ read[k] = t BY <1>2
<1>e. PICK first \in 1 .. n : Erased(read, t, first, less)
  <2> HIDE DEF k, t
  <2> QED BY <1>3, EraseReaderIs
<1>4. /\ read[first] = t
      /\ less \in Seq(Thread)
      /\ DOMAIN less = 1 .. n - 1
      /\ \A i \in 1 .. n - 1 : less[i] = IF i = first THEN read[n] ELSE read[i]
  BY <1>e DEF Erased
<1>5. PICK c1 \in S : place[c1] = first BY <1>2
<1>6. c1[1] = t BY <1>2, <1>4, <1>5
<1> HIDE DEF n, less, t
<1> DEFINE R == S \ {gone}
           h == [c \in R |-> IF c = c1 THEN k ELSE place[c]]
<1>7. \A c \in R : h[c] \in 1 .. n /\ h[c] # first /\ read[h[c]] = c[1]
  <2> TAKE c \in R
  <2>1. CASE c = c1
    <3>1. h[c] = k /\ k # first BY <1>2, <1>5, <2>1
    <3> QED BY <1>3, <1>6, <2>1, <3>1
  <2>2. CASE c # c1
    <3>1. h[c] = place[c] /\ place[c] # first BY <1>2, <1>5, <2>2
    <3> QED BY <1>2, <3>1
  <2> QED BY <2>1, <2>2
<1>8. \A c, d \in R : h[c] = h[d] => c = d BY <1>2
<1>9. \A i \in 1 .. n : i # first => \E c \in R : h[c] = i
  <2> SUFFICES ASSUME NEW i \in 1 .. n, i # first PROVE \E c \in R : h[c] = i
    OBVIOUS
  <2>1. PICK c \in S : place[c] = i BY <1>2
  <2>2. c # c1 BY <1>5, <2>1
  <2>3. CASE c = gone
    <3>1. c1 \in R /\ h[c1] = i BY <2>1, <2>2, <2>3
    <3> QED BY <3>1
  <2>4. CASE c # gone
    <3>1. c \in R /\ h[c] = i BY <2>1, <2>2, <2>4
    <3> QED BY <3>1
  <2> QED BY <2>3, <2>4
<1> HIDE DEF h, R, k
<1> DEFINE g == [c \in R |-> IF h[c] = n THEN first ELSE h[c]]
<1>10. \A c \in R : g[c] \in 1 .. n - 1 /\ less[g[c]] = c[1]
  <2> TAKE c \in R
  <2>1. CASE h[c] = n
    <3>1. g[c] = first /\ first \in 1 .. n - 1 BY <1>1, <1>7, <2>1
    <3>2. less[first] = read[n] BY <1>4, <3>1
    <3> QED BY <1>7, <2>1, <3>1, <3>2
  <2>2. CASE h[c] # n
    <3>1. g[c] = h[c] /\ h[c] \in 1 .. n - 1 BY <1>1, <1>7, <2>2
    <3>2. less[h[c]] = read[h[c]] BY <1>4, <1>7, <3>1
    <3> QED BY <1>7, <3>1, <3>2
  <2> QED BY <2>1, <2>2
<1>11. \A c, d \in R : g[c] = g[d] => c = d BY <1>7, <1>8
<1>12. \A i \in 1 .. n - 1 : \E c \in R : g[c] = i
  <2> TAKE i \in 1 .. n - 1
  <2>1. CASE i = first
    <3>1. n \in 1 .. n /\ n # first BY <1>1, <2>1
    <3>2. PICK c \in R : h[c] = n BY <1>9, <3>1
    <3> QED BY <2>1, <3>2
  <2>2. CASE i # first
    <3>1. i \in 1 .. n /\ i # n BY <1>1
    <3>2. PICK c \in R : h[c] = i BY <1>9, <2>2, <3>1
    <3> QED BY <3>1, <3>2
  <2> QED BY <2>1, <2>2
<1>13. g \in [R -> DOMAIN less] BY <1>4, <1>10
<1> HIDE DEF g
<1>14. Listed(R, less)
  <2>1. \A i \in DOMAIN less : \E c \in R : g[c] = i BY <1>4, <1>12
  <2>2. \A c \in R : less[g[c]] = c[1] BY <1>10
  <2> QED BY <1>11, <1>13, <2>1, <2>2, ListedIs
<1>15. \A i \in DOMAIN less : \E j \in DOMAIN read : less[i] = read[j]
  <2> TAKE i \in DOMAIN less
  <2>1. i \in 1 .. n /\ n \in 1 .. n /\ i \in 1 .. n - 1 BY <1>1, <1>4
  <2> QED BY <1>1, <1>4, <2>1
<1>16. LessListed(S, read, gone, less) BY <1>4, <1>14, <1>15 DEF R, LessListed
<1> QED BY <1>16 DEF less, t

(* A checker on a stack is among those that count as writers, or among those  *)
(* that do not.                                                              *)
LEMMA OnAStack ==
    ASSUME CheckTypeOK
    PROVE  /\ \A t \in Thread : Len(held[t]) \in Nat /\ DOMAIN held[t] = 1 .. Len(held[t])
           /\ \A t \in Thread, i \in Nat :
                 i \in 1 .. Len(held[t]) =>
                    /\ held[t][i].write \in BOOLEAN /\ held[t][i].m_write \in BOOLEAN
                    /\ <<t, i>> \in OnStacks(held[t][i].m_write)
           /\ \A b, c : c \in OnStacks(b) =>
                 /\ c[1] \in Thread /\ c[2] \in 1 .. Len(held[c[1]])
                 /\ held[c[1]][c[2]].m_write = b
                 /\ c = <<c[1], c[2]>>
<1>1. ASSUME NEW t \in Thread
      PROVE  /\ held[t] \in Seq([write : BOOLEAN, m_write : BOOLEAN])
             /\ Len(held[t]) \in Nat /\ DOMAIN held[t] = 1 .. Len(held[t])
  <2>1. held[t] \in Seq([write : BOOLEAN, m_write : BOOLEAN]) BY DEF CheckTypeOK
  <2> QED BY <2>1, LenProperties
<1>2. ASSUME NEW t \in Thread, NEW i \in 1 .. Len(held[t])
      PROVE  /\ held[t][i].write \in BOOLEAN /\ held[t][i].m_write \in BOOLEAN
             /\ <<t, i>> \in OnStacks(held[t][i].m_write)
  <2>1. held[t][i] \in [write : BOOLEAN, m_write : BOOLEAN] BY <1>1, ElementOfSeq
  <2>2. i \in 1 .. MaxNested BY <1>1, UtilitiesAssumption DEF CheckTypeOK
  <2>3. <<t, i>> \in Thread \X (1 .. MaxNested) BY <2>2
  <2> QED BY <1>1, <2>1, <2>3 DEF OnStacks
<1>3. ASSUME NEW b, NEW c \in OnStacks(b)
      PROVE  /\ c[1] \in Thread /\ c[2] \in 1 .. Len(held[c[1]])
             /\ held[c[1]][c[2]].m_write = b
             /\ c = <<c[1], c[2]>>
  <2>1. /\ c \in Thread \X (1 .. MaxNested)
        /\ c[2] \in DOMAIN held[c[1]]
        /\ held[c[1]][c[2]].m_write = b
    BY DEF OnStacks
  <2>2. c[1] \in Thread /\ c = <<c[1], c[2]>> BY <2>1
  <2> QED BY <1>1, <2>1, <2>2
<1> QED BY <1>1, <1>2, <1>3

(* The entry stays in the map exactly as long as a checker is on a stack. *)
LEMMA KeptWhileHeld ==
    ASSUME CheckTypeOK, ReadersListed, WritersCounted
    PROVE  Kept(entry) <=> \E t \in Thread : held[t] # <<>>
<1>1. entry.read = <<>> <=> OnStacks(FALSE) = {}
  <2>1. entry.read \in Seq(Thread) BY DEF CheckTypeOK
  <2>3. PICK place \in [OnStacks(FALSE) -> DOMAIN entry.read] :
          /\ \A c, d \in OnStacks(FALSE) : place[c] = place[d] => c = d
          /\ \A i \in DOMAIN entry.read : \E c \in OnStacks(FALSE) : place[c] = i
          /\ \A c \in OnStacks(FALSE) : entry.read[place[c]] = c[1]
    BY PlacesNow
  <2>4. entry.read = <<>> <=> DOMAIN entry.read = {}
    <3>1. DOMAIN entry.read = 1 .. Len(entry.read) /\ Len(entry.read) \in Nat BY <2>1, LenProperties
    <3>2. entry.read # <<>> => Len(entry.read) \in Nat \ {0} BY <2>1, EmptySeq
    <3>3. Len(entry.read) \in Nat \ {0} => 1 \in DOMAIN entry.read BY <3>1
    <3>4. entry.read = <<>> => Len(entry.read) = 0 BY EmptySeq
    <3> QED BY <3>1, <3>2, <3>3, <3>4
  <2> QED BY <2>3, <2>4
<1>2. entry.write = NoThread <=> OnStacks(TRUE) = {}
  BY FS_EmptySet DEF WritersCounted
<1>3. (\E t \in Thread : held[t] # <<>>) <=> (OnStacks(TRUE) # {} \/ OnStacks(FALSE) # {})
  <2>1. ASSUME NEW t \in Thread, held[t] # <<>> PROVE OnStacks(TRUE) # {} \/ OnStacks(FALSE) # {}
    <3>1. held[t] \in Seq([write : BOOLEAN, m_write : BOOLEAN]) BY DEF CheckTypeOK
    <3>2. 1 \in 1 .. Len(held[t]) BY <2>1, <3>1, EmptySeq
    <3>3. held[t][1].m_write \in BOOLEAN /\ <<t, 1>> \in OnStacks(held[t][1].m_write)
      BY <3>2, OnAStack
    <3>4. CASE held[t][1].m_write = TRUE BY <3>3, <3>4
    <3>5. CASE held[t][1].m_write = FALSE BY <3>3, <3>5
    <3> QED BY <3>3, <3>4, <3>5
  <2>2. ASSUME NEW b, NEW c \in OnStacks(b) PROVE \E t \in Thread : held[t] # <<>>
    <3>1. c[1] \in Thread /\ c[2] \in 1 .. Len(held[c[1]]) BY OnAStack
    <3>2. Len(<<>>) = 0 BY EmptySeq
    <3>3. held[c[1]] # <<>> BY <3>1, <3>2
    <3> QED BY <3>1, <3>3
  <2> QED BY <2>1, <2>2
<1> QED BY <1>1, <1>2, <1>3 DEF Kept

(* An object that is not in the map has the entry that a new one gets. *)
LEMMA NewEntry ==
    ASSUME CheckInv
    PROVE  (IF inMap THEN entry ELSE ThreadObject) = entry
<1> SUFFICES ASSUME ~inMap PROVE entry = ThreadObject
  BY DEF CheckInv, CheckTypeOK
<1>1. ~Kept(entry) BY KeptWhileHeld DEF CheckInv
<1>2. entry.read = <<>> /\ entry.write = NoThread BY <1>1 DEF Kept
<1>3. entry.write_recursion = 0 BY <1>2 DEF CheckInv, WritersCounted
<1>4. entry \in [write : Thread \union {NoThread}, write_recursion : Nat, read : Seq(Thread)]
  BY DEF CheckInv, CheckTypeOK
<1> QED BY <1>2, <1>3, <1>4 DEF ThreadObject

(* Another thread holds a writer if the one that counts is another's. *)
LEMMA OtherWriter ==
    ASSUME CheckInv, ~doubled, NEW thread \in Thread,
           entry.write # NoThread, entry.write # thread
    PROVE  OthersHold(thread, TRUE)
<1>1. OnStacks(TRUE) # {} BY FS_EmptySet DEF CheckInv, WritersCounted
<1>2. PICK c : c \in OnStacks(TRUE) BY <1>1
<1>3. /\ c[1] \in Thread /\ c[2] \in 1 .. Len(held[c[1]]) /\ Len(held[c[1]]) \in Nat
      /\ DOMAIN held[c[1]] = 1 .. Len(held[c[1]])
  BY <1>2, OnAStack DEF CheckInv
<1>4. c[1] = entry.write /\ \E i \in 1 .. c[2] : held[c[1]][i].write
  BY <1>2 DEF CheckInv, OneWriter
<1>5. PICK i \in 1 .. c[2] : held[c[1]][i].write BY <1>4
<1>6. i \in DOMAIN held[c[1]] BY <1>3
<1>7. Holds(c[1], TRUE) BY <1>5, <1>6 DEF Holds
<1> QED BY <1>3, <1>4, <1>7 DEF OthersHold

(* Another thread holds some checker if the list of readers has it. *)
LEMMA OtherReader ==
    ASSUME CheckInv, NEW thread \in Thread, ~OnlyPresent(entry.read, thread)
    PROVE  OthersHold(thread, FALSE)
<1>1. ReadersListed BY DEF CheckInv
<1>2. PICK place \in [OnStacks(FALSE) -> DOMAIN entry.read] :
        /\ \A c, d \in OnStacks(FALSE) : place[c] = place[d] => c = d
        /\ \A i \in DOMAIN entry.read : \E c \in OnStacks(FALSE) : place[c] = i
        /\ \A c \in OnStacks(FALSE) : entry.read[place[c]] = c[1]
  BY <1>1, PlacesNow
<1>3. PICK i \in DOMAIN entry.read : entry.read[i] # thread BY DEF OnlyPresent
<1>4. PICK c : c \in OnStacks(FALSE) /\ place[c] = i BY <1>2
<1>5. c[1] # thread BY <1>2, <1>3, <1>4
<1>6. c[1] \in Thread /\ c[2] \in DOMAIN held[c[1]]
  <2>1. c \in OnStacks(FALSE) BY <1>4
  <2>2. c[1] \in Thread /\ c[2] \in 1 .. Len(held[c[1]]) BY <2>1, OnAStack DEF CheckInv
  <2>3. DOMAIN held[c[1]] = 1 .. Len(held[c[1]]) BY <2>2, OnAStack DEF CheckInv
  <2> QED BY <2>2, <2>3
<1>7. Holds(c[1], FALSE) BY <1>6 DEF Holds
<1> QED BY <1>5, <1>6, <1>7 DEF OthersHold

(* An assertion fails only beside another thread's use. *)
LEMMA AlarmIsRace ==
    ASSUME CheckInv, NEW thread \in Thread, NEW write \in BOOLEAN, ~Asserted(entry, thread, write)
    PROVE  raced \/ OthersHold(thread, ~write)
<1>1. CASE write
  <2>1. OthersHold(thread, FALSE) BY <1>1, OtherReader DEF Asserted
  <2>2. (~write) = FALSE BY <1>1
  <2> QED BY <2>1, <2>2
<1>2. CASE ~write
  <2>1. entry.write # thread /\ entry.write # NoThread BY <1>2 DEF Asserted
  <2>2. CASE doubled BY <2>2 DEF CheckInv
  <2>3. CASE ~doubled
    <3>1. OthersHold(thread, TRUE) BY <2>1, <2>3, OtherWriter
    <3>2. (~write) = TRUE BY <1>2
    <3> QED BY <3>1, <3>2
  <2> QED BY <2>2, <2>3
<1> QED BY <1>1, <1>2

LEMMA HoldsAny ==
    ASSUME NEW thread, OthersHold(thread, TRUE)
    PROVE  OthersHold(thread, FALSE)
BY DEF OthersHold, Holds

(* The checkers on the stacks after one more is put on a thread's. *)
AfterBegin(thread, write, w, new) ==
    /\ held' \in [Thread -> Seq([write : BOOLEAN, m_write : BOOLEAN])]
    /\ \A t \in Thread : Len(held'[t]) <= MaxNested
    /\ held'[new[1]][new[2]] = [write |-> write, m_write |-> w]
    /\ new[1] = thread /\ held'[thread] # <<>> /\ new[2] = Len(held[thread]) + 1
    /\ \A t \in Thread : \A i \in 1 .. Len(held[t]) : held'[t][i] = held[t][i]
    /\ \A t \in Thread : DOMAIN held'[t] = 1 .. Len(held[t]) + (IF t = thread THEN 1 ELSE 0)
    /\ \A b : new \notin OnStacks(b)
    /\ OnStacks(w)' = OnStacks(w) \union {new}
    /\ \A b : b # w => OnStacks(b)' = OnStacks(b)

LEMMA StacksAfterBegin ==
    ASSUME CheckTypeOK, NEW thread \in Thread, Len(held[thread]) < MaxNested,
           NEW write \in BOOLEAN, NEW w \in BOOLEAN,
           held' = [held EXCEPT ![thread] = Append(@, [write |-> write, m_write |-> w])],
           NEW new, new = <<thread, Len(held[thread]) + 1>>
    PROVE  AfterBegin(thread, write, w, new)
<1> DEFINE r == [write |-> write, m_write |-> w]
           n == Len(held[thread])
           Held == [write : BOOLEAN, m_write : BOOLEAN]
<1>1. held \in [Thread -> Seq(Held)] /\ r \in Held BY DEF CheckTypeOK
<1>2. n \in Nat /\ n + 1 \in 1 .. MaxNested /\ \A t \in Thread : Len(held[t]) \in Nat
  BY OnAStack, UtilitiesAssumption
<1> HIDE DEF r, Held
<1>3. held' = [held EXCEPT ![thread] = Append(held[thread], r)] BY DEF r
<1>4. /\ Append(held[thread], r) \in Seq(Held) /\ Append(held[thread], r) # <<>>
      /\ Len(Append(held[thread], r)) = n + 1
      /\ \A i \in 1 .. n : Append(held[thread], r)[i] = held[thread][i]
      /\ Append(held[thread], r)[n + 1] = r
      /\ DOMAIN Append(held[thread], r) = 1 .. n + 1
  BY <1>1, AppendProperties, LenProperties
<1>5. held' \in [Thread -> Seq(Held)] BY <1>1, <1>3, <1>4
<1>6. /\ held'[thread] = Append(held[thread], r)
      /\ \A t \in Thread : t # thread => held'[t] = held[t]
  BY <1>1, <1>3
<1>7. \A t \in Thread : Len(held'[t]) <= MaxNested BY <1>2, <1>4, <1>6 DEF CheckTypeOK
<1>8. new[1] = thread /\ new[2] = n + 1 /\ held'[new[1]][new[2]] = r BY <1>4, <1>6
<1>9. \A t \in Thread : \A i \in 1 .. Len(held[t]) : held'[t][i] = held[t][i]
  BY <1>4, <1>6
<1>10. \A t \in Thread : DOMAIN held'[t] = 1 .. Len(held[t]) + (IF t = thread THEN 1 ELSE 0)
  <2> TAKE t \in Thread
  <2>1. CASE t = thread BY <1>4, <1>6, <2>1
  <2>2. CASE t # thread BY <1>2, <1>6, <2>2, OnAStack
  <2> QED BY <2>1, <2>2
<1>11. \A b : new \notin OnStacks(b) BY <1>2, <1>8, OnAStack
<1>12. ASSUME NEW b, NEW c
       PROVE  c \in OnStacks(b)' <=> c \in OnStacks(b) \/ (c = new /\ w = b)
  <2>1. ASSUME c \in OnStacks(b) PROVE c \in OnStacks(b)'
    <3>1. c[1] \in Thread /\ c[2] \in 1 .. Len(held[c[1]]) /\ held[c[1]][c[2]].m_write = b
      BY <2>1, OnAStack
    <3>2. held'[c[1]][c[2]].m_write = b BY <1>9, <3>1
    <3>3. c[2] \in DOMAIN held'[c[1]] BY <1>2, <1>10, <3>1
    <3> QED BY <2>1, <3>2, <3>3 DEF OnStacks
  <2>2. ASSUME c = new, w = b PROVE c \in OnStacks(b)'
    <3>1. c \in Thread \X (1 .. MaxNested) BY <1>2, <2>2
    <3>2. c[2] \in DOMAIN held'[c[1]] 
      <4>1. DOMAIN held'[thread] = 1 .. n + 1 BY <1>4, <1>6
      <4> QED BY <1>2, <1>8, <2>2, <4>1
    <3>3. held'[c[1]][c[2]].m_write = b BY <1>8, <2>2 DEF r
    <3> QED BY <3>1, <3>2, <3>3 DEF OnStacks
  <2>3. ASSUME c \in OnStacks(b)' PROVE c \in OnStacks(b) \/ (c = new /\ w = b)
    <3>1. c \in Thread \X (1 .. MaxNested) /\ c[2] \in DOMAIN held'[c[1]] /\ held'[c[1]][c[2]].m_write = b
      BY <2>3 DEF OnStacks
    <3>2. c[1] \in Thread /\ c = <<c[1], c[2]>> /\ c[2] \in Nat BY <3>1
    <3>3. CASE c = new
      <4>1. w = b BY <1>8, <3>1, <3>3 DEF r
      <4> QED BY <3>3, <4>1
    <3>4. CASE c # new
      <4>1. c[1] # thread \/ c[2] # n + 1 BY <3>2, <3>4
      <4>2. c[2] \in 1 .. Len(held[c[1]]) BY <1>2, <1>10, <3>1, <3>2, <4>1
      <4>3. c[2] \in DOMAIN held[c[1]] /\ held[c[1]][c[2]].m_write = b
        BY <1>9, <3>1, <3>2, <4>2, OnAStack
      <4> QED BY <3>1, <4>3 DEF OnStacks
    <3> QED BY <3>3, <3>4
  <2> QED BY <2>1, <2>2, <2>3
<1>13. OnStacks(w)' = OnStacks(w) \union {new} BY <1>12
<1>14. ASSUME NEW b, b # w PROVE OnStacks(b)' = OnStacks(b)
  <2>1. ASSUME NEW c PROVE c \in OnStacks(b)' <=> c \in OnStacks(b) BY <1>12, <1>14
  <2> QED BY <2>1
<1> QED BY <1>4, <1>5, <1>6, <1>7, <1>8, <1>9, <1>10, <1>11, <1>13, <1>14 DEF r, Held, AfterBegin

(* The checkers on the stacks after the last one of a thread is gone. *)
AfterEnd(thread, gone) ==
    /\ held' \in [Thread -> Seq([write : BOOLEAN, m_write : BOOLEAN])]
    /\ \A t \in Thread : Len(held'[t]) <= MaxNested
    /\ Last(held[thread]).m_write \in BOOLEAN
    /\ gone \in OnStacks(Last(held[thread]).m_write) /\ gone[1] = thread
    /\ \A t \in Thread : DOMAIN held'[t] \subseteq 1 .. Len(held[t])
    /\ \A t \in Thread : \A i \in DOMAIN held'[t] : held'[t][i] = held[t][i]
    /\ \A c : c[1] \in Thread /\ c[2] \in DOMAIN held'[c[1]] => 1 .. c[2] \subseteq DOMAIN held'[c[1]]
    /\ \A b : OnStacks(b)' = OnStacks(b) \ {gone}

LEMMA StacksAfterEnd ==
    ASSUME CheckTypeOK, NEW thread \in Thread, held[thread] # <<>>,
           held' = [held EXCEPT ![thread] = Front(@)],
           NEW gone, gone = <<thread, Len(held[thread])>>
    PROVE  AfterEnd(thread, gone)
<1> DEFINE n == Len(held[thread])
           Held == [write : BOOLEAN, m_write : BOOLEAN]
           f == Front(held[thread])
<1>1. held \in [Thread -> Seq(Held)] /\ held[thread] \in Seq(Held) BY DEF CheckTypeOK
<1>2. n \in Nat \ {0} /\ \A t \in Thread : Len(held[t]) \in Nat /\ DOMAIN held[t] = 1 .. Len(held[t])
  BY <1>1, EmptySeq, OnAStack
<1> HIDE DEF Held
<1>3. f \in Seq(Held) /\ Len(f) = n - 1 /\ \A i \in 1 .. n - 1 : f[i] = held[thread][i]
  BY <1>1, FrontIs
<1>4. DOMAIN f = 1 .. n - 1 BY <1>3, LenProperties
<1> HIDE DEF f
<1>5. held' = [held EXCEPT ![thread] = f] BY DEF f
<1>6. held' \in [Thread -> Seq(Held)] BY <1>1, <1>3, <1>5
<1>7. held'[thread] = f /\ \A t \in Thread : t # thread => held'[t] = held[t] BY <1>1, <1>5
<1>8. \A t \in Thread : Len(held'[t]) <= MaxNested
  <2> TAKE t \in Thread
  <2>1. Len(held[t]) <= MaxNested BY DEF CheckTypeOK
  <2>2. Len(held'[t]) <= Len(held[t]) /\ Len(held'[t]) \in Nat
    <3>1. CASE t = thread BY <1>2, <1>3, <1>7, <3>1
    <3>2. CASE t # thread BY <1>2, <1>7, <3>2
    <3> QED BY <3>1, <3>2
  <2> QED BY <1>2, <2>1, <2>2, UtilitiesAssumption
<1>9. ASSUME NEW t \in Thread
      PROVE  DOMAIN held'[t] = 1 .. (IF t = thread THEN n - 1 ELSE Len(held[t]))
  BY <1>2, <1>4, <1>7
<1>10. ASSUME NEW t \in Thread
       PROVE  /\ DOMAIN held'[t] \subseteq 1 .. Len(held[t])
              /\ \A i \in DOMAIN held'[t] : held'[t][i] = held[t][i]
  <2>1. CASE t = thread BY <1>2, <1>3, <1>4, <1>7, <2>1
  <2>2. CASE t # thread BY <1>2, <1>7, <2>2
  <2> QED BY <2>1, <2>2
<1>11. ASSUME NEW t \in Thread, NEW k \in DOMAIN held'[t] PROVE 1 .. k \subseteq DOMAIN held'[t]
  BY <1>2, <1>9
<1>12. Last(held[thread]) = held[thread][n] BY DEF Last
<1>13. /\ Last(held[thread]).m_write \in BOOLEAN
       /\ gone \in OnStacks(Last(held[thread]).m_write) /\ gone[1] = thread /\ gone[2] = n
  BY <1>2, <1>12, OnAStack
<1>14. ASSUME NEW b PROVE OnStacks(b)' = OnStacks(b) \ {gone}
  <2>1. ASSUME NEW c \in OnStacks(b)' PROVE c \in OnStacks(b) /\ c # gone
    <3>1. c \in Thread \X (1 .. MaxNested) /\ c[2] \in DOMAIN held'[c[1]] /\ held'[c[1]][c[2]].m_write = b
      BY DEF OnStacks
    <3>2. c[1] \in Thread BY <3>1
    <3>3. c[2] \in DOMAIN held[c[1]] /\ held[c[1]][c[2]].m_write = b BY <1>2, <1>10, <3>1, <3>2
    <3>4. c # gone
      <4>1. n \notin DOMAIN held'[thread] BY <1>2, <1>4, <1>7
      <4> QED BY <1>13, <3>1, <4>1
    <3> QED BY <3>1, <3>3, <3>4 DEF OnStacks
  <2>2. ASSUME NEW c \in OnStacks(b), c # gone PROVE c \in OnStacks(b)'
    <3>1. /\ c[1] \in Thread /\ c[2] \in 1 .. Len(held[c[1]]) /\ held[c[1]][c[2]].m_write = b
          /\ c = <<c[1], c[2]>>
      BY OnAStack
    <3>2. c[1] # thread \/ c[2] # n BY <2>2, <3>1
    <3>3. c[2] \in DOMAIN held'[c[1]]
      <4>1. CASE c[1] = thread BY <1>2, <1>4, <1>7, <3>1, <3>2, <4>1
      <4>2. CASE c[1] # thread BY <1>2, <1>7, <3>1, <4>2
      <4> QED BY <4>1, <4>2
    <3>4. held'[c[1]][c[2]].m_write = b BY <1>10, <3>1, <3>3
    <3>5. c \in Thread \X (1 .. MaxNested) BY DEF OnStacks
    <3> QED BY <3>3, <3>4, <3>5 DEF OnStacks
  <2> QED BY <2>1, <2>2
<1> QED BY <1>6, <1>8, <1>10, <1>11, <1>13, <1>14 DEF Held, AfterEnd

(* A checker is constructed, and its assertion holds. *)
LEMMA ConstructKeeps ==
    ASSUME CheckInv, ~alarm, NEW thread \in Thread, NEW write \in BOOLEAN,
           Len(held[thread]) < MaxNested,
           Asserted(entry, thread, write),
           entry' = Construct(entry, thread, write),
           held' = [held EXCEPT ![thread] =
                      Append(@, [write |-> write, m_write |-> CountsAsWrite(entry, thread, write)])],
           inMap' = TRUE, alarm' = FALSE,
           raced' = (raced \/ OthersHold(thread, ~write)),
           doubled' = (doubled \/ (write /\ OthersHold(thread, TRUE)))
    PROVE  CheckInv'
<1>a. PICK w \in BOOLEAN : w = CountsAsWrite(entry, thread, write) BY DEF CountsAsWrite
<1>b. PICK new : new = <<thread, Len(held[thread]) + 1>> OBVIOUS
<1>1. CheckTypeOK /\ ReadersListed /\ WritersCounted /\ OneWriter BY DEF CheckInv
<1>2. /\ entry.write \in Thread \union {NoThread} /\ entry.write_recursion \in Nat
      /\ entry.read \in Seq(Thread)
      /\ entry = [write |-> entry.write, write_recursion |-> entry.write_recursion, read |-> entry.read]
  BY <1>1 DEF CheckTypeOK
<1>3. thread # NoThread BY UtilitiesAssumption
<1>4. w \in BOOLEAN /\ (w <=> write \/ entry.write = thread) BY <1>a DEF CountsAsWrite
<1>5. /\ w => entry' = [write |-> IF entry.write_recursion = 0 THEN thread ELSE entry.write,
                        write_recursion |-> entry.write_recursion + 1, read |-> entry.read]
      /\ ~w => entry' = [write |-> entry.write, write_recursion |-> entry.write_recursion,
                         read |-> Append(entry.read, thread)]
  BY <1>2, <1>a DEF Construct
<1>c. held' = [held EXCEPT ![thread] = Append(@, [write |-> write, m_write |-> w])] BY <1>a
<1>d. AfterBegin(thread, write, w, new) BY <1>1, <1>b, <1>c, StacksAfterBegin
<1>6. /\ held' \in [Thread -> Seq([write : BOOLEAN, m_write : BOOLEAN])]
      /\ \A t \in Thread : Len(held'[t]) <= MaxNested
      /\ held'[new[1]][new[2]] = [write |-> write, m_write |-> w]
      /\ new[1] = thread /\ held'[thread] # <<>> /\ new[2] = Len(held[thread]) + 1
      /\ \A t \in Thread : \A i \in 1 .. Len(held[t]) : held'[t][i] = held[t][i]
      /\ \A t \in Thread : DOMAIN held'[t] = 1 .. Len(held[t]) + (IF t = thread THEN 1 ELSE 0)
      /\ \A b : new \notin OnStacks(b)
      /\ OnStacks(w)' = OnStacks(w) \union {new}
      /\ \A b : b # w => OnStacks(b)' = OnStacks(b)
  BY <1>d DEF AfterBegin
<1>7. \A t \in Thread : Len(held[t]) \in Nat BY <1>1, OnAStack
<1>8. /\ w => OnStacks(TRUE)' = OnStacks(TRUE) \union {new} /\ OnStacks(FALSE)' = OnStacks(FALSE)
      /\ ~w => OnStacks(FALSE)' = OnStacks(FALSE) \union {new} /\ OnStacks(TRUE)' = OnStacks(TRUE)
  <2>1. CASE w
    <3>1. w = TRUE /\ FALSE # w BY <2>1
    <3> QED BY <1>6, <2>1, <3>1
  <2>2. CASE ~w
    <3>1. w = FALSE /\ TRUE # w BY <2>2
    <3> QED BY <1>6, <2>2, <3>1
  <2> QED BY <2>1, <2>2
<1>9. CheckTypeOK'
  <2>1. ASSUME NEW t \in Thread, NEW i \in DOMAIN held'[t], held'[t][i].write PROVE held'[t][i].m_write
    <3>1. CASE i \in 1 .. Len(held[t])
      <4>1. i \in DOMAIN held[t] /\ held'[t][i] = held[t][i] BY <1>1, <1>6, <3>1, OnAStack
      <4> QED BY <1>1, <2>1, <4>1 DEF CheckTypeOK
    <3>2. CASE i \notin 1 .. Len(held[t])
      <4>1. t = thread /\ i = Len(held[t]) + 1 BY <1>6, <1>7, <3>2
      <4>2. held'[t][i] = [write |-> write, m_write |-> w] BY <1>6, <4>1
      <4>3. held'[t][i].write = write /\ held'[t][i].m_write = w BY <4>2
      <4>4. w BY <1>4, <2>1, <4>3
      <4> QED BY <4>3, <4>4
    <3> QED BY <3>1, <3>2
  <2>2. Append(entry.read, thread) \in Seq(Thread) BY <1>2, AppendProperties
  <2>3. entry' \in [write : Thread \union {NoThread}, write_recursion : Nat, read : Seq(Thread)]
    <3>1. CASE w BY <1>2, <1>5, <3>1
    <3>2. CASE ~w BY <1>2, <1>5, <2>2, <3>2, SMTT(30)
    <3> QED BY <3>1, <3>2
  <2>4. {inMap', alarm', raced', doubled'} \subseteq BOOLEAN BY <1>1 DEF CheckTypeOK, OthersHold
  <2> QED BY <1>6, <2>1, <2>3, <2>4 DEF CheckTypeOK
<1>10. ReadersListed'
  <2>1. Listed(OnStacks(FALSE), entry.read) BY <1>1 DEF ReadersListed, Listed
  <2>2. Listed(OnStacks(FALSE)', entry'.read)
    <3>1. CASE w
      <4>1. entry'.read = entry.read BY <1>5, <3>1
      <4> QED BY <1>8, <2>1, <3>1, <4>1
    <3>2. CASE ~w
      <4>1. entry'.read = Append(entry.read, new[1]) BY <1>5, <1>6, <3>2
      <4> DEFINE S == OnStacks(FALSE)
      <4>2. new \notin S /\ Listed(S, entry.read) /\ OnStacks(FALSE)' = S \union {new}
        BY <1>6, <1>8, <2>1, <3>2
      <4> HIDE DEF S
      <4>3. Listed(S \union {new}, Append(entry.read, new[1])) BY <1>2, <1>6, <4>2, ListedAppend
      <4> QED BY <4>1, <4>2, <4>3
    <3> QED BY <3>1, <3>2
  <2> QED BY <2>2 DEF ReadersListed, Listed
<1>11. WritersCounted'
  <2>1. IsFiniteSet(OnStacks(TRUE)) /\ entry.write_recursion = Cardinality(OnStacks(TRUE))
    BY <1>1 DEF WritersCounted
  <2>2. entry.write = NoThread <=> entry.write_recursion = 0 BY <1>1 DEF WritersCounted
  <2>3. CASE w
    <3>1. IsFiniteSet(OnStacks(TRUE))' /\ Cardinality(OnStacks(TRUE))' = entry.write_recursion + 1
      <4> DEFINE S == OnStacks(TRUE)
                 more == S \union {new}
      <4>1. IsFiniteSet(S) /\ Cardinality(S) = entry.write_recursion /\ new \notin S BY <1>6, <2>1
      <4>2. OnStacks(TRUE)' = more BY <1>8, <2>3
      <4> HIDE DEF S
      <4>3. IsFiniteSet(more) /\ Cardinality(more) = entry.write_recursion + 1 BY <4>1, FS_AddElement
      <4> HIDE DEF more
      <4> QED BY <4>2, <4>3
    <3>2. entry'.write_recursion = entry.write_recursion + 1 /\ entry'.write # NoThread
      BY <1>3, <1>5, <2>2, <2>3
    <3>3. entry'.write_recursion # 0 BY <1>2, <3>2
    <3>4. entry'.write_recursion = Cardinality(OnStacks(TRUE))' BY <3>1, <3>2
    <3> QED BY <3>1, <3>2, <3>3, <3>4 DEF WritersCounted
  <2>4. CASE ~w
    <3>1. entry'.write_recursion = entry.write_recursion /\ entry'.write = entry.write BY <1>5, <2>4
    <3>2. OnStacks(TRUE)' = OnStacks(TRUE) BY <1>8, <2>4
    <3> QED BY <2>1, <2>2, <3>1, <3>2 DEF WritersCounted
  <2> QED BY <2>3, <2>4
<1>12. ASSUME ~doubled' PROVE
       /\ \A c \in OnStacks(TRUE)' : c[1] = entry'.write
       /\ \A c \in OnStacks(TRUE)' : \E i \in 1 .. c[2] : held'[c[1]][i].write
       /\ entry'.write # NoThread => OnlyPresent(entry'.read, entry'.write)
  <2>1. ~doubled /\ ~(write /\ OthersHold(thread, TRUE)) BY <1>1, <1>12 DEF CheckTypeOK
  <2>2. /\ \A c \in OnStacks(TRUE) : c[1] = entry.write
        /\ \A c \in OnStacks(TRUE) : \E i \in 1 .. c[2] : held[c[1]][i].write
        /\ entry.write # NoThread => OnlyPresent(entry.read, entry.write)
    BY <1>1, <2>1 DEF OneWriter
  <2>3. entry.write = NoThread <=> entry.write_recursion = 0 BY <1>1 DEF WritersCounted
  <2>4. \A c \in OnStacks(TRUE) : entry.write # NoThread
    BY <1>1, FS_EmptySet DEF WritersCounted
  <2>5. write => entry.write \in {thread, NoThread} BY <1>2, <2>1, OtherWriter
  <2>6. w => entry'.write = thread /\ entry'.read = entry.read BY <1>4, <1>5, <2>3, <2>5
  <2>7. ~w => entry'.write = NoThread
    BY <1>4, <1>5 DEF Asserted
  <2>8. \A c \in OnStacks(TRUE)' : c[1] = entry'.write
    <3>1. CASE w
      <4>1. \A c \in OnStacks(TRUE) : c[1] = thread BY <1>4, <2>2, <2>4, <2>5, <3>1
      <4> QED BY <1>6, <1>8, <2>6, <3>1, <4>1
    <3>2. CASE ~w
      <4>1. entry.write = NoThread BY <1>5, <2>7, <3>2
      <4> QED BY <1>8, <2>4, <3>2, <4>1
    <3> QED BY <3>1, <3>2
  <2>9. ASSUME NEW c \in OnStacks(TRUE) PROVE \E i \in 1 .. c[2] : held'[c[1]][i].write
    <3>1. c[1] \in Thread /\ c[2] \in 1 .. Len(held[c[1]]) BY <1>1, OnAStack
    <3>2. PICK i \in 1 .. c[2] : held[c[1]][i].write BY <2>2
    <3>3. i \in 1 .. Len(held[c[1]]) BY <1>7, <3>1
    <3>4. held'[c[1]][i].write BY <1>6, <3>1, <3>2, <3>3
    <3> QED BY <3>4
  <2>10. ASSUME w PROVE \E i \in 1 .. new[2] : held'[new[1]][i].write
    <3>1. CASE write
      <4>1. new[2] \in 1 .. new[2] BY <1>6, <1>7
      <4>2. held'[new[1]][new[2]].write BY <1>6, <3>1
      <4> QED BY <4>1, <4>2
    <3>2. CASE ~write
      <4>1. entry.write = thread BY <1>4, <2>10, <3>2
      <4>2. OnStacks(TRUE) # {} BY <1>1, <1>3, <4>1, FS_EmptySet DEF WritersCounted
      <4>3. PICK c : c \in OnStacks(TRUE) BY <4>2
      <4>4. c[1] = thread /\ c[2] \in 1 .. Len(held[thread]) BY <1>1, <2>2, <4>1, <4>3, OnAStack
      <4>5. PICK i \in 1 .. c[2] : held'[c[1]][i].write BY <2>9, <4>3
      <4>6. i \in 1 .. new[2] /\ held'[new[1]][i].write BY <1>6, <1>7, <4>4, <4>5
      <4> QED BY <4>6
    <3> QED BY <3>1, <3>2
  <2>11. \A c \in OnStacks(TRUE)' : \E i \in 1 .. c[2] : held'[c[1]][i].write
    <3> TAKE c \in OnStacks(TRUE)'
    <3>1. c \in OnStacks(TRUE) \/ (w /\ c = new) BY <1>8
    <3> QED BY <2>9, <2>10, <3>1
  <2>12. entry'.write # NoThread => OnlyPresent(entry'.read, entry'.write)
    <3>1. CASE w
      <4>1. OnlyPresent(entry.read, thread)
        <5>1. CASE entry.write = thread BY <1>3, <2>2, <5>1
        <5>2. CASE entry.write # thread BY <1>4, <3>1, <5>2 DEF Asserted
        <5> QED BY <5>1, <5>2
      <4> QED BY <2>6, <3>1, <4>1
    <3>2. CASE ~w BY <2>7, <3>2
    <3> QED BY <3>1, <3>2
  <2> QED BY <2>8, <2>11, <2>12
<1>13. OneWriter' BY <1>12 DEF OneWriter
<1>14. inMap' <=> \E t \in Thread : held'[t] # <<>> BY <1>6
<1>15. (alarm' \/ doubled') => raced'
  <2>1. CASE doubled BY <2>1 DEF CheckInv
  <2>2. CASE write /\ OthersHold(thread, TRUE)
    <3>1. OthersHold(thread, FALSE) BY <2>2, HoldsAny
    <3>2. (~write) = FALSE BY <2>2
    <3> QED BY <3>1, <3>2
  <2> QED BY <2>1, <2>2
<1> QED BY <1>9, <1>10, <1>11, <1>13, <1>14, <1>15 DEF CheckInv

(* A checker is destructed. *)
LEMMA DestructKeeps ==
    ASSUME CheckInv, ~alarm, NEW thread \in Thread, held[thread] # <<>>,
           entry' = Destruct(entry, thread, Last(held[thread]).m_write),
           held' = [held EXCEPT ![thread] = Front(@)],
           inMap' = Kept(entry'), UNCHANGED <<alarm, raced, doubled>>
    PROVE  CheckInv'
<1>a. PICK gone : gone = <<thread, Len(held[thread])>> OBVIOUS
<1>1. CheckTypeOK /\ ReadersListed /\ WritersCounted /\ OneWriter BY DEF CheckInv
<1>2. /\ entry.write \in Thread \union {NoThread} /\ entry.write_recursion \in Nat
      /\ entry.read \in Seq(Thread)
      /\ entry = [write |-> entry.write, write_recursion |-> entry.write_recursion, read |-> entry.read]
  BY <1>1 DEF CheckTypeOK
<1>b. AfterEnd(thread, gone) BY <1>1, <1>a, StacksAfterEnd
<1>3. /\ held' \in [Thread -> Seq([write : BOOLEAN, m_write : BOOLEAN])]
      /\ \A t \in Thread : Len(held'[t]) <= MaxNested
      /\ Last(held[thread]).m_write \in BOOLEAN
      /\ gone \in OnStacks(Last(held[thread]).m_write) /\ gone[1] = thread
      /\ \A t \in Thread : DOMAIN held'[t] \subseteq 1 .. Len(held[t])
      /\ \A t \in Thread : \A i \in DOMAIN held'[t] : held'[t][i] = held[t][i]
      /\ \A c : c[1] \in Thread /\ c[2] \in DOMAIN held'[c[1]] => 1 .. c[2] \subseteq DOMAIN held'[c[1]]
      /\ \A b : OnStacks(b)' = OnStacks(b) \ {gone}
  BY <1>b DEF AfterEnd
<1>c. PICK w \in BOOLEAN : w = Last(held[thread]).m_write BY <1>3
<1>4. gone \in OnStacks(w) /\ \A b : b # w => gone \notin OnStacks(b)
  <2>1. gone \in OnStacks(w) BY <1>3, <1>c
  <2>2. ASSUME NEW b, gone \in OnStacks(b) PROVE b = w
    <3>1. held[gone[1]][gone[2]].m_write = b BY <1>1, <2>2, OnAStack
    <3>2. held[gone[1]][gone[2]].m_write = w BY <1>1, <2>1, OnAStack
    <3> QED BY <3>1, <3>2
  <2> QED BY <2>1, <2>2
<1>5. /\ OnStacks(TRUE)' = OnStacks(TRUE) \ {gone}
      /\ OnStacks(FALSE)' = OnStacks(FALSE) \ {gone}
      /\ w => gone \in OnStacks(TRUE) /\ gone \notin OnStacks(FALSE)
      /\ ~w => gone \in OnStacks(FALSE) /\ gone \notin OnStacks(TRUE)
  <2>1. CASE w
    <3>1. w = TRUE /\ FALSE # w BY <2>1
    <3> QED BY <1>3, <1>4, <2>1, <3>1
  <2>2. CASE ~w
    <3>1. w = FALSE /\ TRUE # w BY <2>2
    <3> QED BY <1>3, <1>4, <2>2, <3>1
  <2> QED BY <2>1, <2>2
<1>6. /\ w => entry' = [write |-> IF entry.write_recursion = 1 THEN NoThread ELSE entry.write,
                        write_recursion |-> entry.write_recursion - 1, read |-> entry.read]
      /\ ~w => entry' = [write |-> entry.write, write_recursion |-> entry.write_recursion,
                         read |-> EraseReader(entry.read, thread)]
  BY <1>2, <1>c DEF Destruct
<1>e. /\ w => /\ entry'.read = entry.read
              /\ entry'.write_recursion = entry.write_recursion - 1
              /\ entry'.write = IF entry.write_recursion = 1 THEN NoThread ELSE entry.write
      /\ ~w => /\ entry'.read = EraseReader(entry.read, thread)
               /\ entry'.write_recursion = entry.write_recursion
               /\ entry'.write = entry.write
  <2>1. CASE w BY <1>6, <2>1
  <2>2. CASE ~w BY <1>6, <2>2
  <2> QED BY <2>1, <2>2
<1>7. /\ IsFiniteSet(OnStacks(TRUE)) /\ entry.write_recursion = Cardinality(OnStacks(TRUE))
      /\ entry.write = NoThread <=> entry.write_recursion = 0
  BY <1>1 DEF WritersCounted
<1>8. w => entry.write_recursion \in Nat \ {0} BY <1>2, <1>5, <1>7, FS_EmptySet
<1>9. ASSUME ~w
      PROVE  LessListed(OnStacks(FALSE), entry.read, gone, EraseReader(entry.read, thread))
  <2> DEFINE S == OnStacks(FALSE)
             read == entry.read
  <2>1. Listed(S, read) /\ gone \in S /\ read \in Seq(Thread)
    BY <1>1, <1>2, <1>5, <1>9 DEF ReadersListed, Listed
  <2> HIDE DEF S, read
  <2>2. LessListed(S, read, gone, EraseReader(read, gone[1])) BY <2>1, ListedErase
  <2>3. gone[1] = thread BY <1>3
  <2> QED BY <2>2, <2>3 DEF S, read
<1>10. CheckTypeOK'
  <2>1. entry' \in [write : Thread \union {NoThread}, write_recursion : Nat, read : Seq(Thread)]
    <3>1. CASE w BY <1>2, <1>6, <1>8, <3>1
    <3>2. CASE ~w BY <1>2, <1>6, <1>9, <3>2 DEF LessListed
    <3> QED BY <3>1, <3>2
  <2>2. ASSUME NEW t \in Thread, NEW i \in DOMAIN held'[t], held'[t][i].write PROVE held'[t][i].m_write
    <3>1. i \in DOMAIN held[t] /\ held'[t][i] = held[t][i] BY <1>1, <1>3, OnAStack
    <3> QED BY <1>1, <2>2, <3>1 DEF CheckTypeOK
  <2>3. {inMap', alarm', raced', doubled'} \subseteq BOOLEAN BY <1>1 DEF CheckTypeOK, Kept
  <2> QED BY <1>3, <2>1, <2>2, <2>3 DEF CheckTypeOK
<1>11. ReadersListed'
  <2>1. Listed(OnStacks(FALSE)', entry'.read)
    <3>1. CASE w
      <4>1. OnStacks(FALSE)' = OnStacks(FALSE) /\ entry'.read = entry.read BY <1>5, <1>e, <3>1
      <4>2. Listed(OnStacks(FALSE), entry.read) BY <1>1 DEF ReadersListed, Listed
      <4> QED BY <4>1, <4>2
    <3>2. CASE ~w
      <4>1. OnStacks(FALSE)' = OnStacks(FALSE) \ {gone} /\ entry'.read = EraseReader(entry.read, thread)
        BY <1>5, <1>e, <3>2
      <4> QED BY <1>9, <3>2, <4>1 DEF LessListed
    <3> QED BY <3>1, <3>2
  <2> QED BY <2>1 DEF ReadersListed, Listed
<1>12. WritersCounted' /\ (w /\ entry.write_recursion = 1 => OnStacks(TRUE)' = {})
  <2>1. CASE w
    <3> DEFINE S == OnStacks(TRUE)
               fewer == S \ {gone}
    <3>1. IsFiniteSet(S) /\ Cardinality(S) = entry.write_recursion /\ gone \in S BY <1>5, <1>7, <2>1
    <3>2. OnStacks(TRUE)' = fewer BY <1>5
    <3> HIDE DEF S
    <3>3. IsFiniteSet(fewer) /\ Cardinality(fewer) = entry.write_recursion - 1 BY <3>1, FS_RemoveElement
    <3>4. entry.write_recursion = 1 => fewer = {} BY <3>3, FS_EmptySet
    <3> HIDE DEF fewer
    <3>5. IsFiniteSet(OnStacks(TRUE))' /\ Cardinality(OnStacks(TRUE))' = entry.write_recursion - 1
      BY <3>2, <3>3
    <3>6. entry'.write_recursion = entry.write_recursion - 1 BY <1>e, <2>1
    <3>7. entry'.write = NoThread <=> entry'.write_recursion = 0
      <4>1. entry.write # NoThread BY <1>7, <1>8, <2>1
      <4>2. entry'.write = IF entry.write_recursion = 1 THEN NoThread ELSE entry.write BY <1>e, <2>1
      <4> QED BY <1>8, <2>1, <3>6, <4>1, <4>2
    <3>8. entry'.write_recursion = Cardinality(OnStacks(TRUE))' BY <3>5, <3>6
    <3>9. WritersCounted' BY <3>5, <3>7, <3>8 DEF WritersCounted
    <3> QED BY <3>2, <3>4, <3>9
  <2>2. CASE ~w
    <3>1. OnStacks(TRUE)' = OnStacks(TRUE) BY <1>5, <2>2
    <3>2. entry'.write_recursion = entry.write_recursion /\ entry'.write = entry.write BY <1>e, <2>2
    <3> QED BY <1>7, <2>2, <3>1, <3>2 DEF WritersCounted
  <2> QED BY <2>1, <2>2
<1>13. OneWriter'
  <2> SUFFICES ASSUME ~doubled'
               PROVE  /\ \A c \in OnStacks(TRUE)' : c[1] = entry'.write
                      /\ \A c \in OnStacks(TRUE)' : \E i \in 1 .. c[2] : held'[c[1]][i].write
                      /\ entry'.write # NoThread => OnlyPresent(entry'.read, entry'.write)
    BY DEF OneWriter
  <2>1. /\ \A c \in OnStacks(TRUE) : c[1] = entry.write
        /\ \A c \in OnStacks(TRUE) : \E i \in 1 .. c[2] : held[c[1]][i].write
        /\ entry.write # NoThread => OnlyPresent(entry.read, entry.write)
    BY <1>1 DEF OneWriter
  <2>2. entry'.write = entry.write \/ (entry'.write = NoThread /\ OnStacks(TRUE)' = {})
    <3>1. CASE w BY <1>e, <1>12, <3>1
    <3>2. CASE ~w BY <1>e, <3>2
    <3> QED BY <3>1, <3>2
  <2>3. \A c \in OnStacks(TRUE)' : c[1] = entry'.write BY <1>5, <2>1, <2>2
  <2>4. \A c \in OnStacks(TRUE)' : \E i \in 1 .. c[2] : held'[c[1]][i].write
    <3> TAKE c \in OnStacks(TRUE)'
    <3>1. c[1] \in Thread /\ c[2] \in DOMAIN held'[c[1]] BY DEF OnStacks
    <3>2. PICK i \in 1 .. c[2] : held[c[1]][i].write BY <1>5, <2>1
    <3>3. i \in DOMAIN held'[c[1]] BY <1>3, <3>1
    <3>4. held'[c[1]][i].write BY <1>3, <3>1, <3>2, <3>3
    <3> QED BY <3>4
  <2>5. entry'.write # NoThread => OnlyPresent(entry'.read, entry'.write)
    <3> SUFFICES ASSUME entry'.write # NoThread PROVE OnlyPresent(entry'.read, entry'.write)
      OBVIOUS
    <3>1. entry'.write = entry.write /\ OnlyPresent(entry.read, entry.write) BY <2>1, <2>2
    <3>2. CASE w
      <4>1. entry'.read = entry.read BY <1>e, <3>2
      <4> QED BY <3>1, <4>1
    <3>3. CASE ~w
      <4>1. entry'.read = EraseReader(entry.read, thread) BY <1>e, <3>3
      <4> QED BY <1>9, <3>1, <3>3, <4>1 DEF OnlyPresent, LessListed
    <3> QED BY <3>2, <3>3
  <2> QED BY <2>3, <2>4, <2>5
<1>14. inMap' <=> \E t \in Thread : held'[t] # <<>>
  <2>1. (CheckTypeOK /\ ReadersListed /\ WritersCounted => (Kept(entry) <=> \E t \in Thread : held[t] # <<>>))'
    BY KeptWhileHeld, PTL
  <2> QED BY <1>10, <1>11, <1>12, <2>1
<1>15. (alarm' \/ doubled') => raced' BY DEF CheckInv
<1> QED BY <1>10, <1>11, <1>12, <1>13, <1>14, <1>15 DEF CheckInv

(* CheckerExact: however many threads come and go, with any number of checks  *)
(* inside of each other.                                                     *)
THEOREM CheckerAlwaysExact == Spec => []CheckerExact
<1>1. Init => CheckInv
  <2> SUFFICES ASSUME Init PROVE CheckInv
    OBVIOUS
  <2>1. /\ entry = ThreadObject /\ inMap = FALSE /\ held = [t \in Thread |-> <<>>]
        /\ alarm = FALSE /\ raced = FALSE /\ doubled = FALSE
    BY DEF Init
  <2>2. \A S : <<>> \in Seq(S) /\ Len(<<>>) = 0 /\ DOMAIN <<>> = {}
    BY EmptySeq
  <2>3. \A b : OnStacks(b) = {} BY <2>1, <2>2 DEF OnStacks
  <2>4. CheckTypeOK
    <3>1. entry \in [write : Thread \union {NoThread}, write_recursion : Nat, read : Seq(Thread)]
      BY <2>1, <2>2 DEF ThreadObject
    <3>2. held \in [Thread -> Seq([write : BOOLEAN, m_write : BOOLEAN])] BY <2>1, <2>2
    <3>3. \A t \in Thread : Len(held[t]) <= MaxNested /\ DOMAIN held[t] = {}
      BY <2>1, <2>2, UtilitiesAssumption
    <3> QED BY <2>1, <3>1, <3>2, <3>3 DEF CheckTypeOK
  <2>5. ReadersListed
    <3> DEFINE S == OnStacks(FALSE)
               read == entry.read
               place == [c \in S |-> 0]
    <3>1. S = {} /\ DOMAIN read = {} BY <2>1, <2>2, <2>3 DEF ThreadObject
    <3>2. place \in [S -> DOMAIN read] BY <3>1
    <3> HIDE DEF S, read, place
    <3>3. Listed(S, read) BY <3>1, <3>2, ListedIs
    <3> QED BY <3>3 DEF S, read, ReadersListed, Listed
  <2>6. WritersCounted BY <2>1, <2>3, FS_EmptySet DEF WritersCounted, ThreadObject
  <2>7. OneWriter BY <2>1, <2>3 DEF OneWriter, ThreadObject
  <2>8. inMap <=> \E t \in Thread : held[t] # <<>> BY <2>1
  <2> QED BY <2>1, <2>4, <2>5, <2>6, <2>7, <2>8 DEF CheckInv
<1>2. CheckInv /\ [Next]_vars => CheckInv'
  <2> SUFFICES ASSUME CheckInv, [Next]_vars PROVE CheckInv'
    OBVIOUS
  <2>1. [CheckerStep]_checkVars BY StepsApart
  <2>2. CASE UNCHANGED checkVars
    <3>1. UNCHANGED <<entry, inMap, held, alarm, raced, doubled>> BY <2>2 DEF checkVars
    <3>2. OnStacks(TRUE)' = OnStacks(TRUE) /\ OnStacks(FALSE)' = OnStacks(FALSE) BY <3>1 DEF OnStacks
    <3>3. CheckTypeOK' /\ ReadersListed' /\ WritersCounted' /\ OneWriter'
      BY <3>1, <3>2, ZenonT(60) DEF CheckInv, CheckTypeOK, ReadersListed, WritersCounted, OneWriter
    <3> QED BY <3>1, <3>3 DEF CheckInv
  <2>3. ASSUME NEW thread \in Thread, NEW write \in BOOLEAN, BeginCheck(thread, write)
        PROVE  CheckInv'
    <3>1. /\ ~alarm /\ Len(held[thread]) < MaxNested
          /\ alarm' = ~Asserted(entry, thread, write)
          /\ entry' = IF Asserted(entry, thread, write) THEN Construct(entry, thread, write) ELSE entry
          /\ inMap' = TRUE
          /\ held' = IF Asserted(entry, thread, write)
                       THEN [held EXCEPT ![thread] =
                               Append(@, [write |-> write, m_write |-> CountsAsWrite(entry, thread, write)])]
                       ELSE held
          /\ raced' = (raced \/ OthersHold(thread, ~write))
          /\ doubled' = (doubled \/ (write /\ OthersHold(thread, TRUE)))
      BY <2>3, NewEntry DEF BeginCheck
    <3>2. CASE Asserted(entry, thread, write) BY <3>1, <3>2, ConstructKeeps
    <3>3. CASE ~Asserted(entry, thread, write)
      <4>1. entry' = entry /\ held' = held /\ inMap' = TRUE /\ alarm' = TRUE BY <3>1, <3>3
      <4>2. CheckTypeOK /\ ReadersListed /\ WritersCounted /\ OneWriter BY DEF CheckInv
      <4>3. raced' BY <3>1, <3>3, AlarmIsRace
      <4>4. \E t \in Thread : held[t] # <<>>
        <5>1. entry # ThreadObject BY <3>3 DEF ThreadObject, Asserted, OnlyPresent
        <5>2. inMap BY <5>1, NewEntry
        <5> QED BY <5>2 DEF CheckInv
      <4>5. doubled' \in BOOLEAN /\ raced' \in BOOLEAN /\ (doubled => doubled')
        BY <3>1, <4>2 DEF CheckTypeOK, OthersHold
      <4>6. CheckTypeOK' BY <4>1, <4>2, <4>5 DEF CheckTypeOK
      <4>7. ReadersListed' /\ WritersCounted' /\ OneWriter'
        <5>1. OnStacks(TRUE)' = OnStacks(TRUE) /\ OnStacks(FALSE)' = OnStacks(FALSE) BY <4>1 DEF OnStacks
        <5> QED BY <4>1, <4>2, <4>5, <5>1 DEF ReadersListed, WritersCounted, OneWriter
      <4> QED BY <4>1, <4>3, <4>4, <4>6, <4>7 DEF CheckInv
    <3> QED BY <3>2, <3>3
  <2>4. ASSUME NEW thread \in Thread, EndCheck(thread) PROVE CheckInv'
    BY <2>4, DestructKeeps DEF EndCheck
  <2> QED BY <2>1, <2>2, <2>3, <2>4 DEF CheckerStep
<1>3. CheckInv => CheckerExact
  <2> SUFFICES ASSUME CheckInv PROVE CheckerExact
    OBVIOUS
  <2>1. CheckTypeOK /\ ReadersListed /\ WritersCounted /\ OneWriter BY DEF CheckInv
  <2>2. ASSUME ~doubled, NEW r \in Thread, NEW t \in Thread, r # t, Holds(t, TRUE), Holds(r, FALSE)
        PROVE  FALSE
    <3>1. PICK i \in DOMAIN held[t] : held[t][i].write BY <2>2 DEF Holds
    <3>2. i \in 1 .. Len(held[t]) /\ held[t][i].m_write BY <2>1, <3>1, OnAStack DEF CheckTypeOK
    <3>3. <<t, i>> \in OnStacks(TRUE)
      <4>1. held[t][i].m_write \in BOOLEAN /\ <<t, i>> \in OnStacks(held[t][i].m_write)
        <5>1. i \in Nat BY <3>2
        <5> QED BY <2>1, <3>2, <5>1, OnAStack
      <4>2. held[t][i].m_write = TRUE BY <3>2, <4>1
      <4> QED BY <4>1, <4>2
    <3>4. entry.write = t /\ t # NoThread /\ \A c \in OnStacks(TRUE) : c[1] = t
      BY <2>1, <2>2, <3>3, UtilitiesAssumption DEF OneWriter
    <3>5. OnlyPresent(entry.read, t) BY <2>1, <2>2, <3>4 DEF OneWriter
    <3>6. PICK j \in DOMAIN held[r] : TRUE BY <2>2 DEF Holds
    <3>7. j \in 1 .. Len(held[r]) BY <2>1, OnAStack
    <3>8. held[r][j].m_write \in BOOLEAN /\ <<r, j>> \in OnStacks(held[r][j].m_write)
      BY <2>1, <3>7, OnAStack
    <3>9. CASE held[r][j].m_write
      <4>1. held[r][j].m_write = TRUE BY <3>8, <3>9
      <4>2. <<r, j>> \in OnStacks(TRUE) BY <3>8, <4>1
      <4>3. <<r, j>>[1] = t BY <3>4, <4>2
      <4> QED BY <2>2, <4>3
    <3>10. CASE ~held[r][j].m_write
      <4>1. held[r][j].m_write = FALSE BY <3>8, <3>10
      <4>2. <<r, j>> \in OnStacks(FALSE) BY <3>8, <4>1
      <4>3. PICK place \in [OnStacks(FALSE) -> DOMAIN entry.read] :
              /\ \A c, d \in OnStacks(FALSE) : place[c] = place[d] => c = d
              /\ \A k \in DOMAIN entry.read : \E c \in OnStacks(FALSE) : place[c] = k
              /\ \A c \in OnStacks(FALSE) : entry.read[place[c]] = c[1]
        BY <2>1, PlacesNow
      <4>4. place[<<r, j>>] \in DOMAIN entry.read /\ entry.read[place[<<r, j>>]] = r BY <4>2, <4>3
      <4> QED BY <2>2, <3>5, <4>4 DEF OnlyPresent
    <3> QED BY <3>8, <3>9, <3>10
  <2>3. ReadersAlone BY <2>2 DEF ReadersAlone
  <2>4. EntryExact
    <3> DEFINE S == OnStacks(FALSE)
               n == Len(entry.read)
    <3>1. n \in Nat /\ DOMAIN entry.read = 1 .. n BY <2>1, LenProperties DEF CheckTypeOK
    <3>2. Bijection(S, 1 .. n) # {} BY <2>1, <3>1 DEF ReadersListed
    <3> HIDE DEF S, n
    <3>3. Bijection(1 .. n, S) # {} BY <3>2, Fun_ExistsBijSymmetric DEF ExistsBijection
    <3>4. IsFiniteSet(1 .. n) /\ Cardinality(1 .. n) = n BY <3>1, FS_Interval
    <3>5. Cardinality(S) = n BY <3>3, <3>4, FS_Bijection DEF ExistsBijection
    <3> QED BY <2>1, <3>5 DEF EntryExact, WritersCounted, CheckInv, S, n
  <2> QED BY <2>3, <2>4 DEF CheckerExact, CheckInv
<1> QED BY <1>1, <1>2, <1>3, PTL DEF Spec

=============================================================================
