--------------------------- MODULE HandoverProofs ---------------------------
(***************************************************************************)
(* Proofs about what threads hand to each other.  The buffers of commands: *)
(* what is read from one is what was written to it, its count is that of   *)
(* the commands in it, and every object in it is destroyed once, for any   *)
(* arguments and any limits.  The UniverseCache: the two threads never     *)
(* meet in the SwapBuffer, and the cache implements UpdateLog, for any     *)
(* types, ids and infos.                                                   *)
(***************************************************************************)
EXTENDS UniverseCache, CommandBuffer, SequenceTheorems, WellFoundedInduction, TLAPS

-----------------------------------------------------------------------------
(* The UniverseCache. *)

(* The invariant holds of a new updater. *)
LEMMA CacheInitially == CacheInit => CacheInv
<1> SUFFICES ASSUME CacheInit
             PROVE  CacheInv
  OBVIOUS
<1>1. CacheTypeOK
  <2>1. m_ready \in BOOLEAN
    BY Zenon DEF CacheInit
  <2>2. cache \in [Slot -> Info \union {NoInfo}]
    BY DEF CacheInit
  <2>3. /\ m_updates_write \in Seq(Update) /\ m_value \in Seq(Update)
        /\ updates_read \in Seq(Update) /\ log \in Seq(Update) /\ shown \in Nat
    BY DEF CacheInit
  <2> QED BY <2>1, <2>2, <2>3 DEF CacheInit, CacheTypeOK
<1>2. Ownership
  BY DEF CacheInit, Ownership
<1>3. Placement
  BY DEF CacheInit, Placement, HoldsLog
<1> QED BY <1>1, <1>2, <1>3 DEF CacheInv

(* The updates that UpdateInfo and UpdateInfoMap make are updates. *)
LEMMA UpdateTypes ==
    ASSUME NEW type, NEW id, NEW info \in Info
    PROVE  /\ type \in InfoType => [slot |-> <<type, k_invalid_id>>, info |-> info] \in Update
           /\ type \in MapType /\ id \in ID => [slot |-> <<type, id>>, info |-> info] \in Update
BY DEF Update, Slot

(* Adding an update extends the log and the buffer that ends it. *)
LEMMA CacheAdd ==
    ASSUME CacheInv, NEW u \in Update, writing = "idle", AddInfoUpdate(u)
    PROVE  CacheInv'
<1>1. CacheTypeOK'
  BY DEF CacheInv, CacheTypeOK, AddInfoUpdate
<1>2. Ownership'
  BY DEF CacheInv, Ownership, AddInfoUpdate
<1>3. /\ Len(log') = Len(log) + 1
      /\ Len(m_updates_write') = Len(m_updates_write) + 1
      /\ \A i \in 1 .. Len(log) : log'[i] = log[i]
      /\ log'[Len(log) + 1] = u
      /\ \A i \in 1 .. Len(m_updates_write) : m_updates_write'[i] = m_updates_write[i]
      /\ m_updates_write'[Len(m_updates_write) + 1] = u
  BY DEF CacheInv, CacheTypeOK, AddInfoUpdate
<1>4. Placement'
  <2>1. /\ Len(log) \in Nat /\ Len(updates_read) \in Nat
        /\ Len(m_value) \in Nat /\ Len(m_updates_write) \in Nat /\ shown \in Nat
    BY DEF CacheInv, CacheTypeOK
  <2>2. UNCHANGED <<updates_read, m_value, shown>>
    BY DEF AddInfoUpdate
  <2>3. (Len(log) = shown + Len(updates_read) + Len(m_value) + Len(m_updates_write))'
    BY <1>3, <2>1, <2>2 DEF CacheInv, Placement
  <2>4. HoldsLog(updates_read, shown)'
    BY <1>3, <2>1, <2>2 DEF CacheInv, Placement, HoldsLog
  <2>6. HoldsLog(m_value, shown + Len(updates_read))'
    BY <1>3, <2>1, <2>2 DEF CacheInv, Placement, HoldsLog
  <2>5. HoldsLog(m_updates_write, shown + Len(updates_read) + Len(m_value))'
    <3> SUFFICES ASSUME NEW i \in 1 .. Len(m_updates_write')
                 PROVE  m_updates_write'[i] = log'[shown + Len(updates_read) + Len(m_value) + i]
      BY <2>2 DEF HoldsLog
    <3>1. CASE i \in 1 .. Len(m_updates_write)
      BY <3>1, <1>3, <2>1 DEF CacheInv, Placement, HoldsLog
    <3>2. CASE i = Len(m_updates_write) + 1
      BY <3>2, <1>3, <2>1 DEF CacheInv, Placement
    <3> QED BY <3>1, <3>2, <1>3, <2>1
  <2> QED BY <2>3, <2>4, <2>5, <2>6 DEF Placement
<1> QED BY <1>1, <1>2, <1>4 DEF CacheInv

(* Publishing moves the unpublished updates into the empty m_value. *)
LEMMA CachePublish ==
    ASSUME CacheInv, PublishUpdates
    PROVE  CacheInv'
<1> USE DEF CacheInv
<1>1. CASE Publish
  BY <1>1 DEF Publish, CacheTypeOK, Ownership, Placement, HoldsLog
<1>2. CASE PublishSwap
  <2>1. m_value = <<>>
    BY <1>2 DEF PublishSwap, Ownership
  <2>2. CacheTypeOK'
    BY <1>2, <2>1 DEF PublishSwap, CacheTypeOK
  <2>3. Ownership'
    BY <1>2, <2>1 DEF PublishSwap, Ownership
  <2>4. Placement'
    BY <1>2, <2>1 DEF PublishSwap, Placement, HoldsLog, CacheTypeOK
  <2> QED BY <2>2, <2>3, <2>4
<1>3. CASE PublishStore
  <2>1. CacheTypeOK'
    BY <1>3 DEF PublishStore, CacheTypeOK
  <2>2. Ownership'
    BY <1>3 DEF PublishStore, Ownership, CacheTypeOK
  <2>3. Placement'
    BY <1>3 DEF PublishStore, Placement, HoldsLog
  <2> QED BY <2>1, <2>2, <2>3
<1> QED BY <1>1, <1>2, <1>3 DEF PublishUpdates

(* Applying an update removes it from the front of updates_read. *)
LEMMA CacheApply ==
    ASSUME CacheInv, RetrieveApply
    PROVE  CacheInv' /\ shown < Len(log) /\ Head(updates_read) = log[shown + 1]
<1>1. updates_read \in Seq(Update) /\ updates_read # <<>>
  BY DEF CacheInv, CacheTypeOK, RetrieveApply
<1>2. /\ Len(updates_read) >= 1
      /\ Head(updates_read) = updates_read[1] /\ Head(updates_read) \in Update
      /\ updates_read' \in Seq(Update)
      /\ Len(updates_read') = Len(updates_read) - 1
      /\ \A i \in 1 .. Len(updates_read') : updates_read'[i] = updates_read[i + 1]
  BY <1>1 DEF RetrieveApply
<1>3. /\ Len(log) \in Nat /\ Len(updates_read) \in Nat
      /\ Len(m_value) \in Nat /\ Len(m_updates_write) \in Nat /\ shown \in Nat
  BY DEF CacheInv, CacheTypeOK
<1>4. Head(updates_read) = log[shown + 1] /\ shown < Len(log)
  BY <1>2, <1>3 DEF CacheInv, Placement, HoldsLog
<1>5. CacheTypeOK'
  BY <1>2 DEF CacheInv, CacheTypeOK, RetrieveApply, Apply, Update
<1>6. Ownership'
  BY DEF CacheInv, Ownership, RetrieveApply
<1>7. Placement'
  <2>1. shown' = shown + 1 /\ UNCHANGED <<m_value, m_updates_write, log>>
    BY DEF RetrieveApply
  <2>2. HoldsLog(updates_read, shown)'
    BY <1>2, <1>3, <2>1 DEF CacheInv, Placement, HoldsLog
  <2>3. /\ HoldsLog(m_value, shown + Len(updates_read))'
        /\ HoldsLog(m_updates_write, shown + Len(updates_read) + Len(m_value))'
    <3>1. shown' + Len(updates_read') = shown + Len(updates_read)
      BY <1>2, <1>3, <2>1
    <3> QED BY <3>1, <2>1 DEF CacheInv, Placement, HoldsLog
  <2>4. (Len(log) = shown + Len(updates_read) + Len(m_value) + Len(m_updates_write))'
    <3>1. Len(log) = shown + Len(updates_read) + Len(m_value) + Len(m_updates_write)
      BY DEF CacheInv, Placement
    <3>2. shown' + Len(updates_read') = shown + Len(updates_read)
      BY <1>2, <1>3, <2>1
    <3> QED BY <1>3, <2>1, <3>1, <3>2
  <2> QED BY <2>2, <2>3, <2>4 DEF Placement
<1> QED BY <1>4, <1>5, <1>6, <1>7 DEF CacheInv

(* Retrieving moves m_value into the empty updates_read. *)
LEMMA CacheRetrieve ==
    ASSUME CacheInv, RetrieveUpdates
    PROVE  CacheInv'
<1> USE DEF CacheInv
<1>1. CASE Retrieve
  BY <1>1 DEF Retrieve, CacheTypeOK, Ownership, Placement, HoldsLog
<1>2. CASE RetrieveSwap
  <2>1. updates_read = <<>> /\ m_ready
    BY <1>2 DEF RetrieveSwap, Ownership
  <2>2. CacheTypeOK'
    BY <1>2, <2>1 DEF RetrieveSwap, CacheTypeOK
  <2>3. Ownership'
    BY <1>2, <2>1 DEF RetrieveSwap, Ownership
  <2>4. Placement'
    BY <1>2, <2>1 DEF RetrieveSwap, Placement, HoldsLog, CacheTypeOK
  <2> QED BY <2>2, <2>3, <2>4
<1>3. CASE RetrieveStore
  <2>1. CacheTypeOK'
    BY <1>3 DEF RetrieveStore, CacheTypeOK
  <2>2. Ownership'
    BY <1>3 DEF RetrieveStore, Ownership, CacheTypeOK
  <2>3. Placement'
    BY <1>3 DEF RetrieveStore, Placement, HoldsLog
  <2> QED BY <2>1, <2>2, <2>3
<1>4. CASE RetrieveApply
  BY <1>4, CacheApply
<1>5. CASE RetrieveEnd
  BY <1>5 DEF RetrieveEnd, CacheTypeOK, Ownership, Placement, HoldsLog
<1> QED BY <1>1, <1>2, <1>3, <1>4, <1>5 DEF RetrieveUpdates

(* Every step preserves the invariant. *)
LEMMA CacheStep == CacheInv /\ [CacheNext]_cacheVars => CacheInv'
<1> SUFFICES ASSUME CacheInv, [CacheNext]_cacheVars
             PROVE  CacheInv'
  OBVIOUS
<1>1. ASSUME NEW type \in Type, NEW info \in Info,
             UpdateInfo(type, info) \/ \E id \in ID : UpdateInfoMap(type, id, info)
      PROVE  CacheInv'
  BY <1>1, CacheAdd, UpdateTypes DEF UpdateInfo, UpdateInfoMap
<1>2. CASE UNCHANGED cacheVars
  BY <1>2 DEF cacheVars, CacheInv, CacheTypeOK, Ownership, Placement, HoldsLog
<1> QED BY <1>1, <1>2, CachePublish, CacheRetrieve DEF CacheNext

(* The ownership of m_value and the place of every buffer in the log are    *)
(* invariants of the two threads.                                          *)
THEOREM CacheInvariant == CacheSpec => []CacheInv
BY CacheInitially, CacheStep, PTL DEF CacheSpec

(* Every variable keeps its type. *)
THEOREM TypeCorrect == CacheSpec => []CacheTypeOK
<1>1. CacheInv => CacheTypeOK
  BY DEF CacheInv
<1> QED BY <1>1, CacheInvariant, PTL

(* Publish and Retrieve never touch m_value at the same time. *)
THEOREM SwapAlwaysExclusive == CacheSpec => []SwapExclusive
<1>1. CacheInv => SwapExclusive
  BY DEF CacheInv, Ownership, SwapExclusive
<1> QED BY <1>1, CacheInvariant, PTL

(* What the cache shows is always a prefix of the updates made: the two     *)
(* threads and their three buffers implement the log.                      *)
THEOREM CacheImplementsLog == CacheSpec => Refinement
<1>1. CacheInit => Log!Init
  BY DEF CacheInit, Log!Init
<1>2. CacheInv /\ [CacheNext]_cacheVars => [Log!Next]_(Log!vars)
  <2> SUFFICES ASSUME CacheInv, [CacheNext]_cacheVars
               PROVE  [Log!Next]_(Log!vars)
    OBVIOUS
  <2>1. ASSUME NEW type \in Type, NEW info \in Info,
               UpdateInfo(type, info) \/ \E id \in ID : UpdateInfoMap(type, id, info)
        PROVE  Log!Next
    <3>1. PICK u \in Update : AddInfoUpdate(u)
      BY <2>1, UpdateTypes DEF UpdateInfo, UpdateInfoMap
    <3>2. Log!Write(u)
      BY <3>1 DEF AddInfoUpdate, Log!Write
    <3> QED BY <3>2 DEF Log!Next, Log!Update, Update
  <2>2. ASSUME PublishUpdates
        PROVE  UNCHANGED Log!vars
    BY <2>2 DEF PublishUpdates, Publish, PublishSwap, PublishStore, Log!vars
  <2>3. ASSUME RetrieveApply
        PROVE  Log!Next
    <3>1. shown < Len(log) /\ Head(updates_read) = log[shown + 1]
      BY <2>3, CacheApply
    <3>2. Log!Show
      BY <2>3, <3>1 DEF RetrieveApply, Apply, Log!Show
    <3> QED BY <3>2 DEF Log!Next
  <2>4. ASSUME Retrieve \/ RetrieveSwap \/ RetrieveStore \/ RetrieveEnd
        PROVE  UNCHANGED Log!vars
    BY <2>4 DEF Retrieve, RetrieveSwap, RetrieveStore, RetrieveEnd, Log!vars
  <2>5. CASE UNCHANGED cacheVars
    BY <2>5 DEF cacheVars, Log!vars
  <2> QED BY <2>1, <2>2, <2>3, <2>4, <2>5 DEF CacheNext, RetrieveUpdates
<1> QED BY <1>1, <1>2, CacheInvariant, PTL DEF CacheSpec, Refinement, Log!Spec

-----------------------------------------------------------------------------
(* Command buffers: arguments. *)

(* A set of numbers that has 0 and the successor of each of its numbers.    *)
LEMMA Upwards ==
    ASSUME NEW S, 0 \in S, \A n \in Nat : n \in S => n + 1 \in S
    PROVE  Nat \subseteq S
<1> SUFFICES ASSUME Nat \ S # {} PROVE FALSE OBVIOUS
<1>1. PICK i \in Nat \ S : \A j \in Nat \ S : i <= j
  <2>1. PICK i \in Nat \ S : \A j \in Nat \ S : ~(<<j, i>> \in OpToRel(<, Nat))
    BY NatLessThanWellFounded, WFMin
  <2>2. \A j \in Nat \ S : i <= j
    <3> TAKE j \in Nat \ S
    <3>1. i \in Nat /\ j \in Nat OBVIOUS
    <3>2. ~(j < i) BY <2>1, <3>1 DEF OpToRel
    <3> QED BY <3>1, <3>2
  <2> QED BY <2>2
<1>2. i # 0 /\ i - 1 \in Nat BY <1>1
<1>3. i - 1 \in S BY <1>1, <1>2
<1> QED BY <1>1, <1>2, <1>3

(* The smallest width that holds an integer holds it. *)
LEMMA WidthHolds ==
    ASSUME NEW v \in Number
    PROVE  /\ v \in Int /\ IntWidth(v) \in 1 .. 4
           /\ v < 0 => v >= -Half[IntWidth(v)]
           /\ ~(v < 0) => v <= 2 * Half[IntWidth(v)] - 1
<1>1. /\ Half[1] \in Nat \ {0} /\ Half[2] \in Nat \ {0} /\ Half[3] \in Nat \ {0} /\ Half[4] \in Nat \ {0}
      /\ v \in Int /\ v >= -Half[4] /\ v <= Half[4] - 1
  BY BufferAssumption
<1>2. CASE v < 0
  <2>1. IntWidth(v) = CHOOSE i \in 1 .. 4 : (i = 4 \/ v >= Least(i)) /\ \A j \in 1 .. i - 1 : v < Least(j)
    BY <1>2 DEF IntWidth
  <2>2. \E i \in 1 .. 4 : (i = 4 \/ v >= Least(i)) /\ \A j \in 1 .. i - 1 : v < Least(j)
    BY <1>1 DEF Least
  <2>3. IntWidth(v) \in 1 .. 4 /\ (IntWidth(v) = 4 \/ v >= Least(IntWidth(v)))
    BY <2>1, <2>2
  <2> QED BY <1>1, <1>2, <2>3 DEF Least
<1>3. CASE ~(v < 0)
  <2>1. IntWidth(v) = CHOOSE i \in 1 .. 4 : (i = 4 \/ v <= Values(i) - 1) /\ \A j \in 1 .. i - 1 : v > Values(j) - 1
    BY <1>3 DEF IntWidth
  <2>2. \E i \in 1 .. 4 : (i = 4 \/ v <= Values(i) - 1) /\ \A j \in 1 .. i - 1 : v > Values(j) - 1
    BY <1>1 DEF Values
  <2>3. IntWidth(v) \in 1 .. 4 /\ (IntWidth(v) = 4 \/ v <= Values(IntWidth(v)) - 1)
    BY <2>1, <2>2
  <2> QED BY <1>1, <1>3, <2>3 DEF Values
<1> QED BY <1>2, <1>3

(* The tags of integers are different from each other and from all others.  *)
LEMMA TagsOfIntegers ==
    ASSUME NEW i \in 1 .. 4
    PROVE  /\ Signed[i] \notin Complete \union Other /\ Unsigned[i] \notin Complete \union Other
           /\ Signed[i] \in TypeTag /\ Unsigned[i] \in TypeTag
           /\ \A j \in 1 .. 4 : (Signed[j] = Signed[i] => j = i) /\ Unsigned[j] # Signed[i]
<1>1. Signed[i] \in Range(Signed) /\ Unsigned[i] \in Range(Unsigned)
  BY DEF Range, Signed, Unsigned
<1>2. Signed[i] \notin Other /\ Unsigned[i] \notin Other BY <1>1, ArgsAssumption
<1>3. Signed[i] \notin Complete /\ Unsigned[i] \notin Complete BY DEF Signed, Unsigned, Complete
<1>4. \A j \in 1 .. 4 : (Signed[j] = Signed[i] => j = i) /\ Unsigned[j] # Signed[i]
  BY DEF Signed, Unsigned
<1> QED BY <1>1, <1>2, <1>3, <1>4 DEF TypeTag

(* An integer is read as it was written. *)
LEMMA IntReadBack ==
    ASSUME NEW v \in Number
    PROVE  \E t \in TypeTag \ Complete, w \in Int :
               WriteInt(v) = <<Tag(t), Value(t, w)>> /\ t \notin Other /\ ReadInt(t, w) = v
<1>1. PICK i \in 1 .. 4 : i = IntWidth(v) BY WidthHolds
<1>2. v \in Int /\ (v < 0 => v >= -Half[i]) /\ (~(v < 0) => v <= 2 * Half[i] - 1) BY <1>1, WidthHolds
<1>3. PICK h \in Nat \ {0} : h = Half[i] BY BufferAssumption
<1>4. CASE v < 0
  <2>1. WriteInt(v) = <<Tag(Signed[i]), Value(Signed[i], v % (2 * h))>>
    BY <1>1, <1>3, <1>4 DEF WriteInt, Values
  <2>2. v % (2 * h) = v + 2 * h
    <3>1. PICK c \in Nat \ {0} : c = 2 * h OBVIOUS
    <3>2. v \in Int /\ v < 0 /\ v >= -c BY <1>2, <1>3, <1>4, <3>1
    <3>3. v % c = v + c BY ONLY <3>1, <3>2
    <3> QED BY <3>1, <3>3
  <2>3. Signed[i] \in TypeTag \ Complete /\ Signed[i] \notin Other /\ v + 2 * h \in Int BY <1>2, TagsOfIntegers
  <2>4. i = CHOOSE j \in 1 .. 4 : Signed[j] = Signed[i] BY TagsOfIntegers
  <2>5. ~\E j \in 1 .. 4 : Unsigned[j] = Signed[i] BY TagsOfIntegers
  <2>6. PICK u \in Int : u = v + 2 * h
    <3>1. v + 2 * h \in Int BY <1>2
    <3> QED BY <3>1
  <2>7. ReadInt(Signed[i], u) = v
    <3>1. ReadInt(Signed[i], u) = IF u >= Half[i] THEN u - Values(i) ELSE u BY <2>4, <2>5 DEF ReadInt
    <3>2. u >= h /\ u - 2 * h = v BY <1>2, <1>3, <1>4, <2>6
    <3> QED BY <1>3, <3>1, <3>2 DEF Values
  <2> QED BY <2>1, <2>2, <2>3, <2>6, <2>7
<1>5. CASE ~(v < 0)
  <2>1. WriteInt(v) = <<Tag(Unsigned[i]), Value(Unsigned[i], v % (2 * h))>>
    BY <1>1, <1>3, <1>5 DEF WriteInt, Values
  <2>2. v % (2 * h) = v BY <1>2, <1>3, <1>5
  <2>3. Unsigned[i] \in TypeTag \ Complete /\ Unsigned[i] \notin Other BY TagsOfIntegers
  <2>4. ReadInt(Unsigned[i], v) = v BY DEF ReadInt
  <2> QED BY <1>2, <2>1, <2>2, <2>3, <2>4
<1> QED BY <1>4, <1>5

(* A variant takes one cell, which says it all, or a tag and a value that    *)
(* together are read as the variant.                                        *)
LEMMA ReadBack ==
    ASSUME NEW v \in Variant
    PROVE  \/ \E t \in Complete : WriteGenericVariant(v) = <<Tag(t)>> /\ Plain(t) = v
           \/ \E t \in TypeTag \ Complete, w \in Int :
                  WriteGenericVariant(v) = <<Tag(t), Value(t, w)>> /\ ReadValue(t, w) = v
<1>1. CASE v \in [type : {"NIL"}, value : {0}]
  <2>1. v = [type |-> "NIL", value |-> 0] BY <1>1
  <2>2. WriteGenericVariant(v) = <<Tag("NIL")>> BY <2>1 DEF WriteGenericVariant
  <2>3. Plain("NIL") = v /\ "NIL" \in Complete BY <2>1 DEF Plain, Complete
  <2> QED BY <2>2, <2>3
<1>2. CASE v \in [type : {"BOOL"}, value : {0, 1}]
  <2>1. v = [type |-> "BOOL", value |-> v.value] /\ v.value \in {0, 1} BY <1>2
  <2>2. WriteGenericVariant(v) = <<Tag(IF v.value = 1 THEN "TRUE" ELSE "FALSE")>>
    BY <2>1 DEF WriteGenericVariant
  <2>3. CASE v.value = 1
    <3>1. Plain("TRUE") = v /\ "TRUE" \in Complete BY <2>1, <2>3 DEF Plain, Complete
    <3> QED BY <2>2, <2>3, <3>1
  <2>4. CASE v.value = 0
    <3>1. Plain("FALSE") = v /\ "FALSE" \in Complete BY <2>1, <2>4 DEF Plain, Complete
    <3> QED BY <2>2, <2>4, <3>1
  <2> QED BY <2>1, <2>3, <2>4
<1>3. CASE v \in [type : {"INT"}, value : Number]
  <2>1. v = [type |-> "INT", value |-> v.value] /\ v.value \in Number BY <1>3
  <2>2. WriteGenericVariant(v) = WriteInt(v.value) BY <2>1 DEF WriteGenericVariant
  <2>3. PICK t \in TypeTag \ Complete, w \in Int :
            WriteInt(v.value) = <<Tag(t), Value(t, w)>> /\ t \notin Other /\ ReadInt(t, w) = v.value
    BY <2>1, IntReadBack
  <2>4. ReadValue(t, w) = v BY <2>1, <2>3 DEF ReadValue
  <2> QED BY <2>2, <2>3, <2>4
<1>4. CASE v \in [type : Other, value : {0}]
  <2>1. v = [type |-> v.type, value |-> 0] /\ v.type \in Other BY <1>4
  <2>2. v.type \notin Complete /\ v.type # "BOOL" /\ v.type # "INT" /\ v.type # "NIL" /\ v.type \in TypeTag
    BY <2>1, ArgsAssumption DEF TypeTag, Complete
  <2>3. WriteGenericVariant(v) = <<Tag(v.type), Value(v.type, v.value)>> BY <2>2 DEF WriteGenericVariant
  <2>4. ReadValue(v.type, v.value) = v BY <2>1 DEF ReadValue
  <2>5. v.value \in Int BY <2>1
  <2> QED BY <2>2, <2>3, <2>4, <2>5
<1> QED BY <1>1, <1>2, <1>3, <1>4 DEF Variant

(* Its cells are cells, and live. *)
LEMMA VariantCells ==
    ASSUME NEW v \in Variant
    PROVE  /\ WriteGenericVariant(v) \in Seq(Cells) /\ Len(WriteGenericVariant(v)) \in {1, 2}
           /\ \A j \in DOMAIN WriteGenericVariant(v) :
                  HasObject(WriteGenericVariant(v)[j]) => WriteGenericVariant(v)[j].live
<1>1. CASE \E t \in Complete : WriteGenericVariant(v) = <<Tag(t)>>
  <2>1. PICK t \in Complete : WriteGenericVariant(v) = <<Tag(t)>> BY <1>1
  <2>2. Tag(t) \in Cells /\ ~HasObject(Tag(t)) BY DEF Tag, Cells, TypeTag, HasObject
  <2> QED BY <2>1, <2>2
<1>2. CASE \E t \in TypeTag, w \in Int : WriteGenericVariant(v) = <<Tag(t), Value(t, w)>>
  <2>1. PICK t \in TypeTag, w \in Int : WriteGenericVariant(v) = <<Tag(t), Value(t, w)>> BY <1>2
  <2>2. Tag(t) \in Cells /\ ~HasObject(Tag(t)) BY DEF Tag, Cells, HasObject
  <2>3. Value(t, w) \in Cells /\ Value(t, w).live BY DEF Value, Cells
  <2> QED BY <2>1, <2>2, <2>3
<1> QED BY <1>1, <1>2, ReadBack

-----------------------------------------------------------------------------
(* Command buffers: what a run of cells holds. *)

(* The cells of a command are made one argument after the other. *)
CellsFrom(name, args, g) ==
    [n \in 0 .. Len(args) |->
        IF n = 0 THEN <<Header(name, Len(args))>> ELSE g[n - 1] \o WriteGenericVariant(args[n])]

LEMMA WriteArgsIs ==
    ASSUME NEW name, NEW args, Len(args) \in Nat
    PROVE  WriteArgs(name, args) = CellsFrom(name, args, WriteArgs(name, args))
<1> DEFINE H == <<Header(name, Len(args))>>
           S == {k \in Nat : \E g : g = [n \in 0 .. k |-> IF n = 0 THEN H ELSE g[n - 1] \o WriteGenericVariant(args[n])]}
<1>1. 0 \in S
  <2> DEFINE g == [n \in 0 .. 0 |-> H]
  <2>1. g = [n \in 0 .. 0 |-> IF n = 0 THEN H ELSE g[n - 1] \o WriteGenericVariant(args[n])] OBVIOUS
  <2> HIDE DEF g, H
  <2> QED BY <2>1
<1>2. \A k \in Nat : k \in S => k + 1 \in S
  <2> HIDE DEF H
  <2> TAKE k \in Nat
  <2> HAVE k \in S
  <2>1. PICK g : g = [n \in 0 .. k |-> IF n = 0 THEN H ELSE g[n - 1] \o WriteGenericVariant(args[n])] OBVIOUS
  <2> DEFINE h == [n \in 0 .. k + 1 |-> IF n = k + 1 THEN g[k] \o WriteGenericVariant(args[n]) ELSE g[n]]
  <2>2. \A n \in 0 .. k + 1 : h[n] = IF n = 0 THEN H ELSE h[n - 1] \o WriteGenericVariant(args[n])
    <3> TAKE n \in 0 .. k + 1
    <3>1. CASE n = 0 BY <3>1, <2>1
    <3>2. CASE n = k + 1
      <4>1. n - 1 = k /\ n - 1 \in 0 .. k + 1 /\ n - 1 # k + 1 /\ n # 0 BY <3>2
      <4>2. h[n] = g[k] \o WriteGenericVariant(args[n]) BY <3>2
      <4>3. h[n - 1] = g[k] BY <4>1
      <4> QED BY <4>1, <4>2, <4>3
    <3>3. CASE n \in 1 .. k
      <4>1. n \in 0 .. k /\ n # 0 /\ n # k + 1 /\ n - 1 \in 0 .. k + 1 /\ n - 1 # k + 1 BY <3>3
      <4>2. h[n] = g[n] /\ h[n - 1] = g[n - 1] BY <4>1
      <4>3. g[n] = g[n - 1] \o WriteGenericVariant(args[n]) BY <2>1, <4>1
      <4> QED BY <4>1, <4>2, <4>3
    <3> QED BY <3>1, <3>2, <3>3
  <2>3. h = [n \in 0 .. k + 1 |-> h[n]] OBVIOUS
  <2> HIDE DEF h
  <2>4. h = [n \in 0 .. k + 1 |-> IF n = 0 THEN H ELSE h[n - 1] \o WriteGenericVariant(args[n])] BY <2>2, <2>3
  <2> QED BY <2>4
<1>3. Len(args) \in S
  <2> HIDE DEF S
  <2>1. Nat \subseteq S BY <1>1, <1>2, Upwards
  <2> QED BY <2>1
<1>4. \E g : g = [n \in 0 .. Len(args) |-> IF n = 0 THEN H ELSE g[n - 1] \o WriteGenericVariant(args[n])] BY <1>3
<1>5. WriteArgs(name, args) =
        CHOOSE g : g = [n \in 0 .. Len(args) |-> IF n = 0 THEN H ELSE g[n - 1] \o WriteGenericVariant(args[n])]
  BY DEF WriteArgs
<1> QED BY <1>4, <1>5 DEF CellsFrom

(* Cells that stay as they are hold what they held. *)
SameCells(d, e, lo, hi) == hi <= Len(e) /\ \A i \in lo + 1 .. hi : e[i] = d[i]

LEMMA ArgSame ==
    ASSUME NEW d \in Seq(Cells), NEW e \in Seq(Cells), NEW lo \in Nat, NEW hi \in Nat,
           SameCells(d, e, lo, hi),
           NEW p \in Nat, NEW q \in Nat, NEW v \in Variant, lo <= p, q <= hi, HoldsArg(d, p, q, v)
    PROVE  HoldsArg(e, p, q, v)
<1>1. PICK w \in Seq(Cells) : w = WriteGenericVariant(v) BY VariantCells
<1>2. q = p + Len(w) /\ \A j \in DOMAIN w : d[p + j] = w[j] BY <1>1 DEF HoldsArg
<1>3. /\ Len(e) \in Nat /\ Len(w) \in Nat /\ hi <= Len(e)
      /\ \A i \in lo + 1 .. hi : e[i] = d[i]
  BY DEF SameCells
<1>4. \A j \in DOMAIN w : e[p + j] = w[j]
  <2> TAKE j \in DOMAIN w
  <2>1. j \in 1 .. Len(w) OBVIOUS
  <2>2. p + j \in lo + 1 .. hi BY <1>2, <1>3, <2>1
  <2>3. e[p + j] = d[p + j] BY <1>3, <2>2
  <2> QED BY <1>2, <2>3
<1>5. q <= Len(e) BY <1>3
<1> QED BY <1>1, <1>2, <1>4, <1>5 DEF HoldsArg

LEMMA ArgsSame ==
    ASSUME NEW d \in Seq(Cells), NEW e \in Seq(Cells), NEW lo \in Nat, NEW hi \in Nat,
           SameCells(d, e, lo, hi),
           NEW p \in Nat, NEW q \in Nat, NEW args \in Seq(Variant), NEW k \in Nat,
           lo <= p, q <= hi, HoldsArgs(d, p, q, args, k)
    PROVE  HoldsArgs(e, p, q, args, k)
<1>1. PICK at \in [k .. Len(args) -> p .. q] :
        /\ at[k] = p /\ at[Len(args)] = q /\ Rising(at)
        /\ \A i \in k + 1 .. Len(args) : HoldsArg(d, at[i - 1], at[i], args[i])
  BY DEF HoldsArgs
<1>2. \A i \in k + 1 .. Len(args) : HoldsArg(e, at[i - 1], at[i], args[i])
  <2> TAKE i \in k + 1 .. Len(args)
  <2>1. i \in k .. Len(args) /\ i - 1 \in k .. Len(args) /\ i \in 1 .. Len(args) OBVIOUS
  <2>2. PICK x \in Nat, y \in Nat : x = at[i - 1] /\ y = at[i] /\ lo <= x /\ y <= hi
    <3>1. at[i - 1] \in p .. q /\ at[i] \in p .. q BY <1>1, <2>1
    <3>2. at[i - 1] \in Nat /\ at[i] \in Nat /\ lo <= at[i - 1] /\ at[i] <= hi BY <3>1
    <3> QED BY <3>2
  <2>3. args[i] \in Variant /\ HoldsArg(d, x, y, args[i]) BY <1>1, <2>1, <2>2
  <2>4. HoldsArg(e, x, y, args[i]) BY <2>2, <2>3, ArgSame
  <2> QED BY <2>2, <2>4
<1> QED BY <1>1, <1>2 DEF HoldsArgs

Call == [name : Name, args : Seq(Variant)]

LEMMA CommandSame ==
    ASSUME NEW d \in Seq(Cells), NEW e \in Seq(Cells), NEW lo \in Nat, NEW hi \in Nat,
           SameCells(d, e, lo, hi),
           NEW how, NEW p \in Nat, NEW q \in Nat, NEW c \in Call,
           lo <= p, q <= hi, HoldsCommand(how, d, p, q, c)
    PROVE  HoldsCommand(how, e, p, q, c)
<1>1. p < q /\ d[p + 1] = Header(c.name, Len(c.args)) BY DEF HoldsCommand
<1>2. e[p + 1] = d[p + 1]
  <2>1. p + 1 \in lo + 1 .. hi BY <1>1
  <2> QED BY <2>1 DEF SameCells
<1>3. q <= Len(e) BY LenProperties DEF SameCells
<1>4. c.args \in Seq(Variant) BY DEF Call
<1>5. CASE how = "typed"
  <2>1. q = p + 2 /\ d[p + 2] = Tuple(c.args) BY <1>5 DEF HoldsCommand
  <2>2. p + 2 \in lo + 1 .. hi BY <2>1
  <2>3. e[p + 2] = d[p + 2] BY <2>2 DEF SameCells
  <2> QED BY <1>1, <1>2, <1>3, <1>5, <2>1, <2>3 DEF HoldsCommand
<1>6. CASE how # "typed"
  <2>1. HoldsArgs(d, p + 1, q, c.args, 0) BY <1>6 DEF HoldsCommand
  <2>2. p + 1 \in Nat /\ lo <= p + 1 /\ 0 \in Nat OBVIOUS
  <2>3. HoldsArgs(e, p + 1, q, c.args, 0) BY <2>1, <2>2, <1>4, ArgsSame
  <2> QED BY <1>1, <1>2, <1>3, <1>6, <2>3 DEF HoldsCommand
<1> QED BY <1>5, <1>6

(* The same of the rest of a buffer, and of commands that stay.             *)
LEMMA CommandsSame ==
    ASSUME NEW d \in Seq(Cells), NEW e \in Seq(Cells), NEW p \in Nat, Len(d) = Len(e),
           \A i \in p + 1 .. Len(d) : e[i] = d[i],
           NEW how, NEW lo \in Nat, NEW hi \in Nat, NEW cs, NEW ds,
           \A n \in lo .. hi : cs[n] \in Call /\ ds[n] = cs[n],
           HoldsCommands(how, cs, d, p, lo, hi)
    PROVE  HoldsCommands(how, ds, e, p, lo, hi)
<1>1. PICK at \in [lo .. hi + 1 -> p .. Len(d)] :
        /\ at[lo] = p /\ at[hi + 1] = Len(d) /\ Rising(at)
        /\ \A n \in lo .. hi : HoldsCommand(how, d, at[n], at[n + 1], cs[n])
  BY DEF HoldsCommands
<1>2. PICK l \in Nat : l = Len(d) /\ l = Len(e) BY LenProperties
<1>3. \A n \in lo .. hi : HoldsCommand(how, e, at[n], at[n + 1], ds[n])
  <2> TAKE n \in lo .. hi
  <2>1. n \in lo .. hi + 1 /\ n + 1 \in lo .. hi + 1 OBVIOUS
  <2>2. PICK x \in Nat, y \in Nat : x = at[n] /\ y = at[n + 1] /\ p <= x /\ y <= l
    <3>1. at[n] \in p .. l /\ at[n + 1] \in p .. l BY <1>1, <1>2, <2>1
    <3>2. at[n] \in Nat /\ at[n + 1] \in Nat /\ p <= at[n] /\ at[n + 1] <= l BY <3>1
    <3> QED BY <3>2
  <2>3. HoldsCommand(how, d, x, y, cs[n]) /\ cs[n] \in Call /\ ds[n] = cs[n] BY <1>1, <2>2
  <2>4. SameCells(d, e, p, l) BY <1>2 DEF SameCells
  <2>5. HoldsCommand(how, e, x, y, cs[n]) BY <2>2, <2>3, <2>4, CommandSame
  <2> QED BY <2>2, <2>3, <2>5
<1> QED BY <1>1, <1>2, <1>3 DEF HoldsCommands

(* Where nothing is left, there are no commands, and conversely. *)
LEMMA NoneHeld ==
    ASSUME NEW how, NEW cs, NEW d \in Seq(Cells), NEW lo \in Nat, NEW hi \in Int, hi = lo - 1
    PROVE  /\ HoldsCommands(how, cs, d, Len(d), lo, hi)
           /\ \A p \in Nat : HoldsCommands(how, cs, d, p, lo, hi) => p = Len(d)
<1>1. PICK l \in Nat : l = Len(d) BY LenProperties
<1>2. hi + 1 = lo /\ lo .. hi = {} OBVIOUS
<1>3. HoldsCommands(how, cs, d, l, lo, hi)
  <2> DEFINE at == [n \in lo .. hi + 1 |-> l]
  <2>1. at \in [lo .. hi + 1 -> l .. Len(d)] BY <1>1
  <2>2. at[lo] = l /\ at[hi + 1] = Len(d) BY <1>1, <1>2
  <2>3. Rising(at) BY DEF Rising
  <2>4. \A n \in lo .. hi : HoldsCommand(how, d, at[n], at[n + 1], cs[n]) BY <1>2
  <2> HIDE DEF at
  <2> QED BY <2>1, <2>2, <2>3, <2>4 DEF HoldsCommands
<1>4. ASSUME NEW p \in Nat, HoldsCommands(how, cs, d, p, lo, hi) PROVE p = Len(d)
  BY <1>2, <1>4 DEF HoldsCommands
<1> QED BY <1>1, <1>3, <1>4

(* The first command, and the others behind it. *)
LEMMA FirstHeld ==
    ASSUME NEW how, NEW cs, NEW d \in Seq(Cells), NEW p \in Nat, NEW lo \in Nat, NEW hi \in Nat,
           lo <= hi, HoldsCommands(how, cs, d, p, lo, hi)
    PROVE  \E q \in p .. Len(d) : /\ HoldsCommand(how, d, p, q, cs[lo])
                                  /\ HoldsCommands(how, cs, d, q, lo + 1, hi)
<1>1. PICK at \in [lo .. hi + 1 -> p .. Len(d)] :
        /\ at[lo] = p /\ at[hi + 1] = Len(d) /\ Rising(at)
        /\ \A n \in lo .. hi : HoldsCommand(how, d, at[n], at[n + 1], cs[n])
  BY DEF HoldsCommands
<1>2. PICK l \in Nat : l = Len(d) BY LenProperties
<1>3. lo \in lo .. hi /\ lo + 1 \in lo .. hi + 1 OBVIOUS
<1>4. PICK q \in p .. l : q = at[lo + 1] BY <1>1, <1>2, <1>3
<1>5. HoldsCommand(how, d, p, q, cs[lo]) BY <1>1, <1>3, <1>4
<1>6. HoldsCommands(how, cs, d, q, lo + 1, hi)
  <2> DEFINE to == [n \in lo + 1 .. hi + 1 |-> at[n]]
  <2>1. \A i, j \in lo .. hi + 1 : i <= j => at[i] <= at[j] BY <1>1 DEF Rising
  <2>2. \A n \in lo + 1 .. hi + 1 : at[n] \in q .. Len(d)
    <3> TAKE n \in lo + 1 .. hi + 1
    <3>1. n \in lo .. hi + 1 /\ lo + 1 <= n OBVIOUS
    <3>2. at[lo + 1] <= at[n] BY <1>3, <2>1, <3>1
    <3>3. at[n] \in p .. l BY <1>1, <1>2, <3>1
    <3> QED BY <1>2, <1>4, <3>2, <3>3
  <2>3. to \in [lo + 1 .. hi + 1 -> q .. Len(d)] BY <2>2
  <2>4. to[lo + 1] = q /\ to[hi + 1] = Len(d) BY <1>1, <1>4
  <2>5. Rising(to)
    <3>1. \A i, j \in lo + 1 .. hi + 1 : i <= j => to[i] <= to[j] BY <2>1
    <3> QED BY <3>1 DEF Rising
  <2>6. \A n \in lo + 1 .. hi : HoldsCommand(how, d, to[n], to[n + 1], cs[n])
    <3> TAKE n \in lo + 1 .. hi
    <3>1. n \in lo .. hi /\ n \in lo + 1 .. hi + 1 /\ n + 1 \in lo + 1 .. hi + 1 OBVIOUS
    <3>2. to[n] = at[n] /\ to[n + 1] = at[n + 1] BY <3>1
    <3> QED BY <1>1, <3>1, <3>2
  <2> HIDE DEF to
  <2> QED BY <2>3, <2>4, <2>5, <2>6 DEF HoldsCommands
<1> QED BY <1>2, <1>4, <1>5, <1>6

(* A command put behind the others. *)
LEMMA HeldGrows ==
    ASSUME NEW how, NEW d \in Seq(Cells), NEW e \in Seq(Cells), NEW p \in Nat,
           NEW lo \in Nat, NEW hi \in Nat, lo <= hi + 1, NEW cs, NEW ds,
           \A n \in lo .. hi : cs[n] \in Call /\ ds[n] = cs[n],
           HoldsCommands(how, cs, d, p, lo, hi),
           HoldsCommand(how, d \o e, Len(d), Len(d) + Len(e), ds[hi + 1])
    PROVE  HoldsCommands(how, ds, d \o e, p, lo, hi + 1)
<1>1. PICK at \in [lo .. hi + 1 -> p .. Len(d)] :
        /\ at[lo] = p /\ at[hi + 1] = Len(d) /\ Rising(at)
        /\ \A n \in lo .. hi : HoldsCommand(how, d, at[n], at[n + 1], cs[n])
  BY DEF HoldsCommands
<1>2. PICK l \in Nat : l = Len(d) BY LenProperties
<1>3. PICK m \in Nat : m = Len(e) BY LenProperties
<1>4. PICK u : u = d \o e OBVIOUS
<1>5. u \in Seq(Cells) /\ Len(u) = l + m /\ \A i \in 0 + 1 .. l : u[i] = d[i]
  BY <1>2, <1>3, <1>4, ConcatProperties
<1>6. PICK top \in Nat : top = hi + 1 OBVIOUS
<1> DEFINE to == [n \in lo .. top + 1 |-> IF n = top + 1 THEN l + m ELSE at[n]]
<1>7. \A n \in lo .. top : n \in lo .. top + 1 /\ to[n] = at[n] /\ at[n] \in p .. l
  BY <1>1, <1>2, <1>6
<1>8. to[top + 1] = l + m BY <1>6
<1>9. p <= l
  <2>1. hi + 1 \in lo .. hi + 1 OBVIOUS
  <2> QED BY <1>1, <1>2, <2>1
<1>10. to \in [lo .. top + 1 -> p .. l + m]
  <2>1. \A n \in lo .. top + 1 : to[n] \in p .. l + m
    <3> TAKE n \in lo .. top + 1
    <3>1. CASE n = top + 1 BY <3>1, <1>8, <1>9
    <3>2. CASE n # top + 1
      <4>1. n \in lo .. top BY <3>2
      <4>2. to[n] \in p .. l BY <4>1, <1>7
      <4>3. \A x \in p .. l : x \in p .. l + m OBVIOUS
      <4> HIDE DEF to
      <4> QED BY <4>2, <4>3
    <3> QED BY <3>1, <3>2
  <2> QED BY <2>1
<1>11. \A i, j \in lo .. top + 1 : i <= j => to[i] <= to[j]
  <2>1. \A i, j \in lo .. top : i <= j => at[i] <= at[j] BY <1>1, <1>6 DEF Rising
  <2> TAKE i, j \in lo .. top + 1
  <2> HAVE i <= j
  <2> HIDE DEF to
  <2>2. CASE j = top + 1
    <3>1. to[i] \in p .. l + m BY <1>10
    <3> QED BY <1>8, <2>2, <3>1
  <2>3. CASE j # top + 1
    <3>1. i \in lo .. top /\ j \in lo .. top BY <2>3
    <3> QED BY <3>1, <1>7, <2>1
  <2> QED BY <2>2, <2>3
<1>12. \A n \in lo .. top : HoldsCommand(how, u, to[n], to[n + 1], ds[n])
  <2> TAKE n \in lo .. top
  <2> HIDE DEF to
  <2>1. CASE n = top
    <3>1. to[n] = l BY <1>1, <1>2, <1>6, <1>7, <2>1
    <3> QED BY <1>2, <1>3, <1>4, <1>6, <1>8, <2>1, <3>1
  <2>2. CASE n # top
    <3>1. n \in lo .. hi /\ n \in lo .. top /\ n + 1 \in lo .. top BY <2>2, <1>6
    <3>2. PICK x \in Nat, y \in Nat : x = at[n] /\ y = at[n + 1] /\ y <= l
      <4>1. at[n] \in p .. l /\ at[n + 1] \in p .. l BY <1>7, <3>1
      <4>2. at[n] \in Nat /\ at[n + 1] \in Nat /\ at[n + 1] <= l BY <4>1
      <4> QED BY <4>2
    <3>3. HoldsCommand(how, d, x, y, cs[n]) /\ cs[n] \in Call /\ ds[n] = cs[n] BY <1>1, <3>1, <3>2
    <3>4. SameCells(d, u, 0, l) /\ 0 <= x
      <4>1. \A i \in 0 + 1 .. l : u[i] = d[i]
        <5>1. 0 + 1 .. l = 1 .. l OBVIOUS
        <5> QED BY <1>5, <5>1
      <4>2. l <= Len(u) BY <1>5
      <4> QED BY <4>1, <4>2 DEF SameCells
    <3>5. PICK c \in Call : c = cs[n] /\ c = ds[n] BY <3>3
    <3>6. HoldsCommand(how, d, x, y, c) /\ 0 \in Nat BY <3>3, <3>5
    <3>7. HoldsCommand(how, u, x, y, c)
      <4> HIDE DEF Call
      <4> QED BY <1>5, <3>2, <3>4, <3>6, CommandSame
    <3> QED BY <1>7, <3>1, <3>2, <3>5, <3>7
  <2> QED BY <2>1, <2>2
<1> HIDE DEF to
<1>13. to[lo] = p /\ Rising(to) /\ Len(u) = l + m
  <2>1. DOMAIN to = lo .. top + 1 BY <1>10
  <2>2. lo \in lo .. top BY <1>6
  <2>3. to[lo] = p BY <1>1, <1>7, <2>2
  <2> QED BY <1>5, <1>11, <2>1, <2>3 DEF Rising
<1>14. HoldsCommands(how, ds, u, p, lo, top) BY <1>8, <1>10, <1>12, <1>13 DEF HoldsCommands
<1> QED BY <1>4, <1>6, <1>14

(* The next argument, and the others behind it. *)
LEMMA NextArg ==
    ASSUME NEW d \in Seq(Cells), NEW p \in Nat, NEW q \in Nat, NEW args \in Seq(Variant), NEW k \in Nat,
           k < Len(args), HoldsArgs(d, p, q, args, k)
    PROVE  \E r \in p .. q : HoldsArg(d, p, r, args[k + 1]) /\ HoldsArgs(d, r, q, args, k + 1)
<1>1. PICK l \in Nat : l = Len(args) BY LenProperties
<1>2. PICK at \in [k .. l -> p .. q] :
        /\ at[k] = p /\ at[l] = q /\ Rising(at)
        /\ \A i \in k + 1 .. l : HoldsArg(d, at[i - 1], at[i], args[i])
  BY <1>1 DEF HoldsArgs
<1>3. k \in k .. l /\ k + 1 \in k .. l /\ k + 1 \in k + 1 .. l /\ k + 1 - 1 = k BY <1>1
<1>4. PICK r \in p .. q : r = at[k + 1] BY <1>2, <1>3
<1>5. HoldsArg(d, p, r, args[k + 1])
  <2>1. HoldsArg(d, at[k + 1 - 1], at[k + 1], args[k + 1]) BY <1>2, <1>3
  <2> QED BY <1>2, <1>3, <1>4, <2>1
<1>6. HoldsArgs(d, r, q, args, k + 1)
  <2> DEFINE to == [n \in k + 1 .. l |-> at[n]]
  <2>1. \A i, j \in k .. l : i <= j => at[i] <= at[j] BY <1>2 DEF Rising
  <2>2. \A n \in k + 1 .. l : at[n] \in r .. q
    <3> TAKE n \in k + 1 .. l
    <3>1. n \in k .. l /\ k + 1 <= n OBVIOUS
    <3>2. at[k + 1] <= at[n] BY <1>3, <2>1, <3>1
    <3>3. at[n] \in p .. q BY <1>2, <3>1
    <3> QED BY <1>4, <3>2, <3>3
  <2>3. to \in [k + 1 .. l -> r .. q] BY <2>2
  <2>4. to[k + 1] = r /\ to[l] = q
    <3>1. l \in k + 1 .. l BY <1>1
    <3> QED BY <1>2, <1>3, <1>4, <3>1
  <2>5. Rising(to)
    <3>1. \A i, j \in k + 1 .. l : i <= j => to[i] <= to[j] BY <2>1
    <3> QED BY <3>1 DEF Rising
  <2>6. \A n \in k + 1 + 1 .. l : HoldsArg(d, to[n - 1], to[n], args[n])
    <3> TAKE n \in k + 1 + 1 .. l
    <3>1. n \in k + 1 .. l /\ n - 1 \in k + 1 .. l OBVIOUS
    <3>2. to[n] = at[n] /\ to[n - 1] = at[n - 1] BY <3>1
    <3> QED BY <1>2, <3>1, <3>2
  <2> HIDE DEF to
  <2> QED BY <1>1, <2>3, <2>4, <2>5, <2>6 DEF HoldsArgs
<1> QED BY <1>4, <1>5, <1>6

LEMMA ArgsDone ==
    ASSUME NEW d, NEW p, NEW q, NEW args, HoldsArgs(d, p, q, args, Len(args))
    PROVE  p = q
BY DEF HoldsArgs

(* The first n arguments of args are in the cells of data behind p. *)
HoldsUpTo(data, p, q, args, n) ==
    \E at \in [0 .. n -> p .. q] :
        /\ at[0] = p /\ at[n] = q /\ Rising(at)
        /\ \A i \in 1 .. n : HoldsArg(data, at[i - 1], at[i], args[i])

Unread(e) == \A j \in DOMAIN e : HasObject(e[j]) => e[j].live

LEMMA UnreadBoth ==
    ASSUME NEW d \in Seq(Cells), NEW e \in Seq(Cells), Unread(d), Unread(e)
    PROVE  Unread(d \o e)
<1>1. Len(d) \in Nat /\ DOMAIN d = 1 .. Len(d) BY LenProperties
<1>2. Len(e) \in Nat /\ DOMAIN e = 1 .. Len(e) BY LenProperties
<1>3. PICK u : u = d \o e OBVIOUS
<1>4. /\ u \in Seq(Cells) /\ Len(u) = Len(d) + Len(e)
      /\ \A i \in 1 .. Len(d) + Len(e) : u[i] = IF i <= Len(d) THEN d[i] ELSE e[i - Len(d)]
  BY <1>3, ConcatProperties
<1>5. DOMAIN u = 1 .. Len(d) + Len(e) BY <1>4, LenProperties
<1>6. ASSUME NEW i \in DOMAIN u, HasObject(u[i]) PROVE u[i].live
  <2>1. CASE i <= Len(d)
    <3>1. u[i] = d[i] /\ i \in DOMAIN d BY <1>1, <1>4, <1>5, <2>1
    <3> QED BY <1>6, <3>1 DEF Unread
  <2>2. CASE ~(i <= Len(d))
    <3>1. i - Len(d) \in DOMAIN e BY <1>1, <1>2, <1>5, <2>2
    <3>2. u[i] = e[i - Len(d)] BY <1>4, <1>5, <2>2
    <3> QED BY <1>6, <3>1, <3>2 DEF Unread
  <2> QED BY <2>1, <2>2
<1> QED BY <1>3, <1>6 DEF Unread

(* An argument written behind others is held where it begins. *)
LEMMA ArgHeld ==
    ASSUME NEW d \in Seq(Cells), NEW v \in Variant
    PROVE  HoldsArg(d \o WriteGenericVariant(v), Len(d), Len(d) + Len(WriteGenericVariant(v)), v)
<1>1. PICK w \in Seq(Cells) : w = WriteGenericVariant(v) BY VariantCells
<1>2. PICK l \in Nat, m \in Nat : l = Len(d) /\ m = Len(w) BY LenProperties
<1>3. PICK u : u = d \o w OBVIOUS
<1>4. Len(u) = l + m /\ \A i \in 1 .. l + m : u[i] = IF i <= l THEN d[i] ELSE w[i - l]
  BY <1>2, <1>3, ConcatProperties
<1>5. \A j \in DOMAIN w : u[l + j] = w[j]
  <2> TAKE j \in DOMAIN w
  <2>1. j \in 1 .. m BY <1>2, LenProperties
  <2>2. l + j \in 1 .. l + m /\ ~(l + j <= l) /\ l + j - l = j BY <2>1
  <2> QED BY <1>4, <2>2
<1>6. HoldsArg(u, l, l + m, v) BY <1>1, <1>2, <1>4, <1>5 DEF HoldsArg
<1> QED BY <1>1, <1>2, <1>3, <1>6

LEMMA UpToGrows ==
    ASSUME NEW d \in Seq(Cells), NEW p \in Nat, NEW args \in Seq(Variant), NEW n \in Nat,
           n + 1 \in 1 .. Len(args), HoldsUpTo(d, p, Len(d), args, n)
    PROVE  HoldsUpTo(d \o WriteGenericVariant(args[n + 1]), p,
                     Len(d) + Len(WriteGenericVariant(args[n + 1])), args, n + 1)
<1>1. args[n + 1] \in Variant /\ \A i \in 1 .. Len(args) : args[i] \in Variant BY LenProperties
<1>2. PICK w \in Seq(Cells) : w = WriteGenericVariant(args[n + 1]) BY <1>1, VariantCells
<1>3. PICK l \in Nat, m \in Nat : l = Len(d) /\ m = Len(w) BY LenProperties
<1>4. PICK u : u = d \o w OBVIOUS
<1>5. u \in Seq(Cells) /\ Len(u) = l + m /\ \A i \in 0 + 1 .. l : u[i] = d[i]
  BY <1>3, <1>4, ConcatProperties
<1>6. PICK at \in [0 .. n -> p .. l] :
        /\ at[0] = p /\ at[n] = l /\ Rising(at)
        /\ \A i \in 1 .. n : HoldsArg(d, at[i - 1], at[i], args[i])
  BY <1>3 DEF HoldsUpTo
<1>7. PICK top \in Nat : top = n + 1 OBVIOUS
<1> DEFINE to == [i \in 0 .. top |-> IF i = top THEN l + m ELSE at[i]]
<1>8. \A i \in 0 .. n : i \in 0 .. top /\ to[i] = at[i] /\ at[i] \in p .. l BY <1>6, <1>7
<1>9. to[top] = l + m BY <1>7
<1>10. p <= l BY <1>6
<1>11. to \in [0 .. top -> p .. l + m]
  <2>1. \A i \in 0 .. top : to[i] \in p .. l + m
    <3> TAKE i \in 0 .. top
    <3>1. CASE i = top BY <3>1, <1>9, <1>10
    <3>2. CASE i # top
      <4>1. i \in 0 .. n BY <3>2, <1>7
      <4> QED BY <4>1, <1>8
    <3> QED BY <3>1, <3>2
  <2> QED BY <2>1
<1>12. \A i, j \in 0 .. top : i <= j => to[i] <= to[j]
  <2>1. \A i, j \in 0 .. n : i <= j => at[i] <= at[j] BY <1>6 DEF Rising
  <2> TAKE i, j \in 0 .. top
  <2> HAVE i <= j
  <2> HIDE DEF to
  <2>2. CASE j = top
    <3>1. to[i] \in p .. l + m BY <1>11
    <3> QED BY <1>9, <2>2, <3>1
  <2>3. CASE j # top
    <3>1. i \in 0 .. n /\ j \in 0 .. n BY <1>7, <2>3
    <3> QED BY <3>1, <1>8, <2>1
  <2> QED BY <2>2, <2>3
<1>13. \A i \in 1 .. top : HoldsArg(u, to[i - 1], to[i], args[i])
  <2> TAKE i \in 1 .. top
  <2> HIDE DEF to
  <2>1. CASE i = top
    <3>1. i - 1 = n /\ i - 1 \in 0 .. n BY <1>7, <2>1
    <3>2. to[i - 1] = l BY <1>6, <1>8, <3>1
    <3>3. HoldsArg(u, l, l + m, args[n + 1]) BY <1>1, <1>2, <1>3, <1>4, ArgHeld
    <3> QED BY <1>7, <1>9, <2>1, <3>2, <3>3
  <2>2. CASE i # top
    <3>1. i \in 1 .. n /\ i \in 0 .. n /\ i - 1 \in 0 .. n BY <1>7, <2>2
    <3>2. PICK x \in Nat, y \in Nat : x = at[i - 1] /\ y = at[i] /\ y <= l
      <4>1. at[i - 1] \in p .. l /\ at[i] \in p .. l BY <1>8, <3>1
      <4>2. at[i - 1] \in Nat /\ at[i] \in Nat /\ at[i] <= l BY <4>1
      <4> QED BY <4>2
    <3>3. HoldsArg(d, x, y, args[i]) BY <1>6, <3>1, <3>2
    <3>4. args[i] \in Variant
      <4>1. i \in 1 .. Len(args) BY <3>1
      <4> QED BY <1>1, <4>1
    <3>5. SameCells(d, u, 0, l) /\ 0 <= x BY <1>5 DEF SameCells
    <3>6. PICK v \in Variant : v = args[i] BY <3>4
    <3>7. HoldsArg(d, x, y, v) /\ 0 \in Nat BY <3>3, <3>6
    <3>8. HoldsArg(u, x, y, v)
      <4>1. d \in Seq(Cells) /\ u \in Seq(Cells) /\ x \in Nat /\ y \in Nat /\ l \in Nat /\ v \in Variant
        BY <1>5
      <4>2. 0 <= x /\ y <= l BY <3>2, <3>5
      <4> QED BY ONLY <4>1, <4>2, <3>5, <3>7, ArgSame
    <3> QED BY <1>8, <3>1, <3>2, <3>6, <3>8
  <2> QED BY <2>1, <2>2
<1> HIDE DEF to
<1>14. to[0] = p /\ Rising(to)
  <2>1. DOMAIN to = 0 .. top BY <1>11
  <2>2. to[0] = p BY <1>6, <1>8
  <2> QED BY <1>12, <2>1, <2>2 DEF Rising
<1>15. HoldsUpTo(u, p, l + m, args, top) BY <1>9, <1>11, <1>13, <1>14 DEF HoldsUpTo
<1> QED BY <1>2, <1>3, <1>4, <1>7, <1>15

(* What AddCommandVararg has written with n arguments. *)
WrittenUpTo(d, name, args, e, n) ==
    /\ e \in Seq(Cells) /\ Len(e) >= 1
    /\ e[1] = Header(name, Len(args))
    /\ Unread(e)
    /\ HoldsUpTo(d \o e, Len(d) + 1, Len(d) + Len(e), args, n)

LEMMA HeaderWritten ==
    ASSUME NEW d \in Seq(Cells), NEW name \in Name, NEW args \in Seq(Variant)
    PROVE  WrittenUpTo(d, name, args, <<Header(name, Len(args))>>, 0)
<1>1. PICK e : e = <<Header(name, Len(args))>> OBVIOUS
<1>2. Header(name, Len(args)) \in Cells BY LenProperties DEF Header, Cells
<1>3. e \in Seq(Cells) /\ Len(e) = 1 /\ e[1] = Header(name, Len(args)) BY <1>1, <1>2
<1>4. Unread(e)
  <2>1. DOMAIN e = 1 .. 1 /\ e[1].live BY <1>3 DEF Header
  <2> QED BY <2>1 DEF Unread
<1>5. HoldsUpTo(d \o e, Len(d) + 1, Len(d) + 1, args, 0)
  <2>1. PICK q \in Nat : q = Len(d) + 1 BY LenProperties
  <2> DEFINE at == [i \in 0 .. 0 |-> q]
  <2>2. at \in [0 .. 0 -> q .. q] /\ at[0] = q /\ Rising(at) BY DEF Rising
  <2>3. \A i \in 1 .. 0 : HoldsArg(d \o e, at[i - 1], at[i], args[i]) OBVIOUS
  <2> HIDE DEF at
  <2> QED BY <2>1, <2>2, <2>3 DEF HoldsUpTo
<1> QED BY <1>1, <1>3, <1>4, <1>5 DEF WrittenUpTo

LEMMA ArgWritten ==
    ASSUME NEW d \in Seq(Cells), NEW name \in Name, NEW args \in Seq(Variant), NEW e, NEW n \in Nat,
           n + 1 \in 1 .. Len(args), WrittenUpTo(d, name, args, e, n)
    PROVE  WrittenUpTo(d, name, args, e \o WriteGenericVariant(args[n + 1]), n + 1)
<1>1. args[n + 1] \in Variant BY LenProperties
<1>2. PICK w \in Seq(Cells) : w = WriteGenericVariant(args[n + 1]) BY <1>1, VariantCells
<1>3. e \in Seq(Cells) /\ Len(e) >= 1 /\ e[1] = Header(name, Len(args)) /\ Unread(e) BY DEF WrittenUpTo
<1>4. Unread(w) BY <1>1, <1>2, VariantCells DEF Unread
<1>5. PICK l \in Nat, m \in Nat, r \in Nat : l = Len(d) /\ m = Len(e) /\ r = Len(w) BY <1>3, LenProperties
<1>6. PICK u : u = e \o w OBVIOUS
<1>7. /\ u \in Seq(Cells) /\ Len(u) = m + r
      /\ \A i \in 1 .. m + r : u[i] = IF i <= m THEN e[i] ELSE w[i - m]
  BY <1>3, <1>5, <1>6, ConcatProperties
<1>8. u[1] = Header(name, Len(args))
  <2>1. 1 \in 1 .. m + r /\ 1 <= m BY <1>3, <1>5
  <2> QED BY <1>3, <1>7, <2>1
<1>9. Unread(u) BY <1>3, <1>4, <1>6, UnreadBoth
<1>10. PICK x : x = d \o e OBVIOUS
<1>11. x \in Seq(Cells) /\ Len(x) = l + m BY <1>3, <1>5, <1>10, ConcatProperties
<1>12. x \o w = d \o u
  <2>1. d \in Seq(Cells) /\ e \in Seq(Cells) /\ w \in Seq(Cells) BY <1>3
  <2>2. (d \o e) \o w = d \o (e \o w) BY ONLY <2>1, ConcatAssociative
  <2> QED BY <1>6, <1>10, <2>2
<1>13. HoldsUpTo(x, l + 1, Len(x), args, n) BY <1>5, <1>10, <1>11 DEF WrittenUpTo
<1>14. HoldsUpTo(x \o w, l + 1, Len(x) + Len(w), args, n + 1)
  <2>1. l + 1 \in Nat OBVIOUS
  <2> QED BY <1>2, <1>11, <1>13, <2>1, UpToGrows
<1>15. Len(x) + Len(w) = l + Len(u) BY <1>5, <1>7, <1>11
<1>16. HoldsUpTo(d \o u, Len(d) + 1, Len(d) + Len(u), args, n + 1) BY <1>5, <1>12, <1>14, <1>15
<1>17. Len(u) >= 1 BY <1>3, <1>5, <1>7
<1>18. WrittenUpTo(d, name, args, u, n + 1) BY <1>7, <1>8, <1>9, <1>16, <1>17 DEF WrittenUpTo
<1> QED BY <1>2, <1>6, <1>18

LEMMA AllWritten ==
    ASSUME NEW d \in Seq(Cells), NEW name \in Name, NEW args \in Seq(Variant)
    PROVE  WrittenUpTo(d, name, args, WriteArgs(name, args)[Len(args)], Len(args))
<1>1. PICK l \in Nat : l = Len(args) BY LenProperties
<1>2. PICK W : W = WriteArgs(name, args) OBVIOUS
<1>3. W = [n \in 0 .. l |-> IF n = 0 THEN <<Header(name, Len(args))>> ELSE W[n - 1] \o WriteGenericVariant(args[n])]
  <2>1. Len(args) \in Nat BY <1>1
  <2>2. W = CellsFrom(name, args, W) BY <1>2, <2>1, WriteArgsIs
  <2> QED BY <1>1, <2>2 DEF CellsFrom
<1> DEFINE S == {n \in Nat : n \in 0 .. l => WrittenUpTo(d, name, args, W[n], n)}
<1>4. 0 \in S
  <2>1. W[0] = <<Header(name, Len(args))>>
    <3>1. 0 \in 0 .. l OBVIOUS
    <3> QED BY <1>3, <3>1
  <2> QED BY <2>1, HeaderWritten
<1>5. \A n \in Nat : n \in S => n + 1 \in S
  <2> TAKE n \in Nat
  <2> HAVE n \in S
  <2>1. CASE n + 1 \in 0 .. l
    <3>1. n \in 0 .. l /\ n + 1 # 0 /\ n + 1 - 1 = n /\ n + 1 \in 1 .. l BY <2>1
    <3>2. WrittenUpTo(d, name, args, W[n], n) BY <3>1
    <3>3. W[n + 1] = W[n] \o WriteGenericVariant(args[n + 1])
      <4>1. \A i \in 0 .. l : W[i] = IF i = 0 THEN <<Header(name, Len(args))>> ELSE W[i - 1] \o WriteGenericVariant(args[i])
        BY <1>3, Zenon
      <4>2. PICK i \in 0 .. l : i = n + 1 BY <2>1
      <4>3. i # 0 /\ i - 1 = n BY <4>2
      <4>4. W[i] = W[n] \o WriteGenericVariant(args[i]) BY <4>1, <4>3
      <4> QED BY <4>2, <4>4
    <3>4. WrittenUpTo(d, name, args, W[n + 1], n + 1) BY <1>1, <3>1, <3>2, <3>3, ArgWritten
    <3> QED BY <3>4
  <2>2. CASE n + 1 \notin 0 .. l BY <2>2
  <2> QED BY <2>1, <2>2
<1>6. Nat \subseteq S
  <2> HIDE DEF S
  <2> QED BY <1>4, <1>5, Upwards
<1>7. l \in 0 .. l OBVIOUS
<1> QED BY <1>1, <1>2, <1>6, <1>7

(* The cells of a command, behind the others in a buffer, hold it. *)
LEMMA EncodeHolds ==
    ASSUME NEW d \in Seq(Cells), NEW name \in Name, NEW args \in Seq(Variant), NEW c,
           c = [name |-> name, args |-> args]
    PROVE  /\ Encode(name, args) \in Seq(Cells)
           /\ Unread(Encode(name, args))
           /\ HoldsCommand(kind, d \o Encode(name, args), Len(d), Len(d) + Len(Encode(name, args)), c)
<1>1. PICK e : e = Encode(name, args) OBVIOUS
<1>2. PICK l \in Nat : l = Len(d) BY LenProperties
<1>3. PICK u : u = d \o e OBVIOUS
<1>4. CASE kind = "typed"
  <2>1. e = <<Header(name, Len(args)), Tuple(args)>> BY <1>1, <1>4 DEF Encode, WriteTyped
  <2>2. Header(name, Len(args)) \in Cells BY LenProperties DEF Header, Cells
  <2>3. Tuple(args) \in Cells BY DEF Tuple, Cells
  <2>4. e \in Seq(Cells) /\ Len(e) = 2 /\ DOMAIN e = 1 .. 2 BY <2>1, <2>2, <2>3
  <2>5. e[1] = Header(name, Len(args)) /\ e[2] = Tuple(args) BY <2>1
  <2>6. Unread(e)
    <3>1. e[1].live /\ e[2].live BY <2>5 DEF Header, Tuple
    <3>2. \A j \in DOMAIN e : j = 1 \/ j = 2 BY <2>4
    <3> QED BY <3>1, <3>2 DEF Unread
  <2>7. /\ Len(u) = l + 2
        /\ \A i \in 1 .. l + 2 : u[i] = IF i <= l THEN d[i] ELSE e[i - l]
    <3>1. PICK x \in Seq(Cells) : x = e BY <2>4
    <3>2. /\ Len(d \o x) = Len(d) + Len(x)
          /\ \A i \in 1 .. Len(d) + Len(x) : (d \o x)[i] = IF i <= Len(d) THEN d[i] ELSE x[i - Len(d)]
      BY ConcatProperties
    <3>3. Len(x) = 2 BY <2>4, <3>1
    <3> QED BY ONLY <1>2, <1>3, <3>1, <3>2, <3>3
  <2>8. u[l + 1] = e[1] /\ u[l + 2] = e[2]
    <3>1. l + 1 \in 1 .. l + 2 /\ ~(l + 1 <= l) /\ l + 1 - l = 1 OBVIOUS
    <3>2. l + 2 \in 1 .. l + 2 /\ ~(l + 2 <= l) /\ l + 2 - l = 2 OBVIOUS
    <3> QED BY <2>7, <3>1, <3>2
  <2>9. c.name = name /\ c.args = args OBVIOUS
  <2>10. l < l + 2 /\ l + 2 <= Len(u) BY <2>7
  <2>11. HoldsCommand(kind, u, l, l + 2, c) BY <1>4, <2>5, <2>8, <2>9, <2>10 DEF HoldsCommand
  <2> QED BY <1>1, <1>2, <1>3, <2>4, <2>6, <2>11
<1>5. CASE kind # "typed"
  <2>1. e = WriteArgs(name, args)[Len(args)] BY <1>1, <1>5 DEF Encode
  <2>2. WrittenUpTo(d, name, args, e, Len(args)) BY <2>1, AllWritten
  <2>3. /\ e \in Seq(Cells) /\ Len(e) >= 1 /\ e[1] = Header(name, Len(args)) /\ Unread(e)
        /\ HoldsUpTo(u, l + 1, l + Len(e), args, Len(args))
    BY <1>2, <1>3, <2>2 DEF WrittenUpTo
  <2>4. PICK m \in Nat : m = Len(e) BY <2>3, LenProperties
  <2>5. Len(u) = l + m /\ \A i \in 1 .. l + m : u[i] = IF i <= l THEN d[i] ELSE e[i - l]
    BY <1>2, <1>3, <2>3, <2>4, ConcatProperties
  <2>6. u[l + 1] = e[1]
    <3>1. l + 1 \in 1 .. l + m /\ ~(l + 1 <= l) /\ l + 1 - l = 1 BY <2>3, <2>4
    <3> QED BY <2>5, <3>1
  <2>7. HoldsArgs(u, l + 1, l + m, args, 0)
    <3>1. PICK at \in [0 .. Len(args) -> l + 1 .. l + m] :
            /\ at[0] = l + 1 /\ at[Len(args)] = l + m /\ Rising(at)
            /\ \A i \in 1 .. Len(args) : HoldsArg(u, at[i - 1], at[i], args[i])
      BY <2>3, <2>4 DEF HoldsUpTo
    <3>2. \A i \in 0 + 1 .. Len(args) : HoldsArg(u, at[i - 1], at[i], args[i]) BY <3>1
    <3> QED BY <3>1, <3>2 DEF HoldsArgs
  <2>8. c.name = name /\ c.args = args OBVIOUS
  <2>9. l < l + m /\ l + m <= Len(u) BY <2>3, <2>4, <2>5
  <2>10. HoldsCommand(kind, u, l, l + m, c) BY <1>5, <2>3, <2>6, <2>7, <2>8, <2>9 DEF HoldsCommand
  <2> QED BY <1>1, <1>2, <1>3, <2>3, <2>4, <2>10
<1> QED BY <1>4, <1>5

-----------------------------------------------------------------------------
(* Command buffers: every step keeps the invariant. *)

Object(how, c) == c.cell \in {"value", "args"} \/ (c.cell = "command" /\ how = "godot")

Alive(how, data, p, but) ==
    \A i \in DOMAIN data : Object(how, data[i]) /\ i # but => (data[i].live <=> i > p)

LEMMA AliveIs ==
    ASSUME NEW data, NEW p, NEW but
    PROVE  LiveBehind(data, p, but) <=> Alive(kind, data, p, but)
BY DEF LiveBehind, HasObject, Alive, Object

LEMMA AliveIsPrimed ==
    ASSUME kind' = kind, NEW data, NEW p, NEW but
    PROVE  (\A i \in DOMAIN data : HasObject(data[i])' /\ i # but => (data[i].live <=> i > p))
           <=> Alive(kind, data, p, but)
BY DEF HasObject, Alive, Object

(* Commands are held whatever is accepted after them. *)
LEMMA AcceptedGrows ==
    ASSUME NEW how, NEW d \in Seq(Cells), NEW p \in Nat, NEW lo \in Nat \ {0}, NEW hi \in Nat,
           NEW cs \in Seq(Call), NEW c \in Call, hi <= Len(cs), HoldsCommands(how, cs, d, p, lo, hi)
    PROVE  HoldsCommands(how, Append(cs, c), d, p, lo, hi)
<1>1. PICK ds : ds = Append(cs, c) OBVIOUS
<1>2. \A n \in 1 .. Len(cs) : cs[n] \in Call /\ ds[n] = cs[n] BY <1>1, AppendProperties, LenProperties
<1>3. \A n \in lo .. hi : cs[n] \in Call /\ ds[n] = cs[n]
  <2> TAKE n \in lo .. hi
  <2>1. n \in 1 .. Len(cs) BY LenProperties
  <2> QED BY <1>2, <2>1
<1>4. Len(d) = Len(d) /\ \A i \in p + 1 .. Len(d) : d[i] = d[i] OBVIOUS
<1>5. lo \in Nat OBVIOUS
<1>6. HoldsCommands(how, ds, d, p, lo, hi) BY <1>3, <1>4, <1>5, CommandsSame
<1> QED BY <1>1, <1>6

LEMMA CallsAccepted ==
    ASSUME HistoryInv
    PROVE  accepted \in Seq(Call)
<1>1. [name : Name, args : Args] \subseteq Call BY ArgsAssumption DEF Call
<1>2. accepted \in Seq([name : Name, args : Args]) BY DEF HistoryInv
<1> HIDE DEF Call
<1> QED BY <1>1, <1>2, SeqMonotonic

(* The histories stay as they are. *)
LEMMA HistoryKept ==
    ASSUME HistoryInv, RunAsWritten, UNCHANGED <<kind, accepted, consumed, called>>
    PROVE  HistoryInv' /\ RunAsWritten'
BY DEF HistoryInv, RunAsWritten

(* The writer's buffer stays as it is. *)
LEMMA WriterKept ==
    ASSUME WriterInv, kind' = kind, writer' = writer, accepted' = accepted,
           Left' \in Nat, consumed' + Left' = consumed + Left
    PROVE  WriterInv'
<1>1. consumed' + Left' <= Len(accepted') /\ writer'.m_start = 0
      /\ writer'.m_num_commands = Len(accepted') - (consumed' + Left')
  BY DEF WriterInv
<1>2. Holds(writer.m_data, 0, consumed' + Left' + 1, Len(accepted)) BY DEF WriterInv
<1>3. HoldsCommands(kind', accepted', writer'.m_data, 0, consumed' + Left' + 1, Len(accepted'))
  BY <1>2 DEF Holds
<1>4. Holds(writer.m_data, 0, consumed + Left + 1, Len(accepted))' BY <1>3 DEF Holds
<1>5. LiveBehind(writer.m_data, 0, 0)' BY DEF WriterInv, LiveBehind, HasObject
<1> QED BY <1>1, <1>4, <1>5 DEF WriterInv

(* AddCommand. *)
LEMMA AddCommandKeeps ==
    ASSUME BufferInv, NEW name \in Name, NEW args \in Args, AddCommand(name, args)
    PROVE  BufferInv'
<1>1. TypeOK /\ RunAsWritten /\ HistoryInv /\ WriterInv /\ ReaderInv /\ ArgsInv BY DEF BufferInv
<1>2. /\ UNCHANGED <<kind, entry, io, consumed, called>>
      /\ kind = "typed" \/ Len(args) + 1 <= WriterLimit
      /\ accepted' = Append(accepted, [name |-> name, args |-> args])
      /\ writer' = [writer EXCEPT !.m_data = @ \o Encode(name, args), !.m_num_commands = @ + 1]
  BY DEF AddCommand
<1>3. PICK d \in Seq(Cells) : d = writer.m_data BY <1>1 DEF TypeOK, Buffer
<1>4. args \in Seq(Variant) BY ArgsAssumption
<1>5. PICK c \in Call : c = [name |-> name, args |-> args] BY <1>4 DEF Call
<1>6. PICK e \in Seq(Cells) : e = Encode(name, args) BY <1>4, EncodeHolds
<1>7. Unread(e) /\ HoldsCommand(kind, d \o e, Len(d), Len(d) + Len(e), c) BY <1>4, <1>5, <1>6, EncodeHolds
<1>8. PICK l \in Nat, m \in Nat : l = Len(d) /\ m = Len(e) BY LenProperties
<1>9. d \o e \in Seq(Cells) BY ConcatProperties
<1>10. /\ writer' \in Buffer /\ writer'.m_data = d \o e /\ writer'.m_start = writer.m_start
       /\ writer'.m_num_commands = writer.m_num_commands + 1
  <2>1. writer \in Buffer BY <1>1 DEF TypeOK
  <2>2. PICK x \in Seq(Cells) : x = d \o e BY <1>9
  <2>3. writer' = [writer EXCEPT !.m_data = x, !.m_num_commands = @ + 1] BY <1>2, <1>3, <1>6, <2>2
  <2>4. PICK S : S = Seq(Cells) OBVIOUS
  <2>5. writer \in [m_data : S, m_start : Nat, m_num_commands : Nat] /\ x \in S BY <2>1, <2>4 DEF Buffer
  <2>6. writer.m_start \in Nat /\ writer.m_num_commands \in Nat BY <2>5
  <2>7. writer = [m_data |-> writer.m_data, m_start |-> writer.m_start, m_num_commands |-> writer.m_num_commands]
    BY <2>5
  <2>8. writer' = [m_data |-> x, m_start |-> writer.m_start, m_num_commands |-> writer.m_num_commands + 1]
    BY ONLY <2>3, <2>7
  <2>9. writer.m_num_commands + 1 \in Nat BY <2>6
  <2> QED BY <2>2, <2>4, <2>5, <2>6, <2>8, <2>9 DEF Buffer
<1>11. accepted \in Seq(Call) BY <1>1, CallsAccepted
<1>12. PICK n \in Nat : n = Len(accepted) BY <1>11, LenProperties
<1>13. /\ Len(accepted') = n + 1 /\ accepted'[n + 1] = c
       /\ \A i \in 1 .. n : accepted'[i] = accepted[i] /\ accepted[i] \in Call
       /\ DOMAIN accepted = 1 .. n /\ DOMAIN accepted' = 1 .. n + 1
  <2>1. accepted' = Append(accepted, c) BY <1>2, <1>5
  <2>2. accepted' \in Seq(Call) BY <1>11, <2>1, AppendProperties
  <2> QED BY <1>11, <1>12, <2>1, <2>2, AppendProperties, LenProperties
<1>14. Left \in Nat /\ Left' = Left /\ consumed \in Nat /\ consumed + Left <= n
  BY <1>1, <1>2, <1>12 DEF WriterInv, Left, TypeOK
<1>15. PICK g \in Nat : g = consumed + Left /\ g <= n BY <1>14
<1>16. TypeOK' BY <1>1, <1>2, <1>10 DEF TypeOK
<1>17. RunAsWritten'
  <2>1. \A i \in DOMAIN called :
          called[i].place \in DOMAIN accepted' /\ accepted'[called[i].place] = accepted[called[i].place]
    <3>1. \A i \in DOMAIN called : called[i].place \in 1 .. n BY <1>1, <1>13 DEF RunAsWritten
    <3>2. \A k \in 1 .. n : k \in 1 .. n + 1 /\ accepted'[k] = accepted[k] BY <1>13
    <3> QED BY <1>13, <3>1, <3>2
  <2> QED BY <1>1, <1>2, <2>1 DEF RunAsWritten
<1>18. HistoryInv'
  <2>1. accepted' \in Seq([name : Name, args : Args])
    <3>1. accepted \in Seq([name : Name, args : Args]) BY <1>1 DEF HistoryInv
    <3> QED BY <1>2, <3>1
  <2>2. kind = "godot" => Len(args) <= BufferLimit
    <3>1. Len(args) \in Nat BY <1>4
    <3>2. /\ WriterLimit \in Nat /\ BufferLimit \in Nat /\ WriterLimit <= BufferLimit + 1
          /\ kind = "typed" \/ Len(args) + 1 <= WriterLimit
      BY <1>2, BufferAssumption
    <3> QED BY ONLY <3>1, <3>2
  <2>3. ASSUME kind = "godot", NEW i \in DOMAIN accepted' PROVE Len(accepted'[i].args) <= BufferLimit
    <3>1. CASE i = n + 1 BY <1>5, <1>13, <2>2, <2>3, <3>1
    <3>2. CASE i # n + 1
      <4>1. i \in DOMAIN accepted /\ accepted'[i] = accepted[i] BY <1>13, <2>3, <3>2
      <4> QED BY <1>1, <2>3, <4>1 DEF HistoryInv
    <3> QED BY <3>1, <3>2
  <2> QED BY <1>1, <1>2, <2>1, <2>3 DEF HistoryInv
<1>19. WriterInv'
  <2>1. HoldsCommands(kind, accepted, d, 0, g + 1, n) BY <1>1, <1>3, <1>12, <1>15 DEF WriterInv, Holds
  <2>2. HoldsCommands(kind, accepted', d \o e, 0, g + 1, n + 1)
    <3>1. \A i \in g + 1 .. n : accepted[i] \in Call /\ accepted'[i] = accepted[i] BY <1>13
    <3>2. HoldsCommand(kind, d \o e, Len(d), Len(d) + Len(e), accepted'[n + 1]) BY <1>7, <1>13
    <3>3. g + 1 \in Nat /\ g + 1 <= n + 1 /\ 0 \in Nat BY <1>15
    <3> HIDE DEF Call
    <3> QED BY <2>1, <3>1, <3>2, <3>3, HeldGrows
  <2>3. Holds(writer.m_data, 0, consumed + Left + 1, Len(accepted))'
    <3>1. consumed' + Left' + 1 = g + 1 BY <1>2, <1>14, <1>15
    <3>2. HoldsCommands(kind', accepted', writer'.m_data, 0, consumed' + Left' + 1, Len(accepted'))
      BY <1>2, <1>10, <1>13, <2>2, <3>1
    <3> QED BY <3>2 DEF Holds
  <2>4. LiveBehind(writer.m_data, 0, 0)'
    <3>1. Unread(d)
      <4>1. \A i \in DOMAIN d : i > 0 /\ i # 0 BY LenProperties
      <4> QED BY <1>1, <1>3, <4>1 DEF WriterInv, LiveBehind, Unread
    <3>2. Unread(d \o e) BY <1>7, <3>1, UnreadBoth
    <3>3. \A i \in DOMAIN (d \o e) : i > 0 BY <1>9, LenProperties
    <3> QED BY <1>2, <1>10, <3>2, <3>3 DEF LiveBehind, Unread, HasObject
  <2>5. writer'.m_num_commands = Len(accepted') - (consumed' + Left')
    <3>1. writer.m_num_commands = n - g BY <1>1, <1>12, <1>15 DEF WriterInv
    <3> QED BY <1>2, <1>10, <1>13, <1>14, <1>15, <3>1
  <2>6. Left' \in Nat /\ consumed' + Left' <= Len(accepted') /\ writer'.m_start = 0
    BY <1>1, <1>2, <1>10, <1>13, <1>14, <1>15 DEF WriterInv
  <2> QED BY <2>3, <2>4, <2>5, <2>6 DEF WriterInv
<1>20. ASSUME NEW p \in Nat, NEW lo \in Nat \ {0}, Holds(entry.m_data, p, lo, consumed + Left)
       PROVE  HoldsCommands(kind', accepted', entry'.m_data, p, lo, consumed' + Left')
  <2>1. entry.m_data \in Seq(Cells) BY <1>1 DEF TypeOK, Buffer
  <2>2. HoldsCommands(kind, accepted, entry.m_data, p, lo, g) BY <1>15, <1>20 DEF Holds
  <2>3. HoldsCommands(kind, Append(accepted, c), entry.m_data, p, lo, g)
    <3> HIDE DEF Call
    <3> QED BY <1>11, <1>12, <1>15, <2>1, <2>2, AcceptedGrows
  <2> QED BY <1>2, <1>5, <1>14, <1>15, <2>3
<1>21. \A data, p, but : LiveBehind(data, p, but) => Alive(kind', data, p, but) BY <1>2, AliveIs
<1>22. ReaderInv'
  <2>1. entry.m_start \in Nat /\ io.pos \in Nat /\ consumed + 1 \in Nat \ {0}
    BY <1>1, <1>14 DEF TypeOK, Buffer, ReaderInv, Reading
  <2>2. (io.at = "idle" =>
           /\ io = Idle
           /\ Holds(entry.m_data, entry.m_start, consumed + 1, consumed + Left)
           /\ LiveBehind(entry.m_data, entry.m_start, 0))'
    BY <1>1, <1>2, <1>20, <2>1 DEF ReaderInv, Holds, LiveBehind, HasObject, Idle
  <2>3. (io.at \in {"command", "next", "finish"} =>
           /\ Holds(entry.m_data, io.pos, consumed + 1, consumed + Left)
           /\ LiveBehind(entry.m_data, io.pos, 0))'
    BY <1>1, <1>2, <1>20, <2>1 DEF ReaderInv, Holds, LiveBehind, HasObject
  <2> QED BY <1>1, <1>2, <2>2, <2>3 DEF ReaderInv, AtEnd
<1>23. ArgsInv'
  <2> SUFFICES ASSUME io.at = "args" PROVE ArgsInv' BY <1>2 DEF ArgsInv
  <2>1. consumed + 1 \in 1 .. n /\ consumed + 2 \in Nat \ {0} /\ Left > 0
    BY <1>1, <1>14, <1>15 DEF ArgsInv
  <2>2. PICK k : k = accepted[consumed + 1] /\ k = accepted'[consumed' + 1] BY <1>2, <1>13, <2>1
  <2>3. /\ Left > 0 /\ Last \in DOMAIN entry.m_data
        /\ Cell(io.header) = Header(k.name, Len(k.args))
        /\ LiveBehind(entry.m_data, io.pos, Last) /\ entry.m_data[Last].live
        /\ IF kind = "typed" THEN TupleLeft(k) ELSE ArgsLeft(k)
    BY <1>1, <2>2 DEF ArgsInv
  <2>4. io.header \in Nat /\ io.pos \in Nat BY <1>1 DEF ReaderInv, Reading
  <2>5. TupleLeft(k) => TupleLeft(k)'
    <3> SUFFICES ASSUME TupleLeft(k) PROVE TupleLeft(k)' OBVIOUS
    <3>1. io.header + 2 \in Nat BY <2>4
    <3>2. Holds(entry.m_data, io.header + 2, consumed + 2, consumed + Left) BY DEF TupleLeft
    <3>3. Holds(entry.m_data, io.header + 2, consumed + 2, consumed + Left)'
      BY <1>2, <1>20, <2>1, <3>1, <3>2 DEF Holds
    <3> QED BY <1>2, <3>3 DEF TupleLeft, Cell
  <2>6. ArgsLeft(k) => ArgsLeft(k)'
    <3> SUFFICES ASSUME ArgsLeft(k) PROVE ArgsLeft(k)' OBVIOUS
    <3>1. PICK q \in io.pos .. Len(entry.m_data) :
            /\ HoldsArgs(entry.m_data, io.pos, q, k.args, Len(io.args))
            /\ Holds(entry.m_data, q, consumed + 2, consumed + Left)
      BY DEF ArgsLeft
    <3>2. q \in Nat BY <2>4
    <3>3. Holds(entry.m_data, q, consumed + 2, consumed + Left)'
      BY <1>2, <1>20, <2>1, <3>1, <3>2 DEF Holds
    <3> QED BY <1>2, <3>1, <3>3 DEF ArgsLeft
  <2>7. LiveBehind(entry.m_data, io.pos, Last)' BY <1>2, <2>3 DEF LiveBehind, HasObject, Last
  <2> QED BY <1>2, <1>14, <2>2, <2>3, <2>5, <2>6, <2>7 DEF ArgsInv, Last, Cell
<1> QED BY <1>16, <1>17, <1>18, <1>19, <1>22, <1>23 DEF BufferInv

LEMMA Parts ==
    ASSUME BufferInv
    PROVE  /\ TypeOK /\ RunAsWritten /\ HistoryInv /\ WriterInv /\ ReaderInv /\ ArgsInv
           /\ kind \in {"godot", "typed"}
           /\ entry.m_data \in Seq(Cells) /\ entry.m_start \in Nat /\ entry.m_num_commands \in Nat
           /\ io \in Reading
           /\ consumed \in Nat /\ Left \in Nat /\ Len(accepted) \in Nat /\ consumed + Left <= Len(accepted)
           /\ \A n \in 1 .. Len(accepted) : accepted[n] \in Call
<1>1. TypeOK /\ RunAsWritten /\ HistoryInv /\ WriterInv /\ ReaderInv /\ ArgsInv BY DEF BufferInv
<1>2. entry.m_data \in Seq(Cells) /\ entry.m_start \in Nat /\ entry.m_num_commands \in Nat
  BY <1>1 DEF TypeOK, Buffer
<1>3. accepted \in Seq(Call) BY <1>1, CallsAccepted
<1>4. Len(accepted) \in Nat /\ \A n \in 1 .. Len(accepted) : accepted[n] \in Call BY <1>3, LenProperties
<1>5. io \in Reading BY <1>1 DEF ReaderInv
<1>6. Left \in Nat /\ consumed + Left <= Len(accepted) BY <1>1 DEF WriterInv
<1>7. kind \in {"godot", "typed"} /\ consumed \in Nat BY <1>1 DEF TypeOK
<1> QED BY <1>1, <1>2, <1>4, <1>5, <1>6, <1>7

LEMMA ReadingIs ==
    ASSUME NEW r \in Reading
    PROVE  /\ r = [at |-> r.at, execute |-> r.execute, pos |-> r.pos, header |-> r.header,
                   args |-> r.args, num |-> r.num, max |-> r.max]
           /\ r.at \in {"idle", "command", "args", "next", "finish"} /\ r.execute \in BOOLEAN
           /\ r.pos \in Nat /\ r.header \in Nat /\ r.num \in Nat /\ r.max \in Nat
           /\ r.args \in Seq(Variant)
<1>1. PICK S : S = Seq(Variant) OBVIOUS
<1>2. r \in [at : {"idle", "command", "args", "next", "finish"}, execute : BOOLEAN, pos : Nat,
             header : Nat, args : S, num : Nat, max : Nat]
  BY <1>1 DEF Reading
<1>3. r = [at |-> r.at, execute |-> r.execute, pos |-> r.pos, header |-> r.header,
           args |-> r.args, num |-> r.num, max |-> r.max]
  BY <1>2
<1> QED BY <1>1, <1>2, <1>3

LEMMA HeldWithin ==
    ASSUME NEW how, NEW cs, NEW d \in Seq(Cells), NEW p \in Nat, NEW lo \in Nat, NEW hi \in Int, lo <= hi + 1,
           HoldsCommands(how, cs, d, p, lo, hi)
    PROVE  p <= Len(d)
<1>1. PICK at \in [lo .. hi + 1 -> p .. Len(d)] : at[lo] = p BY DEF HoldsCommands
<1>2. lo \in lo .. hi + 1 OBVIOUS
<1>3. at[lo] \in p .. Len(d) BY <1>1, <1>2
<1>4. Len(d) \in Nat BY LenProperties
<1> QED BY <1>1, <1>3, <1>4

LEMMA EmptyIs ==
    /\ EmptyBuffer \in Buffer
    /\ EmptyBuffer.m_data = <<>> /\ EmptyBuffer.m_start = 0 /\ EmptyBuffer.m_num_commands = 0
    /\ Len(<<>>) = 0 /\ <<>> \in Seq(Cells) /\ DOMAIN <<>> = {}
<1>1. <<>> \in Seq(Cells) /\ Len(<<>>) = 0 /\ DOMAIN <<>> = {} OBVIOUS
<1>2. PICK S : S = Seq(Cells) OBVIOUS
<1>3. [m_data |-> <<>>, m_start |-> 0, m_num_commands |-> 0] \in [m_data : S, m_start : Nat, m_num_commands : Nat]
  BY <1>1, <1>2
<1> QED BY <1>1, <1>2, <1>3 DEF EmptyBuffer, Buffer

(* AddCommands. *)
LEMMA AddCommandsKeeps ==
    ASSUME BufferInv, AddCommands
    PROVE  BufferInv'
<1>1. /\ TypeOK /\ RunAsWritten /\ HistoryInv /\ WriterInv /\ ReaderInv /\ ArgsInv
      /\ kind \in {"godot", "typed"} /\ io \in Reading
      /\ consumed \in Nat /\ Left \in Nat /\ Len(accepted) \in Nat /\ consumed + Left <= Len(accepted)
  BY Parts
<1>2. /\ writer.m_num_commands > 0 /\ io.at = "idle" /\ entry = EmptyBuffer
      /\ entry' = writer /\ writer' = EmptyBuffer
      /\ UNCHANGED <<kind, io, accepted, consumed, called>>
  BY DEF AddCommands
<1>3. PICK n \in Nat : n = Len(accepted) BY <1>1
<1>4. /\ io = Idle /\ io' = Idle /\ io.num = 0 /\ io.pos = 0 /\ io.args = <<>> /\ io.max = 0 /\ ~io.execute
  BY <1>1, <1>2 DEF ReaderInv, Idle
<1>5. Left = 0
  <2>1. entry.m_num_commands = 0 BY <1>2, EmptyIs
  <2> QED BY <1>4, <2>1 DEF Left
<1>6. writer \in Buffer /\ writer.m_data \in Seq(Cells) /\ writer.m_num_commands \in Nat
  BY <1>1 DEF TypeOK, Buffer
<1>7. writer.m_num_commands = n - consumed /\ writer.m_start = 0 BY <1>1, <1>3, <1>5 DEF WriterInv
<1>8. Left' = writer.m_num_commands
  <2>1. entry'.m_num_commands = writer.m_num_commands /\ io'.num = 0 BY <1>2, <1>4
  <2> QED BY <1>6, <2>1 DEF Left
<1>9. Left' \in Nat /\ consumed' + Left' = n BY <1>1, <1>2, <1>6, <1>7, <1>8
<1>10. TypeOK'
  <2>1. io'.pos \in 0 .. Len(entry'.m_data)
    <3>1. Len(writer.m_data) \in Nat BY <1>6, LenProperties
    <3> QED BY <1>2, <1>4, <3>1
  <2> QED BY <1>1, <1>2, <1>6, <2>1, EmptyIs DEF TypeOK
<1>11. HistoryInv' /\ RunAsWritten' BY <1>1, <1>2, HistoryKept
<1>12. WriterInv'
  <2>1. HoldsCommands(kind, accepted, <<>>, 0, n + 1, n)
    <3>1. PICK m \in Nat : m = n + 1 /\ n = m - 1 /\ n \in Int
      <4>1. n + 1 \in Nat /\ n = n + 1 - 1 /\ n \in Int OBVIOUS
      <4> QED BY <4>1
    <3>2. PICK d \in Seq(Cells) : d = <<>> BY EmptyIs
    <3>3. Len(d) = 0 BY <3>2, EmptyIs
    <3>4. HoldsCommands(kind, accepted, d, Len(d), m, n) BY <3>1, NoneHeld
    <3> QED BY <3>1, <3>2, <3>3, <3>4
  <2>2. Holds(writer.m_data, 0, consumed + Left + 1, Len(accepted))'
    <3>1. writer'.m_data = <<>> /\ consumed' + Left' + 1 = n + 1 /\ Len(accepted') = n
      BY <1>2, <1>3, <1>9, EmptyIs
    <3> QED BY <1>2, <2>1, <3>1 DEF Holds
  <2>3. LiveBehind(writer.m_data, 0, 0)'
    <3>1. DOMAIN writer'.m_data = {} BY <1>2, EmptyIs
    <3> QED BY <3>1 DEF LiveBehind
  <2>4. writer'.m_start = 0 /\ writer'.m_num_commands = 0 BY <1>2, EmptyIs
  <2>5. writer'.m_num_commands = Len(accepted') - (consumed' + Left') BY <1>2, <1>3, <1>9, <2>4
  <2>6. consumed' + Left' <= Len(accepted') BY <1>2, <1>3, <1>9
  <2> QED BY <1>9, <2>2, <2>3, <2>4, <2>5, <2>6 DEF WriterInv
<1>13. ReaderInv'
  <2>1. Holds(entry.m_data, entry.m_start, consumed + 1, consumed + Left)'
    <3>1. HoldsCommands(kind, accepted, writer.m_data, 0, consumed + Left + 1, n) BY <1>1, <1>3 DEF WriterInv, Holds
    <3>2. consumed + Left + 1 = consumed' + 1
      <4>1. consumed + 0 + 1 = consumed + 1 BY <1>1
      <4> QED BY <1>2, <1>5, <4>1
    <3>3. entry'.m_data = writer.m_data /\ entry'.m_start = 0 BY <1>2, <1>7
    <3>4. HoldsCommands(kind', accepted', entry'.m_data, entry'.m_start, consumed' + 1, consumed' + Left')
      BY <1>2, <1>9, <3>1, <3>2, <3>3
    <3> QED BY <3>4 DEF Holds
  <2>2. LiveBehind(entry.m_data, entry.m_start, 0)'
    <3>1. LiveBehind(writer.m_data, 0, 0) BY <1>1 DEF WriterInv
    <3>2. entry'.m_data = writer.m_data /\ entry'.m_start = 0 BY <1>2, <1>7
    <3> QED BY <1>2, <3>1, <3>2 DEF LiveBehind, HasObject
  <2>3. io'.at = "idle" /\ ~io'.execute /\ io' \in Reading BY <1>1, <1>2, <1>4
  <2> QED BY <1>4, <2>1, <2>2, <2>3 DEF ReaderInv
<1>14. ArgsInv' BY <1>2 DEF ArgsInv
<1> QED BY <1>10, <1>11, <1>12, <1>13, <1>14 DEF BufferInv

(* ProcessCommands and Clear begin where the last slice ended. *)
LEMMA BeginKeeps ==
    ASSUME BufferInv, io.at = "idle", UNCHANGED <<kind, writer, entry, accepted, consumed, called>>,
           NEW run \in BOOLEAN, NEW max \in Nat,
           io' = [at |-> "command", execute |-> run, pos |-> entry.m_start, header |-> 0, args |-> <<>>,
                  num |-> 0, max |-> max]
    PROVE  BufferInv'
<1>1. /\ TypeOK /\ RunAsWritten /\ HistoryInv /\ WriterInv /\ ReaderInv /\ ArgsInv
      /\ kind \in {"godot", "typed"}
      /\ entry.m_data \in Seq(Cells) /\ entry.m_start \in Nat /\ entry.m_num_commands \in Nat
      /\ consumed \in Nat /\ Left \in Nat
  BY Parts
<1>2. io = Idle /\ Holds(entry.m_data, entry.m_start, consumed + 1, consumed + Left)
      /\ LiveBehind(entry.m_data, entry.m_start, 0)
  BY <1>1 DEF ReaderInv
<1>3. io'.at = "command" /\ io'.execute = run /\ io'.pos = entry.m_start /\ io'.args = <<>> /\ io'.num = 0
      /\ io'.max = max
  OBVIOUS
<1>4. Left' = Left
  <2>1. io.num = 0 BY <1>2 DEF Idle
  <2> QED BY <1>3, <2>1 DEF Left
<1>5. io' \in Reading
  <2>1. PICK S : S = Seq(Variant) /\ <<>> \in S
    <3>1. <<>> \in Seq(Variant) OBVIOUS
    <3> QED BY <3>1
  <2>2. io' \in [at : {"idle", "command", "args", "next", "finish"}, execute : BOOLEAN, pos : Nat,
                 header : Nat, args : S, num : Nat, max : Nat]
    BY <1>1, <2>1
  <2> QED BY <2>1, <2>2 DEF Reading
<1>6. TypeOK'
  <2>1. entry.m_start <= Len(entry.m_data)
    <3>1. HoldsCommands(kind, accepted, entry.m_data, entry.m_start, consumed + 1, consumed + Left)
      BY <1>2 DEF Holds
    <3>2. consumed + 1 \in Nat /\ consumed + Left \in Int /\ consumed + 1 <= consumed + Left + 1 BY <1>1
    <3> QED BY <1>1, <3>1, <3>2, HeldWithin
  <2>2. Len(entry.m_data) \in Nat BY <1>1, LenProperties
  <2>3. io'.pos \in 0 .. Len(entry'.m_data) BY <1>1, <1>3, <2>1, <2>2
  <2>4. <<>> \in Seq(Variant) OBVIOUS
  <2> QED BY <1>1, <1>3, <2>3, <2>4 DEF TypeOK
<1>7. HistoryInv' /\ RunAsWritten' BY <1>1, HistoryKept
<1>8. WriterInv' BY <1>1, <1>4, WriterKept
<1>9. ReaderInv'
  <2>1. Holds(entry.m_data, io.pos, consumed + 1, consumed + Left)' BY <1>2, <1>3, <1>4 DEF Holds
  <2>2. LiveBehind(entry.m_data, io.pos, 0)' BY <1>2, <1>3 DEF LiveBehind, HasObject
  <2>3. io'.execute /\ io'.max # k_process_all_commands => io'.num <= io'.max /\ io'.num < io'.max
    BY <1>3 DEF k_process_all_commands
  <2> QED BY <1>3, <1>5, <2>1, <2>2, <2>3 DEF ReaderInv, k_process_all_commands
<1>10. ArgsInv' BY <1>3 DEF ArgsInv
<1> QED BY <1>6, <1>7, <1>8, <1>9, <1>10 DEF BufferInv

LEMMA ProcessCommandsKeeps ==
    ASSUME BufferInv, NEW max \in {k_process_all_commands, MaxPerIter}, ProcessCommands(max)
    PROVE  BufferInv'
<1>1. io.at = "idle" /\ UNCHANGED <<kind, writer, entry, accepted, consumed, called>> BY DEF ProcessCommands
<1>2. io' = [at |-> "command", execute |-> TRUE, pos |-> entry.m_start, header |-> 0, args |-> <<>>,
             num |-> 0, max |-> max]
  BY DEF ProcessCommands, Idle
<1>3. max \in Nat BY BufferAssumption DEF k_process_all_commands
<1> QED BY <1>1, <1>2, <1>3, BeginKeeps

LEMMA ClearKeeps ==
    ASSUME BufferInv, Clear
    PROVE  BufferInv'
<1>1. io.at = "idle" /\ UNCHANGED <<kind, writer, entry, accepted, consumed, called>> BY DEF Clear
<1>2. io' = [at |-> "command", execute |-> FALSE, pos |-> entry.m_start, header |-> 0, args |-> <<>>,
             num |-> 0, max |-> 0]
  BY DEF Clear, Idle
<1> QED BY <1>1, <1>2, BeginKeeps

(* ReadHeader. *)
LEMMA ReadHeaderKeeps ==
    ASSUME BufferInv, ReadHeader
    PROVE  BufferInv'
<1>1. /\ TypeOK /\ RunAsWritten /\ HistoryInv /\ WriterInv /\ ReaderInv /\ ArgsInv
      /\ kind \in {"godot", "typed"} /\ io \in Reading
      /\ entry.m_data \in Seq(Cells) /\ entry.m_start \in Nat /\ entry.m_num_commands \in Nat
      /\ consumed \in Nat /\ Left \in Nat /\ Len(accepted) \in Nat /\ consumed + Left <= Len(accepted)
      /\ \A n \in 1 .. Len(accepted) : accepted[n] \in Call
  BY Parts
<1>2. /\ io.at = "command" /\ io.pos # Len(entry.m_data)
      /\ UNCHANGED <<kind, writer, entry, accepted, consumed, called>>
      /\ io' = IF kind = "godot" /\ Cell(io.pos).argcount > BufferLimit
                 THEN [io EXCEPT !.at = "next", !.pos = Len(entry.m_data), !.num = @ + 1]
                 ELSE [io EXCEPT !.at = "args", !.header = io.pos, !.pos = @ + 1, !.args = <<>>]
  BY DEF ReadHeader, AtEnd
<1>3. PICK d \in Seq(Cells) : d = entry.m_data BY <1>1
<1>4. PICK p \in Nat : p = io.pos BY <1>1, ReadingIs
<1>5. PICK l \in Nat : l = Len(d) /\ DOMAIN d = 1 .. l BY LenProperties
<1>6. PICK lo \in Nat, hi \in Nat : lo = consumed + 1 /\ hi = consumed + Left
  <2>1. consumed + 1 \in Nat /\ consumed + Left \in Nat BY <1>1
  <2> QED BY <2>1
<1>7. HoldsCommands(kind, accepted, d, p, lo, hi) /\ Alive(kind, d, p, 0)
  BY <1>1, <1>2, <1>3, <1>4, <1>6, AliveIs DEF ReaderInv, Holds
<1>8. lo <= hi
  <2> SUFFICES ASSUME ~(lo <= hi) PROVE FALSE OBVIOUS
  <2>1. hi = lo - 1 /\ hi \in Int BY <1>1, <1>6
  <2>2. p = Len(d) BY <1>7, <2>1, NoneHeld
  <2> QED BY <1>2, <1>3, <1>4, <2>2
<1>9. PICK q \in p .. Len(d) :
        HoldsCommand(kind, d, p, q, accepted[lo]) /\ HoldsCommands(kind, accepted, d, q, lo + 1, hi)
  BY <1>7, <1>8, FirstHeld
<1>10. lo \in 1 .. Len(accepted) BY <1>1, <1>6, <1>8
<1>11. PICK c \in Call : c = accepted[lo] BY <1>1, <1>10
<1>12. /\ p < q /\ q <= l /\ d[p + 1] = Header(c.name, Len(c.args)) /\ q \in Nat
       /\ IF kind = "typed" THEN q = p + 2 /\ d[p + 2] = Tuple(c.args)
                            ELSE HoldsArgs(d, p + 1, q, c.args, 0)
  BY <1>5, <1>9, <1>11 DEF HoldsCommand
<1>13. c.args \in Seq(Variant) /\ Len(c.args) \in Nat BY LenProperties DEF Call
<1>14. kind = "godot" => Len(c.args) <= BufferLimit
  <2>1. lo \in DOMAIN accepted
    <3>1. accepted \in Seq(Call) BY <1>1, CallsAccepted
    <3> QED BY <1>10, <3>1, LenProperties
  <2> QED BY <1>1, <1>11, <2>1 DEF HistoryInv
<1>15. Cell(io.pos) = Header(c.name, Len(c.args)) BY <1>3, <1>4, <1>12 DEF Cell
<1>16. ~(kind = "godot" /\ Cell(io.pos).argcount > BufferLimit)
  <2>1. Cell(io.pos).argcount = Len(c.args) BY <1>15 DEF Header
  <2> QED BY <1>13, <1>14, <2>1, BufferAssumption
<1>17. io' = [at |-> "args", execute |-> io.execute, pos |-> p + 1, header |-> p,
              args |-> <<>>, num |-> io.num, max |-> io.max]
  <2>1. io' = [io EXCEPT !.at = "args", !.header = p, !.pos = @ + 1, !.args = <<>>] BY <1>2, <1>4, <1>16
  <2>2. io = [at |-> io.at, execute |-> io.execute, pos |-> io.pos, header |-> io.header,
              args |-> io.args, num |-> io.num, max |-> io.max]
    BY <1>1, ReadingIs
  <2> QED BY ONLY <1>4, <2>1, <2>2
<1>18. /\ io'.at = "args" /\ io'.execute = io.execute /\ io'.pos = p + 1 /\ io'.header = p
       /\ io'.args = <<>> /\ io'.num = io.num /\ io'.max = io.max
  BY <1>17
<1>19. Left' = Left BY <1>2, <1>18 DEF Left
<1>20. Len(<<>>) = 0 /\ <<>> \in Seq(Variant) /\ DOMAIN <<>> = {} OBVIOUS
<1>21. io' \in Reading
  <2>1. PICK S : S = Seq(Variant) OBVIOUS
  <2>2. io' \in [at : {"idle", "command", "args", "next", "finish"}, execute : BOOLEAN, pos : Nat,
                 header : Nat, args : S, num : Nat, max : Nat]
    <3>1. io.execute \in BOOLEAN /\ io.num \in Nat /\ io.max \in Nat BY <1>1, ReadingIs
    <3>2. p + 1 \in Nat /\ <<>> \in S BY <1>20, <2>1
    <3> QED BY ONLY <1>4, <1>17, <3>1, <3>2
  <2> QED BY <2>1, <2>2 DEF Reading
<1>22. TypeOK'
  <2>1. io'.pos \in 0 .. Len(entry'.m_data) BY <1>2, <1>3, <1>5, <1>12, <1>18
  <2>2. io'.num \in Nat /\ io'.max \in Nat BY <1>1, <1>18, ReadingIs
  <2> QED BY <1>1, <1>2, <1>18, <1>20, <2>1, <2>2 DEF TypeOK
<1>23. HistoryInv' /\ RunAsWritten' BY <1>1, <1>2, HistoryKept
<1>24. WriterInv' BY <1>1, <1>2, <1>19, WriterKept
<1>25. ReaderInv'
  <2>1. io.execute /\ io.max # k_process_all_commands => io.num <= io.max /\ io.num < io.max
    BY <1>1, <1>2 DEF ReaderInv
  <2> QED BY <1>18, <1>21, <2>1 DEF ReaderInv
<1>26. PICK last \in 1 .. l : last = IF kind = "typed" THEN p + 2 ELSE p + 1
  <2>1. CASE kind = "typed" BY <1>12, <2>1
  <2>2. CASE kind # "typed" BY <1>12, <2>2
  <2> QED BY <2>1, <2>2
<1>27. Last' = last BY <1>2, <1>18, <1>26 DEF Last
<1>28. Alive(kind, d, p + 1, last)
  <2> SUFFICES ASSUME NEW i \in DOMAIN d, Object(kind, d[i]), i # last PROVE d[i].live <=> i > p + 1
    BY DEF Alive
  <2>1. i \in 1 .. l /\ i # 0 BY <1>5
  <2>2. d[i].live <=> i > p BY <1>7, <2>1 DEF Alive
  <2>3. i # p + 1
    <3>1. CASE kind = "typed"
      <4>1. ~Object(kind, d[p + 1]) BY <1>12, <3>1 DEF Object, Header
      <4> QED BY <4>1
    <3>2. CASE kind # "typed" BY <1>26, <3>2
    <3> QED BY <3>1, <3>2
  <2>4. i > p <=> i > p + 1 BY <2>1, <2>3
  <2> QED BY <2>2, <2>4
<1>29. d[last].live
  <2>1. Object(kind, d[last])
    <3>1. CASE kind = "typed" BY <1>12, <1>26, <3>1 DEF Object, Tuple
    <3>2. CASE kind # "typed" BY <1>1, <1>12, <1>26, <3>2 DEF Object, Header
    <3> QED BY <3>1, <3>2
  <2>2. last \in DOMAIN d /\ last # 0 /\ last > p BY <1>5, <1>26
  <2> QED BY <1>7, <2>1, <2>2 DEF Alive
<1>30. LiveBehind(entry.m_data, io.pos, Last)'
  <2>1. DOMAIN entry'.m_data = DOMAIN d /\ entry'.m_data = d /\ io'.pos = p + 1 BY <1>2, <1>3, <1>18
  <2> QED BY <1>2, <1>27, <1>28, <2>1 DEF LiveBehind, HasObject, Alive, Object
<1>31. lo + 1 = consumed' + 2 /\ hi = consumed' + Left' /\ lo = consumed' + 1 BY <1>1, <1>2, <1>6, <1>19
<1>32. HoldsCommands(kind', accepted', entry'.m_data, q, consumed' + 2, consumed' + Left')
  BY <1>2, <1>3, <1>9, <1>31
<1>33. kind = "typed" => TupleLeft(c)'
  <2> SUFFICES ASSUME kind = "typed" PROVE TupleLeft(c)' OBVIOUS
  <2>1. Cell(io.header + 1)' = d[p + 2]
    <3>1. p + 1 + 1 = p + 2 OBVIOUS
    <3> QED BY <1>2, <1>3, <1>18, <3>1 DEF Cell
  <2>2. Holds(entry.m_data, io.header + 2, consumed + 2, consumed + Left)'
    <3>1. io'.header + 2 = q BY <1>12, <1>18
    <3> QED BY <1>32, <3>1 DEF Holds
  <2>3. TupleLeft(c)' BY <1>12, <1>18, <2>1, <2>2 DEF TupleLeft
  <2> QED BY <2>3
<1>34. kind # "typed" => ArgsLeft(c)'
  <2> SUFFICES ASSUME kind # "typed" PROVE ArgsLeft(c)' OBVIOUS
  <2>1. HoldsArgs(entry'.m_data, io'.pos, q, c.args, Len(io'.args))
    BY <1>2, <1>3, <1>12, <1>18, <1>20
  <2>2. q \in io'.pos .. Len(entry'.m_data) BY <1>2, <1>3, <1>5, <1>12, <1>18
  <2>4. io'.header < io'.pos /\ Len(io'.args) <= Len(c.args) /\ DOMAIN io'.args = {} BY <1>13, <1>18, <1>20
  <2>5. ArgsLeft(c)' BY <1>32, <2>1, <2>2, <2>4 DEF ArgsLeft, Holds
  <2> QED BY <2>5
<1>35. ArgsInv'
  <2>1. c = accepted'[consumed' + 1] BY <1>2, <1>11, <1>31
  <2>2. Left' > 0 BY <1>1, <1>6, <1>8, <1>19
  <2>3. Last' \in DOMAIN entry'.m_data /\ entry'.m_data[Last'].live BY <1>2, <1>3, <1>5, <1>27, <1>29
  <2>4. Cell(io.header)' = Header(c.name, Len(c.args)) BY <1>2, <1>3, <1>12, <1>18 DEF Cell
  <2>5. IF kind' = "typed" THEN TupleLeft(c)' ELSE ArgsLeft(c)' BY <1>2, <1>33, <1>34
  <2> QED BY <1>30, <2>1, <2>2, <2>3, <2>4, <2>5 DEF ArgsInv
<1> QED BY <1>22, <1>23, <1>24, <1>25, <1>35 DEF BufferInv

(* The object in a cell is destroyed, and nothing else. *)
LEMMA DestroyIs ==
    ASSUME NEW b \in Buffer, NEW p \in Nat, NEW e, e = Destroy(b, p),
           p + 1 \in DOMAIN b.m_data, b.m_data[p + 1].cell # "type"
    PROVE  /\ e \in Buffer /\ e.m_start = b.m_start /\ e.m_num_commands = b.m_num_commands
           /\ e.m_data \in Seq(Cells) /\ Len(e.m_data) = Len(b.m_data)
           /\ \A i \in DOMAIN b.m_data : i # p + 1 => e.m_data[i] = b.m_data[i]
           /\ e.m_data[p + 1].cell = b.m_data[p + 1].cell
           /\ ~e.m_data[p + 1].live
<1>1. PICK d \in Seq(Cells) : d = b.m_data BY DEF Buffer
<1>2. PICK l \in Nat : l = Len(d) /\ DOMAIN d = 1 .. l BY LenProperties
<1>3. PICK j \in 1 .. l : j = p + 1 BY <1>1, <1>2
<1>4. PICK c \in Cells : c = d[j] /\ c.cell # "type" BY <1>1, <1>2, <1>3, LenProperties
<1>5. PICK x : x = [c EXCEPT !.live = FALSE] OBVIOUS
<1>6. x \in Cells /\ x.cell = c.cell /\ ~x.live
  <2>1. CASE c \in [cell : {"type"}, type : TypeTag] BY <1>4, <2>1
  <2>2. CASE c \in [cell : {"value"}, type : TypeTag, value : Int, live : BOOLEAN]
    <3>1. x \in [cell : {"value"}, type : TypeTag, value : Int, live : BOOLEAN] /\ x.cell = c.cell /\ ~x.live
      BY <1>5, <2>2
    <3> QED BY <3>1 DEF Cells
  <2>3. CASE c \in [cell : {"args"}, args : Seq(Variant), live : BOOLEAN]
    <3>1. PICK S : S = Seq(Variant) OBVIOUS
    <3>2. x \in [cell : {"args"}, args : S, live : BOOLEAN] /\ x.cell = c.cell /\ ~x.live
      BY <1>5, <2>3, <3>1
    <3> QED BY <3>1, <3>2 DEF Cells
  <2>4. CASE c \in [cell : {"command"}, name : Name, argcount : Nat, live : BOOLEAN]
    <3>1. x \in [cell : {"command"}, name : Name, argcount : Nat, live : BOOLEAN] /\ x.cell = c.cell /\ ~x.live
      BY <1>5, <2>4
    <3> QED BY <3>1 DEF Cells
  <2> QED BY <2>1, <2>2, <2>3, <2>4 DEF Cells
<1>7. PICK y : y = [d EXCEPT ![j] = x] OBVIOUS
<1>8. y \in Seq(Cells) /\ Len(y) = l /\ y[j] = x /\ \A i \in 1 .. l : i # j => y[i] = d[i]
  <2>1. d \in [1 .. l -> Cells] BY <1>2, LenProperties
  <2>2. y \in [1 .. l -> Cells] /\ y[j] = x /\ \A i \in 1 .. l : i # j => y[i] = d[i]
    BY <1>6, <1>7, <2>1
  <2>3. y \in Seq(Cells) BY <2>2
  <2>4. DOMAIN y = 1 .. l BY <2>2
  <2>5. Len(y) = l BY <2>3, <2>4, LenProperties
  <2> QED BY <2>2, <2>3, <2>5
<1>9. e = [b EXCEPT !.m_data = y]
  <2>1. e = [b EXCEPT !.m_data[j].live = FALSE] BY <1>3 DEF Destroy
  <2> QED BY <1>1, <1>4, <1>5, <1>7, <2>1
<1>10. b = [m_data |-> b.m_data, m_start |-> b.m_start, m_num_commands |-> b.m_num_commands]
       /\ b.m_start \in Nat /\ b.m_num_commands \in Nat
  <2>1. PICK S : S = Seq(Cells) OBVIOUS
  <2>2. b \in [m_data : S, m_start : Nat, m_num_commands : Nat] BY <2>1 DEF Buffer
  <2> QED BY <2>2
<1>11. e = [m_data |-> y, m_start |-> b.m_start, m_num_commands |-> b.m_num_commands]
  BY ONLY <1>9, <1>10
<1>12. e \in Buffer
  <2>1. PICK S : S = Seq(Cells) OBVIOUS
  <2>2. e \in [m_data : S, m_start : Nat, m_num_commands : Nat] BY <1>8, <1>10, <1>11, <2>1
  <2> QED BY <2>1, <2>2 DEF Buffer
<1>13. e.m_data = y /\ e.m_start = b.m_start /\ e.m_num_commands = b.m_num_commands BY <1>11
<1> QED BY <1>1, <1>2, <1>3, <1>4, <1>6, <1>8, <1>12, <1>13

(* The cells of the argument that ReadVariant reads at p, which end at r.  *)
ArgAt(d, p, r, v) ==
    \/ /\ r = p + 1 /\ \E t \in Complete : d[p + 1] = Tag(t) /\ Plain(t) = v
    \/ /\ r = p + 2
       /\ \E t \in TypeTag \ Complete, w \in Int :
              d[p + 1] = Tag(t) /\ d[p + 2] = Value(t, w) /\ ReadValue(t, w) = v

LEMMA ArgThere ==
    ASSUME NEW d, NEW p \in Nat, NEW r, NEW v \in Variant, HoldsArg(d, p, r, v)
    PROVE  ArgAt(d, p, r, v)
<1>1. PICK x : x = WriteGenericVariant(v) OBVIOUS
<1>2. r = p + Len(x) /\ \A j \in DOMAIN x : d[p + j] = x[j] BY <1>1 DEF HoldsArg
<1>3. CASE \E t \in Complete : x = <<Tag(t)>> /\ Plain(t) = v
  <2>1. PICK t \in Complete : x = <<Tag(t)>> /\ Plain(t) = v BY <1>3
  <2>2. Len(x) = 1 /\ 1 \in DOMAIN x /\ x[1] = Tag(t) BY <2>1
  <2>3. d[p + 1] = Tag(t) /\ r = p + 1 BY <1>2, <2>2
  <2> QED BY <2>1, <2>3 DEF ArgAt
<1>4. CASE \E t \in TypeTag \ Complete, w \in Int : x = <<Tag(t), Value(t, w)>> /\ ReadValue(t, w) = v
  <2>1. PICK t \in TypeTag \ Complete, w \in Int : x = <<Tag(t), Value(t, w)>> /\ ReadValue(t, w) = v BY <1>4
  <2>2. Len(x) = 2 /\ 1 \in DOMAIN x /\ 2 \in DOMAIN x /\ x[1] = Tag(t) /\ x[2] = Value(t, w) BY <2>1
  <2>3. d[p + 1] = Tag(t) /\ d[p + 2] = Value(t, w) /\ r = p + 2 BY <1>2, <2>2
  <2> QED BY <2>1, <2>3 DEF ArgAt
<1> QED BY <1>1, <1>3, <1>4, ReadBack

(* What ReadVariant leaves of the buffer: the objects up to r destroyed.   *)
LeftBehind(how, d, e, p, r, but) ==
    /\ e \in Seq(Cells) /\ Len(e) = Len(d)
    /\ \A i \in DOMAIN d : i <= p \/ i > r => e[i] = d[i]
    /\ Alive(how, e, r, but)

(* How ReadVariant reads it. *)
ReadsAt(p) ==
    LET t == Cell(p).type IN
    IF t \in Complete
      THEN /\ io' = [io EXCEPT !.pos = @ + 1, !.args = Append(@, Plain(t))]
           /\ UNCHANGED entry
      ELSE /\ io' = [io EXCEPT !.pos = @ + 2, !.args = Append(@, ReadValue(t, Cell(p + 1).value))]
           /\ entry' = Destroy(entry, p + 1)

LEMMA ReadOne ==
    ASSUME TypeOK, kind' = kind, NEW p \in Nat, p = io.pos, NEW r \in Nat, NEW v, NEW but \in Nat, but <= p,
           r <= Len(entry.m_data), ArgAt(entry.m_data, p, r, v), Alive(kind, entry.m_data, p, but),
           ReadsAt(p)
    PROVE  /\ io' = [io EXCEPT !.pos = r, !.args = Append(@, v)]
           /\ entry' \in Buffer /\ entry'.m_start = entry.m_start
           /\ entry'.m_num_commands = entry.m_num_commands
           /\ LeftBehind(kind, entry.m_data, entry'.m_data, p, r, but)
<1>1. PICK d \in Seq(Cells) : d = entry.m_data BY DEF TypeOK, Buffer
<1>2. PICK l \in Nat : l = Len(d) /\ DOMAIN d = 1 .. l BY LenProperties
<1>3. CASE r = p + 1 /\ \E t \in Complete : d[p + 1] = Tag(t) /\ Plain(t) = v
  <2>1. PICK t \in Complete : d[p + 1] = Tag(t) /\ Plain(t) = v BY <1>3
  <2>2. Cell(p).type = t BY <1>1, <2>1 DEF Cell, Tag
  <2>3. io' = [io EXCEPT !.pos = @ + 1, !.args = Append(@, v)] /\ entry' = entry BY <2>1, <2>2 DEF ReadsAt
  <2>4. io' = [io EXCEPT !.pos = r, !.args = Append(@, v)] BY <1>3, <2>3
  <2>5. Alive(kind, d, r, but)
    <3> SUFFICES ASSUME NEW i \in DOMAIN d, Object(kind, d[i]), i # but PROVE d[i].live <=> i > r
      BY DEF Alive
    <3>1. d[i].live <=> i > p BY <1>1 DEF Alive
    <3>2. i # p + 1 BY <2>1 DEF Object, Tag
    <3>3. i > p <=> i > r BY <1>2, <1>3, <3>2
    <3> QED BY <3>1, <3>3
  <2>6. LeftBehind(kind, d, d, p, r, but) BY <2>5 DEF LeftBehind
  <2> QED BY <1>1, <2>3, <2>4, <2>6 DEF TypeOK
<1>4. CASE /\ r = p + 2
           /\ \E t \in TypeTag \ Complete, w \in Int :
                  d[p + 1] = Tag(t) /\ d[p + 2] = Value(t, w) /\ ReadValue(t, w) = v
  <2>1. PICK t \in TypeTag \ Complete, w \in Int :
            d[p + 1] = Tag(t) /\ d[p + 2] = Value(t, w) /\ ReadValue(t, w) = v
    BY <1>4
  <2>2. p + 1 + 1 = r /\ r \in DOMAIN d BY <1>1, <1>2, <1>4
  <2>3. Cell(p).type = t BY <1>1, <2>1 DEF Cell, Tag
  <2>4. Cell(p + 1).value = w BY <1>1, <1>4, <2>1, <2>2 DEF Cell, Value
  <2>5. /\ io' = [io EXCEPT !.pos = @ + 2, !.args = Append(@, v)]
        /\ entry' = Destroy(entry, p + 1)
    BY <2>1, <2>3, <2>4 DEF ReadsAt
  <2>6. io' = [io EXCEPT !.pos = r, !.args = Append(@, v)] BY <1>4, <2>5
  <2>7. d[r].cell = "value" BY <1>4, <2>1 DEF Value
  <2>8. /\ entry' \in Buffer /\ entry'.m_start = entry.m_start
        /\ entry'.m_num_commands = entry.m_num_commands
        /\ entry'.m_data \in Seq(Cells) /\ Len(entry'.m_data) = Len(d)
        /\ \A i \in DOMAIN d : i # r => entry'.m_data[i] = d[i]
        /\ ~entry'.m_data[r].live
    <3>1. entry \in Buffer /\ p + 1 \in Nat BY DEF TypeOK
    <3>2. p + 1 + 1 \in DOMAIN entry.m_data /\ entry.m_data[p + 1 + 1].cell # "type" BY <1>1, <2>2, <2>7
    <3> QED BY <1>1, <2>2, <2>5, <3>1, <3>2, DestroyIs
  <2>9. PICK e \in Seq(Cells) : e = entry'.m_data BY <2>8
  <2>10. Len(e) = l /\ DOMAIN e = 1 .. l BY <1>2, <2>8, <2>9, LenProperties
  <2>11. Alive(kind, e, r, but)
    <3> SUFFICES ASSUME NEW i \in DOMAIN e, Object(kind, e[i]), i # but PROVE e[i].live <=> i > r
      BY DEF Alive
    <3>1. CASE i = r BY <2>8, <2>9, <2>2, <1>2, <3>1
    <3>2. CASE i # r
      <4>1. i \in DOMAIN d /\ e[i] = d[i] BY <1>2, <2>8, <2>9, <2>10, <3>2
      <4>2. d[i].live <=> i > p BY <1>1, <4>1 DEF Alive
      <4>3. i # p + 1 BY <2>1, <4>1 DEF Object, Tag
      <4>4. i > p <=> i > r BY <1>2, <1>4, <3>2, <4>1, <4>3
      <4> QED BY <4>1, <4>2, <4>4
    <3> QED BY <3>1, <3>2
  <2>12. \A i \in DOMAIN d : i <= p \/ i > r => e[i] = d[i] BY <1>2, <1>4, <2>8, <2>9
  <2>13. LeftBehind(kind, d, e, p, r, but) BY <1>2, <2>10, <2>11, <2>12 DEF LeftBehind
  <2> QED BY <1>1, <2>6, <2>8, <2>9, <2>13
<1> QED BY <1>1, <1>3, <1>4 DEF ArgAt

(* ReadVariant. *)
LEMMA ReadVariantStep ==
    ASSUME BufferInv, ReadVariant
    PROVE  BufferInv'
<1>1. /\ TypeOK /\ RunAsWritten /\ HistoryInv /\ WriterInv /\ ReaderInv /\ ArgsInv
      /\ io \in Reading
      /\ entry.m_data \in Seq(Cells) /\ entry.m_start \in Nat /\ entry.m_num_commands \in Nat
      /\ consumed \in Nat /\ Left \in Nat /\ Len(accepted) \in Nat /\ consumed + Left <= Len(accepted)
      /\ \A n \in 1 .. Len(accepted) : accepted[n] \in Call
  BY Parts
<1>2. /\ kind = "godot" /\ kind # "typed" /\ io.at = "args" /\ Len(io.args) < Cell(io.header).argcount
      /\ UNCHANGED <<kind, writer, accepted, consumed, called>>
  BY DEF ReadVariant
<1>3. PICK d \in Seq(Cells) : d = entry.m_data BY <1>1
<1>4. PICK l \in Nat : l = Len(d) /\ DOMAIN d = 1 .. l BY LenProperties
<1>5. /\ io = [at |-> io.at, execute |-> io.execute, pos |-> io.pos, header |-> io.header,
               args |-> io.args, num |-> io.num, max |-> io.max]
      /\ io.execute \in BOOLEAN /\ io.pos \in Nat /\ io.header \in Nat /\ io.num \in Nat /\ io.max \in Nat
      /\ io.args \in Seq(Variant)
  BY <1>1, ReadingIs
<1>6. PICK p \in Nat, h \in Nat : p = io.pos /\ h = io.header BY <1>5
<1>7. Left > 0 /\ consumed + 1 \in 1 .. Len(accepted)
  <2>1. Left > 0 BY <1>1, <1>2 DEF ArgsInv
  <2> QED BY <1>1, <2>1
<1>8. PICK c \in Call : c = accepted[consumed + 1] BY <1>1, <1>7
<1>9. /\ Last = h + 1 /\ h + 1 \in DOMAIN d
      /\ d[h + 1] = Header(c.name, Len(c.args))
      /\ Alive(kind, d, p, h + 1) /\ d[h + 1].live
      /\ ArgsLeft(c)
  <2>1. Last = h + 1 BY <1>2, <1>6 DEF Last
  <2>2. /\ Last \in DOMAIN d
        /\ Cell(io.header) = Header(c.name, Len(c.args))
        /\ LiveBehind(d, p, Last) /\ d[Last].live
        /\ ArgsLeft(c)
    BY <1>1, <1>2, <1>3, <1>6, <1>8 DEF ArgsInv
  <2>3. Cell(io.header) = d[h + 1] BY <1>3, <1>6 DEF Cell
  <2> QED BY <2>1, <2>2, <2>3, AliveIs
<1>10. PICK args \in Seq(Variant) : args = c.args BY DEF Call
<1>11. PICK k \in Nat : k = Len(io.args) BY <1>5, LenProperties
<1>12. k < Len(args)
  <2>1. Cell(io.header).argcount = Len(args) BY <1>3, <1>6, <1>9, <1>10 DEF Cell, Header
  <2> QED BY <1>2, <1>11, <2>1
<1>13. /\ h < p /\ \A i \in DOMAIN io.args : io.args[i] = args[i]
       /\ \E q \in p .. l : /\ HoldsArgs(d, p, q, args, k)
                            /\ HoldsCommands(kind, accepted, d, q, consumed + 2, consumed + Left)
  BY <1>3, <1>4, <1>6, <1>9, <1>10, <1>11 DEF ArgsLeft, Holds
<1>14. PICK q \in p .. l :
         HoldsArgs(d, p, q, args, k) /\ HoldsCommands(kind, accepted, d, q, consumed + 2, consumed + Left)
  BY <1>13
<1>15. q \in Nat OBVIOUS
<1>16. PICK r \in p .. q : HoldsArg(d, p, r, args[k + 1]) /\ HoldsArgs(d, r, q, args, k + 1)
  BY <1>12, <1>14, <1>15, NextArg
<1>17. r \in Nat /\ r <= l OBVIOUS
<1>18. PICK v \in Variant : v = args[k + 1]
  <2>1. k + 1 \in 1 .. Len(args) BY <1>12
  <2> QED BY <2>1, LenProperties
<1>19. ArgAt(d, p, r, v) BY <1>16, <1>18, ArgThere
<1>20. /\ io' = [io EXCEPT !.pos = r, !.args = Append(@, v)]
       /\ entry' \in Buffer /\ entry'.m_start = entry.m_start
       /\ entry'.m_num_commands = entry.m_num_commands
       /\ LeftBehind(kind, d, entry'.m_data, p, r, h + 1)
  <2>1. ReadsAt(p) BY <1>6 DEF ReadVariant, ReadsAt
  <2>2. h + 1 \in Nat /\ h + 1 <= p BY <1>13
  <2>3. /\ TypeOK /\ kind' = kind /\ p = io.pos /\ r <= Len(entry.m_data)
        /\ ArgAt(entry.m_data, p, r, v) /\ Alive(kind, entry.m_data, p, h + 1)
    BY <1>1, <1>2, <1>3, <1>4, <1>6, <1>9, <1>17, <1>19
  <2>4. p \in Nat /\ r \in Nat BY <1>17
  <2> QED BY ONLY <1>3, <2>1, <2>2, <2>3, <2>4, ReadOne
<1>21. PICK e \in Seq(Cells) : e = entry'.m_data BY <1>20 DEF LeftBehind
<1>22. /\ Len(e) = l /\ DOMAIN e = 1 .. l
       /\ \A i \in 1 .. l : i <= p \/ i > r => e[i] = d[i]
       /\ Alive(kind, e, r, h + 1)
  BY <1>4, <1>20, <1>21, LenProperties DEF LeftBehind
<1>23. PICK more \in Seq(Variant) : more = Append(io.args, v) BY <1>5, AppendProperties
<1>24. Len(more) = k + 1 /\ \A i \in DOMAIN more : more[i] = args[i]
  <2>1. /\ Len(more) = k + 1 /\ more[k + 1] = v
        /\ \A i \in 1 .. k : more[i] = io.args[i]
    BY <1>5, <1>11, <1>23, AppendProperties
  <2>2. DOMAIN more = 1 .. k + 1 /\ DOMAIN io.args = 1 .. k BY <1>5, <1>11, <2>1, LenProperties
  <2>3. ASSUME NEW i \in DOMAIN more PROVE more[i] = args[i]
    <3>1. CASE i = k + 1 BY <1>18, <2>1, <3>1
    <3>2. CASE i # k + 1
      <4>1. i \in 1 .. k BY <2>2, <3>2
      <4> QED BY <1>13, <2>1, <2>2, <4>1
    <3> QED BY <3>1, <3>2
  <2> QED BY <2>1, <2>3
<1>25. io' = [at |-> "args", execute |-> io.execute, pos |-> r, header |-> h,
              args |-> more, num |-> io.num, max |-> io.max]
  BY ONLY <1>2, <1>5, <1>6, <1>20, <1>23
<1>26. /\ io'.at = "args" /\ io'.execute = io.execute /\ io'.pos = r /\ io'.header = h
       /\ io'.args = more /\ io'.num = io.num /\ io'.max = io.max
  BY <1>25
<1>27. Left' = Left BY <1>20, <1>26 DEF Left
<1>28. io' \in Reading
  <2>1. PICK S : S = Seq(Variant) OBVIOUS
  <2>2. io' \in [at : {"idle", "command", "args", "next", "finish"}, execute : BOOLEAN, pos : Nat,
                 header : Nat, args : S, num : Nat, max : Nat]
    <3>1. more \in S BY <1>23, <2>1
    <3> QED BY ONLY <1>5, <1>6, <1>17, <1>25, <3>1
  <2> QED BY <2>1, <2>2 DEF Reading
<1>29. TypeOK'
  <2>1. io'.pos \in 0 .. Len(entry'.m_data) BY <1>17, <1>21, <1>22, <1>26
  <2>2. io'.at = "args" /\ io'.num \in Nat /\ io'.max \in Nat /\ io'.args \in Seq(Variant)
    BY <1>5, <1>23, <1>26
  <2> QED BY <1>1, <1>2, <1>20, <2>1, <2>2 DEF TypeOK
<1>30. HistoryInv' /\ RunAsWritten' BY <1>1, <1>2, HistoryKept
<1>31. WriterInv' BY <1>1, <1>2, <1>27, WriterKept
<1>32. ReaderInv'
  <2>1. io.execute /\ io.max # k_process_all_commands => io.num <= io.max /\ io.num < io.max
    BY <1>1, <1>2 DEF ReaderInv
  <2> QED BY <1>26, <1>28, <2>1 DEF ReaderInv
<1>33. SameCells(d, e, r, l) BY <1>22 DEF SameCells
<1>34. HoldsArgs(e, r, q, args, k + 1)
  <2>1. k + 1 \in Nat /\ r <= r /\ q <= l OBVIOUS
  <2> QED BY <1>15, <1>16, <1>17, <1>33, <2>1, ArgsSame
<1>35. HoldsCommands(kind, accepted, e, q, consumed + 2, consumed + Left)
  <2>1. Len(d) = Len(e) /\ \A i \in q + 1 .. Len(d) : e[i] = d[i] BY <1>4, <1>22
  <2>2. consumed + 2 \in Nat /\ consumed + Left \in Nat BY <1>1
  <2>3. \A n \in consumed + 2 .. consumed + Left : accepted[n] \in Call /\ accepted[n] = accepted[n]
    <3> TAKE n \in consumed + 2 .. consumed + Left
    <3>1. n \in 1 .. Len(accepted) BY <1>1
    <3> QED BY <1>1, <3>1
  <2> HIDE DEF Call
  <2> QED BY <1>14, <1>15, <2>1, <2>2, <2>3, CommandsSame
<1>36. ArgsLeft(c)'
  <2>1. q \in io'.pos .. Len(entry'.m_data) BY <1>21, <1>22, <1>26
  <2>2. HoldsArgs(entry'.m_data, io'.pos, q, c.args, Len(io'.args)) BY <1>10, <1>21, <1>24, <1>26, <1>34
  <2>3. HoldsCommands(kind', accepted', entry'.m_data, q, consumed' + 2, consumed' + Left')
    BY <1>2, <1>21, <1>27, <1>35
  <2>4. io'.header < io'.pos /\ Len(io'.args) <= Len(c.args)
    BY <1>10, <1>12, <1>13, <1>24, <1>26
  <2>5. \A i \in DOMAIN io'.args : io'.args[i] = c.args[i] BY <1>10, <1>24, <1>26
  <2> QED BY <2>1, <2>2, <2>3, <2>4, <2>5 DEF ArgsLeft, Holds
<1>37. ArgsInv'
  <2>1. c = accepted'[consumed' + 1] BY <1>2, <1>8
  <2>2. Left' > 0 BY <1>7, <1>27
  <2>3. Last' = h + 1 BY <1>2, <1>26 DEF Last
  <2>4. e[h + 1] = d[h + 1] /\ h + 1 \in DOMAIN e
    <3>1. h + 1 \in 1 .. l /\ h + 1 <= p BY <1>4, <1>9, <1>13
    <3> QED BY <1>22, <3>1
  <2>5. Last' \in DOMAIN entry'.m_data /\ entry'.m_data[Last'].live BY <1>9, <1>21, <2>3, <2>4
  <2>6. Cell(io.header)' = Header(c.name, Len(c.args)) BY <1>9, <1>21, <1>26, <2>4 DEF Cell
  <2>7. LiveBehind(entry.m_data, io.pos, Last)'
    <3>1. entry'.m_data = e /\ io'.pos = r BY <1>21, <1>26
    <3> QED BY <1>2, <1>22, <2>3, <3>1 DEF LiveBehind, HasObject, Alive, Object
  <2> QED BY <1>2, <1>36, <2>1, <2>2, <2>5, <2>6, <2>7 DEF ArgsInv
<1> QED BY <1>29, <1>30, <1>31, <1>32, <1>37 DEF BufferInv

(* ReadTuple. *)
LEMMA ReadTupleKeeps ==
    ASSUME BufferInv, ReadTuple
    PROVE  BufferInv'
<1>1. /\ TypeOK /\ RunAsWritten /\ HistoryInv /\ WriterInv /\ ReaderInv /\ ArgsInv
      /\ io \in Reading
      /\ entry.m_data \in Seq(Cells)
      /\ consumed \in Nat /\ Left \in Nat /\ Len(accepted) \in Nat /\ consumed + Left <= Len(accepted)
      /\ \A n \in 1 .. Len(accepted) : accepted[n] \in Call
  BY Parts
<1>2. /\ kind = "typed" /\ io.at = "args" /\ io.pos = io.header + 1
      /\ io' = [io EXCEPT !.args = Cell(io.pos).args, !.pos = @ + 1]
      /\ UNCHANGED <<kind, writer, entry, accepted, consumed, called>>
  BY DEF ReadTuple
<1>3. PICK d \in Seq(Cells) : d = entry.m_data BY <1>1
<1>4. PICK l \in Nat : l = Len(d) /\ DOMAIN d = 1 .. l BY LenProperties
<1>5. /\ io = [at |-> io.at, execute |-> io.execute, pos |-> io.pos, header |-> io.header,
               args |-> io.args, num |-> io.num, max |-> io.max]
      /\ io.execute \in BOOLEAN /\ io.pos \in Nat /\ io.header \in Nat /\ io.num \in Nat /\ io.max \in Nat
  BY <1>1, ReadingIs
<1>6. PICK h \in Nat : h = io.header /\ io.pos = h + 1 BY <1>2, <1>5
<1>7. Left > 0 /\ consumed + 1 \in 1 .. Len(accepted)
  <2>1. Left > 0 BY <1>1, <1>2 DEF ArgsInv
  <2> QED BY <1>1, <2>1
<1>8. PICK c \in Call : c = accepted[consumed + 1] BY <1>1, <1>7
<1>9. /\ Last = h + 2 /\ h + 2 \in DOMAIN d
      /\ d[h + 1] = Header(c.name, Len(c.args))
      /\ Alive(kind, d, h + 1, h + 2) /\ d[h + 2].live
      /\ TupleLeft(c)
  <2>1. Last = h + 2 BY <1>2, <1>6 DEF Last
  <2>2. /\ Last \in DOMAIN d
        /\ Cell(io.header) = Header(c.name, Len(c.args))
        /\ LiveBehind(d, h + 1, Last) /\ d[Last].live
        /\ TupleLeft(c)
    BY <1>1, <1>2, <1>3, <1>6, <1>8 DEF ArgsInv
  <2>3. Cell(io.header) = d[h + 1] BY <1>3, <1>6 DEF Cell
  <2> QED BY <2>1, <2>2, <2>3, AliveIs
<1>10. PICK args \in Seq(Variant) : args = c.args BY DEF Call
<1>11. /\ d[h + 2] = Tuple(args)
       /\ HoldsCommands(kind, accepted, d, h + 2, consumed + 2, consumed + Left)
  <2>1. Cell(io.header + 1) = d[h + 2]
    <3>1. h + 1 + 1 = h + 2 OBVIOUS
    <3> QED BY <1>3, <1>6, <3>1 DEF Cell
  <2> QED BY <1>3, <1>6, <1>9, <1>10, <2>1 DEF TupleLeft, Holds
<1>12. io' = [at |-> "args", execute |-> io.execute, pos |-> h + 2, header |-> h,
              args |-> args, num |-> io.num, max |-> io.max]
  <2>1. Cell(io.pos).args = args
    <3>1. h + 1 + 1 = h + 2 OBVIOUS
    <3> QED BY <1>3, <1>6, <1>11, <3>1 DEF Cell, Tuple
  <2>2. io.pos + 1 = h + 2 BY <1>6
  <2>3. io' = [io EXCEPT !.args = args, !.pos = h + 2] BY <1>2, <2>1, <2>2
  <2> QED BY ONLY <1>2, <1>5, <1>6, <2>3
<1>13. /\ io'.at = "args" /\ io'.execute = io.execute /\ io'.pos = h + 2 /\ io'.header = h
       /\ io'.args = args /\ io'.num = io.num /\ io'.max = io.max
  BY <1>12
<1>14. Left' = Left BY <1>2, <1>13 DEF Left
<1>15. io' \in Reading
  <2>1. PICK S : S = Seq(Variant) OBVIOUS
  <2>2. io' \in [at : {"idle", "command", "args", "next", "finish"}, execute : BOOLEAN, pos : Nat,
                 header : Nat, args : S, num : Nat, max : Nat]
    <3>1. args \in S /\ h + 2 \in Nat BY <2>1
    <3> QED BY ONLY <1>5, <1>6, <1>12, <3>1
  <2> QED BY <2>1, <2>2 DEF Reading
<1>16. TypeOK'
  <2>1. io'.pos \in 0 .. Len(entry'.m_data) BY <1>2, <1>3, <1>4, <1>9, <1>13
  <2>2. io'.at = "args" /\ io'.num \in Nat /\ io'.max \in Nat /\ io'.args \in Seq(Variant) BY <1>5, <1>13
  <2> QED BY <1>1, <1>2, <2>1, <2>2 DEF TypeOK
<1>17. HistoryInv' /\ RunAsWritten' BY <1>1, <1>2, HistoryKept
<1>18. WriterInv' BY <1>1, <1>2, <1>14, WriterKept
<1>19. ReaderInv'
  <2>1. io.execute /\ io.max # k_process_all_commands => io.num <= io.max /\ io.num < io.max
    BY <1>1, <1>2 DEF ReaderInv
  <2> QED BY <1>13, <1>15, <2>1 DEF ReaderInv
<1>20. ArgsInv'
  <2>1. c = accepted'[consumed' + 1] BY <1>2, <1>8
  <2>2. Left' > 0 BY <1>7, <1>14
  <2>3. Last' = h + 2 BY <1>2, <1>13 DEF Last
  <2>4. Last' \in DOMAIN entry'.m_data /\ entry'.m_data[Last'].live BY <1>2, <1>3, <1>9, <2>3
  <2>5. Cell(io.header)' = Header(c.name, Len(c.args)) BY <1>2, <1>3, <1>9, <1>13 DEF Cell
  <2>6. LiveBehind(entry.m_data, io.pos, Last)'
    <3>1. Alive(kind, d, h + 2, h + 2)
      <4> SUFFICES ASSUME NEW i \in DOMAIN d, Object(kind, d[i]), i # h + 2 PROVE d[i].live <=> i > h + 2
        BY DEF Alive
      <4>1. d[i].live <=> i > h + 1 BY <1>9 DEF Alive
      <4>2. i > h + 1 <=> i > h + 2 BY <1>4
      <4> QED BY <4>1, <4>2
    <3>2. entry'.m_data = d /\ io'.pos = h + 2 BY <1>2, <1>3, <1>13
    <3> QED BY <1>2, <2>3, <3>1, <3>2 DEF LiveBehind, HasObject, Alive, Object
  <2>7. TupleLeft(c)'
    <3>1. Cell(io.header + 1)' = Tuple(c.args)
      <4>1. h + 1 + 1 = h + 2 OBVIOUS
      <4> QED BY <1>2, <1>3, <1>10, <1>11, <1>13, <4>1 DEF Cell
    <3>2. HoldsCommands(kind', accepted', entry'.m_data, io'.header + 2, consumed' + 2, consumed' + Left')
      BY <1>2, <1>3, <1>11, <1>13, <1>14
    <3> QED BY <1>10, <1>13, <3>1, <3>2 DEF TupleLeft, Holds
  <2> QED BY <1>2, <2>1, <2>2, <2>4, <2>5, <2>6, <2>7 DEF ArgsInv
<1> QED BY <1>16, <1>17, <1>18, <1>19, <1>20 DEF BufferInv

(* What is known when all arguments of a command are read. *)
LEMMA ArgsRead ==
    ASSUME BufferInv, io.at = "args", AllRead, NEW c \in Call, c = accepted[consumed + 1]
    PROVE  /\ io.args = c.args /\ Cell(io.header).name = c.name
           /\ Holds(entry.m_data, io.pos, consumed + 2, consumed + Left)
<1>1. ArgsInv /\ io \in Reading /\ entry.m_data \in Seq(Cells) BY Parts
<1>2. io.args \in Seq(Variant) /\ io.pos \in Nat /\ io.header \in Nat BY <1>1, ReadingIs
<1>3. /\ Cell(io.header) = Header(c.name, Len(c.args))
      /\ IF kind = "typed" THEN TupleLeft(c) ELSE ArgsLeft(c)
  BY <1>1 DEF ArgsInv
<1>4. Cell(io.header).name = c.name /\ Cell(io.header).argcount = Len(c.args) BY <1>3 DEF Header
<1>5. CASE kind = "typed"
  <2>1. io.pos = io.header + 2 BY <1>5 DEF AllRead
  <2>2. io.pos # io.header + 1 BY <1>2, <2>1
  <2>3. io.args = c.args /\ Holds(entry.m_data, io.pos, consumed + 2, consumed + Left)
    BY <1>3, <1>5, <2>1, <2>2 DEF TupleLeft
  <2> QED BY <1>4, <2>3
<1>6. CASE kind # "typed"
  <2>1. PICK args \in Seq(Variant) : args = c.args BY DEF Call
  <2>2. Len(io.args) = Len(args) BY <1>4, <1>6, <2>1 DEF AllRead
  <2>3. io.args = args
    <3>1. \A i \in DOMAIN io.args : io.args[i] = args[i] BY <1>3, <1>6, <2>1 DEF ArgsLeft
    <3>2. DOMAIN io.args = 1 .. Len(args) /\ DOMAIN args = 1 .. Len(args) BY <1>2, <2>2, LenProperties
    <3>3. \A i \in 1 .. Len(args) : io.args[i] = args[i] BY <3>1, <3>2
    <3> QED BY <1>2, <2>2, <3>3, SeqEqual
  <2>4. PICK q \in io.pos .. Len(entry.m_data) :
          /\ HoldsArgs(entry.m_data, io.pos, q, args, Len(args))
          /\ Holds(entry.m_data, q, consumed + 2, consumed + Left)
    BY <1>3, <1>6, <2>1, <2>2 DEF ArgsLeft
  <2>5. q = io.pos BY <2>4, ArgsDone
  <2> QED BY <1>4, <2>1, <2>3, <2>4, <2>5
<1> QED BY <1>5, <1>6

(* EndCommand. *)
LEMMA EndCommandKeeps ==
    ASSUME BufferInv, EndCommand
    PROVE  BufferInv'
<1>1. /\ TypeOK /\ RunAsWritten /\ HistoryInv /\ WriterInv /\ ReaderInv /\ ArgsInv
      /\ kind \in {"godot", "typed"} /\ io \in Reading
      /\ entry.m_data \in Seq(Cells) /\ entry.m_num_commands \in Nat
      /\ consumed \in Nat /\ Left \in Nat /\ Len(accepted) \in Nat /\ consumed + Left <= Len(accepted)
      /\ \A n \in 1 .. Len(accepted) : accepted[n] \in Call
  BY Parts
<1>2. /\ io.at = "args" /\ AllRead
      /\ called' = IF io.execute
                     THEN Append(called, [name |-> Cell(io.header).name, args |-> io.args, place |-> consumed + 1])
                     ELSE called
      /\ entry' = Destroy(entry, IF kind = "typed" THEN io.header + 1 ELSE io.header)
      /\ consumed' = consumed + 1
      /\ io' = [io EXCEPT !.at = "next", !.num = @ + 1]
      /\ UNCHANGED <<kind, writer, accepted>>
  BY DEF EndCommand
<1>3. PICK d \in Seq(Cells) : d = entry.m_data BY <1>1
<1>4. PICK l \in Nat : l = Len(d) /\ DOMAIN d = 1 .. l BY LenProperties
<1>5. /\ io = [at |-> io.at, execute |-> io.execute, pos |-> io.pos, header |-> io.header,
               args |-> io.args, num |-> io.num, max |-> io.max]
      /\ io.execute \in BOOLEAN /\ io.pos \in Nat /\ io.header \in Nat /\ io.num \in Nat /\ io.max \in Nat
      /\ io.args \in Seq(Variant)
  BY <1>1, ReadingIs
<1>6. PICK p \in Nat, h \in Nat : p = io.pos /\ h = io.header BY <1>5
<1>7. Left > 0 /\ consumed + 1 \in 1 .. Len(accepted)
  <2>1. Left > 0 BY <1>1, <1>2 DEF ArgsInv
  <2> QED BY <1>1, <2>1
<1>8. PICK c \in Call : c = accepted[consumed + 1] BY <1>1, <1>7
<1>9. /\ io.args = c.args /\ Cell(io.header).name = c.name
      /\ HoldsCommands(kind, accepted, d, p, consumed + 2, consumed + Left)
  <2>1. /\ io.args = c.args /\ Cell(io.header).name = c.name
        /\ Holds(entry.m_data, io.pos, consumed + 2, consumed + Left)
    BY <1>2, <1>8, ArgsRead
  <2> QED BY <1>3, <1>6, <2>1 DEF Holds
<1>10. /\ Last \in DOMAIN d /\ Cell(io.header) = Header(c.name, Len(c.args))
       /\ LiveBehind(d, p, Last)
       /\ IF kind = "typed" THEN TupleLeft(c) ELSE ArgsLeft(c)
  BY <1>1, <1>2, <1>3, <1>6, <1>8 DEF ArgsInv
<1>11. PICK a \in Nat : a = IF kind = "typed" THEN h + 1 ELSE h
  <2>1. h + 1 \in Nat OBVIOUS
  <2> QED BY <2>1
<1>12. Last = a + 1 /\ a + 1 <= p /\ d[a + 1].cell # "type"
  <2>1. CASE kind = "typed"
    <3>1. h + 1 + 1 = h + 2 OBVIOUS
    <3>2. p = h + 2 BY <1>2, <1>6, <2>1 DEF AllRead
    <3>3. Cell(io.header + 1) = Tuple(c.args) BY <1>10, <2>1 DEF TupleLeft
    <3>4. d[h + 2].cell # "type" BY <1>3, <1>6, <3>1, <3>3 DEF Cell, Tuple
    <3> QED BY <1>6, <1>11, <2>1, <3>1, <3>2, <3>4 DEF Last
  <2>2. CASE kind # "typed"
    <3>1. h < p BY <1>6, <1>10, <2>2 DEF ArgsLeft
    <3>2. d[h + 1].cell # "type" BY <1>3, <1>6, <1>10 DEF Cell, Header
    <3> QED BY <1>6, <1>11, <2>2, <3>1, <3>2 DEF Last
  <2> QED BY <2>1, <2>2
<1>13. /\ entry' \in Buffer /\ entry'.m_num_commands = entry.m_num_commands
       /\ entry'.m_data \in Seq(Cells) /\ Len(entry'.m_data) = l
       /\ \A i \in DOMAIN d : i # a + 1 => entry'.m_data[i] = d[i]
       /\ ~entry'.m_data[a + 1].live
  <2>1. entry' = Destroy(entry, a) BY <1>2, <1>6, <1>11
  <2>2. entry \in Buffer BY <1>1 DEF TypeOK
  <2>3. a + 1 \in DOMAIN entry.m_data /\ entry.m_data[a + 1].cell # "type" BY <1>3, <1>10, <1>12
  <2> QED BY <1>3, <1>4, <2>1, <2>2, <2>3, DestroyIs
<1>14. PICK e \in Seq(Cells) : e = entry'.m_data BY <1>13
<1>15. Len(e) = l /\ DOMAIN e = 1 .. l BY <1>13, <1>14, LenProperties
<1>16. io' = [at |-> "next", execute |-> io.execute, pos |-> p, header |-> h,
              args |-> io.args, num |-> io.num + 1, max |-> io.max]
  BY ONLY <1>2, <1>5, <1>6
<1>17. /\ io'.at = "next" /\ io'.execute = io.execute /\ io'.pos = p /\ io'.args = io.args
       /\ io'.num = io.num + 1 /\ io'.max = io.max
  BY <1>16
<1>18. Left' = Left - 1 /\ Left' \in Nat /\ consumed' + Left' = consumed + Left
  <2>1. PICK x \in Nat, y \in Nat : x = entry.m_num_commands /\ y = io.num BY <1>1, <1>5
  <2>2. entry'.m_num_commands = x /\ io'.num = y + 1 BY <1>13, <1>17, <2>1
  <2>3. x - (y + 1) = x - y - 1 OBVIOUS
  <2>4. Left' = Left - 1 BY <2>1, <2>2, <2>3 DEF Left
  <2>5. PICK g \in Nat, k \in Nat : g = Left /\ k = consumed BY <1>1
  <2>6. g - 1 \in Nat /\ k + 1 + (g - 1) = k + g BY <1>7, <2>5
  <2> QED BY <1>2, <2>4, <2>5, <2>6
<1>19. io' \in Reading
  <2>1. PICK S : S = Seq(Variant) OBVIOUS
  <2>2. io' \in [at : {"idle", "command", "args", "next", "finish"}, execute : BOOLEAN, pos : Nat,
                 header : Nat, args : S, num : Nat, max : Nat]
    <3>1. io.args \in S /\ io.num + 1 \in Nat BY <1>5, <2>1
    <3>2. io.execute \in BOOLEAN /\ io.max \in Nat BY <1>5
    <3> QED BY ONLY <1>6, <1>16, <3>1, <3>2
  <2> QED BY <2>1, <2>2 DEF Reading
<1>20. TypeOK'
  <2>1. p <= l BY <1>1, <1>3, <1>4, <1>6 DEF TypeOK
  <2>2. io'.pos \in 0 .. Len(entry'.m_data) BY <1>13, <1>17, <2>1
  <2>3. io'.num \in Nat /\ io'.max \in Nat /\ io'.args \in Seq(Variant) /\ consumed' \in Nat
    <3>1. io'.num \in Nat
      <4>1. PICK y \in Nat : y = io.num BY <1>5
      <4>2. io'.num = y + 1 BY <1>17, <4>1
      <4> QED BY <4>2
    <3>2. consumed' \in Nat
      <4>1. consumed + 1 \in Nat BY <1>1
      <4> QED BY <1>2, <4>1
    <3>3. io'.max \in Nat BY <1>5, <1>17
    <3>4. io'.args \in Seq(Variant) BY <1>5, <1>17
    <3> QED BY <3>1, <3>2, <3>3, <3>4
  <2> QED BY <1>1, <1>2, <1>13, <1>17, <2>2, <2>3 DEF TypeOK
<1>21. accepted[consumed + 1] = [name |-> c.name, args |-> c.args]
  <2>1. c = [name |-> c.name, args |-> c.args] BY DEF Call
  <2> QED BY <1>8, <2>1
<1>22. called \in Seq([name : Name, args : Seq(Variant), place : Nat]) /\ DOMAIN called = 1 .. Len(called)
       /\ Len(called) \in Nat
  BY <1>1, LenProperties DEF HistoryInv
<1>23. PICK m \in Nat : m = Len(called) BY <1>22
<1>24. ~io.execute => HistoryInv' /\ RunAsWritten'
  <2> HAVE ~io.execute
  <2>1. called' = called BY <1>2
  <2>2. HistoryInv'
    <3>1. \A i \in DOMAIN called : called[i].place \in Nat /\ called[i].place <= consumed
      <4>1. \A i \in DOMAIN called : called[i] \in [name : Name, args : Seq(Variant), place : Nat]
        BY <1>22, LenProperties
      <4>2. PICK S : S = Seq(Variant) OBVIOUS
      <4>3. \A i \in DOMAIN called : called[i] \in [name : Name, args : S, place : Nat] BY <4>1, <4>2
      <4> QED BY <1>1, <4>3 DEF HistoryInv
    <3>2. \A i \in DOMAIN called : called[i].place <= consumed + 1 BY <1>1, <3>1
    <3> QED BY <1>1, <1>2, <2>1, <3>2 DEF HistoryInv
  <2>3. RunAsWritten' BY <1>1, <1>2, <2>1 DEF RunAsWritten
  <2> QED BY <2>2, <2>3
<1>25. PICK x : x = [name |-> c.name, args |-> c.args, place |-> consumed + 1] OBVIOUS
<1>26. x \in [name : Name, args : Seq(Variant), place : Nat]
  <2>1. PICK S : S = Seq(Variant) OBVIOUS
  <2>2. c.name \in Name /\ c.args \in S BY <2>1 DEF Call
  <2>3. consumed + 1 \in Nat BY <1>1
  <2>4. x \in [name : Name, args : S, place : Nat] BY ONLY <1>25, <2>2, <2>3
  <2> QED BY <2>1, <2>4
<1>27. io.execute => HistoryInv' /\ RunAsWritten'
  <2> HAVE io.execute
  <2>1. PICK y : y = Append(called, x) OBVIOUS
  <2>2. called' = y BY <1>2, <1>9, <1>25, <2>1
  <2>3. PICK T : T = [name : Name, args : Seq(Variant), place : Nat] OBVIOUS
  <2>4. /\ y \in Seq(T) /\ Len(y) = m + 1 /\ y[m + 1] = x
        /\ \A i \in 1 .. m : y[i] = called[i]
    BY <1>22, <1>23, <1>26, <2>1, <2>3, AppendProperties
  <2>5. DOMAIN y = 1 .. m + 1 BY <2>4, LenProperties
  <2>6. \A i \in 1 .. m : called[i].place \in Nat /\ called[i].place <= consumed
    <3>1. \A i \in DOMAIN called : called[i] \in [name : Name, args : Seq(Variant), place : Nat]
      BY <1>22, LenProperties
    <3>2. PICK S : S = Seq(Variant) OBVIOUS
    <3>3. \A i \in DOMAIN called : called[i] \in [name : Name, args : S, place : Nat] BY <3>1, <3>2
    <3> QED BY <1>1, <1>22, <1>23, <3>3 DEF HistoryInv
  <2>7. x.place = consumed + 1 /\ [name |-> x.name, args |-> x.args] = accepted[consumed + 1]
    BY <1>21, <1>25
  <2>8. HistoryInv'
    <3>1. \A i \in DOMAIN y : y[i].place <= consumed + 1
      <4> TAKE i \in DOMAIN y
      <4>1. CASE i = m + 1
        <5>1. y[i].place = consumed + 1 BY <2>4, <2>7, <4>1
        <5> QED BY <1>1, <5>1
      <4>2. CASE i # m + 1
        <5>1. i \in 1 .. m BY <2>5, <4>2
        <5>2. y[i].place \in Nat /\ y[i].place <= consumed BY <2>4, <2>6, <5>1
        <5> QED BY <1>1, <5>2
      <4> QED BY <4>1, <4>2
    <3>2. called' \in Seq([name : Name, args : Seq(Variant), place : Nat]) BY <2>2, <2>3, <2>4
    <3> QED BY <1>1, <1>2, <2>2, <3>1, <3>2 DEF HistoryInv
  <2>9. RunAsWritten'
    <3>1. \A i \in DOMAIN y : /\ y[i].place \in DOMAIN accepted
                              /\ [name |-> y[i].name, args |-> y[i].args] = accepted[y[i].place]
      <4> TAKE i \in DOMAIN y
      <4>1. CASE i = m + 1
        <5>1. consumed + 1 \in DOMAIN accepted
          <6>1. accepted \in Seq(Call) BY <1>1, CallsAccepted
          <6> QED BY <1>7, <6>1, LenProperties
        <5> QED BY <2>4, <2>7, <4>1, <5>1
      <4>2. CASE i # m + 1
        <5>1. i \in 1 .. m BY <2>5, <4>2
        <5>2. i \in DOMAIN called /\ y[i] = called[i] BY <1>22, <1>23, <2>4, <5>1
        <5> QED BY <1>1, <5>2 DEF RunAsWritten
      <4> QED BY <4>1, <4>2
    <3>2. \A i, j \in DOMAIN y : i < j => y[i].place < y[j].place
      <4> TAKE i, j \in DOMAIN y
      <4> HAVE i < j
      <4>1. i \in 1 .. m /\ y[i] = called[i] BY <2>4, <2>5
      <4>2. y[i].place \in Nat /\ y[i].place <= consumed BY <2>6, <4>1
      <4>3. CASE j = m + 1
        <5>1. y[j].place = consumed + 1 BY <2>4, <2>7, <4>3
        <5> QED BY <1>1, <4>2, <5>1
      <4>4. CASE j # m + 1
        <5>1. j \in 1 .. m /\ y[j] = called[j] BY <2>4, <2>5, <4>4
        <5> QED BY <1>1, <1>22, <1>23, <4>1, <5>1 DEF RunAsWritten
      <4> QED BY <4>3, <4>4
    <3> QED BY <1>2, <2>2, <3>1, <3>2 DEF RunAsWritten
  <2> QED BY <2>8, <2>9
<1>28. HistoryInv' /\ RunAsWritten' BY <1>24, <1>27
<1>29. WriterInv' BY <1>1, <1>2, <1>18, WriterKept
<1>30. ReaderInv'
  <2>1. HoldsCommands(kind, accepted, e, p, consumed + 2, consumed + Left)
    <3>1. Len(d) = Len(e) /\ \A i \in p + 1 .. Len(d) : e[i] = d[i]
      <4>1. \A i \in p + 1 .. l : i \in DOMAIN d /\ i # a + 1 BY <1>4, <1>12
      <4> QED BY <1>4, <1>13, <1>14, <1>15, <4>1
    <3>2. consumed + 2 \in Nat /\ consumed + Left \in Nat BY <1>1
    <3>3. \A n \in consumed + 2 .. consumed + Left : accepted[n] \in Call /\ accepted[n] = accepted[n]
      <4> TAKE n \in consumed + 2 .. consumed + Left
      <4>1. n \in 1 .. Len(accepted) BY <1>1
      <4> QED BY <1>1, <4>1
    <3> HIDE DEF Call
    <3> QED BY <1>9, <3>1, <3>2, <3>3, CommandsSame
  <2>2. Holds(entry.m_data, io.pos, consumed + 1, consumed + Left)'
    <3>1. consumed' + 1 = consumed + 2 BY <1>1, <1>2
    <3>2. HoldsCommands(kind', accepted', entry'.m_data, io'.pos, consumed' + 1, consumed' + Left')
      BY <1>2, <1>14, <1>17, <1>18, <2>1, <3>1
    <3> QED BY <3>2 DEF Holds
  <2>3. LiveBehind(entry.m_data, io.pos, 0)'
    <3>1. Alive(kind, e, p, 0)
      <4> SUFFICES ASSUME NEW i \in DOMAIN e, Object(kind, e[i]) PROVE e[i].live <=> i > p
        BY DEF Alive
      <4>1. Alive(kind, d, p, a + 1) BY <1>10, <1>12, AliveIs
      <4>2. CASE i = a + 1
        <5>1. ~(i > p) BY <1>6, <1>12, <4>2
        <5> QED BY <1>13, <1>14, <4>2, <5>1
      <4>3. CASE i # a + 1
        <5>1. i \in DOMAIN d /\ e[i] = d[i] BY <1>4, <1>13, <1>14, <1>15, <4>3
        <5> QED BY <4>1, <4>3, <5>1 DEF Alive
      <4> QED BY <4>2, <4>3
    <3>2. entry'.m_data = e /\ io'.pos = p BY <1>14, <1>17
    <3> QED BY <1>2, <3>1, <3>2 DEF LiveBehind, HasObject, Alive, Object
  <2>4. io.execute /\ io.max # k_process_all_commands => io.num + 1 <= io.max
    <3> HAVE io.execute /\ io.max # k_process_all_commands
    <3>1. io.at \in {"command", "args"} BY <1>2
    <3>2. io.num < io.max BY <1>1, <3>1 DEF ReaderInv
    <3> QED BY <1>5, <3>2
  <2> QED BY <1>17, <1>19, <2>2, <2>3, <2>4 DEF ReaderInv
<1>31. ArgsInv' BY <1>17 DEF ArgsInv
<1> QED BY <1>20, <1>28, <1>29, <1>30, <1>31 DEF BufferInv

(* NextCommand. *)
LEMMA NextCommandKeeps ==
    ASSUME BufferInv, NextCommand
    PROVE  BufferInv'
<1>1. /\ TypeOK /\ RunAsWritten /\ HistoryInv /\ WriterInv /\ ReaderInv /\ ArgsInv
      /\ kind \in {"godot", "typed"} /\ io \in Reading
      /\ consumed \in Nat /\ Left \in Nat
  BY Parts
<1>2. /\ io.at = "next" /\ UNCHANGED <<kind, writer, entry, accepted, consumed, called>>
      /\ io' = [io EXCEPT !.at = IF AtEnd \/ (io.execute /\ io.num = io.max) THEN "finish" ELSE "command"]
  BY DEF NextCommand
<1>3. /\ io = [at |-> io.at, execute |-> io.execute, pos |-> io.pos, header |-> io.header,
               args |-> io.args, num |-> io.num, max |-> io.max]
      /\ io.execute \in BOOLEAN /\ io.pos \in Nat /\ io.header \in Nat /\ io.num \in Nat /\ io.max \in Nat
      /\ io.args \in Seq(Variant)
  BY <1>1, ReadingIs
<1>4. PICK a \in {"command", "finish"} :
        a = IF AtEnd \/ (io.execute /\ io.num = io.max) THEN "finish" ELSE "command"
  OBVIOUS
<1>5. io' = [at |-> a, execute |-> io.execute, pos |-> io.pos, header |-> io.header,
             args |-> io.args, num |-> io.num, max |-> io.max]
  BY ONLY <1>2, <1>3, <1>4
<1>6. /\ io'.at = a /\ io'.execute = io.execute /\ io'.pos = io.pos /\ io'.args = io.args
      /\ io'.num = io.num /\ io'.max = io.max
  BY <1>5
<1>7. Left' = Left BY <1>2, <1>6 DEF Left
<1>8. io' \in Reading
  <2>1. PICK S : S = Seq(Variant) OBVIOUS
  <2>2. io' \in [at : {"idle", "command", "args", "next", "finish"}, execute : BOOLEAN, pos : Nat,
                 header : Nat, args : S, num : Nat, max : Nat]
    <3>1. io.args \in S BY <1>3, <2>1
    <3>2. /\ io.execute \in BOOLEAN /\ io.pos \in Nat /\ io.header \in Nat /\ io.num \in Nat
          /\ io.max \in Nat
      BY <1>3
    <3> QED BY ONLY <1>4, <1>5, <3>1, <3>2
  <2> QED BY <2>1, <2>2 DEF Reading
<1>9. TypeOK' BY <1>1, <1>2, <1>3, <1>4, <1>6 DEF TypeOK
<1>10. HistoryInv' /\ RunAsWritten' BY <1>1, <1>2, HistoryKept
<1>11. WriterInv' BY <1>1, <1>2, <1>7, WriterKept
<1>12. ReaderInv'
  <2>1. Holds(entry.m_data, io.pos, consumed + 1, consumed + Left)'
    <3>1. HoldsCommands(kind, accepted, entry.m_data, io.pos, consumed + 1, consumed + Left)
      BY <1>1, <1>2 DEF ReaderInv, Holds
    <3> QED BY <1>2, <1>6, <1>7, <3>1 DEF Holds
  <2>2. LiveBehind(entry.m_data, io.pos, 0)'
    <3>1. LiveBehind(entry.m_data, io.pos, 0) BY <1>1, <1>2 DEF ReaderInv
    <3> QED BY <1>2, <1>6, <3>1 DEF LiveBehind, HasObject
  <2>3. io'.at = "finish" => io'.execute \/ AtEnd'
    <3>1. AtEnd' <=> AtEnd BY <1>2, <1>6 DEF AtEnd
    <3> QED BY <1>4, <1>6, <3>1
  <2>4. io'.execute /\ io'.max # k_process_all_commands =>
          /\ io'.num <= io'.max
          /\ io'.at \in {"command", "args"} => io'.num < io'.max
    <3> HAVE io'.execute /\ io'.max # k_process_all_commands
    <3>1. io.num <= io.max BY <1>1, <1>6 DEF ReaderInv
    <3>2. io'.at \in {"command", "args"} => io.num # io.max BY <1>4, <1>6
    <3> QED BY <1>3, <1>6, <3>1, <3>2
  <2> QED BY <1>4, <1>6, <1>8, <2>1, <2>2, <2>3, <2>4 DEF ReaderInv
<1>13. ArgsInv' BY <1>4, <1>6 DEF ArgsInv
<1> QED BY <1>9, <1>10, <1>11, <1>12, <1>13 DEF BufferInv

(* A buffer is only left when it is run in part, or read to its end. *)
LEMMA LeftWhenRead ==
    ASSUME BufferInv, Finish
    PROVE  /\ Holds(entry.m_data, io.pos, consumed + 1, consumed + Left)
           /\ LiveBehind(entry.m_data, io.pos, 0)
           /\ ~io.execute => io.pos = Len(entry.m_data) /\ Left = 0
<1>1. /\ ReaderInv /\ entry.m_data \in Seq(Cells) /\ consumed \in Nat /\ Left \in Nat BY Parts
<1>2. io.at = "finish" \/ (io.at = "command" /\ AtEnd) BY DEF Finish
<1>3. Holds(entry.m_data, io.pos, consumed + 1, consumed + Left) /\ LiveBehind(entry.m_data, io.pos, 0)
  BY <1>1, <1>2 DEF ReaderInv
<1>4. ASSUME ~io.execute PROVE io.pos = Len(entry.m_data) /\ Left = 0
  <2>1. io.pos = Len(entry.m_data) BY <1>1, <1>2, <1>4 DEF ReaderInv, AtEnd
  <2>2. PICK d \in Seq(Cells) : d = entry.m_data BY <1>1
  <2>3. PICK l \in Nat : l = Len(d) BY LenProperties
  <2>4. PICK lo \in Nat, hi \in Nat : lo = consumed + 1 /\ hi = consumed + Left
    <3>1. consumed + 1 \in Nat /\ consumed + Left \in Nat BY <1>1
    <3> QED BY <3>1
  <2>5. HoldsCommands(kind, accepted, d, l, lo, hi) BY <1>3, <2>1, <2>2, <2>3, <2>4 DEF Holds
  <2>6. ~(lo <= hi)
    <3> SUFFICES ASSUME lo <= hi PROVE FALSE OBVIOUS
    <3>1. PICK q \in l .. Len(d) : HoldsCommand(kind, d, l, q, accepted[lo]) BY <2>4, <2>5, FirstHeld
    <3>2. l < q BY <3>1 DEF HoldsCommand
    <3> QED BY <2>3, <3>2
  <2>7. Left = 0 BY <1>1, <2>4, <2>6
  <2> QED BY <2>1, <2>7
<1> QED BY <1>3, <1>4

(* Finish. *)
LEMMA FinishKeeps ==
    ASSUME BufferInv, Finish
    PROVE  BufferInv'
<1>1. /\ TypeOK /\ RunAsWritten /\ HistoryInv /\ WriterInv /\ ReaderInv /\ ArgsInv
      /\ kind \in {"godot", "typed"} /\ io \in Reading
      /\ entry.m_data \in Seq(Cells) /\ entry.m_start \in Nat /\ entry.m_num_commands \in Nat
      /\ consumed \in Nat /\ Left \in Nat
  BY Parts
<1>2. /\ entry' = FinishBuffer(entry) /\ io' = Idle
      /\ UNCHANGED <<kind, writer, accepted, consumed, called>>
  BY DEF Finish
<1>3. /\ io'.at = "idle" /\ ~io'.execute /\ io'.pos = 0 /\ io'.args = <<>> /\ io'.num = 0 /\ io'.max = 0
  BY <1>2 DEF Idle
<1>4. /\ Holds(entry.m_data, io.pos, consumed + 1, consumed + Left)
      /\ LiveBehind(entry.m_data, io.pos, 0)
      /\ ~io.execute => io.pos = Len(entry.m_data) /\ Left = 0
  BY LeftWhenRead
<1>5. PICK p \in Nat : p = io.pos BY <1>1, ReadingIs
<1>6. PICK n \in Nat : n = Left BY <1>1
<1>7. /\ entry' \in Buffer /\ entry'.m_num_commands = n
      /\ HoldsCommands(kind, accepted, entry'.m_data, entry'.m_start, consumed + 1, consumed + n)
      /\ \A i \in DOMAIN entry'.m_data : Object(kind, entry'.m_data[i]) =>
            (entry'.m_data[i].live <=> i > entry'.m_start)
  <2>1. CASE io.execute
    <3>1. PICK D : D = Seq(Cells) /\ entry.m_data \in D BY <1>1
    <3>2. entry \in [m_data : D, m_start : Nat, m_num_commands : Nat] BY <1>1, <3>1 DEF TypeOK, Buffer
    <3>3. entry' = [entry EXCEPT !.m_start = p, !.m_num_commands = n]
      <4>1. entry' = [entry EXCEPT !.m_start = io.pos, !.m_num_commands = @ - io.num]
        BY <1>2, <2>1 DEF FinishBuffer
      <4> QED BY <1>5, <1>6, <3>2, <4>1 DEF Left
    <3>4. entry' = [m_data |-> entry.m_data, m_start |-> p, m_num_commands |-> n]
      BY ONLY <3>2, <3>3
    <3>5. entry' \in [m_data : D, m_start : Nat, m_num_commands : Nat] BY <3>1, <3>4
    <3>6. entry'.m_data = entry.m_data /\ entry'.m_start = p /\ entry'.m_num_commands = n BY <3>4
    <3>7. HoldsCommands(kind, accepted, entry.m_data, p, consumed + 1, consumed + n)
      BY <1>4, <1>5, <1>6 DEF Holds
    <3>8. Alive(kind, entry.m_data, p, 0) BY <1>4, <1>5, AliveIs
    <3>9. \A i \in DOMAIN entry.m_data : Object(kind, entry.m_data[i]) => (entry.m_data[i].live <=> i > p)
      <4> TAKE i \in DOMAIN entry.m_data
      <4>1. i # 0 BY <1>1, LenProperties
      <4> QED BY <3>8, <4>1 DEF Alive
    <3> QED BY <3>1, <3>5, <3>6, <3>7, <3>9 DEF Buffer
  <2>2. CASE ~io.execute
    <3>1. entry' = EmptyBuffer BY <1>2, <2>2 DEF FinishBuffer
    <3>2. n = 0 BY <1>4, <1>6, <2>2
    <3>3. PICK m \in Nat : m = consumed + 1 /\ consumed \in Int /\ consumed = m - 1 /\ consumed + n = consumed
      <4>1. consumed + 1 \in Nat /\ consumed \in Int /\ consumed = consumed + 1 - 1 /\ consumed + n = consumed
        BY <1>1, <3>2
      <4> QED BY <4>1
    <3>4. PICK d \in Seq(Cells) : d = <<>> BY EmptyIs
    <3>5. HoldsCommands(kind, accepted, d, Len(d), m, consumed) BY <3>3, NoneHeld
    <3>6. HoldsCommands(kind, accepted, <<>>, 0, consumed + 1, consumed + n) BY <3>3, <3>4, <3>5, EmptyIs
    <3>7. entry'.m_data = <<>> /\ entry'.m_start = 0 /\ entry'.m_num_commands = n /\ entry' \in Buffer
      BY <3>1, <3>2, EmptyIs
    <3>8. DOMAIN entry'.m_data = {} BY <3>7, EmptyIs
    <3> QED BY <3>6, <3>7, <3>8
  <2> QED BY <2>1, <2>2
<1>8. Left' = Left
  <2>1. n - 0 = n OBVIOUS
  <2> QED BY <1>3, <1>6, <1>7, <2>1 DEF Left
<1>9. io' \in Reading
  <2>1. PICK S : S = Seq(Variant) /\ <<>> \in S
    <3>1. <<>> \in Seq(Variant) OBVIOUS
    <3> QED BY <3>1
  <2>2. io' \in [at : {"idle", "command", "args", "next", "finish"}, execute : BOOLEAN, pos : Nat,
                 header : Nat, args : S, num : Nat, max : Nat]
    BY <1>2, <2>1 DEF Idle
  <2> QED BY <2>1, <2>2 DEF Reading
<1>10. TypeOK'
  <2>1. entry'.m_data \in Seq(Cells) BY <1>7 DEF Buffer
  <2>2. Len(entry'.m_data) \in Nat BY <2>1, LenProperties
  <2>3. io'.pos \in 0 .. Len(entry'.m_data) BY <1>3, <2>2
  <2>4. <<>> \in Seq(Variant) OBVIOUS
  <2> QED BY <1>1, <1>2, <1>3, <1>7, <2>3, <2>4 DEF TypeOK
<1>11. HistoryInv' /\ RunAsWritten' BY <1>1, <1>2, HistoryKept
<1>12. WriterInv' BY <1>1, <1>2, <1>8, WriterKept
<1>13. ReaderInv'
  <2>1. Holds(entry.m_data, entry.m_start, consumed + 1, consumed + Left)'
    <3>1. HoldsCommands(kind', accepted', entry'.m_data, entry'.m_start, consumed' + 1, consumed' + Left')
      BY <1>2, <1>6, <1>7, <1>8
    <3> QED BY <3>1 DEF Holds
  <2>2. LiveBehind(entry.m_data, entry.m_start, 0)'
    BY <1>2, <1>7 DEF LiveBehind, HasObject, Object
  <2> QED BY <1>2, <1>3, <1>9, <2>1, <2>2 DEF ReaderInv
<1>14. ArgsInv' BY <1>3 DEF ArgsInv
<1> QED BY <1>10, <1>11, <1>12, <1>13, <1>14 DEF BufferInv

(* A buffer without commands makes place for an empty one. *)
LEMMA DropEntryKeeps ==
    ASSUME BufferInv, DropEntry
    PROVE  BufferInv'
<1>1. /\ TypeOK /\ RunAsWritten /\ HistoryInv /\ WriterInv /\ ReaderInv /\ ArgsInv
      /\ kind \in {"godot", "typed"} /\ io \in Reading
      /\ consumed \in Nat /\ Left \in Nat
  BY Parts
<1>2. /\ io.at = "idle" /\ entry' = EmptyBuffer /\ entry.m_num_commands = 0
      /\ UNCHANGED <<kind, writer, io, accepted, consumed, called>>
  BY DEF DropEntry
<1>3. /\ io' = Idle /\ io'.at = "idle" /\ ~io'.execute /\ io'.pos = 0 /\ io'.args = <<>>
      /\ io'.num = 0 /\ io'.max = 0 /\ io.num = 0
  BY <1>1, <1>2 DEF ReaderInv, Idle
<1>4. entry'.m_data = <<>> /\ entry'.m_start = 0 /\ entry'.m_num_commands = 0 /\ entry' \in Buffer
      /\ DOMAIN entry'.m_data = {}
  BY <1>2, EmptyIs
<1>5. Left = 0 /\ Left' = 0
  <2>1. Left = 0 - 0 BY <1>2, <1>3 DEF Left
  <2>2. Left' = 0 - 0 BY <1>3, <1>4 DEF Left
  <2> QED BY <2>1, <2>2
<1>6. HoldsCommands(kind, accepted, <<>>, 0, consumed + 1, consumed + 0)
  <2>1. PICK m \in Nat : m = consumed + 1 /\ consumed \in Int /\ consumed = m - 1 /\ consumed + 0 = consumed
    <3>1. consumed + 1 \in Nat /\ consumed \in Int /\ consumed = consumed + 1 - 1 /\ consumed + 0 = consumed
      BY <1>1
    <3> QED BY <3>1
  <2>2. PICK d \in Seq(Cells) : d = <<>> BY EmptyIs
  <2>3. HoldsCommands(kind, accepted, d, Len(d), m, consumed) BY <2>1, NoneHeld
  <2> QED BY <2>1, <2>2, <2>3, EmptyIs
<1>7. TypeOK'
  <2>1. Len(entry'.m_data) = 0 BY <1>2, EmptyIs
  <2>2. io'.pos \in 0 .. Len(entry'.m_data) BY <1>3, <2>1
  <2>3. <<>> \in Seq(Variant) OBVIOUS
  <2> QED BY <1>1, <1>2, <1>3, <1>4, <2>2, <2>3 DEF TypeOK
<1>8. HistoryInv' /\ RunAsWritten' BY <1>1, <1>2, HistoryKept
<1>9. WriterInv' BY <1>1, <1>2, <1>5, WriterKept
<1>10. ReaderInv'
  <2>1. Holds(entry.m_data, entry.m_start, consumed + 1, consumed + Left)'
    <3>1. HoldsCommands(kind', accepted', entry'.m_data, entry'.m_start, consumed' + 1, consumed' + Left')
      BY <1>2, <1>4, <1>5, <1>6
    <3> QED BY <3>1 DEF Holds
  <2>2. LiveBehind(entry.m_data, entry.m_start, 0)' BY <1>4 DEF LiveBehind
  <2> QED BY <1>1, <1>2, <1>3, <2>1, <2>2 DEF ReaderInv
<1>11. ArgsInv' BY <1>3 DEF ArgsInv
<1> QED BY <1>7, <1>8, <1>9, <1>10, <1>11 DEF BufferInv

(* A new buffer. *)
LEMMA BufferInitially == Init => BufferInv
<1> SUFFICES ASSUME Init PROVE BufferInv OBVIOUS
<1>1. /\ kind \in {"godot", "typed"} /\ writer = EmptyBuffer /\ entry = EmptyBuffer /\ io = Idle
      /\ accepted = <<>> /\ consumed = 0 /\ called = <<>>
  BY DEF Init
<1>2. /\ io.at = "idle" /\ ~io.execute /\ io.pos = 0 /\ io.args = <<>> /\ io.num = 0 /\ io.max = 0
  BY <1>1 DEF Idle
<1>3. Left = 0 BY <1>1, <1>2, EmptyIs DEF Left
<1>4. Len(accepted) = 0 /\ DOMAIN accepted = {} /\ DOMAIN called = {} BY <1>1
<1>5. TypeOK
  <2>1. <<>> \in Seq(Variant) OBVIOUS
  <2>2. Len(entry.m_data) = 0 BY <1>1, EmptyIs
  <2>3. io.pos \in 0 .. Len(entry.m_data) BY <1>2, <2>2
  <2> QED BY <1>1, <1>2, <2>1, <2>3, EmptyIs DEF TypeOK
<1>6. RunAsWritten BY <1>4 DEF RunAsWritten
<1>7. HistoryInv
  <2>1. <<>> \in Seq([name : Name, args : Args]) OBVIOUS
  <2>2. <<>> \in Seq([name : Name, args : Seq(Variant), place : Nat]) OBVIOUS
  <2> QED BY <1>1, <1>4, <2>1, <2>2 DEF HistoryInv
<1>8. HoldsCommands(kind, accepted, <<>>, 0, 1, 0)
  <2>1. PICK m \in Nat, h \in Int : m = 1 /\ h = 0 /\ h = m - 1
    <3>1. 1 \in Nat /\ 0 \in Int /\ 0 = 1 - 1 OBVIOUS
    <3> QED BY <3>1
  <2>2. PICK d \in Seq(Cells) : d = <<>> BY EmptyIs
  <2>3. HoldsCommands(kind, accepted, d, Len(d), m, h) BY <2>1, NoneHeld
  <2> QED BY <2>1, <2>2, <2>3, EmptyIs
<1>9. LiveBehind(<<>>, 0, 0) BY EmptyIs DEF LiveBehind
<1>10. WriterInv
  <2>1. consumed + Left + 1 = 1 /\ consumed + Left = 0 BY <1>1, <1>3
  <2>2. writer.m_data = <<>> /\ writer.m_start = 0 /\ writer.m_num_commands = 0 BY <1>1, EmptyIs
  <2>3. Holds(writer.m_data, 0, consumed + Left + 1, Len(accepted)) BY <1>4, <1>8, <2>1, <2>2 DEF Holds
  <2> QED BY <1>3, <1>4, <1>9, <2>1, <2>2, <2>3 DEF WriterInv
<1>11. ReaderInv
  <2>1. consumed + 1 = 1 /\ consumed + Left = 0 BY <1>1, <1>3
  <2>2. entry.m_data = <<>> /\ entry.m_start = 0 BY <1>1, EmptyIs
  <2>3. Holds(entry.m_data, entry.m_start, consumed + 1, consumed + Left) BY <1>8, <2>1, <2>2 DEF Holds
  <2>4. io \in Reading
    <3>1. PICK S : S = Seq(Variant) /\ <<>> \in S
      <4>1. <<>> \in Seq(Variant) OBVIOUS
      <4> QED BY <4>1
    <3>2. io \in [at : {"idle", "command", "args", "next", "finish"}, execute : BOOLEAN, pos : Nat,
                  header : Nat, args : S, num : Nat, max : Nat]
      BY <1>1, <3>1 DEF Idle
    <3> QED BY <3>1, <3>2 DEF Reading
  <2> QED BY <1>1, <1>2, <1>9, <2>2, <2>3, <2>4 DEF ReaderInv
<1>12. ArgsInv BY <1>2 DEF ArgsInv
<1> QED BY <1>5, <1>6, <1>7, <1>10, <1>11, <1>12 DEF BufferInv

LEMMA BufferStep == BufferInv /\ [Next]_vars => BufferInv'
<1> SUFFICES ASSUME BufferInv, [Next]_vars PROVE BufferInv' OBVIOUS
<1>1. ASSUME NEW name \in Name, NEW args \in Args, AddCommand(name, args) PROVE BufferInv'
  BY <1>1, AddCommandKeeps
<1>2. CASE AddCommands BY <1>2, AddCommandsKeeps
<1>3. ASSUME NEW max \in {k_process_all_commands, MaxPerIter}, ProcessCommands(max) PROVE BufferInv'
  BY <1>3, ProcessCommandsKeeps
<1>4. CASE Clear BY <1>4, ClearKeeps
<1>5. CASE ReadHeader BY <1>5, ReadHeaderKeeps
<1>6. CASE ReadVariant BY <1>6, ReadVariantStep
<1>7. CASE ReadTuple BY <1>7, ReadTupleKeeps
<1>8. CASE EndCommand BY <1>8, EndCommandKeeps
<1>9. CASE NextCommand BY <1>9, NextCommandKeeps
<1>10. CASE Finish BY <1>10, FinishKeeps
<1>11. ASSUME UNCHANGED <<kind, writer, entry, io, accepted, consumed, called>> PROVE BufferInv'
  <2>1. /\ kind' = kind /\ writer' = writer /\ entry' = entry /\ io' = io
        /\ accepted' = accepted /\ consumed' = consumed /\ called' = called
    BY <1>11
  <2>2. /\ TypeOK /\ RunAsWritten /\ HistoryInv /\ WriterInv /\ ReaderInv /\ ArgsInv
        /\ consumed \in Nat /\ Left \in Nat
    BY Parts
  <2>3. Left' = Left BY <2>1 DEF Left
  <2>4. TypeOK' BY <2>1, <2>2 DEF TypeOK
  <2>5. HistoryInv' /\ RunAsWritten' BY <2>1, <2>2, HistoryKept
  <2>6. WriterInv' BY <2>1, <2>2, <2>3, WriterKept
  <2>7. ReaderInv' BY <2>1, <2>2, <2>3 DEF ReaderInv, Holds, LiveBehind, HasObject, AtEnd
  <2>8. ArgsInv'
    BY <2>1, <2>2, <2>3 DEF ArgsInv, TupleLeft, ArgsLeft, Holds, LiveBehind, HasObject, Last, Cell
  <2> QED BY <2>4, <2>5, <2>6, <2>7, <2>8 DEF BufferInv
<1>12. CASE DropEntry BY <1>12, DropEntryKeeps
<1>13. Step => BufferInv'
  BY <1>1, <1>2, <1>3, <1>4, <1>5, <1>6, <1>7, <1>8, <1>9, <1>10, <1>12 DEF Step, Read
<1>14. ASSUME DeleteServer \/ Done \/ UNCHANGED vars PROVE BufferInv'
  <2>1. UNCHANGED <<kind, writer, entry, io, accepted, consumed, called>>
    BY <1>14 DEF DeleteServer, Done, vars
  <2> QED BY <1>11, <2>1
<1> QED BY <1>13, <1>14 DEF Next

(* The cells of a buffer are the commands it counts, each with the           *)
(* arguments it was written with, and the reader is where one of them begins *)
(* or between two of its arguments: what every step of GodotCommandBuffer    *)
(* and TCommandBuffer keeps.                                                 *)
THEOREM BufferInvariant == Spec => []BufferInv
BY BufferInitially, BufferStep, PTL DEF Spec

(* ProcessCommand makes the calls that were written, with their names and    *)
(* arguments and in their order, for integers of any four widths, buffers of *)
(* any length, and slices and Clear anywhere between.                        *)
THEOREM AlwaysRunAsWritten == Spec => []RunAsWritten
<1>1. BufferInv => RunAsWritten BY DEF BufferInv
<1> QED BY <1>1, BufferInvariant, PTL

(* Between two slices m_num_commands is the number of commands left, the     *)
(* objects from m_start on and no others are alive, and no slice runs more   *)
(* commands than max_commands.                                               *)
THEOREM AlwaysExact == Spec => []BufferExact
<1>1. ASSUME BufferInv PROVE BufferExact
  <2>1. /\ TypeOK /\ WriterInv /\ ReaderInv /\ io \in Reading /\ entry.m_num_commands \in Nat
        /\ consumed \in Nat /\ Left \in Nat /\ Len(accepted) \in Nat
    BY <1>1, Parts
  <2>2. CountExact
    <3> SUFFICES ASSUME io.at = "idle"
                 PROVE  writer.m_num_commands + entry.m_num_commands = Len(accepted) - consumed
      BY DEF CountExact
    <3>1. io.num = 0 BY <2>1 DEF ReaderInv, Idle
    <3>2. PICK a \in Nat, n \in Nat, k \in Nat : a = Len(accepted) /\ n = entry.m_num_commands /\ k = consumed
      BY <2>1
    <3>3. Left = n BY <3>1, <3>2 DEF Left
    <3>4. writer.m_num_commands = a - (k + n) BY <2>1, <3>2, <3>3 DEF WriterInv
    <3>5. a - (k + n) + n = a - k OBVIOUS
    <3> QED BY <3>2, <3>4, <3>5
  <2>3. LiveFromStart
    <3> SUFFICES ASSUME io.at = "idle", NEW i \in DOMAIN entry.m_data, HasObject(entry.m_data[i])
                 PROVE  entry.m_data[i].live <=> i > entry.m_start
      BY DEF LiveFromStart
    <3>1. LiveBehind(entry.m_data, entry.m_start, 0) BY <2>1 DEF ReaderInv
    <3>2. i # 0
      <4>1. entry.m_data \in Seq(Cells) BY <2>1 DEF TypeOK, Buffer
      <4> QED BY <4>1, LenProperties
    <3> QED BY <3>1, <3>2 DEF LiveBehind
  <2>4. SliceBounded BY <2>1 DEF ReaderInv, SliceBounded
  <2> QED BY <2>1, <2>2, <2>3, <2>4 DEF BufferExact
<1> QED BY <1>1, BufferInvariant, PTL

(* Destroying an object leaves its cell. *)
LEMMA CellsStay ==
    ASSUME NEW b, b.m_data \in Seq(Cells), NEW p, Destroy(b, p).m_data = <<>>, b \in Buffer
    PROVE  b.m_data = <<>>
<1>1. PICK d \in Seq(Cells) : d = b.m_data OBVIOUS
<1>2. Destroy(b, p).m_data = [d EXCEPT ![p + 1].live = FALSE]
  <2>1. PICK D : D = Seq(Cells) OBVIOUS
  <2>2. b \in [m_data : D, m_start : Nat, m_num_commands : Nat] BY <2>1 DEF Buffer
  <2> QED BY <1>1, <2>2 DEF Destroy
<1>3. DOMAIN d = {}
  <2>1. DOMAIN [d EXCEPT ![p + 1].live = FALSE] = DOMAIN d OBVIOUS
  <2>2. DOMAIN <<>> = {} OBVIOUS
  <2> QED BY <1>2, <2>1, <2>2
<1>4. Len(d) = 0
  <2>1. Len(d) \in Nat /\ DOMAIN d = 1 .. Len(d) BY LenProperties
  <2> QED BY <1>3, <2>1
<1> QED BY <1>1, <1>4, EmptySeq

(* The bytes behind the last command are the end of the buffer: without      *)
(* commands left, nothing between two slices is alive.                       *)
LEMMA NoneLeftAlive ==
    ASSUME BufferInv, io.at = "idle", entry.m_num_commands = 0
    PROVE  AllDestroyed
<1>1. /\ entry.m_data \in Seq(Cells) /\ entry.m_start \in Nat /\ consumed \in Nat /\ ReaderInv
  BY Parts
<1>2. /\ io.num = 0 /\ Holds(entry.m_data, entry.m_start, consumed + 1, consumed + Left)
      /\ LiveBehind(entry.m_data, entry.m_start, 0)
  BY <1>1 DEF ReaderInv, Idle
<1>3. consumed + Left + 1 = consumed + 1
  <2>1. Left = 0 - 0 BY <1>2 DEF Left
  <2> QED BY <1>1, <2>1
<1>4. entry.m_start = Len(entry.m_data)
  <2>1. HoldsCommands(kind, accepted, entry.m_data, entry.m_start, consumed + 1, consumed + Left)
    BY <1>2 DEF Holds
  <2>2. PICK at : at[consumed + 1] = entry.m_start /\ at[consumed + Left + 1] = Len(entry.m_data)
    BY <2>1 DEF HoldsCommands
  <2> QED BY <1>3, <2>2
<1>5. SUFFICES ASSUME NEW i \in DOMAIN entry.m_data, HasObject(entry.m_data[i])
               PROVE  ~entry.m_data[i].live
  BY DEF AllDestroyed
<1>6. i # 0 /\ ~(i > Len(entry.m_data))
  <2>1. i \in 1 .. Len(entry.m_data) /\ Len(entry.m_data) \in Nat BY <1>1, LenProperties
  <2> QED BY <2>1
<1> QED BY <1>2, <1>4, <1>5, <1>6 DEF LiveBehind

(* While the CommandServer is there, an entry goes only when every object in *)
(* it was destroyed by ProcessCommands or Clear, as no destructor does it:   *)
(* m_num_commands is zero, by which FlushState goes on to the next entry,    *)
(* only with no byte left to read, whatever was run before.                  *)
THEOREM AlwaysDestroyedFirst == Spec => DestroyedBeforeFreed
<1>1. BufferInv /\ [Next]_vars =>
        [entry.m_data # <<>> /\ entry'.m_data = <<>> => AllDestroyed]_vars
  <2> SUFFICES ASSUME BufferInv, Next, entry.m_data # <<>>, entry'.m_data = <<>>
               PROVE  AllDestroyed
    OBVIOUS
  <2>1. entry.m_data \in Seq(Cells) /\ entry \in Buffer BY Parts DEF TypeOK
  <2>2. entry' # entry OBVIOUS
  <2>3. ~AddCommands BY EmptyIs DEF AddCommands
  <2>4. ~ReadVariant /\ ~EndCommand
    <3>1. \A p : entry' # Destroy(entry, p) BY <2>1, CellsStay
    <3> QED BY <2>2, <3>1 DEF ReadVariant, EndCommand
  <2>5. Finish \/ DropEntry
    BY <2>2, <2>3, <2>4 DEF Next, Step, Read, DeleteServer,
       AddCommand, ProcessCommands, Clear, ReadHeader, ReadTuple, NextCommand, Done, vars
  <2>6. CASE DropEntry BY <2>6, NoneLeftAlive DEF DropEntry
  <2>7. CASE Finish
    <3>1. ~io.execute
      <4> SUFFICES ASSUME io.execute PROVE FALSE OBVIOUS
      <4>1. entry' = [entry EXCEPT !.m_start = io.pos, !.m_num_commands = @ - io.num]
        BY <2>7 DEF Finish, FinishBuffer
      <4>2. PICK D : D = Seq(Cells) OBVIOUS
      <4>3. entry \in [m_data : D, m_start : Nat, m_num_commands : Nat] BY <2>1, <4>2 DEF Buffer
      <4>4. entry'.m_data = entry.m_data BY <4>1, <4>3
      <4> QED BY <4>4
    <3>2. LiveBehind(entry.m_data, Len(entry.m_data), 0)
      <4>1. LiveBehind(entry.m_data, io.pos, 0) /\ io.pos = Len(entry.m_data) BY <2>7, <3>1, LeftWhenRead
      <4> QED BY <4>1
    <3>3. SUFFICES ASSUME NEW i \in DOMAIN entry.m_data, HasObject(entry.m_data[i])
                   PROVE  ~entry.m_data[i].live
      BY DEF AllDestroyed
    <3>4. i \in 1 .. Len(entry.m_data) /\ Len(entry.m_data) \in Nat BY <2>1, LenProperties
    <3>5. i # 0 /\ ~(i > Len(entry.m_data)) BY <3>4
    <3> QED BY <3>2, <3>3, <3>5 DEF LiveBehind
  <2> QED BY <2>5, <2>6, <2>7
<1> QED BY <1>1, BufferInvariant, PTL DEF Spec, DestroyedBeforeFreed
=============================================================================
