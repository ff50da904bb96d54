-------------------------- MODULE SimulationProofs --------------------------
(* That the factory stays consistent, that every entity counts its Refs, and *)
(* that the world of an entity is live, for any number of entities, contexts *)
(* and tasks and any number of calls.                                        *)
EXTENDS Simulation, FiniteSetTheorems, SequenceTheorems, TLAPS

-----------------------------------------------------------------------------
(* The places of an entity in a list.                                        *)

(* s is a list of n ids. *)
ListOf(s, n) == n \in Nat /\ DOMAIN s = 1 .. n

(* The elements of a list. *)
LEMMA ListHas ==
    ASSUME NEW S, NEW s \in Seq(S)
    PROVE  ListOf(s, Len(s)) /\ \A i \in 1 .. Len(s) : s[i] \in S
BY LenProperties, ElementOfSeq DEF ListOf

(* The places of an element in a list can be counted. *)
LEMMA PlacesCounted ==
    ASSUME NEW S, NEW s \in Seq(S), NEW id
    PROVE  IsFiniteSet(Places(s, id)) /\ Cardinality(Places(s, id)) \in Nat
<1>1. Places(s, id) \subseteq 1 .. Len(s) BY ListHas DEF Places, ListOf
<1>2. IsFiniteSet(1 .. Len(s)) BY FS_Interval, ListHas DEF ListOf
<1>3. IsFiniteSet(Places(s, id)) BY <1>1, <1>2, FS_Subset
<1> QED BY <1>3, FS_CardinalityType

(* The empty list has no places. *)
LEMMA PlacesNone ==
    ASSUME NEW id
    PROVE  Places(<<>>, id) = {} /\ Cardinality(Places(<<>>, id)) = 0
<1>1. Places(<<>>, id) = {} BY DEF Places
<1> QED BY <1>1, FS_EmptySet

(* The first element of a list has a place in it. *)
LEMMA PlacesHead ==
    ASSUME NEW S, NEW s \in Seq(S), s # <<>>
    PROVE  Head(s) \in S /\ Cardinality(Places(s, Head(s))) > 0
<1>1. 1 \in DOMAIN s /\ s[1] = Head(s) /\ Head(s) \in S OBVIOUS
<1>2. 1 \in Places(s, Head(s)) BY <1>1 DEF Places
<1>3. IsFiniteSet(Places(s, Head(s))) /\ Cardinality(Places(s, Head(s))) \in Nat BY PlacesCounted
<1> QED BY <1>1, <1>2, <1>3, FS_EmptySet

(* push_back adds one place of its element. *)
LEMMA PlacesAppend ==
    ASSUME NEW S, NEW s \in Seq(S), NEW x \in S, NEW id
    PROVE  Cardinality(Places(Append(s, x), id)) = Cardinality(Places(s, id)) + One(x = id)
<1> DEFINE n == Len(s)
           t == Append(s, x)
<1>1. ListOf(s, n) /\ ListOf(t, n + 1)
  BY ListHas, AppendProperties DEF ListOf
<1>2. t[n + 1] = x /\ \A i \in 1 .. n : t[i] = s[i] BY AppendProperties
<1> HIDE DEF n, t
<1>3. DOMAIN t = DOMAIN s \union {n + 1} /\ n + 1 \notin DOMAIN s BY <1>1 DEF ListOf
<1>4. IsFiniteSet(Places(s, id)) /\ Cardinality(Places(s, id)) \in Nat BY PlacesCounted
<1>5. CASE x = id
  <2>1. Places(t, id) = Places(s, id) \union {n + 1} /\ n + 1 \notin Places(s, id)
    BY <1>1, <1>2, <1>3, <1>5 DEF Places, ListOf
  <2>2. Cardinality(Places(t, id)) = Cardinality(Places(s, id)) + 1
    BY <2>1, <1>4, FS_AddElement
  <2> QED BY <2>2, <1>5 DEF One, t
<1>6. CASE x # id
  <2>1. Places(t, id) = Places(s, id)
    BY <1>1, <1>2, <1>3, <1>6 DEF Places, ListOf
  <2> QED BY <2>1, <1>6, <1>4 DEF One, t
<1> QED BY <1>5, <1>6

(* s has the elements of t, in another place, and a first one.               *)
LEMMA PlacesWithoutFirst ==
    ASSUME NEW S, NEW s \in Seq(S), NEW t \in Seq(S), s # <<>>, NEW id,
           NEW move \in [2 .. Len(s) -> 1 .. Len(t)],
           \A i \in 2 .. Len(s) : t[move[i]] = s[i],
           \A i, j \in 2 .. Len(s) : move[i] = move[j] => i = j,
           \A k \in 1 .. Len(t) : \E i \in 2 .. Len(s) : move[i] = k
    PROVE  Cardinality(Places(s, id)) = Cardinality(Places(t, id)) + One(Head(s) = id)
<1> DEFINE P == Places(s, id)
           Q == P \ {1}
           R == Places(t, id)
           f == [i \in Q |-> move[i]]
<1>1. ListOf(s, Len(s)) /\ ListOf(t, Len(t)) BY ListHas
<1>2. Len(s) >= 1 /\ s[1] = Head(s) OBVIOUS
<1>3. Q \subseteq 2 .. Len(s) /\ \A i \in Q : s[i] = id
  BY <1>1 DEF Places, ListOf
<1>4. f \in [Q -> R]
  <2>1. \A i \in Q : move[i] \in DOMAIN t /\ t[move[i]] = id BY <1>1, <1>3 DEF ListOf
  <2> QED BY <2>1 DEF Places
<1>5. \A k \in R : \E i \in Q : f[i] = k
  <2>1. TAKE k \in R
  <2>2. k \in 1 .. Len(t) /\ t[k] = id BY <1>1 DEF Places, ListOf
  <2>3. PICK i \in 2 .. Len(s) : move[i] = k BY <2>2
  <2>4. s[i] = id /\ i \in DOMAIN s /\ i # 1 BY <2>2, <2>3, <1>1 DEF ListOf
  <2> QED BY <2>3, <2>4 DEF Places
<1>6. f \in Bijection(Q, R)
  <2>1. IsInjective(f)
    <3>1. SUFFICES ASSUME NEW i \in Q, NEW j \in Q, move[i] = move[j] PROVE i = j
      BY DEF IsInjective
    <3>2. i \in 2 .. Len(s) /\ j \in 2 .. Len(s) BY <1>3
    <3> QED BY <3>1, <3>2
  <2> QED BY <2>1, <1>4, <1>5 DEF Bijection, Injection, Surjection
<1>7. IsFiniteSet(P) /\ Cardinality(P) \in Nat /\ IsFiniteSet(R) /\ Cardinality(R) \in Nat BY PlacesCounted
<1>8. IsFiniteSet(Q) /\ Cardinality(Q) = IF 1 \in P THEN Cardinality(P) - 1 ELSE Cardinality(P)
  BY <1>7, FS_RemoveElement
<1>9. Cardinality(R) = Cardinality(Q) BY <1>6, <1>8, FS_Bijection DEF ExistsBijection
<1>10. 1 \in P <=> Head(s) = id BY <1>1, <1>2 DEF Places, ListOf
<1> HIDE DEF P, Q, R
<1>11. CASE Head(s) = id BY <1>11, <1>7, <1>8, <1>9, <1>10 DEF One, P, R
<1>12. CASE Head(s) # id BY <1>12, <1>7, <1>8, <1>9, <1>10 DEF One, P, R
<1> QED BY <1>11, <1>12

(* Without the first element there is one place of it less. *)
LEMMA PlacesTail ==
    ASSUME NEW S, NEW s \in Seq(S), s # <<>>, NEW id
    PROVE  /\ Tail(s) \in Seq(S)
           /\ Cardinality(Places(s, id)) = Cardinality(Places(Tail(s), id)) + One(Head(s) = id)
<1> DEFINE t == Tail(s)
           move == [i \in 2 .. Len(s) |-> i - 1]
<1>1. t \in Seq(S) /\ Len(t) = Len(s) - 1 /\ Len(s) \in Nat /\ \A k \in 1 .. Len(t) : t[k] = s[k + 1]
  <2>1. /\ Tail(s) \in Seq(S) /\ Len(Tail(s)) = Len(s) - 1
        /\ \A k \in 1 .. Len(Tail(s)) : Tail(s)[k] = s[k + 1]
    BY HeadTailProperties
  <2>2. Len(s) \in Nat BY ListHas DEF ListOf
  <2> QED BY ONLY <2>1, <2>2
<1>2. move \in [2 .. Len(s) -> 1 .. Len(t)] BY <1>1
<1>3. \A i \in 2 .. Len(s) : t[move[i]] = s[i] BY <1>1
<1>4. \A i, j \in 2 .. Len(s) : move[i] = move[j] => i = j BY <1>1
<1>5. \A k \in 1 .. Len(t) : \E i \in 2 .. Len(s) : move[i] = k
  <2>1. TAKE k \in 1 .. Len(t)
  <2>2. k + 1 \in 2 .. Len(s) /\ move[k + 1] = k BY <1>1
  <2> QED BY <2>2
<1> HIDE DEF t, move
<1>6. Cardinality(Places(s, id)) = Cardinality(Places(t, id)) + One(Head(s) = id)
  <2>1. t \in Seq(S) BY <1>1
  <2> QED BY SMTT(30), <2>1, <1>2, <1>3, <1>4, <1>5, PlacesWithoutFirst
<1> QED BY <1>1, <1>6 DEF t

(* unordered_erase_it takes one place from the first element. *)
LEMMA PlacesEraseFirst ==
    ASSUME NEW S, NEW s \in Seq(S), s # <<>>, NEW id
    PROVE  /\ EraseFirst(s) \in Seq(S)
           /\ Cardinality(Places(s, id)) = Cardinality(Places(EraseFirst(s), id)) + One(Head(s) = id)
<1> DEFINE n == Len(s)
           t == EraseFirst(s)
           move == [i \in 2 .. n |-> IF i = n THEN 1 ELSE i]
<1>1. n \in Nat /\ n >= 1 /\ \A i \in 1 .. n : s[i] \in S BY ListHas DEF ListOf
<1>2. /\ t \in Seq(S) /\ Len(t) = n - 1
      /\ \A k \in 1 .. n - 1 : t[k] = IF k = 1 THEN s[n] ELSE s[k]
  <2>1. CASE n = 1
    <3>1. t = <<>> BY <2>1 DEF EraseFirst
    <3> HIDE DEF t, n
    <3>2. t \in Seq(S) /\ Len(t) = 0 BY <3>1, EmptySeq
    <3>3. n - 1 = 0 /\ 1 .. n - 1 = {} BY <2>1
    <3> QED BY <3>2, <3>3
  <2>2. CASE n >= 2
    <3> DEFINE m == SubSeq(s, 2, n - 1)
               l == <<s[n]>>
    <3>1. t = l \o m
      <4>1. ~(n <= 1) BY <1>1, <2>2
      <4> QED BY <4>1 DEF EraseFirst, Last
    <3>2. m \in Seq(S) /\ Len(m) = n - 2 /\ \A i \in 1 .. n - 2 : m[i] = s[i + 1]
      <4>1. \A i \in 2 .. n - 1 : s[i] \in S BY <1>1, <2>2
      <4>2. /\ m \in Seq(S)
            /\ Len(m) = IF 2 <= n - 1 THEN (n - 1) - 2 + 1 ELSE 0
            /\ \A i \in 1 .. (n - 1) - 2 + 1 : m[i] = s[2 + i - 1]
        <5>1. 2 \in Int /\ n - 1 \in Int BY <1>1
        <5> HIDE DEF n
        <5> QED BY <4>1, <5>1, SubSeqProperties
      <4>3. \A i \in 1 .. n - 2 : m[i] = s[2 + i - 1] /\ 2 + i - 1 = i + 1 BY <4>2, <1>1
      <4>4. n \in Nat BY <1>1
      <4> HIDE DEF m, n
      <4>5. m \in Seq(S) BY <4>2
      <4>6. Len(m) = n - 2 BY <4>2, <4>4, <2>2
      <4> QED BY <4>3, <4>5, <4>6
    <3>3. l \in Seq(S) /\ Len(l) = 1 /\ l[1] = s[n]
      <4>1. s[n] \in S BY <1>1
      <4> QED BY <4>1
    <3> HIDE DEF l, m
    <3>4. /\ t \in Seq(S) /\ Len(t) = 1 + (n - 2)
          /\ \A k \in 1 .. 1 + (n - 2) : t[k] = IF k <= 1 THEN l[k] ELSE m[k - 1]
      <4>1. m \in Seq(S) /\ l \in Seq(S) BY <3>2, <3>3
      <4>2. /\ l \o m \in Seq(S) /\ Len(l \o m) = Len(l) + Len(m)
            /\ \A k \in 1 .. Len(l) + Len(m) :
                 (l \o m)[k] = IF k <= Len(l) THEN l[k] ELSE m[k - Len(l)]
        BY <4>1, ConcatProperties
      <4>3. Len(l) = 1 /\ Len(m) = n - 2 BY <3>2, <3>3
      <4> QED BY ONLY <4>2, <4>3, <3>1
    <3>5. ASSUME NEW k \in 1 .. n - 1 PROVE t[k] = IF k = 1 THEN s[n] ELSE s[k]
      <4>1. CASE k = 1 BY <4>1, <3>3, <3>4, <1>1, <2>2
      <4>2. CASE k # 1
        <5>1. k - 1 \in 1 .. n - 2 /\ (k - 1) + 1 = k BY <4>2, <1>1, <2>2
        <5>2. t[k] = m[k - 1]
          <6>1. k \in 1 .. 1 + (n - 2) /\ ~(k <= 1) BY <4>2, <5>1, <1>1
          <6> QED BY <6>1, <3>4
        <5>3. m[k - 1] = s[(k - 1) + 1] BY <5>1, <3>2
        <5> QED BY <4>2, <5>1, <5>2, <5>3
      <4> QED BY <4>1, <4>2
    <3>6. 1 + (n - 2) = n - 1 BY <1>1
    <3> QED BY <3>4, <3>5, <3>6
  <2>3. n = 1 \/ n >= 2 BY <1>1
  <2> QED BY <2>1, <2>2, <2>3
<1>3. move \in [2 .. n -> 1 .. Len(t)] BY <1>1, <1>2
<1>4. \A i \in 2 .. n : t[move[i]] = s[i] BY <1>1, <1>2
<1>5. \A i, j \in 2 .. n : move[i] = move[j] => i = j BY <1>1
<1>6. \A k \in 1 .. Len(t) : \E i \in 2 .. n : move[i] = k
  <2>1. TAKE k \in 1 .. Len(t)
  <2>2. CASE k = 1 BY <2>2, <1>1, <1>2
  <2>3. CASE k # 1 BY <2>3, <1>1, <1>2
  <2> QED BY <2>2, <2>3
<1> HIDE DEF t, move
<1>7. Cardinality(Places(s, id)) = Cardinality(Places(t, id)) + One(Head(s) = id)
  <2>1. t \in Seq(S) BY <1>2
  <2> QED BY SMTT(30), <2>1, <1>3, <1>4, <1>5, <1>6, PlacesWithoutFirst
<1> QED BY <1>2, <1>7 DEF t

(* Places in two lists one after the other add up. *)
LEMMA PlacesConcat ==
    ASSUME NEW S, NEW s \in Seq(S), NEW t \in Seq(S), NEW id
    PROVE  /\ s \o t \in Seq(S)
           /\ Cardinality(Places(s \o t, id)) = Cardinality(Places(s, id)) + Cardinality(Places(t, id))
<1> DEFINE m == Len(s)
           n == Len(t)
           u == s \o t
           P == Places(s, id)
           Q == Places(t, id)
           R == {k \in (m + 1) .. (m + n) : u[k] = id}
           f == [i \in Q |-> m + i]
<1>1. /\ u \in Seq(S) /\ Len(u) = m + n
      /\ \A i \in 1 .. m + n : u[i] = IF i <= m THEN s[i] ELSE t[i - m]
  BY ConcatProperties
<1>2. ListOf(s, m) /\ ListOf(t, n) /\ ListOf(u, m + n) BY <1>1, ListHas
<1> HIDE DEF u, m, n
<1>3. m \in Nat /\ n \in Nat BY <1>2 DEF ListOf
<1>4. \A i \in 1 .. m : u[i] = s[i] BY <1>1, <1>3
<1>5. \A i \in 1 .. n : u[m + i] = t[i]
  <2>1. TAKE i \in 1 .. n
  <2>2. m + i \in 1 .. m + n /\ ~(m + i <= m) /\ (m + i) - m = i BY <1>3
  <2> QED BY <2>2, <1>1
<1>6. Q \subseteq 1 .. n /\ \A i \in 1 .. n : i \in Q <=> t[i] = id BY <1>2 DEF Places, ListOf
<1>7. Places(u, id) = P \union R
  BY <1>2, <1>3, <1>4 DEF Places, ListOf
<1>8. P \intersect R = {}
  BY <1>2, <1>3 DEF Places, ListOf
<1>9. f \in [Q -> R]
  <2>1. ASSUME NEW i \in Q PROVE m + i \in R
    <3>1. i \in 1 .. n /\ t[i] = id BY <1>6
    <3> QED BY <3>1, <1>3, <1>5
  <2> QED BY <2>1
<1>10. \A k \in R : \E i \in Q : f[i] = k
  <2>1. TAKE k \in R
  <2>2. k - m \in 1 .. n /\ m + (k - m) = k BY <1>3
  <2>3. t[k - m] = id BY <2>2, <1>5
  <2>4. k - m \in Q BY <2>2, <2>3, <1>6
  <2> QED BY <2>2, <2>4
<1>11. IsInjective(f) BY <1>3, <1>6 DEF IsInjective
<1>12. f \in Bijection(Q, R) BY <1>9, <1>10, <1>11 DEF Bijection, Injection, Surjection
<1>13. IsFiniteSet(P) /\ Cardinality(P) \in Nat /\ IsFiniteSet(Q) /\ Cardinality(Q) \in Nat BY PlacesCounted
<1>14. IsFiniteSet(R) /\ Cardinality(R) = Cardinality(Q) BY <1>12, <1>13, FS_Bijection DEF ExistsBijection
<1> HIDE DEF P, Q, R
<1>15. Cardinality(P \union R) = Cardinality(P) + Cardinality(R) - Cardinality(P \intersect R)
  BY <1>13, <1>14, FS_Union
<1>16. Cardinality(P \intersect R) = 0 BY <1>8, FS_EmptySet
<1>17. Cardinality(Places(u, id)) = Cardinality(P) + Cardinality(Q)
  BY <1>7, <1>13, <1>14, <1>15, <1>16
<1> QED BY <1>1, <1>17 DEF u, P, Q

-----------------------------------------------------------------------------
(* The places of an entity in the lists of all contexts.                     *)

Elsewhere(lists_of, c, id) == UNION {{d} \X Places(lists_of[d], id) : d \in Context \ {c}}

(* A finite union of finite sets is finite. *)
LEMMA UnionFinite ==
    ASSUME NEW D, IsFiniteSet(D), NEW F, \A d \in D : IsFiniteSet(F[d])
    PROVE  IsFiniteSet(UNION {F[d] : d \in D})
<1> DEFINE T == {F[d] : d \in D}
           f == [d \in D |-> F[d]]
<1>1. f \in Surjection(D, T) BY DEF Surjection
<1>2. IsFiniteSet(T) BY <1>1, FS_Surjection
<1>3. \A X \in T : IsFiniteSet(X) OBVIOUS
<1> QED BY <1>2, <1>3, FS_UNION

(* As many pairs with one context as places. *)
LEMMA TimesOne ==
    ASSUME NEW c, NEW P, IsFiniteSet(P)
    PROVE  IsFiniteSet({c} \X P) /\ Cardinality({c} \X P) = Cardinality(P)
<1> DEFINE f == [i \in P |-> <<c, i>>]
<1>1. f \in [P -> {c} \X P] OBVIOUS
<1>2. IsInjective(f) BY DEF IsInjective
<1>3. \A x \in {c} \X P : \E i \in P : f[i] = x OBVIOUS
<1>4. f \in Bijection(P, {c} \X P) BY <1>1, <1>2, <1>3 DEF Bijection, Injection, Surjection
<1> QED BY <1>4, FS_Bijection DEF ExistsBijection

(* The lists of all contexts. *)
Lists(L, S) == L \in [Context -> Seq(S)]

(* Places in the lists of all contexts, counted for one context and the rest. *)
LEMMA ListedCounted ==
    ASSUME NEW S, NEW L, Lists(L, S), NEW c \in Context, NEW id
    PROVE  /\ IsFiniteSet(Listed(L, id)) /\ Cardinality(Listed(L, id)) \in Nat
           /\ Cardinality(Elsewhere(L, c, id)) \in Nat
           /\ Cardinality(Places(L[c], id)) \in Nat
           /\ Cardinality(Listed(L, id)) = Cardinality(Places(L[c], id)) + Cardinality(Elsewhere(L, c, id))
<1> DEFINE F == [d \in Context |-> {d} \X Places(L[d], id)]
           A == F[c]
           B == Elsewhere(L, c, id)
<1>1. \A d \in Context : L[d] \in Seq(S) BY DEF Lists
<1>2. ASSUME NEW d \in Context PROVE IsFiniteSet(F[d])
  <2>1. IsFiniteSet(Places(L[d], id)) BY <1>1, PlacesCounted
  <2> QED BY <2>1, TimesOne
<1>3. IsFiniteSet(Context) /\ IsFiniteSet(Context \ {c})
  BY SimulationAssumption, FS_RemoveElement DEF SimulationAssumption
<1>4. Listed(L, id) = UNION {F[d] : d \in Context} BY DEF Listed
<1>5. B = UNION {F[d] : d \in Context \ {c}} BY DEF Elsewhere
<1>6. A = {c} \X Places(L[c], id) OBVIOUS
<1> HIDE DEF F
<1>7. IsFiniteSet(UNION {F[d] : d \in Context}) BY <1>2, <1>3, UnionFinite
<1>8. \A d \in Context \ {c} : IsFiniteSet(F[d]) BY <1>2
<1>9. IsFiniteSet(UNION {F[d] : d \in Context \ {c}}) BY <1>3, <1>8, UnionFinite
<1>10. Listed(L, id) = A \union B BY <1>4, <1>5
<1>11. A \intersect B = {}
  <2>1. SUFFICES ASSUME NEW x \in A, NEW d \in Context \ {c}, x \in {d} \X Places(L[d], id) PROVE FALSE
    BY DEF Elsewhere
  <2> QED BY <2>1, <1>6
<1>12. IsFiniteSet(Listed(L, id)) /\ IsFiniteSet(B) BY <1>4, <1>5, <1>7, <1>9
<1>13. IsFiniteSet(Places(L[c], id)) /\ Cardinality(Places(L[c], id)) \in Nat BY <1>1, PlacesCounted
<1>14. IsFiniteSet(A) /\ Cardinality(A) = Cardinality(Places(L[c], id))
  <2>1. PICK P : P = Places(L[c], id) OBVIOUS
  <2>2. IsFiniteSet({c} \X P) /\ Cardinality({c} \X P) = Cardinality(P) BY <2>1, <1>13, TimesOne
  <2> QED BY <2>1, <2>2, <1>6
<1> HIDE DEF A, B
<1>15. Cardinality(A \union B) = Cardinality(A) + Cardinality(B) - Cardinality(A \intersect B)
  BY <1>12, <1>14, FS_Union
<1>16. Cardinality(A \intersect B) = 0 BY <1>11, FS_EmptySet
<1>17. Cardinality(B) \in Nat /\ Cardinality(Listed(L, id)) \in Nat BY <1>12, FS_CardinalityType
<1>18. Cardinality(Listed(L, id)) = Cardinality(Places(L[c], id)) + Cardinality(B)
  BY <1>10, <1>13, <1>14, <1>15, <1>16, <1>17
<1> QED BY <1>12, <1>13, <1>17, <1>18 DEF B

(* The list of one context changes. *)
ListedBy(S, L, M, c, s, id) ==
    /\ Lists(M, S)
    /\ Cardinality(Listed(M, id)) \in Nat /\ Cardinality(Listed(L, id)) \in Nat
    /\ Cardinality(Places(s, id)) \in Nat /\ Cardinality(Places(L[c], id)) \in Nat
    /\ Cardinality(Listed(M, id)) - Cardinality(Listed(L, id))
         = Cardinality(Places(s, id)) - Cardinality(Places(L[c], id))

(* When the list of one context changes, so does the count, by as much. *)
LEMMA ListedChange ==
    ASSUME NEW S, NEW L, Lists(L, S), NEW c \in Context, NEW s \in Seq(S),
           NEW M, M = [L EXCEPT ![c] = s], NEW id
    PROVE  ListedBy(S, L, M, c, s, id)
<1>1. Lists(M, S) /\ M[c] = s /\ \A d \in Context \ {c} : M[d] = L[d] BY DEF Lists
<1>2. Elsewhere(M, c, id) = Elsewhere(L, c, id) BY <1>1 DEF Elsewhere
<1>3. /\ Cardinality(Listed(L, id)) \in Nat
      /\ Cardinality(Elsewhere(L, c, id)) \in Nat
      /\ Cardinality(Places(L[c], id)) \in Nat
      /\ Cardinality(Listed(L, id)) = Cardinality(Places(L[c], id)) + Cardinality(Elsewhere(L, c, id))
  BY ListedCounted
<1>4. /\ Cardinality(Listed(M, id)) \in Nat
      /\ Cardinality(Places(M[c], id)) \in Nat
      /\ Cardinality(Listed(M, id)) = Cardinality(Places(M[c], id)) + Cardinality(Elsewhere(M, c, id))
  BY <1>1, ListedCounted
<1>5. Cardinality(Places(M[c], id)) = Cardinality(Places(s, id)) BY <1>1
<1>6. Cardinality(Elsewhere(M, c, id)) = Cardinality(Elsewhere(L, c, id)) BY <1>2
<1> QED BY ONLY <1>1, <1>3, <1>4, <1>5, <1>6 DEF ListedBy

(* L lists id n times more than M. *)
ListsMore(S, L, M, id, n) ==
    /\ Lists(L, S)
    /\ Cardinality(Listed(M, id)) \in Nat /\ Cardinality(Listed(L, id)) \in Nat
    /\ Cardinality(Listed(L, id)) = Cardinality(Listed(M, id)) + n

(* A command pushed to one context is one place more. *)
LEMMA ListedAppend ==
    ASSUME NEW S, NEW L, Lists(L, S), NEW c \in Context, NEW x \in S,
           NEW M, M = [L EXCEPT ![c] = Append(@, x)], NEW id
    PROVE  ListsMore(S, M, L, id, One(x = id))
<1>1. L[c] \in Seq(S) BY DEF Lists
<1>2. Append(L[c], x) \in Seq(S) BY <1>1, AppendProperties
<1>3. Cardinality(Places(Append(L[c], x), id)) = Cardinality(Places(L[c], id)) + One(x = id)
  BY <1>1, PlacesAppend
<1>4. M = [L EXCEPT ![c] = Append(L[c], x)] OBVIOUS
<1>5. ListedBy(S, L, M, c, Append(L[c], x), id) BY <1>2, <1>4, ListedChange
<1>6. One(x = id) \in Nat BY DEF One
<1> QED BY ONLY <1>3, <1>5, <1>6 DEF ListedBy, ListsMore

(* A command taken from one context is one place less. *)
LEMMA ListedTail ==
    ASSUME NEW S, NEW L, Lists(L, S), NEW c \in Context, L[c] # <<>>,
           NEW M, M = [L EXCEPT ![c] = Tail(@)], NEW id
    PROVE  Lists(M, S) /\ ListsMore(S, L, M, id, One(Head(L[c]) = id))
<1>1. L[c] \in Seq(S) BY DEF Lists
<1>2. /\ Tail(L[c]) \in Seq(S)
      /\ Cardinality(Places(L[c], id)) = Cardinality(Places(Tail(L[c]), id)) + One(Head(L[c]) = id)
  BY <1>1, PlacesTail
<1>4. M = [L EXCEPT ![c] = Tail(L[c])] OBVIOUS
<1>5. ListedBy(S, L, M, c, Tail(L[c]), id) BY <1>2, <1>4, ListedChange
<1>6. One(Head(L[c]) = id) \in Nat BY DEF One
<1> QED BY ONLY Lists(L, S), <1>2, <1>5, <1>6 DEF ListedBy, ListsMore

(* A list appended to that of one context adds its places. *)
LEMMA ListedConcat ==
    ASSUME NEW S, NEW L, Lists(L, S), NEW c \in Context, NEW s \in Seq(S),
           NEW M, M = [L EXCEPT ![c] = @ \o s], NEW id
    PROVE  ListsMore(S, M, L, id, Cardinality(Places(s, id)))
<1>1. L[c] \in Seq(S) BY DEF Lists
<1>2. /\ L[c] \o s \in Seq(S)
      /\ Cardinality(Places(L[c] \o s, id)) = Cardinality(Places(L[c], id)) + Cardinality(Places(s, id))
  BY <1>1, PlacesConcat
<1>3. Cardinality(Places(s, id)) \in Nat BY PlacesCounted
<1>4. M = [L EXCEPT ![c] = L[c] \o s] OBVIOUS
<1>5. ListedBy(S, L, M, c, L[c] \o s, id) BY <1>2, <1>4, ListedChange
<1> QED BY ONLY <1>2, <1>3, <1>5 DEF ListedBy, ListsMore

-----------------------------------------------------------------------------
(* The blocks of a factory.                                                  *)

BlocksOK(f) == FactoryType(f) /\ BlocksListed(f) /\ CallsAll(f)

FactoryOK(f) == BlocksOK(f) /\ BlocksOwned(f)

(* A number that is not in a finite set. *)
LEMMA FreeNumber ==
    ASSUME NEW D, IsFiniteSet(D)
    PROVE  (CHOOSE a \in 1 .. Cardinality(D) + 1 : a \notin D) \in (Nat \ {0}) \ D
<1> DEFINE n == Cardinality(D)
<1>1. n \in Nat BY FS_CardinalityType
<1>2. \E a \in 1 .. n + 1 : a \notin D
  <2>1. SUFFICES ASSUME 1 .. n + 1 \subseteq D PROVE FALSE OBVIOUS
  <2>2. Cardinality(1 .. n + 1) <= n BY <2>1, FS_Subset
  <2>3. Cardinality(1 .. n + 1) = n + 1 BY <1>1, FS_Interval
  <2> QED BY <1>1, <2>2, <2>3
<1> QED BY <1>1, <1>2

(* The callbacks are finitely many. *)
LEMMA ListenersFinite == IsFiniteSet(Listener) /\ \A S \in SUBSET Listener : IsFiniteSet(S)
<1>1. Listener = {"OnLoadEntity", "OnUnloadEntity", "OnLoadSpatialEntity"}
                   \union {"OnUnloadSpatialEntity", "OnLoadUniverseEntity", "OnUnloadUniverseEntity"}
  BY SimulationAssumption DEF SimulationAssumption
<1>2. IsFiniteSet({"OnLoadEntity", "OnUnloadEntity", "OnLoadSpatialEntity"})
  <2>1. IsFiniteSet({"OnLoadEntity"} \union {"OnUnloadEntity"}) BY FS_Singleton, FS_AddElement
  <2>2. IsFiniteSet(({"OnLoadEntity"} \union {"OnUnloadEntity"}) \union {"OnLoadSpatialEntity"})
    BY <2>1, FS_AddElement
  <2> QED BY <2>2
<1>3. IsFiniteSet({"OnUnloadSpatialEntity", "OnLoadUniverseEntity", "OnUnloadUniverseEntity"})
  <2>1. IsFiniteSet({"OnUnloadSpatialEntity"} \union {"OnLoadUniverseEntity"}) BY FS_Singleton, FS_AddElement
  <2>2. IsFiniteSet(({"OnUnloadSpatialEntity"} \union {"OnLoadUniverseEntity"}) \union {"OnUnloadUniverseEntity"})
    BY <2>1, FS_AddElement
  <2> QED BY <2>2
<1>4. IsFiniteSet(Listener) BY <1>1, <1>2, <1>3, FS_Union
<1> QED BY <1>4, FS_Subset

(* A list with every element of a set, once. *)
LEMMA SetToSeqIs ==
    ASSUME NEW S, IsFiniteSet(S)
    PROVE  /\ SetToSeq(S) \in Seq(S)
           /\ Range(SetToSeq(S)) = S
           /\ IsInjective(SetToSeq(S))
<1> DEFINE n == Cardinality(S)
           s == SetToSeq(S)
<1>1. n \in Nat BY FS_CardinalityType
<1>2. \E h \in [1 .. n -> S] : IsInjective(h)
  BY FS_CardinalityType DEF ExistsBijection, Bijection, Injection
<1>3. s \in [1 .. n -> S] /\ IsInjective(s) BY <1>2 DEF SetToSeq
<1> HIDE DEF n, s
<1>4. s \in Injection(1 .. n, S) BY <1>3 DEF Injection
<1>5. Cardinality(1 .. n) = n BY <1>1, FS_Interval
<1>6. s \in Surjection(1 .. n, S) BY <1>4, <1>5, FS_Injection DEF n
<1>7. Range(s) = S BY <1>3, <1>6 DEF Surjection, Range
<1>8. s \in Seq(S) BY <1>1, <1>3, IsASeq
<1> QED BY <1>3, <1>7, <1>8 DEF s

(* What InitType gives a new archetype. *)
LEMMA InitTypeCalls ==
    ASSUME NEW f, FactoryType(f), NEW T
    PROVE  /\ InitType(f, T) \in Seq(Listener)
           /\ Range(InitType(f, T)) = {l \in f.m_callbacks : ListensTo[l] \subseteq T}
           /\ IsInjective(InitType(f, T))
<1> DEFINE S == {l \in f.m_callbacks : ListensTo[l] \subseteq T}
<1>1. S \in SUBSET Listener BY DEF FactoryType
<1>2. InitType(f, T) = SetToSeq(S) BY DEF InitType
<1> HIDE DEF S
<1>3. IsFiniteSet(S) BY <1>1, ListenersFinite
<1>4. SetToSeq(S) \in Seq(S) /\ Range(SetToSeq(S)) = S /\ IsInjective(SetToSeq(S)) BY <1>3, SetToSeqIs
<1>5. Seq(S) \subseteq Seq(Listener) BY <1>1
<1> QED BY <1>2, <1>4, <1>5 DEF S

(* An archetype made or found for a set of components. *)
ArchetypeFor(f, T) ==
    IF T \in DOMAIN f.m_archetypes
      THEN f.m_archetypes[T]
      ELSE [refcount |-> 0, polys |-> {}, callbacks |-> InitType(f, T)]

Calls(f, T, callbacks) ==
    /\ callbacks \in Seq(Listener)
    /\ Range(callbacks) = {l \in f.m_callbacks : ListensTo[l] \subseteq T}
    /\ IsInjective(callbacks)

(* The archetype that AllocatePoly finds or makes fits the blocks there are. *)
LEMMA ArchetypeForIs ==
    ASSUME NEW f, BlocksOK(f), NEW T \in TypeID, NEW old, old = ArchetypeFor(f, T)
    PROVE  /\ old \in ArchetypeType
           /\ old.polys = {b \in DOMAIN f.heap : f.heap[b].archetype = T}
           /\ old.refcount = Cardinality(old.polys)
           /\ Calls(f, T, old.callbacks)
<1>1. CASE T \in DOMAIN f.m_archetypes
  <2>1. old = f.m_archetypes[T] BY <1>1 DEF ArchetypeFor
  <2>2. old \in ArchetypeType BY <1>1, <2>1 DEF BlocksOK, FactoryType
  <2>3. old.callbacks \in Seq(Listener) BY <2>2 DEF ArchetypeType
  <2>4. /\ old.polys = {b \in DOMAIN f.heap : f.heap[b].archetype = T}
        /\ old.refcount = Cardinality(old.polys)
    BY <1>1, <2>1 DEF BlocksOK, BlocksListed
  <2>5. Calls(f, T, old.callbacks) BY <1>1, <2>1, <2>3 DEF BlocksOK, CallsAll, Calls
  <2> QED BY <2>2, <2>4, <2>5
<1>2. CASE T \notin DOMAIN f.m_archetypes
  <2>1. old = [refcount |-> 0, polys |-> {}, callbacks |-> InitType(f, T)] BY <1>2 DEF ArchetypeFor
  <2>2. Calls(f, T, InitType(f, T)) BY InitTypeCalls DEF BlocksOK, Calls
  <2>3. old.polys = {} /\ old.refcount = 0 /\ old.callbacks = InitType(f, T) BY <2>1
  <2>4. {b \in DOMAIN f.heap : f.heap[b].archetype = T} = {} BY <1>2 DEF BlocksOK, BlocksListed
  <2>5. old \in ArchetypeType BY <2>1, <2>2 DEF ArchetypeType, Calls
  <2> QED BY <2>2, <2>3, <2>4, <2>5, FS_EmptySet
<1> QED BY <1>1, <1>2

(* A block added for a set of components. *)
Added(f, g, T, a, components) ==
    /\ BlocksOK(g)
    /\ a \in Nat \ DOMAIN f.heap
    /\ g.m_entries = f.m_entries /\ g.m_callbacks = f.m_callbacks
    /\ DOMAIN g.heap = DOMAIN f.heap \union {a}
    /\ g.heap[a].archetype = T /\ g.heap[a].components = components
    /\ \A b \in DOMAIN f.heap : g.heap[b] = f.heap[b]

(* AllocatePoly adds one block to a factory that is in order. *)
LEMMA AllocatePolyAdds ==
    ASSUME NEW f, BlocksOK(f), NEW T \in TypeID, NEW components \in [T -> Nat]
    PROVE  Added(f, AllocatePoly(f, T, components), T, NewAddress(f), components)
<1> DEFINE block == [archetype |-> T, components |-> components]
<1>1. PICK a : a = NewAddress(f) OBVIOUS
<1>2. PICK old : old = ArchetypeFor(f, T) OBVIOUS
<1>3. PICK new : new = [old EXCEPT !.refcount = @ + 1, !.polys = @ \union {a}] OBVIOUS
<1>4. PICK g : g = AllocatePoly(f, T, components) OBVIOUS
<1>5. PICK heap : heap = Put(f.heap, a, block) OBVIOUS
<1>6. PICK archetypes : archetypes = Put(f.m_archetypes, T, new) OBVIOUS
<1>7. f = [m_entries |-> f.m_entries, m_archetypes |-> f.m_archetypes,
           m_callbacks |-> f.m_callbacks, heap |-> f.heap]
  BY DEF BlocksOK, FactoryType
<1>8. g = [f EXCEPT !.heap = heap, !.m_archetypes = archetypes]
  BY <1>1, <1>2, <1>3, <1>4, <1>5, <1>6 DEF AllocatePoly, ArchetypeFor
<1>9. /\ g = [m_entries |-> f.m_entries, m_archetypes |-> archetypes,
              m_callbacks |-> f.m_callbacks, heap |-> heap]
      /\ g.m_entries = f.m_entries /\ g.m_archetypes = archetypes
      /\ g.m_callbacks = f.m_callbacks /\ g.heap = heap
  BY <1>7, <1>8
<1>10. a \in Nat \ DOMAIN f.heap
  <2>1. IsFiniteSet(DOMAIN f.heap) BY DEF BlocksOK, FactoryType
  <2> QED BY <1>1, <2>1, FreeNumber DEF NewAddress
<1>11. /\ DOMAIN heap = DOMAIN f.heap \union {a}
       /\ heap[a] = block
       /\ \A b \in DOMAIN f.heap : heap[b] = f.heap[b]
       /\ heap = [b \in DOMAIN f.heap \union {a} |-> heap[b]]
  BY <1>5, <1>10 DEF Put
<1>12. /\ DOMAIN archetypes = DOMAIN f.m_archetypes \union {T}
       /\ archetypes[T] = new
       /\ \A t \in DOMAIN f.m_archetypes \ {T} : archetypes[t] = f.m_archetypes[t]
       /\ archetypes = [t \in DOMAIN f.m_archetypes \union {T} |-> archetypes[t]]
  BY <1>6 DEF Put
<1>13. /\ old \in ArchetypeType
       /\ old.polys = {b \in DOMAIN f.heap : f.heap[b].archetype = T}
       /\ old.refcount = Cardinality(old.polys)
       /\ Calls(f, T, old.callbacks)
  BY <1>2, ArchetypeForIs
<1>14. /\ new \in ArchetypeType
       /\ new.refcount = old.refcount + 1
       /\ new.polys = old.polys \union {a}
       /\ new.callbacks = old.callbacks
  <2>1. old \in ArchetypeType BY <1>13
  <2>2. /\ old.refcount \in Nat /\ old.polys \in SUBSET Nat /\ old.callbacks \in Seq(Listener)
        /\ old = [refcount |-> old.refcount, polys |-> old.polys, callbacks |-> old.callbacks]
    BY <2>1 DEF ArchetypeType
  <2>3. new = [refcount |-> old.refcount + 1, polys |-> old.polys \union {a}, callbacks |-> old.callbacks]
    BY <2>2, <1>3
  <2>4. old.polys \union {a} \in SUBSET Nat /\ old.refcount + 1 \in Nat BY <2>2, <1>10
  <2> QED BY <2>2, <2>3, <2>4 DEF ArchetypeType
<1>15. new.refcount = Cardinality(new.polys) /\ new.refcount > 0
  <2>1. IsFiniteSet(old.polys)
    <3>1. IsFiniteSet(DOMAIN f.heap) BY DEF BlocksOK, FactoryType
    <3>2. old.polys \in SUBSET DOMAIN f.heap BY <1>13
    <3> QED BY <3>1, <3>2, FS_Subset
  <2>2. a \notin old.polys BY <1>10, <1>13
  <2>3. Cardinality(old.polys \union {a}) = Cardinality(old.polys) + 1 BY <2>1, <2>2, FS_AddElement
  <2>4. Cardinality(old.polys) \in Nat BY <2>1, FS_CardinalityType
  <2> QED BY <2>3, <2>4, <1>13, <1>14
<1>16. FactoryType(g)
  <2>1. g = [m_entries |-> g.m_entries, m_archetypes |-> g.m_archetypes,
             m_callbacks |-> g.m_callbacks, heap |-> g.heap]
    BY <1>9
  <2>2. g.m_entries \in [DOMAIN g.m_entries -> EntryType] BY <1>9 DEF BlocksOK, FactoryType
  <2>3. archetypes \in [DOMAIN archetypes -> ArchetypeType]
    <3>1. \A t \in DOMAIN f.m_archetypes : f.m_archetypes[t] \in ArchetypeType BY DEF BlocksOK, FactoryType
    <3>2. \A t \in DOMAIN archetypes : archetypes[t] \in ArchetypeType BY <3>1, <1>12, <1>14
    <3> QED BY <3>2, <1>12
  <2>4. g.m_callbacks \subseteq Listener BY <1>9 DEF BlocksOK, FactoryType
  <2>5. DOMAIN archetypes \subseteq TypeID BY <1>12 DEF BlocksOK, FactoryType
  <2>6. DOMAIN heap \subseteq Nat /\ IsFiniteSet(DOMAIN heap)
    <3>1. DOMAIN f.heap \subseteq Nat /\ IsFiniteSet(DOMAIN f.heap) BY DEF BlocksOK, FactoryType
    <3> QED BY <3>1, <1>10, <1>11, FS_AddElement
  <2>7. heap = [b \in DOMAIN heap |-> [archetype |-> heap[b].archetype, components |-> heap[b].components]]
    <3>1. f.heap = [b \in DOMAIN f.heap |-> [archetype |-> f.heap[b].archetype, components |-> f.heap[b].components]]
      BY DEF BlocksOK, FactoryType
    <3>2. \A b \in DOMAIN f.heap : f.heap[b] = [archetype |-> f.heap[b].archetype, components |-> f.heap[b].components]
      BY <3>1
    <3>3. \A b \in DOMAIN heap : heap[b] = [archetype |-> heap[b].archetype, components |-> heap[b].components]
      BY <3>2, <1>11
    <3> QED BY <3>3, <1>11
  <2> QED BY <2>1, <2>2, <2>3, <2>4, <2>5, <2>6, <2>7, <1>9 DEF FactoryType
<1>17. BlocksListed(g)
  <2>1. ASSUME NEW b \in DOMAIN heap
        PROVE  heap[b].archetype \in DOMAIN archetypes /\ heap[b].components \in [heap[b].archetype -> Nat]
    <3>1. CASE b = a BY <3>1, <1>11, <1>12
    <3>2. CASE b # a
      <4>1. b \in DOMAIN f.heap /\ heap[b] = f.heap[b] BY <3>2, <1>11
      <4> QED BY <4>1, <1>12 DEF BlocksOK, BlocksListed
    <3> QED BY <3>1, <3>2
  <2>2. ASSUME NEW t \in DOMAIN archetypes
        PROVE  /\ archetypes[t].polys = {b \in DOMAIN heap : heap[b].archetype = t}
               /\ archetypes[t].refcount = Cardinality(archetypes[t].polys)
               /\ archetypes[t].refcount > 0
    <3>1. CASE t = T
      <4>1. new.polys = {b \in DOMAIN heap : heap[b].archetype = T}
        <5>1. new.polys = {b \in DOMAIN f.heap : f.heap[b].archetype = T} \union {a} BY <1>13, <1>14
        <5>2. heap[a].archetype = T BY <1>11
        <5>3. \A b \in DOMAIN f.heap : heap[b].archetype = f.heap[b].archetype BY <1>11
        <5>4. DOMAIN heap = DOMAIN f.heap \union {a} BY <1>11
        <5> QED BY <5>1, <5>2, <5>3, <5>4
      <4> QED BY <3>1, <4>1, <1>12, <1>15
    <3>2. CASE t # T
      <4>1. t \in DOMAIN f.m_archetypes /\ archetypes[t] = f.m_archetypes[t] BY <3>2, <1>12
      <4>2. {b \in DOMAIN heap : heap[b].archetype = t} = {b \in DOMAIN f.heap : f.heap[b].archetype = t}
        BY <3>2, <1>11
      <4> QED BY <4>1, <4>2 DEF BlocksOK, BlocksListed
    <3> QED BY <3>1, <3>2
  <2> QED BY <2>1, <2>2, <1>9 DEF BlocksListed
<1>18. CallsAll(g)
  <2>1. ASSUME NEW t \in DOMAIN archetypes
        PROVE  /\ Range(archetypes[t].callbacks) = {l \in f.m_callbacks : ListensTo[l] \subseteq t}
               /\ IsInjective(archetypes[t].callbacks)
    <3>1. CASE t = T BY <3>1, <1>12, <1>13, <1>14 DEF Calls
    <3>2. CASE t # T
      <4>1. t \in DOMAIN f.m_archetypes /\ archetypes[t] = f.m_archetypes[t] BY <3>2, <1>12
      <4> QED BY <4>1 DEF BlocksOK, CallsAll
    <3> QED BY <3>1, <3>2
  <2> QED BY <2>1, <1>9 DEF CallsAll
<1>19. Added(f, g, T, a, components)
  BY <1>9, <1>10, <1>11, <1>16, <1>17, <1>18 DEF Added, BlocksOK
<1> QED BY <1>1, <1>4, <1>19

(* Blocks freed, and with the last one of an archetype the archetype.        *)
Freed(f, g, freed) ==
    /\ g = [m_entries |-> g.m_entries, m_archetypes |-> g.m_archetypes,
            m_callbacks |-> g.m_callbacks, heap |-> g.heap]
    /\ g.m_entries \in [DOMAIN g.m_entries -> EntryType]
    /\ g.m_callbacks = f.m_callbacks
    /\ g.heap = [b \in DOMAIN f.heap \ freed |-> f.heap[b]]
    /\ g.m_archetypes \in [DOMAIN g.m_archetypes -> ArchetypeType]
    /\ DOMAIN g.m_archetypes \subseteq DOMAIN f.m_archetypes
    /\ \A t \in DOMAIN f.m_archetypes : t \in DOMAIN g.m_archetypes <=> f.m_archetypes[t].polys \ freed # {}
    /\ \A t \in DOMAIN g.m_archetypes :
         /\ g.m_archetypes[t].polys = f.m_archetypes[t].polys \ freed
         /\ g.m_archetypes[t].refcount = Cardinality(f.m_archetypes[t].polys \ freed)
         /\ g.m_archetypes[t].callbacks = f.m_archetypes[t].callbacks

(* A factory without some of its blocks, and without the archetypes that     *)
(* were only for them, is in order.                                          *)
LEMMA FreedIsOK ==
    ASSUME NEW f, BlocksOK(f), NEW g, NEW freed, Freed(f, g, freed)
    PROVE  BlocksOK(g)
<1>1. /\ DOMAIN g.heap = DOMAIN f.heap \ freed
      /\ \A b \in DOMAIN g.heap : g.heap[b] = f.heap[b]
      /\ g.heap = [b \in DOMAIN g.heap |-> g.heap[b]]
  BY DEF Freed
<1>2. FactoryType(g)
  <2>1. g.m_callbacks \subseteq Listener BY DEF Freed, BlocksOK, FactoryType
  <2>2. DOMAIN g.m_archetypes \subseteq TypeID BY DEF Freed, BlocksOK, FactoryType
  <2>3. DOMAIN g.heap \subseteq Nat /\ IsFiniteSet(DOMAIN g.heap)
    <3>1. DOMAIN f.heap \subseteq Nat /\ IsFiniteSet(DOMAIN f.heap) BY DEF BlocksOK, FactoryType
    <3>2. DOMAIN g.heap \in SUBSET DOMAIN f.heap BY <1>1
    <3> QED BY <3>1, <3>2, FS_Subset
  <2>4. g.heap = [b \in DOMAIN g.heap |-> [archetype |-> g.heap[b].archetype, components |-> g.heap[b].components]]
    <3>1. f.heap = [b \in DOMAIN f.heap |-> [archetype |-> f.heap[b].archetype, components |-> f.heap[b].components]]
      BY DEF BlocksOK, FactoryType
    <3>2. \A b \in DOMAIN f.heap : f.heap[b] = [archetype |-> f.heap[b].archetype, components |-> f.heap[b].components]
      BY <3>1
    <3>3. \A b \in DOMAIN g.heap : b \in DOMAIN f.heap /\ g.heap[b] = f.heap[b] BY <1>1
    <3>4. \A b \in DOMAIN g.heap : g.heap[b] = [archetype |-> g.heap[b].archetype, components |-> g.heap[b].components]
      BY <3>2, <3>3
    <3> QED BY <3>4, <1>1
  <2> QED BY <2>1, <2>2, <2>3, <2>4 DEF Freed, FactoryType
<1>3. BlocksListed(g)
  <2>1. ASSUME NEW b \in DOMAIN g.heap
        PROVE  g.heap[b].archetype \in DOMAIN g.m_archetypes /\ g.heap[b].components \in [g.heap[b].archetype -> Nat]
    <3>1. b \in DOMAIN f.heap /\ b \notin freed /\ g.heap[b] = f.heap[b] BY <1>1
    <3>2. PICK t : t = f.heap[b].archetype OBVIOUS
    <3>3. /\ t \in DOMAIN f.m_archetypes
          /\ f.heap[b].components \in [t -> Nat]
          /\ f.m_archetypes[t].polys = {c \in DOMAIN f.heap : f.heap[c].archetype = t}
      BY <3>1, <3>2 DEF BlocksOK, BlocksListed
    <3>4. b \in f.m_archetypes[t].polys \ freed BY <3>1, <3>2, <3>3
    <3>5. t \in DOMAIN g.m_archetypes BY <3>3, <3>4 DEF Freed
    <3> QED BY <3>1, <3>2, <3>3, <3>5
  <2>2. ASSUME NEW t \in DOMAIN g.m_archetypes
        PROVE  /\ g.m_archetypes[t].polys = {b \in DOMAIN g.heap : g.heap[b].archetype = t}
               /\ g.m_archetypes[t].refcount = Cardinality(g.m_archetypes[t].polys)
               /\ g.m_archetypes[t].refcount > 0
    <3>1. /\ t \in DOMAIN f.m_archetypes
          /\ g.m_archetypes[t].polys = f.m_archetypes[t].polys \ freed
          /\ g.m_archetypes[t].refcount = Cardinality(f.m_archetypes[t].polys \ freed)
          /\ f.m_archetypes[t].polys \ freed # {}
      BY DEF Freed
    <3>2. f.m_archetypes[t].polys = {b \in DOMAIN f.heap : f.heap[b].archetype = t}
      BY <3>1 DEF BlocksOK, BlocksListed
    <3>3. PICK P : P = f.m_archetypes[t].polys \ freed OBVIOUS
    <3>4. P = {b \in DOMAIN g.heap : g.heap[b].archetype = t} BY <3>2, <3>3, <1>1
    <3>5. IsFiniteSet(P)
      <4>1. IsFiniteSet(DOMAIN g.heap) BY <1>2 DEF FactoryType
      <4>2. P \in SUBSET DOMAIN g.heap BY <3>4
      <4> QED BY <4>1, <4>2, FS_Subset
    <3>6. Cardinality(P) \in Nat /\ Cardinality(P) # 0 BY <3>1, <3>3, <3>5, FS_CardinalityType, FS_EmptySet
    <3>7. Cardinality(P) > 0 BY <3>6
    <3> QED BY <3>1, <3>3, <3>4, <3>7
  <2> QED BY <2>1, <2>2 DEF BlocksListed
<1>4. CallsAll(g)
  <2>1. ASSUME NEW t \in DOMAIN g.m_archetypes
        PROVE  /\ Range(g.m_archetypes[t].callbacks) = {l \in g.m_callbacks : ListensTo[l] \subseteq t}
               /\ IsInjective(g.m_archetypes[t].callbacks)
    <3>1. /\ t \in DOMAIN f.m_archetypes
          /\ g.m_archetypes[t].callbacks = f.m_archetypes[t].callbacks
          /\ g.m_callbacks = f.m_callbacks
      BY DEF Freed
    <3> QED BY <3>1 DEF BlocksOK, CallsAll
  <2> QED BY <2>1 DEF CallsAll
<1> QED BY <1>2, <1>3, <1>4 DEF BlocksOK

(* DeallocatePoly takes one block away, and an archetype with its last poly. *)
LEMMA DeallocatePolyFrees ==
    ASSUME NEW f, BlocksOK(f), NEW a \in DOMAIN f.heap, NEW T, T = f.heap[a].archetype,
           NEW g, g = DeallocatePoly(f, T, a)
    PROVE  g.m_entries = f.m_entries /\ Freed(f, g, {a})
<1> DEFINE P == f.m_archetypes[T].polys
           Q == P \ {a}
<1>1. PICK old : old = f.m_archetypes[T] OBVIOUS
<1>2. PICK new : new = [old EXCEPT !.refcount = @ - 1, !.polys = @ \ {a}] OBVIOUS
<1>3. PICK heap : heap = Without(f.heap, {a}) OBVIOUS
<1>4. PICK archetypes :
        archetypes = IF old.refcount = 1 THEN Without(f.m_archetypes, {T}) ELSE Put(f.m_archetypes, T, new)
  OBVIOUS
<1>5. f = [m_entries |-> f.m_entries, m_archetypes |-> f.m_archetypes,
           m_callbacks |-> f.m_callbacks, heap |-> f.heap]
  BY DEF BlocksOK, FactoryType
<1>6. g = [f EXCEPT !.heap = heap, !.m_archetypes = archetypes]
  BY <1>1, <1>2, <1>3, <1>4 DEF DeallocatePoly
<1>7. /\ g = [m_entries |-> f.m_entries, m_archetypes |-> archetypes,
              m_callbacks |-> f.m_callbacks, heap |-> heap]
      /\ g.m_entries = f.m_entries /\ g.m_archetypes = archetypes
      /\ g.m_callbacks = f.m_callbacks /\ g.heap = heap
  BY <1>5, <1>6
<1>8. /\ T \in DOMAIN f.m_archetypes
      /\ P = {b \in DOMAIN f.heap : f.heap[b].archetype = T}
      /\ old.refcount = Cardinality(P)
      /\ old \in ArchetypeType
  BY <1>1 DEF BlocksOK, BlocksListed, FactoryType
<1>9. a \in P BY <1>8
<1>10. IsFiniteSet(P) /\ Cardinality(P) \in Nat
  <2>1. IsFiniteSet(DOMAIN f.heap) BY DEF BlocksOK, FactoryType
  <2>2. P \in SUBSET DOMAIN f.heap BY <1>8
  <2> QED BY <2>1, <2>2, FS_Subset, FS_CardinalityType
<1>11. IsFiniteSet(Q) /\ Cardinality(Q) = Cardinality(P) - 1 BY <1>9, <1>10, FS_RemoveElement
<1>12. Cardinality(Q) \in Nat BY <1>11, FS_CardinalityType
<1>13. old.refcount = 1 <=> Q = {}
  <2>1. Cardinality(Q) = 0 <=> Q = {} BY <1>11, FS_EmptySet
  <2>2. old.refcount = 1 <=> Cardinality(Q) = 0 BY <1>8, <1>10, <1>11
  <2> QED BY <2>1, <2>2
<1>14. /\ new.refcount = Cardinality(Q) /\ new.polys = Q /\ new.callbacks = old.callbacks
       /\ new \in ArchetypeType
  <2>1. /\ old.refcount \in Nat /\ old.polys \in SUBSET Nat /\ old.callbacks \in Seq(Listener)
        /\ old = [refcount |-> old.refcount, polys |-> old.polys, callbacks |-> old.callbacks]
    BY <1>8 DEF ArchetypeType
  <2>2. new = [refcount |-> old.refcount - 1, polys |-> old.polys \ {a}, callbacks |-> old.callbacks]
    BY <2>1, <1>2
  <2>3. old.refcount - 1 = Cardinality(Q) /\ old.polys \ {a} = Q BY <1>1, <1>8, <1>11
  <2>4. Q \in SUBSET Nat BY <2>1, <1>1
  <2> QED BY <2>1, <2>2, <2>3, <2>4, <1>12 DEF ArchetypeType
<1>15. \A t \in DOMAIN f.m_archetypes : t # T => a \notin f.m_archetypes[t].polys
  BY DEF BlocksOK, BlocksListed
<1>16. \A t \in DOMAIN f.m_archetypes :
         /\ f.m_archetypes[t].refcount = Cardinality(f.m_archetypes[t].polys)
         /\ f.m_archetypes[t].polys # {}
         /\ f.m_archetypes[t] \in ArchetypeType
  <2>1. TAKE t \in DOMAIN f.m_archetypes
  <2>2. /\ f.m_archetypes[t].refcount = Cardinality(f.m_archetypes[t].polys)
        /\ f.m_archetypes[t].refcount > 0
    BY DEF BlocksOK, BlocksListed
  <2>3. Cardinality({}) = 0 BY FS_EmptySet
  <2>4. f.m_archetypes[t].polys # {} BY <2>2, <2>3
  <2> QED BY <2>2, <2>4 DEF BlocksOK, FactoryType
<1> HIDE DEF Q
<1>17. /\ DOMAIN archetypes = IF Q = {} THEN DOMAIN f.m_archetypes \ {T} ELSE DOMAIN f.m_archetypes
       /\ \A t \in DOMAIN archetypes : archetypes[t] = IF t = T THEN new ELSE f.m_archetypes[t]
       /\ archetypes = [t \in DOMAIN archetypes |-> archetypes[t]]
  <2>1. CASE Q = {}
    <3>1. archetypes = [t \in DOMAIN f.m_archetypes \ {T} |-> f.m_archetypes[t]] BY <2>1, <1>4, <1>13 DEF Without
    <3> QED BY <3>1, <2>1
  <2>2. CASE Q # {}
    <3>1. archetypes = [t \in DOMAIN f.m_archetypes \union {T} |-> IF t = T THEN new ELSE f.m_archetypes[t]]
      BY <2>2, <1>4, <1>13 DEF Put
    <3> QED BY <3>1, <2>2, <1>8
  <2> QED BY <2>1, <2>2
<1>18. ASSUME NEW t \in DOMAIN archetypes
       PROVE  /\ archetypes[t] \in ArchetypeType
              /\ archetypes[t].polys = f.m_archetypes[t].polys \ {a}
              /\ archetypes[t].refcount = Cardinality(f.m_archetypes[t].polys \ {a})
              /\ archetypes[t].callbacks = f.m_archetypes[t].callbacks
  <2>1. CASE t = T BY <2>1, <1>1, <1>14, <1>17 DEF Q
  <2>2. CASE t # T
    <3>1. archetypes[t] = f.m_archetypes[t] /\ t \in DOMAIN f.m_archetypes BY <2>2, <1>17
    <3>2. f.m_archetypes[t].polys \ {a} = f.m_archetypes[t].polys BY <3>1, <2>2, <1>15
    <3> QED BY <3>1, <3>2, <1>16
  <2> QED BY <2>1, <2>2
<1>19. ASSUME NEW t \in DOMAIN f.m_archetypes
       PROVE  t \in DOMAIN archetypes <=> f.m_archetypes[t].polys \ {a} # {}
  <2>1. CASE t = T BY <2>1, <1>17 DEF Q
  <2>2. CASE t # T
    <3>1. f.m_archetypes[t].polys \ {a} = f.m_archetypes[t].polys BY <2>2, <1>15
    <3> QED BY <3>1, <2>2, <1>16, <1>17
  <2> QED BY <2>1, <2>2
<1>20. /\ DOMAIN archetypes \subseteq DOMAIN f.m_archetypes
       /\ archetypes \in [DOMAIN archetypes -> ArchetypeType]
  BY <1>17, <1>18
<1>21. g.m_entries \in [DOMAIN g.m_entries -> EntryType] BY <1>7 DEF BlocksOK, FactoryType
<1>22. heap = [b \in DOMAIN f.heap \ {a} |-> f.heap[b]] BY <1>3 DEF Without
<1> QED BY <1>7, <1>18, <1>19, <1>20, <1>21, <1>22 DEF Freed

-----------------------------------------------------------------------------
(* The operations on a factory.                                              *)

(* The fields of a factory and of its entries. *)
LEMMA RecordForm ==
    ASSUME NEW f, FactoryOK(f)
    PROVE  /\ f = [m_entries |-> f.m_entries, m_archetypes |-> f.m_archetypes,
                   m_callbacks |-> f.m_callbacks, heap |-> f.heap]
           /\ \A id \in DOMAIN f.m_entries :
                /\ f.m_entries[id].type_id \in TypeID /\ f.m_entries[id].header \in Nat
                /\ f.m_entries[id].refcount \in Nat
                /\ f.m_entries[id] = [type_id |-> f.m_entries[id].type_id, header |-> f.m_entries[id].header,
                                      refcount |-> f.m_entries[id].refcount]
<1>1. f.m_entries \in [DOMAIN f.m_entries -> EntryType] BY DEF FactoryOK, BlocksOK, FactoryType
<1>2. \A id \in DOMAIN f.m_entries : f.m_entries[id] \in EntryType BY <1>1
<1>3. f = [m_entries |-> f.m_entries, m_archetypes |-> f.m_archetypes,
           m_callbacks |-> f.m_callbacks, heap |-> f.heap]
  BY DEF FactoryOK, BlocksOK, FactoryType
<1>4. ASSUME NEW id \in DOMAIN f.m_entries
      PROVE  /\ f.m_entries[id].type_id \in TypeID /\ f.m_entries[id].header \in Nat
             /\ f.m_entries[id].refcount \in Nat
             /\ f.m_entries[id] = [type_id |-> f.m_entries[id].type_id, header |-> f.m_entries[id].header,
                                   refcount |-> f.m_entries[id].refcount]
  BY <1>2 DEF EntryType
<1> QED BY <1>3, <1>4

(* Only the entries of a factory change. *)
LEMMA EntriesChange ==
    ASSUME NEW f, BlocksOK(f), NEW entries, entries \in [DOMAIN entries -> EntryType],
           NEW g, g = [m_entries |-> entries, m_archetypes |-> f.m_archetypes,
                       m_callbacks |-> f.m_callbacks, heap |-> f.heap]
    PROVE  BlocksOK(g)
<1>1. /\ g.m_entries = entries /\ g.m_archetypes = f.m_archetypes
      /\ g.m_callbacks = f.m_callbacks /\ g.heap = f.heap
      /\ g = [m_entries |-> g.m_entries, m_archetypes |-> g.m_archetypes,
              m_callbacks |-> g.m_callbacks, heap |-> g.heap]
  OBVIOUS
<1>2. FactoryType(g) BY <1>1 DEF BlocksOK, FactoryType
<1>3. BlocksListed(g) BY <1>1 DEF BlocksOK, BlocksListed
<1>4. CallsAll(g) BY <1>1 DEF BlocksOK, CallsAll
<1> QED BY <1>2, <1>3, <1>4 DEF BlocksOK

(* The entity has the same components in both factories. *)
SamePoly(f, g, j) ==
    /\ Entry(g, j).type_id = Entry(f, j).type_id
    /\ PolyOf(g, j).components = PolyOf(f, j).components

SamePolys(f, g) == \A j \in DOMAIN f.m_entries : SamePoly(f, g, j)

(* The Refs that are counted for an id, none if it has no entry. *)
Refcount(f, j) == IF Exists(f, j) THEN Entry(f, j).refcount ELSE 0

(* n Refs more to id. *)
RefsMore(f, g, id, n) == \A j : Refcount(g, j) = Refcount(f, j) + (IF j = id THEN n ELSE 0)

(* g is f with n Refs more to id. *)
CountedBy(f, g, id, n) ==
    /\ FactoryOK(g)
    /\ g.m_callbacks = f.m_callbacks
    /\ DOMAIN g.m_entries = DOMAIN f.m_entries
    /\ SamePolys(f, g)
    /\ RefsMore(f, g, id, n)

(* Counts are numbers, and only an entry has one above zero. *)
LEMMA RefcountNat ==
    ASSUME NEW f, FactoryOK(f), NEW j
    PROVE  Refcount(f, j) \in Nat /\ (Refcount(f, j) > 0 => Exists(f, j))
<1>1. \A id \in DOMAIN f.m_entries : f.m_entries[id].refcount \in Nat BY RecordForm
<1> QED BY <1>1 DEF Refcount, Exists, Entry

(* Counting Refs of an entry changes nothing else of the factory. *)
LEMMA CountCounts ==
    ASSUME NEW f, FactoryOK(f), NEW id, Exists(f, id), NEW n \in Int, Refcount(f, id) + n \in Nat
    PROVE  CountedBy(f, Count(f, id, n), id, n)
<1> DEFINE e == f.m_entries[id]
<1>1. PICK g : g = Count(f, id, n) OBVIOUS
<1>2. PICK new : new = [e EXCEPT !.refcount = @ + n] OBVIOUS
<1>3. PICK entries : entries = [f.m_entries EXCEPT ![id] = new] OBVIOUS
<1>4. id \in DOMAIN f.m_entries /\ e.refcount + n \in Nat BY DEF Exists, Refcount, Entry
<1>5. /\ f = [m_entries |-> f.m_entries, m_archetypes |-> f.m_archetypes,
              m_callbacks |-> f.m_callbacks, heap |-> f.heap]
      /\ \A j \in DOMAIN f.m_entries :
           /\ f.m_entries[j].type_id \in TypeID /\ f.m_entries[j].header \in Nat
           /\ f.m_entries[j].refcount \in Nat
           /\ f.m_entries[j] = [type_id |-> f.m_entries[j].type_id, header |-> f.m_entries[j].header,
                                refcount |-> f.m_entries[j].refcount]
  BY RecordForm
<1>6. g = [f EXCEPT !.m_entries = entries] BY <1>1, <1>2, <1>3 DEF Count
<1>7. /\ g = [m_entries |-> entries, m_archetypes |-> f.m_archetypes,
              m_callbacks |-> f.m_callbacks, heap |-> f.heap]
      /\ g.m_entries = entries /\ g.m_callbacks = f.m_callbacks /\ g.heap = f.heap
  BY <1>5, <1>6
<1>8. /\ new = [type_id |-> e.type_id, header |-> e.header, refcount |-> e.refcount + n]
      /\ new.type_id = e.type_id /\ new.header = e.header /\ new.refcount = e.refcount + n
  BY <1>2, <1>4, <1>5
<1>9. f.m_entries \in [DOMAIN f.m_entries -> EntryType] BY DEF FactoryOK, BlocksOK, FactoryType
<1>10. new \in EntryType BY <1>4, <1>5, <1>8 DEF EntryType
<1>11. /\ entries \in [DOMAIN entries -> EntryType]
       /\ DOMAIN entries = DOMAIN f.m_entries
       /\ entries[id] = new
       /\ \A j \in DOMAIN entries \ {id} : entries[j] = f.m_entries[j]
  BY <1>3, <1>4, <1>9, <1>10
<1>12. \A j \in DOMAIN entries : /\ entries[j].type_id = f.m_entries[j].type_id
                                 /\ entries[j].header = f.m_entries[j].header
  BY <1>8, <1>11
<1>13. BlocksOK(g)
  <2>1. BlocksOK(f) BY DEF FactoryOK
  <2> QED BY <2>1, <1>7, <1>11, EntriesChange
<1>14. BlocksOwned(g)
  <2>1. BlocksOwned(f) BY DEF FactoryOK
  <2>2. \A j \in DOMAIN g.m_entries : /\ g.m_entries[j].type_id = f.m_entries[j].type_id
                                      /\ g.m_entries[j].header = f.m_entries[j].header
    BY <1>7, <1>12
  <2>3. DOMAIN g.m_entries = DOMAIN f.m_entries /\ g.heap = f.heap BY <1>7, <1>11
  <2> QED BY ONLY <2>1, <2>2, <2>3 DEF BlocksOwned, Entry, PolyOf
<1>15. SamePolys(f, g) BY <1>7, <1>11, <1>12 DEF SamePolys, SamePoly, Entry, PolyOf
<1>16. RefsMore(f, g, id, n)
  <2>1. ASSUME NEW j PROVE Refcount(g, j) = Refcount(f, j) + (IF j = id THEN n ELSE 0)
    <3>1. CASE j = id BY <3>1, <1>4, <1>7, <1>8, <1>11 DEF Refcount, Exists, Entry
    <3>2. CASE j # id
      <4>1. Refcount(g, j) = Refcount(f, j) BY <3>2, <1>7, <1>11 DEF Refcount, Exists, Entry
      <4>2. Refcount(f, j) \in Nat BY RefcountNat
      <4> QED BY <3>2, <4>1, <4>2
    <3> QED BY <3>1, <3>2
  <2> QED BY <2>1 DEF RefsMore
<1> QED BY <1>1, <1>7, <1>11, <1>13, <1>14, <1>15, <1>16 DEF CountedBy, FactoryOK

(* g is f with one Ref more to id, which may be new and of the type T. *)
GotBy(f, g, id, T) ==
    /\ FactoryOK(g)
    /\ g.m_callbacks = f.m_callbacks
    /\ DOMAIN g.m_entries = DOMAIN f.m_entries \union {id}
    /\ SamePolys(f, g)
    /\ RefsMore(f, g, id, 1)
    /\ ~Exists(f, id) => Entry(g, id).type_id = T

(* GetPoly leaves the polys there are alone and counts one Ref more. *)
LEMMA GetPolyGets ==
    ASSUME NEW f, FactoryOK(f), NEW id, NEW T \in TypeID
    PROVE  GotBy(f, GetPoly(f, id, T), id, T)
                /\ (~Exists(f, id) => PolyOf(GetPoly(f, id, T), id).components = [c \in T |-> Default])
<1>1. CASE Exists(f, id)
  <2>1. GetPoly(f, id, T) = Count(f, id, 1) BY <1>1 DEF GetPoly
  <2>2. Refcount(f, id) + 1 \in Nat
    <3>1. Refcount(f, id) \in Nat BY RefcountNat
    <3> QED BY <3>1
  <2>3. PICK g : g = Count(f, id, 1) OBVIOUS
  <2>4. CountedBy(f, g, id, 1) BY <1>1, <2>2, <2>3, CountCounts
  <2>5. DOMAIN f.m_entries = DOMAIN f.m_entries \union {id} BY <1>1 DEF Exists
  <2> QED BY <1>1, <2>1, <2>3, <2>4, <2>5 DEF CountedBy, GotBy
<1>2. CASE ~Exists(f, id)
  <2> DEFINE components == [c \in T |-> Default]
  <2>1. PICK h : h = AllocatePoly(f, T, components) OBVIOUS
  <2>2. PICK a : a = NewAddress(f) OBVIOUS
  <2>3. PICK new : new = [type_id |-> T, header |-> a, refcount |-> 1] OBVIOUS
  <2>4. PICK entries : entries = Put(f.m_entries, id, new) OBVIOUS
  <2>5. PICK g : g = GetPoly(f, id, T) OBVIOUS
  <2>6. Added(f, h, T, a, components)
    <3>1. components \in [T -> Nat] BY DEF Default
    <3>2. BlocksOK(f) BY DEF FactoryOK
    <3> QED BY <3>1, <3>2, <2>1, <2>2, AllocatePolyAdds
  <2>7. g = [h EXCEPT !.m_entries = entries]
    <3>1. h.m_entries = f.m_entries BY <2>6 DEF Added
    <3> QED BY <3>1, <1>2, <2>1, <2>2, <2>3, <2>4, <2>5 DEF GetPoly
  <2>8. /\ h = [m_entries |-> h.m_entries, m_archetypes |-> h.m_archetypes,
                m_callbacks |-> h.m_callbacks, heap |-> h.heap]
    BY <2>6 DEF Added, BlocksOK, FactoryType
  <2>9. /\ g = [m_entries |-> entries, m_archetypes |-> h.m_archetypes,
                m_callbacks |-> h.m_callbacks, heap |-> h.heap]
        /\ g.m_entries = entries /\ g.m_callbacks = f.m_callbacks /\ g.heap = h.heap
    BY <2>6, <2>7, <2>8 DEF Added
  <2>10. new \in EntryType /\ new.type_id = T /\ new.header = a /\ new.refcount = 1
    BY <2>3, <2>6 DEF EntryType, Added
  <2>11. id \notin DOMAIN f.m_entries BY <1>2 DEF Exists
  <2>12. /\ DOMAIN entries = DOMAIN f.m_entries \union {id}
         /\ entries[id] = new
         /\ \A j \in DOMAIN f.m_entries : entries[j] = f.m_entries[j] /\ j # id
         /\ entries = [j \in DOMAIN entries |-> entries[j]]
    BY <2>4, <2>11 DEF Put
  <2>13. entries \in [DOMAIN entries -> EntryType]
    <3>1. \A j \in DOMAIN f.m_entries : f.m_entries[j] \in EntryType BY DEF FactoryOK, BlocksOK, FactoryType
    <3> QED BY <3>1, <2>10, <2>12
  <2>14. BlocksOK(g)
    <3>1. BlocksOK(h) BY <2>6 DEF Added
    <3> QED BY <3>1, <2>9, <2>13, EntriesChange
  <2>15. /\ a \notin DOMAIN f.heap
         /\ DOMAIN g.heap = DOMAIN f.heap \union {a}
         /\ g.heap[a].archetype = T /\ g.heap[a].components = components
         /\ \A b \in DOMAIN f.heap : g.heap[b] = f.heap[b]
    BY <2>6, <2>9 DEF Added
  <2>16. BlocksOwned(f) BY DEF FactoryOK
  <2>17. \A j \in DOMAIN f.m_entries :
           /\ f.m_entries[j].header \in DOMAIN f.heap /\ f.m_entries[j].header # a
           /\ f.heap[f.m_entries[j].header].archetype = f.m_entries[j].type_id
           /\ g.m_entries[j] = f.m_entries[j]
    BY <2>9, <2>12, <2>15, <2>16 DEF BlocksOwned, Entry, PolyOf
  <2>18. g.m_entries[id] = new /\ DOMAIN g.m_entries = DOMAIN f.m_entries \union {id} BY <2>9, <2>12
  <2>19. BlocksOwned(g)
    <3>1. ASSUME NEW j \in DOMAIN g.m_entries
          PROVE  /\ g.m_entries[j].header \in DOMAIN g.heap
                 /\ g.heap[g.m_entries[j].header].archetype = g.m_entries[j].type_id
      <4>1. CASE j = id BY <4>1, <2>10, <2>15, <2>18
      <4>2. CASE j # id
        <5>1. j \in DOMAIN f.m_entries BY <4>2, <2>18
        <5> QED BY <5>1, <2>15, <2>17
      <4> QED BY <4>1, <4>2
    <3>2. ASSUME NEW i \in DOMAIN g.m_entries, NEW j \in DOMAIN g.m_entries, i # j
          PROVE  g.m_entries[i].header # g.m_entries[j].header
      <4>1. CASE i = id
        <5>1. j \in DOMAIN f.m_entries BY <4>1, <3>2, <2>18
        <5> QED BY <4>1, <5>1, <2>10, <2>17, <2>18
      <4>2. CASE j = id
        <5>1. i \in DOMAIN f.m_entries BY <4>2, <3>2, <2>18
        <5> QED BY <4>2, <5>1, <2>10, <2>17, <2>18
      <4>3. CASE i # id /\ j # id
        <5>1. i \in DOMAIN f.m_entries /\ j \in DOMAIN f.m_entries BY <4>3, <2>18
        <5>2. f.m_entries[i].header # f.m_entries[j].header BY <5>1, <3>2, <2>16 DEF BlocksOwned, Entry
        <5> QED BY <5>1, <5>2, <2>17
      <4> QED BY <4>1, <4>2, <4>3
    <3>3. DOMAIN f.heap = {f.m_entries[j].header : j \in DOMAIN f.m_entries} BY <2>16 DEF BlocksOwned, Entry
    <3>4. DOMAIN g.heap = {g.m_entries[j].header : j \in DOMAIN g.m_entries}
      <4>1. \A j \in DOMAIN f.m_entries : g.m_entries[j].header = f.m_entries[j].header BY <2>17
      <4>2. g.m_entries[id].header = a BY <2>10, <2>18
      <4> QED BY ONLY <4>1, <4>2, <3>3, <2>15, <2>18
    <3> QED BY <3>1, <3>2, <3>4 DEF BlocksOwned, Entry, PolyOf
  <2>20. SamePolys(f, g) BY <2>15, <2>17 DEF SamePolys, SamePoly, Entry, PolyOf
  <2>21. RefsMore(f, g, id, 1)
    <3>1. ASSUME NEW j PROVE Refcount(g, j) = Refcount(f, j) + (IF j = id THEN 1 ELSE 0)
      <4>1. CASE j = id
        <5>1. Refcount(f, j) = 0 BY <4>1, <2>11 DEF Refcount, Exists
        <5>2. Refcount(g, j) = 1 BY <4>1, <2>10, <2>18 DEF Refcount, Exists, Entry
        <5> QED BY <4>1, <5>1, <5>2
      <4>2. CASE j # id
        <5>1. Refcount(g, j) = Refcount(f, j) BY <4>2, <2>17, <2>18 DEF Refcount, Exists, Entry
        <5>2. Refcount(f, j) \in Nat BY RefcountNat
        <5> QED BY <4>2, <5>1, <5>2
      <4> QED BY <4>1, <4>2
    <3> QED BY <3>1 DEF RefsMore
  <2>22. Entry(g, id).type_id = T /\ PolyOf(g, id).components = components
    BY <2>10, <2>15, <2>18 DEF Entry, PolyOf
  <2>23. GotBy(f, g, id, T) BY <2>9, <2>14, <2>18, <2>19, <2>20, <2>21, <2>22 DEF GotBy, FactoryOK
  <2> QED BY <2>5, <2>22, <2>23
<1> QED BY <1>1, <1>2

(* g is f with other components of id. *)
ComponentsBy(f, g, id, T, components) ==
    /\ FactoryOK(g)
    /\ g.m_callbacks = f.m_callbacks
    /\ DOMAIN g.m_entries = DOMAIN f.m_entries
    /\ \A j \in DOMAIN f.m_entries \ {id} : SamePoly(f, g, j)
    /\ \A j : Refcount(g, j) = Refcount(f, j)
    /\ Entry(g, id).type_id = T
    /\ PolyOf(g, id).components = components

(* A poly with other components. *)
LEMMA OtherComponents ==
    ASSUME NEW T, NEW before, NEW after
    PROVE  /\ [[archetype |-> T, components |-> before] EXCEPT !.components = after]
                 = [archetype |-> T, components |-> after]
           /\ [archetype |-> T, components |-> after].archetype = T
           /\ [archetype |-> T, components |-> after].components = after
OBVIOUS

(* Writing a component changes that component of one entity. *)
LEMMA SetComponentSets ==
    ASSUME NEW f, FactoryOK(f), NEW id, Exists(f, id), NEW c \in Entry(f, id).type_id, NEW v \in Nat
    PROVE  ComponentsBy(f, SetComponent(f, id, c, v), id, Entry(f, id).type_id,
                        [PolyOf(f, id).components EXCEPT ![c] = v])
<1> DEFINE a == f.m_entries[id].header
           T == f.m_entries[id].type_id
           old == f.heap[a]
           components == [old.components EXCEPT ![c] = v]
<1>1. PICK g : g = SetComponent(f, id, c, v) OBVIOUS
<1>2. PICK new : new = [old EXCEPT !.components = components] OBVIOUS
<1>3. PICK heap : heap = [f.heap EXCEPT ![a] = new] OBVIOUS
<1>4. id \in DOMAIN f.m_entries /\ c \in T BY DEF Exists, Entry
<1>5. g = [f EXCEPT !.heap = heap] BY <1>1, <1>2, <1>3 DEF SetComponent
<1>6. f = [m_entries |-> f.m_entries, m_archetypes |-> f.m_archetypes,
           m_callbacks |-> f.m_callbacks, heap |-> f.heap]
  BY RecordForm
<1>7. /\ g = [m_entries |-> f.m_entries, m_archetypes |-> f.m_archetypes,
              m_callbacks |-> f.m_callbacks, heap |-> heap]
      /\ g.m_entries = f.m_entries /\ g.m_archetypes = f.m_archetypes
      /\ g.m_callbacks = f.m_callbacks /\ g.heap = heap
  BY <1>5, <1>6
<1>8. BlocksOwned(f) /\ FactoryType(f) /\ BlocksListed(f) /\ CallsAll(f) BY DEF FactoryOK, BlocksOK
<1>9. a \in DOMAIN f.heap /\ old.archetype = T BY <1>4, <1>8 DEF BlocksOwned, Entry, PolyOf
<1>10. old.components \in [T -> Nat] BY <1>8, <1>9 DEF BlocksListed
<1>11. components \in [T -> Nat] BY <1>4, <1>10
<1>12. /\ f.heap = [b \in DOMAIN f.heap |-> [archetype |-> f.heap[b].archetype, components |-> f.heap[b].components]]
       /\ DOMAIN f.heap \subseteq Nat /\ IsFiniteSet(DOMAIN f.heap)
  BY <1>8 DEF FactoryType
<1>13. \A b \in DOMAIN f.heap : f.heap[b] = [archetype |-> f.heap[b].archetype, components |-> f.heap[b].components]
  BY <1>12
<1> HIDE DEF components
<1>14. /\ new = [archetype |-> T, components |-> components]
       /\ new.archetype = T /\ new.components = components
  <2>1. old = [archetype |-> T, components |-> old.components] BY <1>9, <1>13
  <2> HIDE DEF old
  <2>2. new = [archetype |-> T, components |-> components] BY <2>1, <1>2, OtherComponents
  <2> QED BY <2>2, OtherComponents
<1>15. /\ DOMAIN heap = DOMAIN f.heap
       /\ heap[a] = new
       /\ \A b \in DOMAIN f.heap \ {a} : heap[b] = f.heap[b]
       /\ heap = [b \in DOMAIN heap |-> heap[b]]
  BY <1>3, <1>9
<1>16. \A b \in DOMAIN f.heap : heap[b].archetype = f.heap[b].archetype BY <1>9, <1>14, <1>15
<1>17. FactoryType(g)
  <2>1. \A b \in DOMAIN heap : heap[b] = [archetype |-> heap[b].archetype, components |-> heap[b].components]
    <3>1. heap[a] = [archetype |-> heap[a].archetype, components |-> heap[a].components] BY <1>14, <1>15
    <3> QED BY <3>1, <1>13, <1>15
  <2>2. heap = [b \in DOMAIN heap |-> [archetype |-> heap[b].archetype, components |-> heap[b].components]]
    BY <2>1, <1>15
  <2> QED BY <2>2, <1>7, <1>8, <1>12, <1>15 DEF FactoryType
<1>18. BlocksListed(g)
  <2>1. ASSUME NEW b \in DOMAIN heap
        PROVE  heap[b].archetype \in DOMAIN f.m_archetypes /\ heap[b].components \in [heap[b].archetype -> Nat]
    <3>1. /\ f.heap[b].archetype \in DOMAIN f.m_archetypes
          /\ f.heap[b].components \in [f.heap[b].archetype -> Nat]
      BY <1>8, <1>15 DEF BlocksListed
    <3>2. CASE b = a BY <3>1, <3>2, <1>9, <1>11, <1>14, <1>15
    <3>3. CASE b # a BY <3>1, <3>3, <1>15
    <3> QED BY <3>2, <3>3
  <2>2. ASSUME NEW t \in DOMAIN f.m_archetypes
        PROVE  /\ f.m_archetypes[t].polys = {b \in DOMAIN heap : heap[b].archetype = t}
               /\ f.m_archetypes[t].refcount = Cardinality(f.m_archetypes[t].polys)
               /\ f.m_archetypes[t].refcount > 0
    <3>1. /\ f.m_archetypes[t].polys = {b \in DOMAIN f.heap : f.heap[b].archetype = t}
          /\ f.m_archetypes[t].refcount = Cardinality(f.m_archetypes[t].polys)
          /\ f.m_archetypes[t].refcount > 0
      BY <1>8 DEF BlocksListed
    <3>2. {b \in DOMAIN heap : heap[b].archetype = t} = {b \in DOMAIN f.heap : f.heap[b].archetype = t}
      BY <1>15, <1>16
    <3> QED BY <3>1, <3>2
  <2> QED BY <2>1, <2>2, <1>7 DEF BlocksListed
<1>19. CallsAll(g) BY <1>7, <1>8 DEF CallsAll
<1>20. BlocksOwned(g)
  <2>1. \A j \in DOMAIN f.m_entries : g.heap[f.m_entries[j].header].archetype = f.heap[f.m_entries[j].header].archetype
    BY <1>7, <1>8, <1>16 DEF BlocksOwned, Entry
  <2> QED BY <2>1, <1>7, <1>8, <1>15 DEF BlocksOwned, Entry, PolyOf
<1>21. ASSUME NEW j \in DOMAIN f.m_entries \ {id} PROVE SamePoly(f, g, j)
  <2>1. f.m_entries[j].header # a /\ f.m_entries[j].header \in DOMAIN f.heap
    BY <1>4, <1>8 DEF BlocksOwned, Entry
  <2> QED BY <2>1, <1>7, <1>15 DEF SamePoly, Entry, PolyOf
<1>22. Entry(g, id).type_id = T /\ PolyOf(g, id).components = components
  BY <1>7, <1>14, <1>15 DEF Entry, PolyOf
<1>23. \A j : Refcount(g, j) = Refcount(f, j) BY <1>7 DEF Refcount, Exists, Entry
<1>24. ComponentsBy(f, g, id, T, components)
  BY <1>7, <1>17, <1>18, <1>19, <1>20, <1>21, <1>22, <1>23 DEF ComponentsBy, FactoryOK, BlocksOK
<1> QED BY <1>1, <1>24 DEF components, Entry, PolyOf

(* AddTypes gives one entity a block of the larger type, with its components moved to it. *)
LEMMA AddTypesAdds ==
    ASSUME NEW f, FactoryOK(f), NEW id, Exists(f, id), NEW new_types \in TypeID
    PROVE  LET T == Entry(f, id).type_id \union new_types
           IN  /\ T \in TypeID
               /\ ComponentsBy(f, AddTypes(f, id, new_types), id, T, MovedComponents(PolyOf(f, id).components, T))
<1> DEFINE b == f.m_entries[id].header
           O == f.m_entries[id].type_id
           T == O \union new_types
           old == f.heap[b].components
           components == MovedComponents(old, T)
<1>1. PICK g : g = AddTypes(f, id, new_types) OBVIOUS
<1>2. id \in DOMAIN f.m_entries BY DEF Exists
<1>3. /\ f = [m_entries |-> f.m_entries, m_archetypes |-> f.m_archetypes,
              m_callbacks |-> f.m_callbacks, heap |-> f.heap]
      /\ \A j \in DOMAIN f.m_entries :
           /\ f.m_entries[j].type_id \in TypeID /\ f.m_entries[j].header \in Nat
           /\ f.m_entries[j].refcount \in Nat
           /\ f.m_entries[j] = [type_id |-> f.m_entries[j].type_id, header |-> f.m_entries[j].header,
                                refcount |-> f.m_entries[j].refcount]
  BY RecordForm
<1>4. BlocksOwned(f) /\ BlocksOK(f) BY DEF FactoryOK
<1>5. b \in DOMAIN f.heap /\ f.heap[b].archetype = O BY <1>2, <1>4 DEF BlocksOwned, Entry, PolyOf
<1>6. old \in [O -> Nat] BY <1>4, <1>5 DEF BlocksOK, BlocksListed
<1>7. T \in TypeID BY <1>2, <1>3 DEF TypeID
<1>8. components \in [T -> Nat] BY <1>6 DEF MovedComponents, Default
<1>9. g = UpdatePolyType(f, id, T) BY <1>1 DEF AddTypes, Entry
<1>10. CASE T = O
  <2>1. g = f BY <1>9, <1>10 DEF UpdatePolyType, Entry
  <2>2. components = old BY <1>6, <1>10 DEF MovedComponents
  <2>3. \A j \in DOMAIN f.m_entries : SamePoly(f, f, j) BY DEF SamePoly
  <2>4. ComponentsBy(f, f, id, O, old) BY <2>3 DEF ComponentsBy, Entry, PolyOf
  <2> QED BY <1>1, <1>7, <1>10, <2>1, <2>2, <2>4 DEF Entry, PolyOf
<1>11. CASE T # O
  <2>1. PICK a : a = NewAddress(f) OBVIOUS
  <2>2. PICK k : k = AllocatePoly(f, T, components) OBVIOUS
  <2>3. PICK h : h = DeallocatePoly(k, O, b) OBVIOUS
  <2>4. PICK new : new = [type_id |-> T, header |-> a, refcount |-> f.m_entries[id].refcount] OBVIOUS
  <2>5. PICK entries : entries = [f.m_entries EXCEPT ![id] = new] OBVIOUS
  <2>6. Added(f, k, T, a, components) BY <1>4, <1>7, <1>8, <2>1, <2>2, AllocatePolyAdds
  <2>7. /\ BlocksOK(k) /\ a \in Nat \ DOMAIN f.heap
        /\ k.m_entries = f.m_entries /\ k.m_callbacks = f.m_callbacks
        /\ DOMAIN k.heap = DOMAIN f.heap \union {a}
        /\ k.heap[a].archetype = T /\ k.heap[a].components = components
        /\ \A c \in DOMAIN f.heap : k.heap[c] = f.heap[c]
    BY <2>6 DEF Added
  <2>8. b \in DOMAIN k.heap /\ O = k.heap[b].archetype BY <2>7, <1>5
  <2>9. h.m_entries = k.m_entries /\ Freed(k, h, {b})
    <3>1. BlocksOK(k) BY <2>7
    <3> HIDE DEF b, O
    <3> QED BY <3>1, <2>3, <2>8, DeallocatePolyFrees
  <2>10. BlocksOK(h) BY <2>7, <2>9, FreedIsOK
  <2>11. /\ DOMAIN h.heap = (DOMAIN f.heap \union {a}) \ {b}
         /\ \A c \in DOMAIN h.heap : h.heap[c] = k.heap[c]
         /\ h.m_callbacks = f.m_callbacks /\ h.m_entries = f.m_entries
         /\ h = [m_entries |-> h.m_entries, m_archetypes |-> h.m_archetypes,
                 m_callbacks |-> h.m_callbacks, heap |-> h.heap]
    BY <2>7, <2>9 DEF Freed
  <2>12. g = [h EXCEPT !.m_entries[id].type_id = T, !.m_entries[id].header = a]
    BY <1>9, <1>11, <2>1, <2>2, <2>3 DEF UpdatePolyType, Entry, PolyOf
  <2>13. /\ DOMAIN entries = DOMAIN f.m_entries
         /\ entries[id] = new
         /\ \A j \in DOMAIN f.m_entries \ {id} : entries[j] = f.m_entries[j]
         /\ entries = [j \in DOMAIN entries |-> entries[j]]
    BY <1>2, <2>5
  <2>14. g = [h EXCEPT !.m_entries = entries]
    <3>1. f.m_entries[id] = [type_id |-> O, header |-> b, refcount |-> f.m_entries[id].refcount] BY <1>2, <1>3
    <3>2. new = [[f.m_entries[id] EXCEPT !.type_id = T] EXCEPT !.header = a]
      <4>1. PICK e : e = f.m_entries[id] OBVIOUS
      <4>2. PICK n : n = f.m_entries[id].refcount OBVIOUS
      <4> HIDE DEF b, O, T
      <4>3. e = [type_id |-> O, header |-> b, refcount |-> n] BY <3>1, <4>1, <4>2
      <4>4. PICK x : x = [e EXCEPT !.type_id = T] OBVIOUS
      <4>5. x = [type_id |-> T, header |-> b, refcount |-> n] BY <4>3, <4>4
      <4>6. [x EXCEPT !.header = a] = [type_id |-> T, header |-> a, refcount |-> n] BY <4>5
      <4> QED BY <4>1, <4>2, <4>4, <4>6, <2>4
    <3>3. entries = [[f.m_entries EXCEPT ![id].type_id = T] EXCEPT ![id].header = a]
      BY <3>2, <1>2, <2>5
    <3> QED BY ZenonT(60), <3>3, <2>11, <2>12
  <2>15. /\ g = [m_entries |-> entries, m_archetypes |-> h.m_archetypes,
                 m_callbacks |-> h.m_callbacks, heap |-> h.heap]
         /\ g.m_entries = entries /\ g.m_callbacks = f.m_callbacks /\ g.heap = h.heap
    BY <2>11, <2>14
  <2>16. new \in EntryType /\ new.type_id = T /\ new.header = a /\ new.refcount = f.m_entries[id].refcount
    BY <1>2, <1>3, <1>7, <2>4, <2>7 DEF EntryType
  <2>17. entries \in [DOMAIN entries -> EntryType]
    <3>1. \A j \in DOMAIN f.m_entries : f.m_entries[j] \in EntryType BY <1>4 DEF BlocksOK, FactoryType
    <3> QED BY <3>1, <2>13, <2>16
  <2>18. BlocksOK(g) BY <2>10, <2>15, <2>17, EntriesChange
  <2>19. \A j \in DOMAIN f.m_entries \ {id} :
           /\ f.m_entries[j].header \in DOMAIN h.heap /\ f.m_entries[j].header # a
           /\ h.heap[f.m_entries[j].header] = f.heap[f.m_entries[j].header]
           /\ h.heap[f.m_entries[j].header].archetype = f.m_entries[j].type_id
           /\ g.m_entries[j] = f.m_entries[j]
    <3>1. TAKE j \in DOMAIN f.m_entries \ {id}
    <3>2. /\ f.m_entries[j].header \in DOMAIN f.heap /\ f.m_entries[j].header # b
          /\ f.heap[f.m_entries[j].header].archetype = f.m_entries[j].type_id
      BY <1>2, <1>4 DEF BlocksOwned, Entry, PolyOf
    <3> QED BY <3>2, <2>7, <2>11, <2>13, <2>15
  <2>20. /\ g.m_entries[id] = new /\ DOMAIN g.m_entries = DOMAIN f.m_entries
         /\ a \in DOMAIN h.heap /\ h.heap[a].archetype = T /\ h.heap[a].components = components
    BY <1>5, <2>7, <2>11, <2>13, <2>15
  <2>21. BlocksOwned(g)
    <3>1. ASSUME NEW j \in DOMAIN g.m_entries
          PROVE  /\ g.m_entries[j].header \in DOMAIN h.heap
                 /\ h.heap[g.m_entries[j].header].archetype = g.m_entries[j].type_id
      <4>1. CASE j = id BY <4>1, <2>16, <2>20
      <4>2. CASE j # id BY <4>2, <2>19, <2>20
      <4> QED BY <4>1, <4>2
    <3>2. ASSUME NEW i \in DOMAIN g.m_entries, NEW j \in DOMAIN g.m_entries, i # j
          PROVE  g.m_entries[i].header # g.m_entries[j].header
      <4>1. CASE i = id
        <5>1. g.m_entries[j] = f.m_entries[j] /\ f.m_entries[j].header # a BY <4>1, <3>2, <2>19, <2>20
        <5> QED BY <4>1, <5>1, <2>16, <2>20
      <4>2. CASE j = id
        <5>1. g.m_entries[i] = f.m_entries[i] /\ f.m_entries[i].header # a BY <4>2, <3>2, <2>19, <2>20
        <5> QED BY <4>2, <5>1, <2>16, <2>20
      <4>3. CASE i # id /\ j # id
        <5>1. i \in DOMAIN f.m_entries /\ j \in DOMAIN f.m_entries BY <2>20
        <5>2. f.m_entries[i].header # f.m_entries[j].header BY <5>1, <3>2, <1>4 DEF BlocksOwned, Entry
        <5> QED BY <4>3, <5>1, <5>2, <2>19
      <4> QED BY <4>1, <4>2, <4>3
    <3>3. DOMAIN f.heap = {f.m_entries[j].header : j \in DOMAIN f.m_entries} BY <1>4 DEF BlocksOwned, Entry
    <3>4. DOMAIN h.heap = {g.m_entries[j].header : j \in DOMAIN g.m_entries}
      <4>1. ASSUME NEW c \in DOMAIN h.heap PROVE \E j \in DOMAIN g.m_entries : c = g.m_entries[j].header
        <5>1. CASE c = a BY <5>1, <1>2, <2>16, <2>20
        <5>2. CASE c # a
          <6>1. c \in DOMAIN f.heap /\ c # b BY <5>2, <2>11
          <6>2. PICK j \in DOMAIN f.m_entries : c = f.m_entries[j].header BY <6>1, <3>3
          <6>3. j # id BY <6>1, <6>2
          <6> QED BY <6>2, <6>3, <2>19, <2>20
        <5> QED BY <5>1, <5>2
      <4>2. \A j \in DOMAIN g.m_entries : g.m_entries[j].header \in DOMAIN h.heap BY <3>1
      <4> QED BY <4>1, <4>2
    <3> QED BY <3>1, <3>2, <3>4, <2>15 DEF BlocksOwned, Entry, PolyOf
  <2>22. ASSUME NEW j \in DOMAIN f.m_entries \ {id} PROVE SamePoly(f, g, j)
    BY <2>15, <2>19 DEF SamePoly, Entry, PolyOf
  <2>23. ASSUME NEW j PROVE Refcount(g, j) = Refcount(f, j)
    <3>1. CASE j = id BY <3>1, <1>2, <2>16, <2>20 DEF Refcount, Exists, Entry
    <3>2. CASE j # id BY <3>2, <2>19, <2>20 DEF Refcount, Exists, Entry
    <3> QED BY <3>1, <3>2
  <2>24. Entry(g, id).type_id = T /\ PolyOf(g, id).components = components
    BY <2>15, <2>16, <2>20 DEF Entry, PolyOf
  <2>25. ComponentsBy(f, g, id, T, components)
    BY <2>15, <2>18, <2>20, <2>21, <2>22, <2>23, <2>24 DEF ComponentsBy, FactoryOK
  <2> QED BY <1>1, <1>7, <2>25 DEF Entry, PolyOf
<1> QED BY <1>10, <1>11

(* g is f without the entries that have no Refs. *)
CleanedBy(f, g) ==
    /\ FactoryOK(g)
    /\ g.m_callbacks = f.m_callbacks
    /\ DOMAIN g.m_entries = {j \in DOMAIN f.m_entries : Entry(f, j).refcount # 0}
    /\ \A j \in DOMAIN g.m_entries : SamePoly(f, g, j)
    /\ \A j : Refcount(g, j) = Refcount(f, j)

(* Cleanup removes the entries without Refs and keeps the others as they are. *)
LEMMA CleanupCleans ==
    ASSUME NEW f, FactoryOK(f)
    PROVE  CleanedBy(f, Cleanup(f))
<1> DEFINE gone == Unreferenced(f)
           freed == {Entry(f, id).header : id \in gone}
           Left(t) == f.m_archetypes[t].refcount - Cardinality(f.m_archetypes[t].polys \intersect freed)
<1>1. PICK g : g = Cleanup(f) OBVIOUS
<1>2. PICK entries : entries = Without(f.m_entries, gone) OBVIOUS
<1>3. PICK heap : heap = Without(f.heap, freed) OBVIOUS
<1>4. PICK archetypes :
        archetypes = [t \in {u \in DOMAIN f.m_archetypes : Left(u) > 0} |->
                        [f.m_archetypes[t] EXCEPT !.refcount = Left(t), !.polys = @ \ freed]]
  OBVIOUS
<1>5. f = [m_entries |-> f.m_entries, m_archetypes |-> f.m_archetypes,
           m_callbacks |-> f.m_callbacks, heap |-> f.heap]
  BY RecordForm
<1>6. g = [f EXCEPT !.m_entries = entries, !.heap = heap, !.m_archetypes = archetypes]
  BY <1>1, <1>2, <1>3, <1>4 DEF Cleanup, DestroyPolys
<1>7. /\ g = [m_entries |-> entries, m_archetypes |-> archetypes,
              m_callbacks |-> f.m_callbacks, heap |-> heap]
      /\ g.m_entries = entries /\ g.m_archetypes = archetypes
      /\ g.m_callbacks = f.m_callbacks /\ g.heap = heap
      /\ g = [m_entries |-> g.m_entries, m_archetypes |-> g.m_archetypes,
              m_callbacks |-> g.m_callbacks, heap |-> g.heap]
  <2>1. PICK x : x = [f EXCEPT !.m_entries = entries] OBVIOUS
  <2>2. PICK y : y = [x EXCEPT !.heap = heap] OBVIOUS
  <2>3. g = [y EXCEPT !.m_archetypes = archetypes] BY <1>6, <2>1, <2>2
  <2>4. x = [m_entries |-> entries, m_archetypes |-> f.m_archetypes,
             m_callbacks |-> f.m_callbacks, heap |-> f.heap]
    BY <1>5, <2>1
  <2>5. y = [m_entries |-> entries, m_archetypes |-> f.m_archetypes,
             m_callbacks |-> f.m_callbacks, heap |-> heap]
    BY <2>2, <2>4
  <2>6. g = [m_entries |-> entries, m_archetypes |-> archetypes,
             m_callbacks |-> f.m_callbacks, heap |-> heap]
    BY <2>3, <2>5
  <2> QED BY <2>6
<1>8. BlocksOK(f) /\ BlocksOwned(f) BY DEF FactoryOK
<1>9. gone \subseteq DOMAIN f.m_entries /\ \A j \in DOMAIN f.m_entries : j \in gone <=> Entry(f, j).refcount = 0
  BY DEF Unreferenced
<1> HIDE DEF gone
<1>10. /\ DOMAIN entries = DOMAIN f.m_entries \ gone
       /\ \A j \in DOMAIN entries : entries[j] = f.m_entries[j]
       /\ entries = [j \in DOMAIN entries |-> entries[j]]
  BY <1>2 DEF Without
<1>11. /\ heap = [b \in DOMAIN f.heap \ freed |-> f.heap[b]]
       /\ DOMAIN heap = DOMAIN f.heap \ freed
       /\ \A b \in DOMAIN heap : heap[b] = f.heap[b]
  BY <1>3 DEF Without
<1>12. entries \in [DOMAIN entries -> EntryType]
  <2>1. \A j \in DOMAIN f.m_entries : f.m_entries[j] \in EntryType BY <1>8 DEF BlocksOK, FactoryType
  <2> QED BY <2>1, <1>10
<1>13. \A j \in DOMAIN entries :
         /\ f.m_entries[j].header \in DOMAIN heap
         /\ f.heap[f.m_entries[j].header].archetype = f.m_entries[j].type_id
         /\ heap[f.m_entries[j].header] = f.heap[f.m_entries[j].header]
  <2>1. TAKE j \in DOMAIN entries
  <2>2. j \in DOMAIN f.m_entries /\ j \notin gone BY <1>10
  <2>3. /\ f.m_entries[j].header \in DOMAIN f.heap
        /\ f.heap[f.m_entries[j].header].archetype = f.m_entries[j].type_id
    BY <2>2, <1>8 DEF BlocksOwned, Entry, PolyOf
  <2>4. f.m_entries[j].header \notin freed
    <3>1. SUFFICES ASSUME NEW i \in gone, f.m_entries[j].header = f.m_entries[i].header PROVE FALSE
      BY DEF Entry
    <3>2. i \in DOMAIN f.m_entries /\ i # j BY <1>9, <2>2
    <3> QED BY <3>1, <3>2, <2>2, <1>8 DEF BlocksOwned, Entry
  <2> QED BY <2>3, <2>4, <1>11
<1>14. \A b \in DOMAIN f.heap : b \in freed \/ \E j \in DOMAIN entries : b = f.m_entries[j].header
  <2>1. TAKE b \in DOMAIN f.heap
  <2>2. PICK j \in DOMAIN f.m_entries : b = f.m_entries[j].header BY <1>8 DEF BlocksOwned, Entry
  <2>3. CASE j \in gone BY <2>2, <2>3 DEF Entry
  <2>4. CASE j \notin gone BY <2>2, <2>4, <1>10
  <2> QED BY <2>3, <2>4
<1> HIDE DEF freed
<1>15. ASSUME NEW t \in DOMAIN f.m_archetypes
       PROVE  LET P == f.m_archetypes[t].polys
              IN  /\ Left(t) = Cardinality(P \ freed) /\ Left(t) \in Nat
                  /\ Left(t) > 0 <=> P \ freed # {}
  <2>1. PICK P : P = f.m_archetypes[t].polys OBVIOUS
  <2>2. P = {b \in DOMAIN f.heap : f.heap[b].archetype = t} /\ f.m_archetypes[t].refcount = Cardinality(P)
    BY <2>1, <1>8 DEF BlocksOK, BlocksListed
  <2>3. IsFiniteSet(P)
    <3>1. IsFiniteSet(DOMAIN f.heap) BY <1>8 DEF BlocksOK, FactoryType
    <3>2. P \in SUBSET DOMAIN f.heap BY <2>2
    <3> QED BY <3>1, <3>2, FS_Subset
  <2>4. /\ IsFiniteSet(P \ freed)
        /\ Cardinality(P \ freed) = Cardinality(P) - Cardinality(P \intersect freed)
    BY <2>3, FS_Difference
  <2>5. Cardinality(P \ freed) \in Nat BY <2>4, FS_CardinalityType
  <2>6. Cardinality(P \ freed) = 0 <=> P \ freed = {} BY <2>4, FS_EmptySet
  <2>7. Left(t) = Cardinality(P \ freed) BY <2>1, <2>2, <2>4
  <2>8. Left(t) > 0 <=> P \ freed # {} BY <2>5, <2>6, <2>7
  <2> QED BY <2>1, <2>5, <2>7, <2>8
<1> HIDE DEF Left
<1>16. /\ DOMAIN archetypes = {u \in DOMAIN f.m_archetypes : Left(u) > 0}
       /\ \A t \in DOMAIN archetypes :
            archetypes[t] = [f.m_archetypes[t] EXCEPT !.refcount = Left(t), !.polys = @ \ freed]
       /\ archetypes = [t \in DOMAIN archetypes |-> archetypes[t]]
  BY <1>4
<1>17. ASSUME NEW t \in DOMAIN archetypes
       PROVE  /\ archetypes[t] \in ArchetypeType
              /\ archetypes[t].polys = f.m_archetypes[t].polys \ freed
              /\ archetypes[t].refcount = Cardinality(f.m_archetypes[t].polys \ freed)
              /\ archetypes[t].callbacks = f.m_archetypes[t].callbacks
  <2>1. PICK o : o = f.m_archetypes[t] OBVIOUS
  <2>2. PICK n : n = Left(t) OBVIOUS
  <2>3. t \in DOMAIN f.m_archetypes /\ archetypes[t] = [o EXCEPT !.refcount = n, !.polys = o.polys \ freed]
    BY <1>16, <2>1, <2>2
  <2>4. o \in ArchetypeType BY <2>1, <2>3, <1>8 DEF BlocksOK, FactoryType
  <2>5. /\ o.refcount \in Nat /\ o.polys \in SUBSET Nat /\ o.callbacks \in Seq(Listener)
        /\ o = [refcount |-> o.refcount, polys |-> o.polys, callbacks |-> o.callbacks]
    BY <2>4 DEF ArchetypeType
  <2>6. PICK Q : Q = o.polys \ freed OBVIOUS
  <2>7. PICK x : x = [o EXCEPT !.refcount = n] OBVIOUS
  <2>8. x = [refcount |-> n, polys |-> o.polys, callbacks |-> o.callbacks] BY <2>5, <2>7
  <2>9. [x EXCEPT !.polys = Q] = [refcount |-> n, polys |-> Q, callbacks |-> o.callbacks] BY <2>8
  <2>10. archetypes[t] = [refcount |-> n, polys |-> Q, callbacks |-> o.callbacks]
    BY <2>3, <2>6, <2>7, <2>9
  <2>11. n \in Nat /\ n = Cardinality(Q) BY <2>1, <2>2, <2>3, <2>6, <1>15
  <2>12. Q \in SUBSET Nat BY <2>5, <2>6
  <2>13. archetypes[t] \in ArchetypeType BY <2>5, <2>10, <2>11, <2>12 DEF ArchetypeType
  <2> QED BY <2>1, <2>6, <2>10, <2>11, <2>13
<1>18. Freed(f, g, freed)
  <2>1. archetypes \in [DOMAIN archetypes -> ArchetypeType] BY <1>16, <1>17
  <2>2. \A t \in DOMAIN f.m_archetypes : t \in DOMAIN archetypes <=> f.m_archetypes[t].polys \ freed # {}
    BY <1>15, <1>16
  <2>3. DOMAIN archetypes \subseteq DOMAIN f.m_archetypes BY <1>16
  <2> QED BY <2>1, <2>2, <2>3, <1>7, <1>11, <1>12, <1>17 DEF Freed
<1>19. BlocksOK(g) BY <1>8, <1>18, FreedIsOK
<1>20. BlocksOwned(g)
  <2>1. \A j \in DOMAIN entries : entries[j].header \in DOMAIN heap /\ heap[entries[j].header].archetype = entries[j].type_id
    BY <1>10, <1>13
  <2>2. \A i, j \in DOMAIN entries : i # j => entries[i].header # entries[j].header
    BY <1>8, <1>10 DEF BlocksOwned, Entry
  <2>3. \A b \in DOMAIN heap : \E j \in DOMAIN entries : b = entries[j].header
    BY <1>10, <1>11, <1>14
  <2>4. DOMAIN heap = {entries[j].header : j \in DOMAIN entries} BY <2>1, <2>3
  <2> QED BY <2>1, <2>2, <2>4, <1>7 DEF BlocksOwned, Entry, PolyOf
<1>21. DOMAIN g.m_entries = {j \in DOMAIN f.m_entries : Entry(f, j).refcount # 0} BY <1>7, <1>9, <1>10
<1>22. \A j \in DOMAIN g.m_entries : SamePoly(f, g, j)
  BY <1>7, <1>10, <1>13 DEF SamePoly, Entry, PolyOf
<1>23. ASSUME NEW j PROVE Refcount(g, j) = Refcount(f, j)
  <2>1. CASE j \in DOMAIN g.m_entries
    <3>1. j \in DOMAIN f.m_entries /\ g.m_entries[j] = f.m_entries[j] BY <2>1, <1>7, <1>10
    <3> QED BY <2>1, <3>1 DEF Refcount, Exists, Entry
  <2>2. CASE j \notin DOMAIN g.m_entries BY <2>2, <1>21 DEF Refcount, Exists
  <2> QED BY <2>1, <2>2
<1>24. CleanedBy(f, g) BY <1>7, <1>19, <1>20, <1>21, <1>22, <1>23 DEF CleanedBy, FactoryOK
<1> QED BY <1>1, <1>24

(* AddCallback reaches every archetype that has the components of the callback. *)
LEMMA AddCallbackAdds ==
    ASSUME NEW f, FactoryOK(f), NEW l \in Listener, l \notin f.m_callbacks,
           NEW g, g = AddCallback(f, l)
    PROVE  /\ FactoryOK(g)
           /\ g.m_entries = f.m_entries /\ g.heap = f.heap
           /\ g.m_callbacks = f.m_callbacks \union {l}
<1>1. PICK callbacks : callbacks = f.m_callbacks \union {l} OBVIOUS
<1>2. PICK archetypes :
        archetypes = [t \in DOMAIN f.m_archetypes |->
                        IF ListensTo[l] \subseteq t
                          THEN [f.m_archetypes[t] EXCEPT !.callbacks = Append(@, l)] ELSE f.m_archetypes[t]]
  OBVIOUS
<1>3. f = [m_entries |-> f.m_entries, m_archetypes |-> f.m_archetypes,
           m_callbacks |-> f.m_callbacks, heap |-> f.heap]
  BY RecordForm
<1>4. g = [f EXCEPT !.m_callbacks = callbacks, !.m_archetypes = archetypes]
  BY <1>1, <1>2 DEF AddCallback
<1>5. /\ g = [m_entries |-> f.m_entries, m_archetypes |-> archetypes,
              m_callbacks |-> callbacks, heap |-> f.heap]
      /\ g.m_entries = f.m_entries /\ g.m_archetypes = archetypes
      /\ g.m_callbacks = callbacks /\ g.heap = f.heap
  <2>1. PICK x : x = [f EXCEPT !.m_callbacks = callbacks] OBVIOUS
  <2>2. x = [m_entries |-> f.m_entries, m_archetypes |-> f.m_archetypes,
             m_callbacks |-> callbacks, heap |-> f.heap]
    BY <1>3, <2>1
  <2>3. g = [x EXCEPT !.m_archetypes = archetypes] BY <1>4, <2>1
  <2> QED BY <2>2, <2>3
<1>6. BlocksOwned(f) /\ FactoryType(f) /\ BlocksListed(f) /\ CallsAll(f) BY DEF FactoryOK, BlocksOK
<1>7. /\ DOMAIN archetypes = DOMAIN f.m_archetypes
      /\ archetypes = [t \in DOMAIN archetypes |-> archetypes[t]]
  BY <1>2
<1>8. ASSUME NEW t \in DOMAIN archetypes
      PROVE  /\ archetypes[t] \in ArchetypeType
             /\ archetypes[t].polys = f.m_archetypes[t].polys
             /\ archetypes[t].refcount = f.m_archetypes[t].refcount
             /\ Range(archetypes[t].callbacks) = {m \in callbacks : ListensTo[m] \subseteq t}
             /\ IsInjective(archetypes[t].callbacks)
  <2>1. PICK o : o = f.m_archetypes[t] OBVIOUS
  <2>2. o \in ArchetypeType BY <2>1, <1>6, <1>7 DEF FactoryType
  <2>3. /\ o.refcount \in Nat /\ o.polys \in SUBSET Nat /\ o.callbacks \in Seq(Listener)
        /\ o = [refcount |-> o.refcount, polys |-> o.polys, callbacks |-> o.callbacks]
    BY <2>2 DEF ArchetypeType
  <2>4. PICK s : s = o.callbacks OBVIOUS
  <2>5. Range(s) = {m \in f.m_callbacks : ListensTo[m] \subseteq t} /\ IsInjective(s)
    BY <2>1, <2>4, <1>6, <1>7 DEF CallsAll
  <2>6. CASE ListensTo[l] \subseteq t
    <3> DEFINE r == Append(s, l)
               n == Len(s)
    <3>1. archetypes[t] = [o EXCEPT !.callbacks = r] BY <2>1, <2>4, <2>6, <1>2, <1>7
    <3>2. s \in Seq(Listener) /\ r \in Seq(Listener) BY <2>3, <2>4, AppendProperties
    <3>3. /\ DOMAIN s = 1 .. n /\ n \in Nat /\ DOMAIN r = 1 .. n + 1
          /\ r[n + 1] = l /\ \A i \in 1 .. n : r[i] = s[i]
      <4>1. ListOf(s, n) BY <3>2, ListHas
      <4>2. Len(r) = n + 1 /\ r[n + 1] = l /\ \A i \in 1 .. n : r[i] = s[i] BY <3>2, AppendProperties
      <4>3. ListOf(r, n + 1) BY <3>2, <4>2, ListHas
      <4> QED BY <4>1, <4>2, <4>3 DEF ListOf
    <3> HIDE DEF r, n
    <3>4. archetypes[t] = [refcount |-> o.refcount, polys |-> o.polys, callbacks |-> r] BY <3>1, <2>3
    <3>5. archetypes[t] \in ArchetypeType BY <3>2, <3>4, <2>3 DEF ArchetypeType
    <3>6. \A i \in 1 .. n : s[i] # l
      <4>1. \A i \in 1 .. n : s[i] \in f.m_callbacks BY <2>5, <3>3 DEF Range
      <4> QED BY <4>1
    <3>7. IsInjective(r)
      <4>1. SUFFICES ASSUME NEW i \in 1 .. n + 1, NEW j \in 1 .. n + 1, r[i] = r[j] PROVE i = j
        BY <3>3 DEF IsInjective
      <4>2. CASE i = n + 1
        <5>1. CASE j = n + 1 BY <4>2, <5>1
        <5>2. CASE j # n + 1
          <6>1. j \in 1 .. n BY <5>2, <3>3
          <6> QED BY <4>1, <4>2, <6>1, <3>3, <3>6
        <5> QED BY <5>1, <5>2
      <4>3. CASE i # n + 1
        <5>1. i \in 1 .. n BY <4>3, <3>3
        <5>2. j # n + 1 BY <4>1, <5>1, <3>3, <3>6
        <5>3. j \in 1 .. n BY <5>2, <3>3
        <5>4. s[i] = s[j] BY <4>1, <5>1, <5>3, <3>3
        <5> QED BY <5>1, <5>3, <5>4, <2>5, <3>3 DEF IsInjective
      <4> QED BY <4>2, <4>3
    <3>8. Range(r) = Range(s) \union {l}
      <4>1. 1 .. n + 1 = 1 .. n \union {n + 1} BY <3>3
      <4> QED BY <4>1, <3>3 DEF Range
    <3>9. Range(r) = {m \in callbacks : ListensTo[m] \subseteq t} BY <3>8, <2>5, <2>6, <1>1
    <3> QED BY <3>4, <3>5, <3>7, <3>9, <2>1
  <2>7. CASE ~(ListensTo[l] \subseteq t)
    <3>1. archetypes[t] = o BY <2>1, <2>7, <1>2, <1>7
    <3>2. {m \in callbacks : ListensTo[m] \subseteq t} = {m \in f.m_callbacks : ListensTo[m] \subseteq t}
      BY <2>7, <1>1
    <3> QED BY <3>1, <3>2, <2>1, <2>2, <2>4, <2>5
  <2> QED BY <2>6, <2>7
<1>9. FactoryType(g)
  <2>1. archetypes \in [DOMAIN archetypes -> ArchetypeType] BY <1>7, <1>8
  <2>2. callbacks \subseteq Listener BY <1>1, <1>6 DEF FactoryType
  <2> QED BY <2>1, <2>2, <1>5, <1>6, <1>7 DEF FactoryType
<1>10. BlocksListed(g) BY <1>5, <1>6, <1>7, <1>8 DEF BlocksListed
<1>11. CallsAll(g) BY <1>5, <1>8 DEF CallsAll
<1>12. BlocksOwned(g) BY <1>5, <1>6 DEF BlocksOwned, Entry, PolyOf
<1> QED BY <1>1, <1>5, <1>9, <1>10, <1>11, <1>12 DEF FactoryOK, BlocksOK

(* A new factory is in order. *)
LEMMA NewFactoryOK ==
    /\ FactoryOK(NewFactory)
    /\ DOMAIN NewFactory.m_entries = {} /\ NewFactory.m_callbacks = {}
<1>1. PICK e : e = <<>> OBVIOUS
<1>2. DOMAIN e = {} /\ \A S : e \in [{} -> S] BY <1>1
<1>3. /\ NewFactory = [m_entries |-> e, m_archetypes |-> e, m_callbacks |-> {}, heap |-> e]
      /\ NewFactory.m_entries = e /\ NewFactory.m_archetypes = e
      /\ NewFactory.m_callbacks = {} /\ NewFactory.heap = e
  BY <1>1 DEF NewFactory
<1>4. FactoryType(NewFactory)
  <2>1. IsFiniteSet({}) BY FS_EmptySet
  <2>2. e = [a \in DOMAIN e |-> [archetype |-> e[a].archetype, components |-> e[a].components]] BY <1>2
  <2> QED BY <1>2, <1>3, <2>1, <2>2 DEF FactoryType
<1>5. BlocksListed(NewFactory) BY <1>2, <1>3 DEF BlocksListed
<1>6. CallsAll(NewFactory) BY <1>2, <1>3 DEF CallsAll
<1>7. BlocksOwned(NewFactory) BY <1>2, <1>3 DEF BlocksOwned
<1> QED BY <1>2, <1>3, <1>4, <1>5, <1>6, <1>7 DEF FactoryOK, BlocksOK

-----------------------------------------------------------------------------
(* The Refs to an entity.                                                    *)

LoadRefs(id)     == Cardinality(Listed(load_commands, id))
UnloadRefs(id)   == Cardinality(Listed(unload_commands, id))
UpdatingRefs(id) == Cardinality(Places(updating_entities, id))
TaskCount(tasks, id) == Cardinality({t \in Task : tasks[t].id = id})
TaskRefs(id)     == TaskCount(task, id)

(* The Refs to an entity, by where they are. *)
LEMMA RefsToIs ==
    ASSUME NEW id
    PROVE  RefsTo(id) = LoadRefs(id) + UnloadRefs(id) + UpdatingRefs(id) + One(entity = id) + One(debug = id)
                        + nodes[id] + TaskRefs(id)
BY DEF RefsTo, LoadRefs, UnloadRefs, UpdatingRefs, TaskCount, TaskRefs

(* The count of a single reference. *)
LEMMA OneIs ==
    ASSUME NEW a, NEW b
    PROVE  /\ One(a = b) \in Nat
           /\ a = b => One(a = b) = 1
           /\ a # b => One(a = b) = 0
BY DEF One

TasksBy(tasks, new, t, r, id) ==
    /\ TaskCount(tasks, id) \in Nat /\ TaskCount(new, id) \in Nat
    /\ TaskCount(new, id) + One(tasks[t].id = id) = TaskCount(tasks, id) + One(r.id = id)

(* What a change of one task does to the number of tasks with an entity. *)
LEMMA TaskChange ==
    ASSUME NEW tasks, NEW t \in Task, NEW r, tasks \in [Task -> {IdleTask} \union [at : {"load", "node", "end"}, id : UUID]],
           NEW new, new = [tasks EXCEPT ![t] = r], NEW id
    PROVE  TasksBy(tasks, new, t, r, id)
<1> DEFINE A == {u \in Task : tasks[u].id = id}
           B == {u \in Task : new[u].id = id}
<1>1. IsFiniteSet(Task) BY SimulationAssumption DEF SimulationAssumption
<1>2. A \in SUBSET Task /\ B \in SUBSET Task OBVIOUS
<1>3. /\ IsFiniteSet(A) /\ IsFiniteSet(B)
      /\ Cardinality(A) \in Nat /\ Cardinality(B) \in Nat
  BY <1>1, <1>2, FS_Subset, FS_CardinalityType
<1>4. new[t] = r /\ \A u \in Task \ {t} : new[u] = tasks[u] OBVIOUS
<1>5. A \ {t} = B \ {t} BY <1>4
<1>6. t \in A <=> tasks[t].id = id OBVIOUS
<1>7. t \in B <=> r.id = id BY <1>4
<1>8. TaskCount(tasks, id) = Cardinality(A) /\ TaskCount(new, id) = Cardinality(B) BY DEF TaskCount
<1> HIDE DEF A, B
<1>9. Cardinality(A \ {t}) = IF t \in A THEN Cardinality(A) - 1 ELSE Cardinality(A) BY <1>3, FS_RemoveElement
<1>10. Cardinality(B \ {t}) = IF t \in B THEN Cardinality(B) - 1 ELSE Cardinality(B) BY <1>3, FS_RemoveElement
<1>11. Cardinality(A \ {t}) = Cardinality(B \ {t}) BY <1>5
<1>12. Cardinality(A) = Cardinality(A \ {t}) + One(tasks[t].id = id)
  BY <1>3, <1>6, <1>9 DEF One
<1>13. Cardinality(B) = Cardinality(B \ {t}) + One(r.id = id)
  BY <1>3, <1>7, <1>10 DEF One
<1>14. Cardinality(A \ {t}) \in Nat BY <1>3, FS_RemoveElement, FS_CardinalityType
<1>15. One(tasks[t].id = id) \in Nat /\ One(r.id = id) \in Nat BY OneIs
<1>16. Cardinality(B) + One(tasks[t].id = id) = Cardinality(A) + One(r.id = id)
  BY ONLY <1>11, <1>12, <1>13, <1>14, <1>15
<1> QED BY <1>3, <1>8, <1>16 DEF TasksBy

(* Every term of the sum of Refs is a number. *)
LEMMA TermsCounted ==
    ASSUME TypeOK, NEW id \in UUID
    PROVE  /\ LoadRefs(id) \in Nat /\ UnloadRefs(id) \in Nat /\ UpdatingRefs(id) \in Nat
           /\ One(entity = id) \in Nat /\ One(debug = id) \in Nat
           /\ nodes[id] \in Nat /\ TaskRefs(id) \in Nat
           /\ RefsTo(id) \in Nat
<1>1. PICK c \in Context : TRUE BY SimulationAssumption DEF SimulationAssumption
<1>2. Lists(load_commands, UUID) /\ Lists(unload_commands, UUID \union {Null}) BY DEF TypeOK, Lists
<1>3. LoadRefs(id) \in Nat BY <1>1, <1>2, ListedCounted DEF LoadRefs
<1>4. UnloadRefs(id) \in Nat BY <1>1, <1>2, ListedCounted DEF UnloadRefs
<1>5. UpdatingRefs(id) \in Nat BY PlacesCounted DEF TypeOK, UpdatingRefs
<1>6. TaskRefs(id) \in Nat
  <2>1. IsFiniteSet(Task) BY SimulationAssumption DEF SimulationAssumption
  <2>2. {t \in Task : task[t].id = id} \in SUBSET Task OBVIOUS
  <2>3. IsFiniteSet({t \in Task : task[t].id = id}) BY <2>1, <2>2, FS_Subset
  <2> QED BY <2>3, FS_CardinalityType DEF TaskRefs, TaskCount
<1>7. One(entity = id) \in Nat /\ One(debug = id) \in Nat BY OneIs
<1>8. nodes[id] \in Nat BY DEF TypeOK
<1> QED BY <1>3, <1>4, <1>5, <1>6, <1>7, <1>8, RefsToIs

(* A list of some context has the entity. *)
LEMMA ListedSome ==
    ASSUME NEW S, NEW L, Lists(L, S), NEW id
    PROVE  Listed(L, id) # {} <=> Cardinality(Listed(L, id)) > 0
<1>1. PICK c \in Context : TRUE BY SimulationAssumption DEF SimulationAssumption
<1>2. IsFiniteSet(Listed(L, id)) /\ Cardinality(Listed(L, id)) \in Nat BY ListedCounted
<1>3. Cardinality(Listed(L, id)) = 0 <=> Listed(L, id) = {} BY <1>2, FS_EmptySet
<1> QED BY <1>2, <1>3

(* The entity of the next command of a context is listed. *)
LEMMA ListedHead ==
    ASSUME NEW S, NEW L, Lists(L, S), NEW c \in Context, L[c] # <<>>
    PROVE  Head(L[c]) \in S /\ Cardinality(Listed(L, Head(L[c]))) > 0
<1> DEFINE id == Head(L[c])
<1>1. L[c] \in Seq(S) BY DEF Lists
<1>2. id \in S /\ Cardinality(Places(L[c], id)) > 0 BY <1>1, PlacesHead
<1> HIDE DEF id
<1>3. /\ Cardinality(Elsewhere(L, c, id)) \in Nat
      /\ Cardinality(Places(L[c], id)) \in Nat
      /\ Cardinality(Listed(L, id)) = Cardinality(Places(L[c], id)) + Cardinality(Elsewhere(L, c, id))
  BY ListedCounted
<1> QED BY <1>2, <1>3 DEF id

(* The counts of entities are right. *)
LEMMA RefsCountedIff ==
    RefsCounted <=> \A id \in UUID : Refcount(factory, id) = RefsTo(id)
<1>1. ASSUME NEW id \in UUID
      PROVE  (IF Exists(factory, id) THEN Entry(factory, id).refcount = RefsTo(id) ELSE RefsTo(id) = 0)
               <=> Refcount(factory, id) = RefsTo(id)
  BY DEF Refcount
<1> QED BY <1>1 DEF RefsCounted

(* The same of the next state. *)
LEMMA RefsCountedIffNext ==
    RefsCounted' <=> \A id \in UUID : Refcount(factory', id) = RefsTo(id)'
<1>1. ASSUME NEW id \in UUID
      PROVE  (IF Exists(factory', id) THEN Entry(factory', id).refcount = RefsTo(id)' ELSE RefsTo(id)' = 0)
               <=> Refcount(factory', id) = RefsTo(id)'
  BY DEF Refcount
<1> QED BY <1>1 DEF RefsCounted

-----------------------------------------------------------------------------
(* The parts of the invariant.                                               *)

EntriesUniverse ==
    \A id \in DOMAIN factory.m_entries : "CUniverse" \in Entry(factory, id).type_id <=> id = Universe

WorldsOK == WorldsLive /\ WorldsApart /\ EntriesUniverse

UniverseRest ==
    /\ phase # "initialize" => factory.m_callbacks = Listener
    /\ \A i \in DOMAIN universes : universes[i] = Universe
    /\ phase # "done" /\ (universes # <<>> \/ LoadRefs(Universe) > 0) => entity = Universe

TypesRest ==
    /\ phase \in Phase
    /\ DOMAIN factory.m_entries \subseteq UUID
    /\ Lists(load_commands, UUID) /\ Lists(unload_commands, UUID \union {Null})
    /\ updating_entities \in Seq(UUID)
    /\ universes \in Seq(UUID)
    /\ entity \in {Null, Universe} /\ debug \in {Null, Universe}
    /\ nodes \in [UUID -> Nat]
    /\ task \in [Task -> {IdleTask} \union [at : {"load", "node", "end"}, id : UUID \ {Universe}]]
    /\ worlds \in [DOMAIN worlds -> [unloading : BOOLEAN]]
    /\ DOMAIN worlds \subseteq Nat \ {Default} /\ IsFiniteSet(DOMAIN worlds)
    /\ unloading \in BOOLEAN

Parts == TypesRest /\ FactoryOK(factory) /\ RefsCounted /\ LeftOnlyQueued /\ WorldsOK /\ UniverseRest /\ NodesInv

(* The invariant is its parts. *)
LEMMA PartsOfInv == SimulationInv <=> Parts
<1>1. TypeOK <=> TypesRest /\ FactoryType(factory) BY DEF TypeOK, TypesRest, Lists
<1>2. FactoryConsistent <=> TypesRest /\ FactoryOK(factory)
  BY <1>1 DEF FactoryConsistent, Consistent, FactoryOK, BlocksOK
<1>3. TypesRest => (Listed(load_commands, Universe) # {} <=> LoadRefs(Universe) > 0)
  BY ListedSome DEF TypesRest, LoadRefs
<1>4. TypesRest => (UniverseInv <=> UniverseRest /\ EntriesUniverse)
  BY <1>3 DEF UniverseInv, UniverseRest, EntriesUniverse
<1> QED BY <1>2, <1>4 DEF SimulationInv, Parts, RefsExact, WorldsOK

(* The same of the next state. *)
LEMMA PartsOfInvNext == Parts' => SimulationInv'
<1>1. TypesRest' /\ FactoryType(factory') => TypeOK' BY DEF TypeOK, TypesRest, Lists
<1>2. TypesRest' /\ FactoryOK(factory') => FactoryConsistent'
  BY <1>1 DEF FactoryConsistent, Consistent, FactoryOK, BlocksOK
<1>3. TypesRest' => (Listed(load_commands', Universe) # {} <=> LoadRefs(Universe)' > 0)
  BY ListedSome DEF TypesRest, LoadRefs
<1>4. TypesRest' /\ UniverseRest' /\ EntriesUniverse' => UniverseInv'
  BY <1>3 DEF UniverseInv, UniverseRest, EntriesUniverse
<1> QED BY <1>2, <1>4 DEF SimulationInv, Parts, RefsExact, WorldsOK

(* Without the end of the simulation there is nothing to end clean. *)
LEMMA NotAtEnd == phase' # "done" => LeftOnlyQueued'
BY DEF LeftOnlyQueued

(* What the callbacks and the world of an entity depend on is the same.      *)
SameWorld(f, g, j) ==
    /\ "CUniverse" \in Entry(g, j).type_id <=> "CUniverse" \in Entry(f, j).type_id
    /\ "CWorld" \in Entry(g, j).type_id <=> "CWorld" \in Entry(f, j).type_id
    /\ "CWorld" \in Entry(f, j).type_id =>
          PolyOf(g, j).components["CWorld"] = PolyOf(f, j).components["CWorld"]

(* An entity as it is created. *)
Fresh(g, j) ==
    /\ "CUniverse" \in Entry(g, j).type_id <=> "CUniverse" \in TypesOf[j]
    /\ "CWorld" \in Entry(g, j).type_id => PolyOf(g, j).components["CWorld"] = Default

(* The same poly has the same world. *)
LEMMA SamePolySameWorld ==
    ASSUME NEW f, NEW g, NEW j, SamePoly(f, g, j)
    PROVE  SameWorld(f, g, j)
BY DEF SamePoly, SameWorld

OldOrFresh(f, g) ==
    \A j \in DOMAIN g.m_entries : \/ j \in DOMAIN f.m_entries /\ SameWorld(f, g, j)
                                  \/ j \in UUID /\ Fresh(g, j)

(* Entities stay or are fresh over two operations on the factory. *)
LEMMA OldOrFreshTwice ==
    ASSUME NEW f, NEW g, NEW h, OldOrFresh(f, g), OldOrFresh(g, h)
    PROVE  OldOrFresh(f, h)
<1>1. SUFFICES ASSUME NEW j \in DOMAIN h.m_entries
               PROVE  \/ j \in DOMAIN f.m_entries /\ SameWorld(f, h, j)
                      \/ j \in UUID /\ Fresh(h, j)
  BY DEF OldOrFresh
<1>2. CASE j \in UUID /\ Fresh(h, j) BY <1>2
<1>3. CASE j \in DOMAIN g.m_entries /\ SameWorld(g, h, j)
  <2>1. CASE j \in UUID /\ Fresh(g, j) BY <1>3, <2>1 DEF SameWorld, Fresh
  <2>2. CASE j \in DOMAIN f.m_entries /\ SameWorld(f, g, j) BY <1>3, <2>2 DEF SameWorld
  <2> QED BY <1>3, <2>1, <2>2 DEF OldOrFresh
<1> QED BY <1>2, <1>3 DEF OldOrFresh

(* No entity that stays changes its type. *)
SameTypes(f, g) ==
    \A j \in DOMAIN f.m_entries : Exists(g, j) => Entry(g, j).type_id = Entry(f, j).type_id

LiveWorldsStay ==
    \A w \in DOMAIN worlds : ~worlds[w].unloading => w \in DOMAIN worlds' /\ ~worlds'[w].unloading

(* Worlds stay in use when no entity gets another world and no world in use goes. *)
LEMMA WorldsStay ==
    ASSUME WorldsOK, OldOrFresh(factory, factory'), LiveWorldsStay
    PROVE  WorldsOK'
<1>1. ASSUME NEW j \in DOMAIN factory'.m_entries, HasWorld(j)'
      PROVE  j \in DOMAIN factory.m_entries /\ HasWorld(j) /\ WorldOf(j)' = WorldOf(j)
  <2>1. ~Fresh(factory', j) BY <1>1 DEF Fresh, HasWorld, WorldOf
  <2>2. j \in DOMAIN factory.m_entries /\ SameWorld(factory, factory', j) BY <2>1 DEF OldOrFresh
  <2> QED BY <1>1, <2>2 DEF SameWorld, HasWorld, WorldOf
<1>2. WorldsLive'
  <2>1. SUFFICES ASSUME NEW j \in DOMAIN factory'.m_entries, HasWorld(j)'
                 PROVE  WorldOf(j)' \in DOMAIN worlds' /\ ~worlds'[WorldOf(j)'].unloading
    BY DEF WorldsLive
  <2>2. j \in DOMAIN factory.m_entries /\ HasWorld(j) /\ WorldOf(j)' = WorldOf(j) BY <2>1, <1>1
  <2>3. WorldOf(j) \in DOMAIN worlds /\ ~worlds[WorldOf(j)].unloading BY <2>2 DEF WorldsOK, WorldsLive
  <2> QED BY <2>2, <2>3 DEF LiveWorldsStay
<1>3. WorldsApart'
  <2>1. SUFFICES ASSUME NEW i \in DOMAIN factory'.m_entries, NEW j \in DOMAIN factory'.m_entries,
                        HasWorld(i)', HasWorld(j)', i # j
                 PROVE  WorldOf(i)' # WorldOf(j)'
    BY DEF WorldsApart
  <2>2. i \in DOMAIN factory.m_entries /\ HasWorld(i) /\ WorldOf(i)' = WorldOf(i) BY <2>1, <1>1
  <2>3. j \in DOMAIN factory.m_entries /\ HasWorld(j) /\ WorldOf(j)' = WorldOf(j) BY <2>1, <1>1
  <2> QED BY <2>1, <2>2, <2>3 DEF WorldsOK, WorldsApart
<1>4. EntriesUniverse'
  <2>1. SUFFICES ASSUME NEW j \in DOMAIN factory'.m_entries
                 PROVE  "CUniverse" \in Entry(factory', j).type_id <=> j = Universe
    BY DEF EntriesUniverse
  <2>2. CASE j \in UUID /\ Fresh(factory', j)
    BY <2>2, SimulationAssumption DEF Fresh, SimulationAssumption
  <2>3. CASE j \in DOMAIN factory.m_entries /\ SameWorld(factory, factory', j)
    BY <2>3 DEF SameWorld, WorldsOK, EntriesUniverse
  <2> QED BY <2>2, <2>3 DEF OldOrFresh
<1> QED BY <1>2, <1>3, <1>4 DEF WorldsOK

(* Entities whose polys are the same stay. *)
LEMMA SamePolysStay ==
    ASSUME NEW f, NEW g, DOMAIN g.m_entries \subseteq DOMAIN f.m_entries,
           \A j \in DOMAIN g.m_entries : SamePoly(f, g, j)
    PROVE  OldOrFresh(f, g)
BY SamePolySameWorld DEF OldOrFresh

(* Worlds that do not change stay. *)
LEMMA SameWorldsStay == worlds' = worlds => LiveWorldsStay
BY DEF LiveWorldsStay
-----------------------------------------------------------------------------
(* The initial state, and the steps that move no Ref.                        *)

(* A simulation that was just created satisfies the parts of the invariant. *)
LEMMA InitKeeps == Init => Parts
<1> SUFFICES ASSUME Init PROVE Parts OBVIOUS
<1>1. /\ phase = "initialize" /\ factory = NewFactory
      /\ load_commands = [c \in Context |-> <<>>] /\ unload_commands = [c \in Context |-> <<>>]
      /\ updating_entities = <<>> /\ universes = <<>>
      /\ entity = Null /\ debug = Null
      /\ nodes = [id \in UUID |-> 0]
      /\ task = [t \in Task |-> IdleTask]
      /\ worlds = <<>> /\ unloading = FALSE
  BY DEF Init
<1>2. PICK e : e = <<>> OBVIOUS
<1>3. DOMAIN e = {} /\ \A S : e \in [{} -> S] BY <1>2
<1>4. \A S : e \in Seq(S) BY <1>2, EmptySeq
<1>5. Null \notin UUID /\ Universe \in UUID BY SimulationAssumption DEF SimulationAssumption
<1>6. FactoryOK(factory) /\ DOMAIN factory.m_entries = {} /\ factory.m_callbacks = {} BY <1>1, NewFactoryOK
<1>7. TypesRest
  <2>1. Lists(load_commands, UUID) /\ Lists(unload_commands, UUID \union {Null}) BY <1>1, <1>2, <1>4 DEF Lists
  <2>2. updating_entities \in Seq(UUID) /\ universes \in Seq(UUID) BY <1>1, <1>2, <1>4
  <2>3. worlds \in [DOMAIN worlds -> [unloading : BOOLEAN]] /\ DOMAIN worlds = {} BY <1>1, <1>2, <1>3
  <2>4. IsFiniteSet({}) BY FS_EmptySet
  <2> QED BY <1>1, <1>6, <2>1, <2>2, <2>3, <2>4 DEF TypesRest, Phase
<1>8. \A L : L = [c \in Context |-> <<>>] => \A id : Cardinality(Listed(L, id)) = 0
  <2>1. SUFFICES ASSUME NEW id, NEW L, L = [c \in Context |-> <<>>] PROVE Cardinality(Listed(L, id)) = 0
    OBVIOUS
  <2>2. \A c \in Context : Places(L[c], id) = {} BY <2>1, PlacesNone
  <2>3. Listed(L, id) = {} BY <2>2 DEF Listed
  <2> QED BY <2>3, FS_EmptySet
<1>9. RefsCounted
  <2>1. ASSUME NEW id \in UUID PROVE Refcount(factory, id) = RefsTo(id)
    <3>1. Refcount(factory, id) = 0 BY <1>6 DEF Refcount, Exists
    <3>2. LoadRefs(id) = 0 /\ UnloadRefs(id) = 0 BY <1>1, <1>8 DEF LoadRefs, UnloadRefs
    <3>3. UpdatingRefs(id) = 0 BY <1>1, PlacesNone DEF UpdatingRefs
    <3>4. One(entity = id) = 0 /\ One(debug = id) = 0 BY <1>1, <1>5, OneIs
    <3>5. TaskRefs(id) = 0
      <4>1. {t \in Task : task[t].id = id} = {} BY <1>1, <1>5 DEF IdleTask
      <4> QED BY <4>1, FS_EmptySet DEF TaskRefs, TaskCount
    <3>6. nodes[id] = 0 BY <1>1
    <3> QED BY <3>1, <3>2, <3>3, <3>4, <3>5, <3>6, RefsToIs
  <2> QED BY <2>1, RefsCountedIff
<1>10. WorldsOK BY <1>6 DEF WorldsOK, WorldsLive, WorldsApart, EntriesUniverse
<1>11. UniverseRest
  <2>1. LoadRefs(Universe) = 0 BY <1>1, <1>8 DEF LoadRefs
  <2> QED BY <1>1, <2>1 DEF UniverseRest
<1>12. NodesInv BY <1>1 DEF NodesInv
<1>13. LeftOnlyQueued BY <1>1 DEF LeftOnlyQueued
<1> QED BY <1>6, <1>7, <1>9, <1>10, <1>11, <1>12, <1>13 DEF Parts

(* No Ref moves in a step that changes no list, node or task. *)
LEMMA SameRefs ==
    ASSUME UNCHANGED <<lists, refs, nodes, task>>, NEW id
    PROVE  RefsTo(id)' = RefsTo(id) /\ LoadRefs(id)' = LoadRefs(id)
BY DEF RefsTo, LoadRefs, lists, refs

(* No entry and no block changes. *)
LEMMA SameEntries ==
    ASSUME NEW f, NEW g, g.m_entries = f.m_entries, g.heap = f.heap
    PROVE  OldOrFresh(f, g) /\ \A j : Refcount(g, j) = Refcount(f, j)
<1>1. \A j \in DOMAIN g.m_entries : SamePoly(f, g, j) BY DEF SamePoly, Entry, PolyOf
<1> QED BY <1>1, SamePolysStay DEF Refcount, Exists, Entry

(* There are no worlds when none has an address. *)
LEMMA NoWorlds ==
    ASSUME TypesRest
    PROVE  worlds = <<>> <=> DOMAIN worlds = {}
<1>1. worlds \in [DOMAIN worlds -> [unloading : BOOLEAN]] BY DEF TypesRest
<1>2. DOMAIN worlds = {} => worlds = <<>> BY <1>1
<1> QED BY <1>2

(* The same of the next state. *)
LEMMA NoWorldsNext ==
    ASSUME TypesRest'
    PROVE  worlds' = <<>> <=> DOMAIN worlds' = {}
<1>1. worlds' \in [DOMAIN worlds' -> [unloading : BOOLEAN]] BY DEF TypesRest
<1>2. DOMAIN worlds' = {} => worlds' = <<>> BY <1>1
<1> QED BY <1>2

(* A module that adds its callback changes no entity. *)
LEMMA InitializeKeeps ==
    ASSUME Parts, NEW l \in Listener, Initialize(l)
    PROVE  Parts'
<1>1. /\ phase = "initialize" /\ l \notin factory.m_callbacks
      /\ factory' = AddCallback(factory, l)
      /\ phase' = IF factory'.m_callbacks = Listener THEN "commands" ELSE phase
      /\ UNCHANGED <<lists, refs, nodes, task, worlds, unloading, calls>>
  BY DEF Initialize
<1>2. /\ FactoryOK(factory')
      /\ factory'.m_entries = factory.m_entries /\ factory'.heap = factory.heap
  BY <1>1, AddCallbackAdds DEF Parts
<1>3. OldOrFresh(factory, factory') /\ \A j : Refcount(factory', j) = Refcount(factory, j)
  BY <1>2, SameEntries
<1>4. TypesRest' BY <1>1, <1>2 DEF Parts, TypesRest, Phase, lists, refs
<1>5. RefsCounted' BY <1>1, <1>3, SameRefs, RefsCountedIff, RefsCountedIffNext DEF Parts
<1>6. WorldsOK' BY <1>1, <1>3, WorldsStay, SameWorldsStay DEF Parts
<1>7. UniverseRest' BY <1>1, SameRefs DEF Parts, UniverseRest, lists, refs
<1>8. NodesInv' BY <1>1 DEF Parts, NodesInv, lists
<1>9. LeftOnlyQueued' BY <1>1, NotAtEnd
<1> QED BY <1>2, <1>4, <1>5, <1>6, <1>7, <1>8, <1>9 DEF Parts

(* A step that changes neither the factory nor a Ref. *)
LEMMA QuietKeeps ==
    ASSUME Parts, UNCHANGED <<factory, lists, refs, nodes, task>>,
           TypesRest', NodesInv', LiveWorldsStay,
           phase' # "initialize" => phase # "initialize",
           phase' # "done", phase # "done"
    PROVE  Parts'
<1>1. /\ FactoryOK(factory') /\ factory'.m_entries = factory.m_entries /\ factory'.heap = factory.heap
      /\ factory'.m_callbacks = factory.m_callbacks
  BY DEF Parts
<1>2. OldOrFresh(factory, factory') /\ \A j : Refcount(factory', j) = Refcount(factory, j)
  BY <1>1, SameEntries
<1>3. RefsCounted' BY <1>2, SameRefs, RefsCountedIff, RefsCountedIffNext DEF Parts
<1>4. WorldsOK' BY <1>2, WorldsStay DEF Parts
<1>5. UniverseRest' BY <1>1, SameRefs DEF Parts, UniverseRest, lists, refs
<1>6. LeftOnlyQueued' BY NotAtEnd
<1> QED BY <1>1, <1>3, <1>4, <1>5, <1>6 DEF Parts

(* The steps that only move the simulation thread on. *)
LEMMA QuietStepsKeep ==
    ASSUME Parts, BeginFrame \/ CheckUnload \/ EndTasks \/ Crash
    PROVE  Parts'
<1>1. UNCHANGED <<factory, lists, refs, nodes, task, worlds>>
  BY DEF BeginFrame, CheckUnload, EndTasks, Crash
<1>2. /\ phase' \in {"tasks", "uninitialize", "modules", "crashed"} /\ phase \in {"commands", "check", "tasks", "load"}
      /\ unloading' \in BOOLEAN
  BY DEF BeginFrame, CheckUnload, EndTasks, Crash, Parts, TypesRest
<1>3. TypesRest' BY <1>1, <1>2 DEF Parts, TypesRest, Phase, lists, refs
<1>4. LiveWorldsStay BY <1>1, SameWorldsStay
<1>5. NodesInv'
  <2>1. phase' # "tasks" => \A t \in Task : task[t] = IdleTask
    BY DEF BeginFrame, CheckUnload, EndTasks, Crash, Parts, NodesInv
  <2>2. phase' \in {"uninitialize", "done"} => worlds = <<>> /\ updating_entities = <<>>
    BY <1>2 DEF BeginFrame, CheckUnload, EndTasks, Crash, IsSimulationUnloadDone
  <2>3. (\E t \in Task : task[t] # IdleTask) => worlds # <<>> BY DEF Parts, NodesInv
  <2>4. worlds = <<>> => \A id \in UUID : nodes[id] = 0 BY DEF Parts, NodesInv
  <2> QED BY <1>1, <2>1, <2>2, <2>3, <2>4 DEF NodesInv, lists
<1>6. phase' # "initialize" /\ phase # "initialize" /\ phase' # "done" /\ phase # "done" BY <1>2
<1> QED BY <1>1, <1>3, <1>4, <1>5, <1>6, QuietKeeps

(* spatial3d::Update destroys no world that an entity still points to. *)
LEMMA SpatialUpdateKeeps ==
    ASSUME Parts, NEW gone \in SUBSET DOMAIN worlds, SpatialUpdate(gone)
    PROVE  Parts'
<1>1. /\ phase = "spatial" /\ phase' = "load"
      /\ gone \subseteq {w \in DOMAIN worlds : worlds[w].unloading}
      /\ DOMAIN worlds = gone => \A id \in UUID : nodes[id] = 0
      /\ worlds' = Without(worlds, gone)
      /\ UNCHANGED <<factory, lists, refs, nodes, task, unloading, calls>>
  BY DEF SpatialUpdate
<1>2. /\ DOMAIN worlds' = DOMAIN worlds \ gone
      /\ \A w \in DOMAIN worlds' : worlds'[w] = worlds[w]
      /\ worlds' = [w \in DOMAIN worlds' |-> worlds'[w]]
  BY <1>1 DEF Without
<1>3. TypesRest'
  <2>1. worlds' \in [DOMAIN worlds' -> [unloading : BOOLEAN]] BY <1>2 DEF Parts, TypesRest
  <2>2. DOMAIN worlds' \in SUBSET DOMAIN worlds BY <1>2
  <2>3. DOMAIN worlds' \subseteq Nat \ {Default} /\ IsFiniteSet(DOMAIN worlds')
    BY <2>2, FS_Subset DEF Parts, TypesRest
  <2> QED BY <1>1, <2>1, <2>3 DEF Parts, TypesRest, Phase, lists, refs
<1>4. LiveWorldsStay BY <1>1, <1>2 DEF LiveWorldsStay
<1>5. NodesInv'
  <2>1. worlds' = <<>> => DOMAIN worlds = gone BY <1>2, <1>3, NoWorldsNext
  <2>2. \A t \in Task : task[t] = IdleTask BY <1>1 DEF Parts, NodesInv
  <2> QED BY <1>1, <2>1, <2>2 DEF NodesInv
<1> QED BY <1>1, <1>3, <1>4, <1>5, QuietKeeps
-----------------------------------------------------------------------------
(* The steps of tasks.                                                       *)

(* An entry takes one Ref more. *)
LEMMA CountUp ==
    ASSUME NEW f, FactoryOK(f), NEW id, Exists(f, id)
    PROVE  CountedBy(f, Count(f, id, 1), id, 1)
<1>1. Refcount(f, id) \in Nat BY RefcountNat
<1>2. 1 \in Int /\ Refcount(f, id) + 1 \in Nat BY <1>1
<1> QED BY <1>2, CountCounts

(* An entry that has a Ref can lose one. *)
LEMMA CountDown ==
    ASSUME NEW f, FactoryOK(f), NEW id, Refcount(f, id) > 0
    PROVE  CountedBy(f, Count(f, id, -1), id, -1)
<1>1. Refcount(f, id) \in Nat /\ Exists(f, id) BY RefcountNat
<1>2. -1 \in Int /\ Refcount(f, id) + (-1) \in Nat BY <1>1
<1> QED BY <1>1, <1>2, CountCounts

(* A change of counts changes no type and no world. *)
LEMMA CountedStays ==
    ASSUME NEW f, NEW g, NEW id, NEW n, CountedBy(f, g, id, n)
    PROVE  /\ FactoryOK(g) /\ g.m_callbacks = f.m_callbacks
           /\ DOMAIN g.m_entries = DOMAIN f.m_entries
           /\ OldOrFresh(f, g) /\ SameTypes(f, g)
<1>1. DOMAIN g.m_entries \subseteq DOMAIN f.m_entries /\ \A j \in DOMAIN g.m_entries : SamePoly(f, g, j)
  BY DEF CountedBy, SamePolys
<1>2. OldOrFresh(f, g) BY <1>1, SamePolysStay
<1>3. SameTypes(f, g) BY <1>1 DEF SameTypes, SamePoly, Exists
<1> QED BY <1>2, <1>3 DEF CountedBy

TaskType == {IdleTask} \union [at : {"load", "node", "end"}, id : UUID \ {Universe}]

(* The entity of a task that has one. *)
LEMMA BusyTask ==
    ASSUME Parts, NEW t \in Task, task[t].at \in {"load", "node", "end"}
    PROVE  /\ task[t].id \in UUID \ {Universe}
           /\ \A a \in {"load", "node", "end"} : [task[t] EXCEPT !.at = a] \in TaskType
           /\ \A a : [task[t] EXCEPT !.at = a].id = task[t].id
           /\ task \in [Task -> TaskType]
           /\ task \in [Task -> {IdleTask} \union [at : {"load", "node", "end"}, id : UUID]]
           /\ TaskRefs(task[t].id) > 0
           /\ Refcount(factory, task[t].id) > 0 /\ Exists(factory, task[t].id)
           /\ phase = "tasks" /\ worlds # <<>>
<1> DEFINE id == task[t].id
<1>1. task \in [Task -> TaskType] BY DEF Parts, TypesRest, TaskType
<1>2. task[t] # IdleTask BY DEF IdleTask
<1>3. task[t] \in [at : {"load", "node", "end"}, id : UUID \ {Universe}] BY <1>1, <1>2 DEF TaskType
<1>4. id \in UUID \ {Universe} BY <1>3
<1>5. \A a \in {"load", "node", "end"} : [task[t] EXCEPT !.at = a] \in TaskType BY <1>3 DEF TaskType
<1>6. \A a : [task[t] EXCEPT !.at = a].id = id BY <1>3
<1>7. task \in [Task -> {IdleTask} \union [at : {"load", "node", "end"}, id : UUID]]
  BY <1>1 DEF TaskType
<1>8. phase = "tasks" /\ worlds # <<>> BY <1>2 DEF Parts, NodesInv
<1>9. TaskRefs(id) > 0
  <2>1. PICK new : new = [task EXCEPT ![t] = IdleTask] OBVIOUS
  <2>2. PICK x : x = id OBVIOUS
  <2>3. TasksBy(task, new, t, IdleTask, x) BY <2>1, <1>7, TaskChange
  <2>4. One(task[t].id = x) = 1 BY <2>2, OneIs
  <2>5. IdleTask.id # x BY <2>2, <1>4, SimulationAssumption DEF IdleTask, SimulationAssumption
  <2>6. One(IdleTask.id = x) = 0 BY <2>5, OneIs
  <2>7. TaskCount(task, x) > 0 BY <2>3, <2>4, <2>6 DEF TasksBy
  <2> QED BY <2>2, <2>7 DEF TaskRefs
<1> HIDE DEF id
<1>10. Refcount(factory, id) = RefsTo(id) BY <1>4, RefsCountedIff DEF Parts
<1>11. Refcount(factory, id) > 0
  <2>1. TypeOK BY PartsOfInv DEF SimulationInv, FactoryConsistent
  <2>2. /\ LoadRefs(id) \in Nat /\ UnloadRefs(id) \in Nat /\ UpdatingRefs(id) \in Nat
        /\ One(entity = id) \in Nat /\ One(debug = id) \in Nat
        /\ nodes[id] \in Nat /\ TaskRefs(id) \in Nat
    BY <2>1, <1>4, TermsCounted
  <2>3. RefsTo(id) = LoadRefs(id) + UnloadRefs(id) + UpdatingRefs(id) + One(entity = id) + One(debug = id)
                     + nodes[id] + TaskRefs(id)
    BY RefsToIs
  <2> QED BY <2>2, <2>3, <1>9, <1>10
<1>12. Exists(factory, id) BY <1>11, RefcountNat DEF Parts
<1> QED BY <1>1, <1>4, <1>5, <1>6, <1>7, <1>8, <1>9, <1>11, <1>12 DEF id

(* The sum of Refs, and its terms. *)
Terms(id) ==
    /\ LoadRefs(id) \in Nat /\ UnloadRefs(id) \in Nat /\ UpdatingRefs(id) \in Nat
    /\ One(entity = id) \in Nat /\ One(debug = id) \in Nat
    /\ nodes[id] \in Nat /\ TaskRefs(id) \in Nat
    /\ Refcount(factory, id) = LoadRefs(id) + UnloadRefs(id) + UpdatingRefs(id) + One(entity = id)
                               + One(debug = id) + nodes[id] + TaskRefs(id)

(* The invariant gives the sum of Refs of an entity. *)
LEMMA AllTerms ==
    ASSUME Parts, NEW id \in UUID
    PROVE  Terms(id)
<1>1. TypeOK BY PartsOfInv DEF SimulationInv, FactoryConsistent
<1>2. Refcount(factory, id) = RefsTo(id) BY RefsCountedIff DEF Parts
<1>3. RefsTo(id) = LoadRefs(id) + UnloadRefs(id) + UpdatingRefs(id) + One(entity = id) + One(debug = id)
                   + nodes[id] + TaskRefs(id)
  BY RefsToIs
<1>4. /\ LoadRefs(id) \in Nat /\ UnloadRefs(id) \in Nat /\ UpdatingRefs(id) \in Nat
      /\ One(entity = id) \in Nat /\ One(debug = id) \in Nat
      /\ nodes[id] \in Nat /\ TaskRefs(id) \in Nat
  BY <1>1, TermsCounted
<1> QED BY <1>2, <1>3, <1>4 DEF Terms

(* What a step has to show of the Refs. *)
SumNext(id) ==
    Refcount(factory', id) = LoadRefs(id)' + UnloadRefs(id)' + UpdatingRefs(id)' + One(entity' = id)
                             + One(debug' = id) + nodes'[id] + TaskRefs(id)'

(* If every sum is right after the step, so are the counts. *)
LEMMA SumsNext ==
    ASSUME \A id \in UUID : SumNext(id)
    PROVE  RefsCounted'
<1>1. ASSUME NEW id \in UUID PROVE Refcount(factory', id) = RefsTo(id)'
  <2>1. RefsTo(id)' = LoadRefs(id)' + UnloadRefs(id)' + UpdatingRefs(id)' + One(entity' = id)
                      + One(debug' = id) + nodes'[id] + TaskRefs(id)'
    BY DEF RefsTo, LoadRefs, UnloadRefs, UpdatingRefs, TaskCount, TaskRefs
  <2>2. SumNext(id) OBVIOUS
  <2> QED BY <2>1, <2>2 DEF SumNext
<1> QED BY <1>1, RefsCountedIffNext

(* The Ref that a task pushes to load_commands is counted. *)
LEMMA TaskPushLoadKeeps ==
    ASSUME Parts, NEW t \in Task, NEW c \in Context, TaskPushLoad(t, c)
    PROVE  Parts' /\ SameTypes(factory, factory')
<1>1. PICK x : x = task[t].id OBVIOUS
<1>2. PICK r : r = [task[t] EXCEPT !.at = "node"] OBVIOUS
<1>3. /\ task[t].at = "load"
      /\ factory' = Count(factory, x, 1)
      /\ load_commands' = [load_commands EXCEPT ![c] = Append(@, x)]
      /\ task' = [task EXCEPT ![t] = r]
      /\ UNCHANGED <<phase, unload_commands, updating_entities, universes, refs, nodes, worlds, unloading, calls>>
  BY <1>1, <1>2 DEF TaskPushLoad
<1>4. /\ x \in UUID \ {Universe} /\ Exists(factory, x)
      /\ r \in TaskType /\ r.id = x
      /\ task \in [Task -> TaskType]
      /\ task \in [Task -> {IdleTask} \union [at : {"load", "node", "end"}, id : UUID]]
      /\ phase = "tasks" /\ worlds # <<>>
  BY <1>1, <1>2, <1>3, BusyTask
<1>5. CountedBy(factory, factory', x, 1) BY <1>3, <1>4, CountUp DEF Parts
<1>6. /\ FactoryOK(factory') /\ factory'.m_callbacks = factory.m_callbacks
      /\ DOMAIN factory'.m_entries = DOMAIN factory.m_entries
      /\ OldOrFresh(factory, factory') /\ SameTypes(factory, factory')
  BY <1>5, CountedStays
<1>7. Lists(load_commands, UUID) BY DEF Parts, TypesRest
<1>8. ASSUME NEW id
      PROVE  Lists(load_commands', UUID) /\ LoadRefs(id)' = LoadRefs(id) + One(x = id)
  <2>1. ListsMore(UUID, load_commands', load_commands, id, One(x = id))
    BY <1>3, <1>4, <1>7, ListedAppend
  <2> QED BY <2>1 DEF ListsMore, LoadRefs
<1>9. TypesRest'
  <2>1. task' \in [Task -> TaskType] BY <1>3, <1>4
  <2> QED BY <1>3, <1>6, <1>8, <2>1 DEF Parts, TypesRest, TaskType, refs
<1>10. RefsCounted'
  <2>1. ASSUME NEW id \in UUID PROVE SumNext(id)
    <3>1. Terms(id) BY AllTerms
    <3>2. Refcount(factory', id) = Refcount(factory, id) + (IF id = x THEN 1 ELSE 0)
      BY <1>5 DEF CountedBy, RefsMore
    <3>3. LoadRefs(id)' = LoadRefs(id) + One(x = id) BY <1>8
    <3>4. /\ TaskRefs(id)' + One(x = id) = TaskRefs(id) + One(x = id)
          /\ TaskRefs(id)' \in Nat
      <4>1. TasksBy(task, task', t, r, id) BY <1>3, <1>4, TaskChange
      <4> QED BY <4>1, <1>1, <1>4 DEF TaskRefs, TasksBy
    <3>5. /\ UnloadRefs(id)' = UnloadRefs(id) /\ UpdatingRefs(id)' = UpdatingRefs(id)
          /\ entity' = entity /\ debug' = debug /\ nodes' = nodes
      BY <1>3 DEF UnloadRefs, UpdatingRefs, refs
    <3>6. (IF id = x THEN 1 ELSE 0) = One(x = id) /\ One(x = id) \in Nat BY OneIs
    <3> HIDE DEF SumNext
    <3> QED BY <3>1, <3>2, <3>3, <3>4, <3>5, <3>6 DEF Terms, SumNext
  <2> QED BY <2>1, SumsNext
<1>11. WorldsOK' BY <1>3, <1>6, WorldsStay, SameWorldsStay DEF Parts
<1>12. UniverseRest'
  <2>1. LoadRefs(Universe)' = LoadRefs(Universe)
    <3>1. x # Universe BY <1>4
    <3>2. One(x = Universe) = 0 BY <3>1, OneIs
    <3>3. LoadRefs(Universe) \in Nat
      <4>1. Universe \in UUID BY SimulationAssumption DEF SimulationAssumption
      <4>2. Terms(Universe) BY <4>1, AllTerms
      <4> QED BY <4>2 DEF Terms
    <3>4. LoadRefs(Universe)' = LoadRefs(Universe) + One(x = Universe) BY <1>8
    <3> QED BY <3>2, <3>3, <3>4
  <2> QED BY <2>1, <1>3, <1>6 DEF Parts, UniverseRest, refs
<1>13. NodesInv' BY <1>3, <1>4 DEF Parts, NodesInv
<1>14. LeftOnlyQueued' BY <1>3, <1>4, NotAtEnd
<1> QED BY <1>6, <1>9, <1>10, <1>11, <1>12, <1>13, <1>14 DEF Parts

(* The Ref that a task gives to the node is counted. *)
LEMMA TaskPushNodeKeeps ==
    ASSUME Parts, NEW t \in Task, TaskPushNode(t)
    PROVE  Parts' /\ SameTypes(factory, factory')
<1>1. PICK x : x = task[t].id OBVIOUS
<1>2. PICK r : r = [task[t] EXCEPT !.at = "end"] OBVIOUS
<1>3. /\ task[t].at = "node"
      /\ factory' = Count(factory, x, 1)
      /\ nodes' = [nodes EXCEPT ![x] = @ + 1]
      /\ task' = [task EXCEPT ![t] = r]
      /\ UNCHANGED <<phase, lists, refs, worlds, unloading, calls>>
  BY <1>1, <1>2 DEF TaskPushNode
<1>4. /\ x \in UUID \ {Universe} /\ Exists(factory, x)
      /\ r \in TaskType /\ r.id = x
      /\ task \in [Task -> TaskType]
      /\ task \in [Task -> {IdleTask} \union [at : {"load", "node", "end"}, id : UUID]]
      /\ phase = "tasks" /\ worlds # <<>>
  BY <1>1, <1>2, <1>3, BusyTask
<1>5. CountedBy(factory, factory', x, 1) BY <1>3, <1>4, CountUp DEF Parts
<1>6. /\ FactoryOK(factory') /\ factory'.m_callbacks = factory.m_callbacks
      /\ DOMAIN factory'.m_entries = DOMAIN factory.m_entries
      /\ OldOrFresh(factory, factory') /\ SameTypes(factory, factory')
  BY <1>5, CountedStays
<1>7. nodes \in [UUID -> Nat] /\ nodes' \in [UUID -> Nat] BY <1>3, <1>4 DEF Parts, TypesRest
<1>8. TypesRest'
  <2>1. task' \in [Task -> TaskType] BY <1>3, <1>4
  <2> QED BY <1>3, <1>6, <1>7, <2>1 DEF Parts, TypesRest, TaskType, refs, lists
<1>9. RefsCounted'
  <2>1. ASSUME NEW id \in UUID PROVE SumNext(id)
    <3>1. Terms(id) BY AllTerms
    <3>2. Refcount(factory', id) = Refcount(factory, id) + (IF id = x THEN 1 ELSE 0)
      BY <1>5 DEF CountedBy, RefsMore
    <3>3. nodes'[id] = nodes[id] + One(x = id)
      <4>1. nodes' = [nodes EXCEPT ![x] = nodes[x] + 1] BY <1>3
      <4> QED BY <4>1, <1>4, <1>7 DEF One
    <3>4. TaskRefs(id)' = TaskRefs(id)
      <4>1. TasksBy(task, task', t, r, id) BY <1>3, <1>4, TaskChange
      <4>2. One(x = id) \in Nat BY OneIs
      <4> QED BY <4>1, <4>2, <3>1, <1>1, <1>4 DEF TaskRefs, TasksBy, Terms
    <3>5. /\ LoadRefs(id)' = LoadRefs(id) /\ UnloadRefs(id)' = UnloadRefs(id) /\ UpdatingRefs(id)' = UpdatingRefs(id)
          /\ entity' = entity /\ debug' = debug
      BY <1>3 DEF LoadRefs, UnloadRefs, UpdatingRefs, refs, lists
    <3>6. (IF id = x THEN 1 ELSE 0) = One(x = id) /\ One(x = id) \in Nat BY OneIs
    <3> QED BY <3>1, <3>2, <3>3, <3>4, <3>5, <3>6 DEF Terms, SumNext
  <2> QED BY <2>1, SumsNext
<1>10. WorldsOK' BY <1>3, <1>6, WorldsStay, SameWorldsStay DEF Parts
<1>11. UniverseRest' BY <1>3, <1>6 DEF Parts, UniverseRest, refs, lists, LoadRefs
<1>12. NodesInv' BY <1>3, <1>4 DEF Parts, NodesInv, lists
<1>13. LeftOnlyQueued' BY <1>3, <1>4, NotAtEnd
<1> QED BY <1>6, <1>8, <1>9, <1>10, <1>11, <1>12, <1>13 DEF Parts

(* The end of a task ends its own Ref and no other. *)
LEMMA TaskEndKeeps ==
    ASSUME Parts, NEW t \in Task, TaskEnd(t)
    PROVE  Parts' /\ SameTypes(factory, factory')
<1>1. PICK x : x = task[t].id OBVIOUS
<1>2. /\ task[t].at = "end"
      /\ factory' = Count(factory, x, -1)
      /\ task' = [task EXCEPT ![t] = IdleTask]
      /\ UNCHANGED <<phase, lists, refs, nodes, worlds, unloading, calls>>
  BY <1>1 DEF TaskEnd
<1>3. /\ x \in UUID \ {Universe} /\ Refcount(factory, x) > 0
      /\ task \in [Task -> TaskType]
      /\ task \in [Task -> {IdleTask} \union [at : {"load", "node", "end"}, id : UUID]]
      /\ phase = "tasks" /\ worlds # <<>>
  BY <1>1, <1>2, BusyTask
<1>4. CountedBy(factory, factory', x, -1) BY <1>2, <1>3, CountDown DEF Parts
<1>5. /\ FactoryOK(factory') /\ factory'.m_callbacks = factory.m_callbacks
      /\ DOMAIN factory'.m_entries = DOMAIN factory.m_entries
      /\ OldOrFresh(factory, factory') /\ SameTypes(factory, factory')
  BY <1>4, CountedStays
<1>6. TypesRest'
  <2>1. task' \in [Task -> TaskType] BY <1>2, <1>3 DEF TaskType
  <2> QED BY <1>2, <1>5, <2>1 DEF Parts, TypesRest, TaskType, refs, lists
<1>7. RefsCounted'
  <2>1. ASSUME NEW id \in UUID PROVE SumNext(id)
    <3>1. Terms(id) BY AllTerms
    <3>2. Refcount(factory', id) = Refcount(factory, id) + (IF id = x THEN -1 ELSE 0)
      BY <1>4 DEF CountedBy, RefsMore
    <3>3. TaskRefs(id)' + One(x = id) = TaskRefs(id) /\ TaskRefs(id)' \in Nat
      <4>1. TasksBy(task, task', t, IdleTask, id) BY <1>2, <1>3, TaskChange
      <4>2. IdleTask.id # id BY SimulationAssumption DEF IdleTask, SimulationAssumption
      <4>3. One(IdleTask.id = id) = 0 BY <4>2, OneIs
      <4> QED BY <4>1, <4>3, <1>1 DEF TaskRefs, TasksBy
    <3>4. /\ LoadRefs(id)' = LoadRefs(id) /\ UnloadRefs(id)' = UnloadRefs(id) /\ UpdatingRefs(id)' = UpdatingRefs(id)
          /\ entity' = entity /\ debug' = debug /\ nodes' = nodes
      BY <1>2 DEF LoadRefs, UnloadRefs, UpdatingRefs, refs, lists
    <3>5. (IF id = x THEN -1 ELSE 0) = -One(x = id) /\ One(x = id) \in Nat BY OneIs
    <3> QED BY <3>1, <3>2, <3>3, <3>4, <3>5 DEF Terms, SumNext
  <2> QED BY <2>1, SumsNext
<1>8. WorldsOK' BY <1>2, <1>5, WorldsStay, SameWorldsStay DEF Parts
<1>9. UniverseRest' BY <1>2, <1>5 DEF Parts, UniverseRest, refs, lists, LoadRefs
<1>10. NodesInv' BY <1>2, <1>3 DEF Parts, NodesInv, lists
<1>11. LeftOnlyQueued' BY <1>2, <1>3, NotAtEnd
<1> QED BY <1>5, <1>6, <1>7, <1>8, <1>9, <1>10, <1>11 DEF Parts

(* An unloaded node ends one of the Refs that nodes hold. *)
LEMMA TaskUnloadNodeKeeps ==
    ASSUME Parts, NEW x \in UUID, TaskUnloadNode(x)
    PROVE  Parts' /\ SameTypes(factory, factory')
<1>1. /\ phase = "tasks" /\ nodes[x] > 0
      /\ factory' = Count(factory, x, -1)
      /\ nodes' = [nodes EXCEPT ![x] = @ - 1]
      /\ UNCHANGED <<phase, lists, refs, task, worlds, unloading, calls>>
  BY DEF TaskUnloadNode
<1>2. nodes \in [UUID -> Nat] /\ nodes' \in [UUID -> Nat] BY <1>1 DEF Parts, TypesRest
<1>3. Refcount(factory, x) > 0
  <2>1. Terms(x) BY AllTerms
  <2> QED BY <2>1, <1>1 DEF Terms
<1>4. CountedBy(factory, factory', x, -1) BY <1>1, <1>3, CountDown DEF Parts
<1>5. /\ FactoryOK(factory') /\ factory'.m_callbacks = factory.m_callbacks
      /\ DOMAIN factory'.m_entries = DOMAIN factory.m_entries
      /\ OldOrFresh(factory, factory') /\ SameTypes(factory, factory')
  BY <1>4, CountedStays
<1>6. TypesRest' BY <1>1, <1>2, <1>5 DEF Parts, TypesRest, refs, lists
<1>7. RefsCounted'
  <2>1. ASSUME NEW id \in UUID PROVE SumNext(id)
    <3>1. Terms(id) BY AllTerms
    <3>2. Refcount(factory', id) = Refcount(factory, id) + (IF id = x THEN -1 ELSE 0)
      BY <1>4 DEF CountedBy, RefsMore
    <3>3. nodes'[id] + One(x = id) = nodes[id] /\ nodes'[id] \in Nat
      BY <1>1, <1>2 DEF One
    <3>4. /\ LoadRefs(id)' = LoadRefs(id) /\ UnloadRefs(id)' = UnloadRefs(id) /\ UpdatingRefs(id)' = UpdatingRefs(id)
          /\ entity' = entity /\ debug' = debug /\ TaskRefs(id)' = TaskRefs(id)
      BY <1>1 DEF LoadRefs, UnloadRefs, UpdatingRefs, TaskRefs, refs, lists
    <3>5. (IF id = x THEN -1 ELSE 0) = -One(x = id) /\ One(x = id) \in Nat BY OneIs
    <3> QED BY <3>1, <3>2, <3>3, <3>4, <3>5 DEF Terms, SumNext
  <2> QED BY <2>1, SumsNext
<1>8. WorldsOK' BY <1>1, <1>5, WorldsStay, SameWorldsStay DEF Parts
<1>9. UniverseRest' BY <1>1, <1>5 DEF Parts, UniverseRest, refs, lists, LoadRefs
<1>10. NodesInv'
  <2>1. worlds = <<>> => \A id \in UUID : nodes[id] = 0 BY DEF Parts, NodesInv
  <2>2. worlds # <<>> BY <2>1, <1>1
  <2> QED BY <2>2, <1>1 DEF Parts, NodesInv, lists
<1>11. LeftOnlyQueued' BY <1>1, NotAtEnd
<1> QED BY <1>5, <1>6, <1>7, <1>8, <1>9, <1>10, <1>11 DEF Parts

(* GetPoly gives an entity as it was, or a fresh one. *)
LEMMA GotStays ==
    ASSUME NEW f, FactoryOK(f), NEW id \in UUID, NEW g, g = GetPoly(f, id, TypesOf[id])
    PROVE  /\ FactoryOK(g) /\ g.m_callbacks = f.m_callbacks
           /\ DOMAIN g.m_entries = DOMAIN f.m_entries \union {id}
           /\ OldOrFresh(f, g) /\ SameTypes(f, g)
           /\ RefsMore(f, g, id, 1)
<1> DEFINE T == TypesOf[id]
<1>1. T \in TypeID BY SimulationAssumption DEF SimulationAssumption
<1>2. /\ GotBy(f, g, id, T)
      /\ ~Exists(f, id) => PolyOf(g, id).components = [c \in T |-> Default]
  BY <1>1, GetPolyGets
<1>3. OldOrFresh(f, g)
  <2>1. SUFFICES ASSUME NEW j \in DOMAIN g.m_entries
                 PROVE  \/ j \in DOMAIN f.m_entries /\ SameWorld(f, g, j)
                        \/ j \in UUID /\ Fresh(g, j)
    BY DEF OldOrFresh
  <2>2. CASE j \in DOMAIN f.m_entries
    <3>1. SamePoly(f, g, j) BY <2>2, <1>2 DEF GotBy, SamePolys
    <3> QED BY <2>2, <3>1, SamePolySameWorld
  <2>3. CASE j \notin DOMAIN f.m_entries
    <3>1. j = id BY <2>3, <1>2 DEF GotBy
    <3>2. ~Exists(f, id) BY <2>3, <3>1 DEF Exists
    <3>3. Entry(g, id).type_id = T BY <3>2, <1>2 DEF GotBy
    <3>4. PolyOf(g, id).components = [c \in T |-> Default] BY <3>2, <1>2
    <3>5. Fresh(g, id) BY <3>3, <3>4 DEF Fresh
    <3> QED BY <3>1, <3>5
  <2> QED BY <2>2, <2>3
<1>4. SameTypes(f, g) BY <1>2 DEF GotBy, SamePolys, SamePoly, SameTypes
<1> QED BY <1>2, <1>3, <1>4 DEF GotBy

(* The Ref that GetPoly returns to a task is counted, whether the entity is new or not. *)
LEMMA TaskGetPolyKeeps ==
    ASSUME Parts, NEW t \in Task, NEW x \in UUID \ {Universe}, TaskGetPoly(t, x)
    PROVE  Parts' /\ SameTypes(factory, factory')
<1>1. PICK r : r = [at |-> "load", id |-> x] OBVIOUS
<1>2. /\ phase = "tasks" /\ task[t].at = "idle"
      /\ worlds # <<>>
      /\ factory' = GetPoly(factory, x, TypesOf[x])
      /\ task' = [task EXCEPT ![t] = r]
      /\ UNCHANGED <<phase, lists, refs, nodes, worlds, unloading, unloads>>
  BY <1>1 DEF TaskGetPoly
<1>3. /\ task \in [Task -> TaskType]
      /\ task \in [Task -> {IdleTask} \union [at : {"load", "node", "end"}, id : UUID]]
      /\ task[t] = IdleTask /\ r \in TaskType /\ r.id = x
  <2>1. task \in [Task -> TaskType] BY DEF Parts, TypesRest, TaskType
  <2>2. task[t] = IdleTask BY <2>1, <1>2 DEF TaskType
  <2>3. TaskType \subseteq {IdleTask} \union [at : {"load", "node", "end"}, id : UUID] BY DEF TaskType
  <2> QED BY <2>1, <2>2, <2>3, <1>1 DEF TaskType
<1>4. /\ FactoryOK(factory') /\ factory'.m_callbacks = factory.m_callbacks
      /\ DOMAIN factory'.m_entries = DOMAIN factory.m_entries \union {x}
      /\ OldOrFresh(factory, factory') /\ SameTypes(factory, factory')
      /\ RefsMore(factory, factory', x, 1)
  BY <1>2, GotStays DEF Parts
<1>5. TypesRest'
  <2>1. task' \in [Task -> TaskType] BY <1>2, <1>3
  <2> QED BY <1>2, <1>4, <2>1 DEF Parts, TypesRest, TaskType, refs, lists
<1>6. RefsCounted'
  <2>1. ASSUME NEW id \in UUID PROVE SumNext(id)
    <3>1. Terms(id) BY AllTerms
    <3>2. Refcount(factory', id) = Refcount(factory, id) + (IF id = x THEN 1 ELSE 0)
      BY <1>4 DEF RefsMore
    <3>3. TaskRefs(id)' = TaskRefs(id) + One(x = id) /\ TaskRefs(id)' \in Nat
      <4>1. TasksBy(task, task', t, r, id) BY <1>2, <1>3, TaskChange
      <4>2. task[t].id # id BY <1>3, SimulationAssumption DEF IdleTask, SimulationAssumption
      <4>3. One(task[t].id = id) = 0 BY <4>2, OneIs
      <4> QED BY <4>1, <4>3, <1>3 DEF TaskRefs, TasksBy
    <3>4. /\ LoadRefs(id)' = LoadRefs(id) /\ UnloadRefs(id)' = UnloadRefs(id) /\ UpdatingRefs(id)' = UpdatingRefs(id)
          /\ entity' = entity /\ debug' = debug /\ nodes' = nodes
      BY <1>2 DEF LoadRefs, UnloadRefs, UpdatingRefs, refs, lists
    <3>5. (IF id = x THEN 1 ELSE 0) = One(x = id) /\ One(x = id) \in Nat BY OneIs
    <3> QED BY <3>1, <3>2, <3>3, <3>4, <3>5 DEF Terms, SumNext
  <2> QED BY <2>1, SumsNext
<1>7. WorldsOK' BY <1>2, <1>4, WorldsStay, SameWorldsStay DEF Parts
<1>8. UniverseRest' BY <1>2, <1>4 DEF Parts, UniverseRest, refs, lists, LoadRefs
<1>9. NodesInv' BY <1>2 DEF Parts, NodesInv, lists
<1>10. LeftOnlyQueued' BY <1>2, NotAtEnd
<1> QED BY <1>4, <1>5, <1>6, <1>7, <1>8, <1>9, <1>10 DEF Parts

-----------------------------------------------------------------------------
(* The steps of a frame and of commands.                                     *)

(* What every step has to show but the last one. *)
LEMMA StepKeeps ==
    ASSUME Parts, TypesRest', FactoryOK(factory'), OldOrFresh(factory, factory'), LiveWorldsStay,
           \A id \in UUID : SumNext(id), UniverseRest', NodesInv', phase' # "done"
    PROVE  Parts'
<1>1. RefsCounted' BY SumsNext
<1>2. WorldsOK' BY WorldsStay DEF Parts
<1>3. LeftOnlyQueued' BY NotAtEnd
<1> QED BY <1>1, <1>2, <1>3 DEF Parts

(* Cleanup moves no Ref. *)
LEMMA EndFrameKeeps ==
    ASSUME Parts, EndFrame
    PROVE  Parts' /\ (\A j \in DOMAIN factory'.m_entries : SamePoly(factory, factory', j))
<1>1. /\ phase = "load" /\ phase' \in {"check", "commands"}
      /\ factory' = Cleanup(factory)
      /\ UNCHANGED <<lists, refs, nodes, task, worlds, unloading, calls>>
  BY DEF EndFrame
<1>2. CleanedBy(factory, factory') BY <1>1, CleanupCleans DEF Parts
<1>3. DOMAIN factory'.m_entries \subseteq DOMAIN factory.m_entries BY <1>2 DEF CleanedBy
<1>4. OldOrFresh(factory, factory') BY <1>2, <1>3, SamePolysStay DEF CleanedBy
<1>5. TypesRest' BY <1>1, <1>3 DEF Parts, TypesRest, Phase, lists, refs
<1>6. RefsCounted'
  <2>1. \A j : Refcount(factory', j) = Refcount(factory, j) BY <1>2 DEF CleanedBy
  <2> QED BY <1>1, <2>1, SameRefs, RefsCountedIff, RefsCountedIffNext DEF Parts
<1>7. WorldsOK' BY <1>1, <1>4, WorldsStay, SameWorldsStay DEF Parts
<1>8. UniverseRest'
  <2>1. LoadRefs(Universe)' = LoadRefs(Universe) BY <1>1, SameRefs
  <2>2. factory'.m_callbacks = factory.m_callbacks BY <1>2 DEF CleanedBy
  <2> QED BY <1>1, <2>1, <2>2 DEF Parts, UniverseRest, lists, refs
<1>9. NodesInv' BY <1>1 DEF Parts, NodesInv, lists
<1>10. LeftOnlyQueued' BY <1>1, NotAtEnd
<1> QED BY <1>2, <1>5, <1>6, <1>7, <1>8, <1>9, <1>10 DEF Parts, CleanedBy

(* g is f with one Ref less to x, or one more; to none if x is null.          *)
Released(f, g, x) ==
    /\ FactoryOK(g) /\ g.m_callbacks = f.m_callbacks
    /\ DOMAIN g.m_entries = DOMAIN f.m_entries
    /\ SamePolys(f, g)
    /\ \A id \in UUID : Refcount(f, id) = Refcount(g, id) + One(x = id)

Taken(f, g, x) ==
    /\ FactoryOK(g) /\ g.m_callbacks = f.m_callbacks
    /\ DOMAIN g.m_entries = DOMAIN f.m_entries
    /\ SamePolys(f, g)
    /\ \A id \in UUID : Refcount(g, id) = Refcount(f, id) + One(x = id)

(* ~Ref of a reference that may be null. *)
LEMMA RefEnds ==
    ASSUME NEW f, FactoryOK(f), NEW x, x # Null => Refcount(f, x) > 0,
           NEW g, g = IF x = Null THEN f ELSE Count(f, x, -1)
    PROVE  Released(f, g, x)
<1>1. CASE x = Null
  <2>1. SamePolys(f, g) BY <1>1 DEF SamePolys, SamePoly
  <2>2. \A id \in UUID : Refcount(g, id) \in Nat /\ One(x = id) = 0
    <3>1. \A id \in UUID : x # id BY <1>1, SimulationAssumption DEF SimulationAssumption
    <3> QED BY <1>1, <3>1, RefcountNat, OneIs
  <2> QED BY <1>1, <2>1, <2>2 DEF Released
<1>2. CASE x # Null
  <2>1. CountedBy(f, g, x, -1) BY <1>2, CountDown
  <2>2. ASSUME NEW id \in UUID PROVE Refcount(f, id) = Refcount(g, id) + One(x = id)
    <3>1. Refcount(g, id) = Refcount(f, id) + (IF id = x THEN -1 ELSE 0) BY <2>1 DEF CountedBy, RefsMore
    <3>2. Refcount(f, id) \in Nat BY RefcountNat
    <3> QED BY <3>1, <3>2 DEF One
  <2> QED BY <2>1, <2>2 DEF CountedBy, Released
<1> QED BY <1>1, <1>2

(* A Ref made from a WeakRef that may be null. *)
LEMMA RefTaken ==
    ASSUME NEW f, FactoryOK(f), NEW x, x # Null => Exists(f, x),
           NEW g, g = IF x = Null THEN f ELSE Count(f, x, 1)
    PROVE  Taken(f, g, x)
<1>1. CASE x = Null
  <2>1. SamePolys(f, g) BY <1>1 DEF SamePolys, SamePoly
  <2>2. \A id \in UUID : Refcount(f, id) \in Nat /\ One(x = id) = 0
    <3>1. \A id \in UUID : x # id BY <1>1, SimulationAssumption DEF SimulationAssumption
    <3> QED BY <3>1, RefcountNat, OneIs
  <2> QED BY <1>1, <2>1, <2>2 DEF Taken
<1>2. CASE x # Null
  <2>1. CountedBy(f, g, x, 1) BY <1>2, CountUp
  <2>2. ASSUME NEW id \in UUID PROVE Refcount(g, id) = Refcount(f, id) + One(x = id)
    <3>1. Refcount(g, id) = Refcount(f, id) + (IF id = x THEN 1 ELSE 0) BY <2>1 DEF CountedBy, RefsMore
    <3> QED BY <3>1 DEF One
  <2> QED BY <2>1, <2>2 DEF CountedBy, Taken
<1> QED BY <1>1, <1>2

(* The same polys are entities that stay and keep their types. *)
LEMMA SamePolysMean ==
    ASSUME NEW f, NEW g, DOMAIN g.m_entries = DOMAIN f.m_entries, SamePolys(f, g)
    PROVE  OldOrFresh(f, g) /\ SameTypes(f, g)
<1>1. OldOrFresh(f, g) BY SamePolysStay DEF SamePolys
<1>2. SameTypes(f, g) BY DEF SameTypes, SamePolys, SamePoly
<1> QED BY <1>1, <1>2

(* A Ref of the server or the renderer counts. *)
LEMMA HeldExists ==
    ASSUME Parts
    PROVE  /\ entity # Null => entity = Universe /\ Refcount(factory, entity) > 0 /\ Exists(factory, entity)
           /\ debug # Null => debug = Universe /\ Refcount(factory, debug) > 0 /\ Exists(factory, debug)
           /\ entity # Null /\ debug # Null => Refcount(factory, Universe) > 1
<1>1. Universe \in UUID BY SimulationAssumption DEF SimulationAssumption
<1>2. Terms(Universe) BY <1>1, AllTerms
<1>3. entity \in {Null, Universe} /\ debug \in {Null, Universe} BY DEF Parts, TypesRest
<1>4. entity = Universe => One(entity = Universe) = 1 BY OneIs
<1>5. debug = Universe => One(debug = Universe) = 1 BY OneIs
<1>6. Refcount(factory, Universe) > 0 => Exists(factory, Universe) BY RefcountNat DEF Parts
<1>7. (entity = Universe \/ debug = Universe) => Refcount(factory, Universe) > 0
  BY <1>2, <1>4, <1>5 DEF Terms
<1>8. entity = Universe /\ debug = Universe => Refcount(factory, Universe) > 1
  BY <1>2, <1>4, <1>5 DEF Terms
<1> QED BY <1>3, <1>6, <1>7, <1>8

(* What is left of the Refs in a list of some context. *)
LEMMA ListedIn ==
    ASSUME NEW S, NEW L, Lists(L, S), NEW id, Cardinality(Listed(L, id)) > 0
    PROVE  \E c \in Context : id \in Range(L[c])
<1>1. Listed(L, id) # {} BY ListedSome
<1>2. PICK c \in Context : Places(L[c], id) # {} BY <1>1 DEF Listed
<1>3. PICK i \in DOMAIN L[c] : L[c][i] = id BY <1>2 DEF Places
<1> QED BY <1>3 DEF Range

(* The last two Refs end; what is left is in a list of commands. *)
LEMMA SimulationUninitializeKeeps ==
    ASSUME Parts, SimulationUninitialize
    PROVE  Parts' /\ SameTypes(factory, factory')
<1>1. PICK g : g = IF entity = Null THEN factory ELSE Count(factory, entity, -1) OBVIOUS
<1>2. PICK h : h = IF debug = Null THEN g ELSE Count(g, debug, -1) OBVIOUS
<1>3. /\ phase = "uninitialize" /\ phase' = "done"
      /\ factory' = Cleanup(h)
      /\ entity' = Null /\ debug' = Null /\ universes' = <<>>
      /\ UNCHANGED <<load_commands, unload_commands, updating_entities, nodes, task, worlds, unloading, calls>>
  BY <1>1, <1>2 DEF SimulationUninitialize
<1>4. FactoryOK(factory) /\ Universe \in UUID BY SimulationAssumption DEF Parts, SimulationAssumption
<1>5. Released(factory, g, entity)
  <2>1. entity # Null => Refcount(factory, entity) > 0 BY HeldExists
  <2> QED BY <1>1, <1>4, <2>1, RefEnds
<1>6. Released(g, h, debug)
  <2>1. ASSUME debug # Null PROVE Refcount(g, debug) > 0
    <3>1. debug = Universe /\ Refcount(factory, Universe) > 0 BY <2>1, HeldExists
    <3>2. entity = Universe => Refcount(factory, Universe) > 1 BY <2>1, <1>4, HeldExists, SimulationAssumption DEF SimulationAssumption
    <3>3. Refcount(factory, Universe) = Refcount(g, Universe) + One(entity = Universe)
      BY <1>4, <1>5 DEF Released
    <3>4. Refcount(g, Universe) \in Nat BY <1>5, RefcountNat DEF Released
    <3>5. CASE entity = Universe
      <4>1. One(entity = Universe) = 1 BY <3>5, OneIs
      <4> QED BY <3>1, <3>2, <3>3, <3>4, <3>5, <4>1
    <3>6. CASE entity # Universe
      <4>1. One(entity = Universe) = 0 BY <3>6, OneIs
      <4> QED BY <3>1, <3>3, <3>4, <4>1
    <3> QED BY <3>5, <3>6
  <2>2. FactoryOK(g) BY <1>5 DEF Released
  <2> QED BY <1>2, <2>1, <2>2, RefEnds
<1>7. CleanedBy(h, factory') BY <1>3, <1>6, CleanupCleans DEF Released
<1>8. /\ DOMAIN factory'.m_entries \subseteq DOMAIN factory.m_entries
      /\ factory'.m_callbacks = factory.m_callbacks
      /\ FactoryOK(factory')
  BY <1>5, <1>6, <1>7 DEF Released, CleanedBy
<1>9. \A j \in DOMAIN factory'.m_entries : SamePoly(factory, factory', j)
  BY <1>5, <1>6, <1>7, <1>8 DEF Released, CleanedBy, SamePolys, SamePoly
<1>10. OldOrFresh(factory, factory') BY <1>8, <1>9, SamePolysStay
<1>11. TypesRest'
  <2>1. universes' \in Seq(UUID) BY <1>3, EmptySeq
  <2> QED BY <1>3, <1>8, <2>1 DEF Parts, TypesRest, Phase
<1>12. ASSUME NEW id \in UUID
       PROVE  /\ Refcount(factory', id) = LoadRefs(id) + UnloadRefs(id)
              /\ LoadRefs(id) \in Nat /\ UnloadRefs(id) \in Nat
              /\ UpdatingRefs(id) = 0 /\ nodes[id] = 0 /\ TaskRefs(id) = 0
  <2>1. Terms(id) BY AllTerms
  <2>2. Refcount(factory, id) = Refcount(g, id) + One(entity = id) BY <1>5 DEF Released
  <2>3. Refcount(g, id) = Refcount(h, id) + One(debug = id) BY <1>6 DEF Released
  <2>4. Refcount(h, id) = Refcount(factory', id) BY <1>7 DEF CleanedBy
  <2>5. Refcount(g, id) \in Nat /\ Refcount(h, id) \in Nat BY <1>5, <1>6, RefcountNat DEF Released
  <2>6. worlds = <<>> /\ updating_entities = <<>> BY <1>3 DEF Parts, NodesInv
  <2>7. UpdatingRefs(id) = 0 BY <2>6, PlacesNone DEF UpdatingRefs
  <2>8. nodes[id] = 0 BY <2>6 DEF Parts, NodesInv
  <2>9. TaskRefs(id) = 0
    <3>1. \A t \in Task : task[t] = IdleTask BY <1>3 DEF Parts, NodesInv
    <3>2. IdleTask.id # id BY SimulationAssumption DEF SimulationAssumption, IdleTask
    <3>3. {t \in Task : task[t].id = id} = {} BY <3>1, <3>2
    <3> QED BY <3>3, FS_EmptySet DEF TaskRefs, TaskCount
  <2>10. PICK e, d, n : e = One(entity = id) /\ d = One(debug = id) /\ n = nodes[id] OBVIOUS
  <2>11. /\ LoadRefs(id) \in Nat /\ UnloadRefs(id) \in Nat /\ e \in Nat /\ d \in Nat
         /\ Refcount(factory, id) = LoadRefs(id) + UnloadRefs(id) + UpdatingRefs(id) + e + d + n + TaskRefs(id)
    BY <2>1, <2>10 DEF Terms
  <2>12. Refcount(factory, id) = LoadRefs(id) + UnloadRefs(id) + e + d
    BY <2>7, <2>8, <2>9, <2>10, <2>11
  <2>13. Refcount(factory, id) = Refcount(factory', id) + d + e BY <2>2, <2>3, <2>4, <2>5, <2>10, <2>11
  <2>14. Refcount(factory', id) \in Nat BY <2>4, <2>5
  <2> QED BY <2>7, <2>8, <2>9, <2>11, <2>12, <2>13, <2>14
<1>13. RefsCounted'
  <2>1. ASSUME NEW id \in UUID PROVE SumNext(id)
    <3>1. entity' # id /\ debug' # id BY <1>3, SimulationAssumption DEF SimulationAssumption
    <3>2. One(entity' = id) = 0 /\ One(debug' = id) = 0 BY <3>1, OneIs
    <3>3. /\ LoadRefs(id)' = LoadRefs(id) /\ UnloadRefs(id)' = UnloadRefs(id)
          /\ UpdatingRefs(id)' = UpdatingRefs(id) /\ nodes'[id] = nodes[id] /\ TaskRefs(id)' = TaskRefs(id)
      BY <1>3 DEF LoadRefs, UnloadRefs, UpdatingRefs, TaskRefs
    <3> QED BY <3>2, <3>3, <1>12 DEF SumNext
  <2> QED BY <2>1, SumsNext
<1>14. WorldsOK' BY <1>3, <1>10, WorldsStay, SameWorldsStay DEF Parts
<1>15. UniverseRest' BY <1>3, <1>8 DEF Parts, UniverseRest
<1>16. NodesInv' BY <1>3 DEF Parts, NodesInv
<1>17. LeftOnlyQueued'
  <2>1. SUFFICES ASSUME NEW id \in DOMAIN factory'.m_entries
                 PROVE  \E c \in Context : id \in Range(load_commands'[c]) \union Range(unload_commands'[c])
    BY DEF LeftOnlyQueued
  <2>2. id \in UUID BY <1>11 DEF TypesRest
  <2>3. Refcount(factory', id) # 0
    <3>1. Entry(h, id).refcount # 0 /\ Exists(h, id) BY <1>7 DEF CleanedBy, Exists
    <3>2. Refcount(factory', id) = Refcount(h, id) BY <1>7 DEF CleanedBy
    <3> QED BY <3>1, <3>2 DEF Refcount
  <2>4. LoadRefs(id) > 0 \/ UnloadRefs(id) > 0 BY <2>2, <2>3, <1>12
  <2>5. Lists(load_commands, UUID) /\ Lists(unload_commands, UUID \union {Null}) BY DEF Parts, TypesRest
  <2>6. \/ \E c \in Context : id \in Range(load_commands[c])
        \/ \E c \in Context : id \in Range(unload_commands[c])
    BY <2>4, <2>5, ListedIn DEF LoadRefs, UnloadRefs
  <2> QED BY <2>6, <1>3
<1>18. SameTypes(factory, factory') BY <1>9 DEF SameTypes, SamePoly, Exists
<1> QED BY <1>8, <1>11, <1>13, <1>14, <1>15, <1>16, <1>17, <1>18 DEF Parts

(* The Refs of updating_entities move to the unload commands. *)
LEMMA SimulationUnloadKeeps ==
    ASSUME Parts, SimulationUnload
    PROVE  Parts'
<1>1. PICK s : s = updating_entities OBVIOUS
<1>2. /\ phase = "commands" /\ phase' = "check" /\ unloading' = TRUE
      /\ unload_commands' = [unload_commands EXCEPT ![MainContext] = @ \o s]
      /\ updating_entities' = <<>>
      /\ UNCHANGED <<factory, load_commands, universes, refs, nodes, task, worlds, calls>>
  BY <1>1 DEF SimulationUnload
<1>3. PICK S : S = UUID \union {Null} OBVIOUS
<1>4. Lists(unload_commands, S) /\ s \in Seq(UUID) BY <1>1, <1>3 DEF Parts, TypesRest
<1>5. s \in Seq(S)
  <2>1. UUID \subseteq S BY <1>3
  <2> QED BY <2>1, <1>4
<1>6. MainContext \in Context BY SimulationAssumption DEF SimulationAssumption
<1>7. ASSUME NEW id
      PROVE  /\ Lists(unload_commands', S)
             /\ UnloadRefs(id)' = UnloadRefs(id) + UpdatingRefs(id)
  <2>1. ListsMore(S, unload_commands', unload_commands, id, Cardinality(Places(s, id)))
    BY <1>2, <1>4, <1>5, <1>6, ListedConcat
  <2> QED BY <2>1, <1>1 DEF ListsMore, UnloadRefs, UpdatingRefs
<1>8. TypesRest'
  <2>1. updating_entities' \in Seq(UUID) BY <1>2, EmptySeq
  <2> QED BY <1>2, <1>3, <1>7, <2>1 DEF Parts, TypesRest, Phase, refs
<1>9. ASSUME NEW id \in UUID PROVE SumNext(id)
  <2>1. Terms(id) BY AllTerms
  <2>2. UnloadRefs(id)' = UnloadRefs(id) + UpdatingRefs(id) BY <1>7
  <2>3. UpdatingRefs(id)' = 0 BY <1>2, PlacesNone DEF UpdatingRefs
  <2>4. /\ LoadRefs(id)' = LoadRefs(id) /\ entity' = entity /\ debug' = debug /\ nodes' = nodes
        /\ TaskRefs(id)' = TaskRefs(id) /\ factory' = factory
    BY <1>2 DEF LoadRefs, TaskRefs, refs
  <2> QED BY <2>1, <2>2, <2>3, <2>4 DEF Terms, SumNext
<1>10. OldOrFresh(factory, factory') BY <1>2, SameEntries
<1>11. UniverseRest' BY <1>2 DEF Parts, UniverseRest, LoadRefs, refs
<1>12. NodesInv' BY <1>2 DEF Parts, NodesInv
<1>13. FactoryOK(factory') /\ phase' # "done" BY <1>2 DEF Parts
<1>14. LiveWorldsStay BY <1>2, SameWorldsStay
<1> QED BY <1>8, <1>9, <1>10, <1>11, <1>12, <1>13, <1>14, StepKeeps

(* The Ref of the unload command is counted, if there is a universe. *)
LEMMA DisconnectFromUniverseKeeps ==
    ASSUME Parts, DisconnectFromUniverse
    PROVE  Parts' /\ SameTypes(factory, factory')
<1>1. PICK x : x = entity OBVIOUS
<1>2. /\ phase = "commands"
      /\ factory' = IF x = Null THEN factory ELSE Count(factory, x, 1)
      /\ unload_commands' = [unload_commands EXCEPT ![MainContext] = Append(@, x)]
      /\ UNCHANGED <<phase, load_commands, updating_entities, universes, refs, nodes, task, worlds, unloading, created>>
  BY <1>1 DEF DisconnectFromUniverse
<1>3. PICK S : S = UUID \union {Null} OBVIOUS
<1>4. Lists(unload_commands, S) BY <1>3 DEF Parts, TypesRest
<1>5. MainContext \in Context /\ Universe \in UUID BY SimulationAssumption DEF SimulationAssumption
<1>6. x \in S BY <1>1, <1>3, <1>5 DEF Parts, TypesRest
<1>7. Taken(factory, factory', x)
  <2>1. x # Null => Exists(factory, x) BY <1>1, HeldExists
  <2> QED BY <1>2, <2>1, RefTaken DEF Parts
<1>8. OldOrFresh(factory, factory') /\ SameTypes(factory, factory') BY <1>7, SamePolysMean DEF Taken
<1>9. ASSUME NEW id
      PROVE  Lists(unload_commands', S) /\ UnloadRefs(id)' = UnloadRefs(id) + One(x = id)
  <2>1. ListsMore(S, unload_commands', unload_commands, id, One(x = id))
    BY <1>2, <1>4, <1>5, <1>6, ListedAppend
  <2> QED BY <2>1 DEF ListsMore, UnloadRefs
<1>10. TypesRest' BY <1>2, <1>3, <1>7, <1>9 DEF Parts, TypesRest, Taken, refs
<1>11. ASSUME NEW id \in UUID PROVE SumNext(id)
  <2>1. Terms(id) BY AllTerms
  <2>2. Refcount(factory', id) = Refcount(factory, id) + One(x = id) BY <1>7 DEF Taken
  <2>3. UnloadRefs(id)' = UnloadRefs(id) + One(x = id) BY <1>9
  <2>4. /\ LoadRefs(id)' = LoadRefs(id) /\ UpdatingRefs(id)' = UpdatingRefs(id)
        /\ entity' = entity /\ debug' = debug /\ nodes' = nodes /\ TaskRefs(id)' = TaskRefs(id)
    BY <1>2 DEF LoadRefs, UpdatingRefs, TaskRefs, refs
  <2>5. One(x = id) \in Nat BY OneIs
  <2> QED BY <2>1, <2>2, <2>3, <2>4, <2>5 DEF Terms, SumNext
<1>12. UniverseRest' BY <1>2, <1>7 DEF Parts, UniverseRest, LoadRefs, refs, Taken
<1>13. NodesInv' BY <1>2 DEF Parts, NodesInv
<1>14. FactoryOK(factory') /\ phase' # "done" BY <1>2, <1>7 DEF Taken
<1>15. LiveWorldsStay BY <1>2, SameWorldsStay
<1> QED BY <1>8, <1>10, <1>11, <1>12, <1>13, <1>14, <1>15, StepKeeps

(* The Ref that is returned goes to the server, a second one to the list.    *)
LEMMA StartLocalUniverseKeeps ==
    ASSUME Parts, StartLocalUniverse
    PROVE  Parts' /\ SameTypes(factory, factory')
<1>1. PICK g : g = GetPoly(factory, Universe, TypesOf[Universe]) OBVIOUS
<1>2. PICK h : h = Count(g, Universe, 1) OBVIOUS
<1>3. /\ phase = "commands"
      /\ factory' = IF entity = Null THEN h ELSE Count(h, entity, -1)
      /\ load_commands' = [load_commands EXCEPT ![MainContext] = Append(@, Universe)]
      /\ entity' = Universe
      /\ UNCHANGED <<phase, unload_commands, updating_entities, universes, debug, nodes, task, worlds, unloading, unloads>>
  BY <1>1, <1>2 DEF StartLocalUniverse
<1>4. Universe \in UUID /\ MainContext \in Context BY SimulationAssumption DEF SimulationAssumption
<1>5. /\ FactoryOK(g) /\ g.m_callbacks = factory.m_callbacks
      /\ DOMAIN g.m_entries = DOMAIN factory.m_entries \union {Universe}
      /\ OldOrFresh(factory, g) /\ SameTypes(factory, g)
      /\ RefsMore(factory, g, Universe, 1)
  BY <1>1, <1>4, GotStays DEF Parts
<1>6. CountedBy(g, h, Universe, 1)
  <2>1. Exists(g, Universe) BY <1>5 DEF Exists
  <2> QED BY <2>1, <1>2, <1>5, CountUp
<1>7. FactoryOK(h) BY <1>6 DEF CountedBy
<1>8. Released(h, factory', entity)
  <2>1. ASSUME entity # Null PROVE Refcount(h, entity) > 0
    <3>1. entity = Universe BY <2>1, HeldExists
    <3>2. Refcount(h, Universe) = Refcount(g, Universe) + (IF Universe = Universe THEN 1 ELSE 0)
      BY <1>6 DEF CountedBy, RefsMore
    <3>3. Refcount(g, Universe) \in Nat BY <1>5, RefcountNat
    <3> QED BY <3>1, <3>2, <3>3
  <2> QED BY <1>3, <1>7, <2>1, RefEnds
<1>9. /\ FactoryOK(factory') /\ factory'.m_callbacks = factory.m_callbacks
      /\ DOMAIN factory'.m_entries = DOMAIN factory.m_entries \union {Universe}
      /\ OldOrFresh(factory, factory') /\ SameTypes(factory, factory')
  <2>1. OldOrFresh(g, h) /\ SameTypes(g, h) BY <1>6, SamePolysMean DEF CountedBy
  <2>2. OldOrFresh(h, factory') /\ SameTypes(h, factory') BY <1>8, SamePolysMean DEF Released
  <2>3. OldOrFresh(factory, factory') BY <1>5, <2>1, <2>2, OldOrFreshTwice
  <2>4. /\ DOMAIN h.m_entries = DOMAIN g.m_entries /\ DOMAIN factory'.m_entries = DOMAIN h.m_entries
        /\ h.m_callbacks = g.m_callbacks /\ factory'.m_callbacks = h.m_callbacks
        /\ FactoryOK(factory')
    BY <1>6, <1>8 DEF CountedBy, Released
  <2>5. SameTypes(factory, factory') BY <1>5, <2>1, <2>2, <2>4 DEF SameTypes, Exists
  <2> QED BY <1>5, <2>3, <2>4, <2>5
<1>10. ASSUME NEW id
       PROVE  Lists(load_commands', UUID) /\ LoadRefs(id)' = LoadRefs(id) + One(Universe = id)
  <2>1. Lists(load_commands, UUID) BY DEF Parts, TypesRest
  <2>2. ListsMore(UUID, load_commands', load_commands, id, One(Universe = id))
    BY <1>3, <1>4, <2>1, ListedAppend
  <2> QED BY <2>2 DEF ListsMore, LoadRefs
<1>11. TypesRest' BY <1>3, <1>4, <1>9, <1>10 DEF Parts, TypesRest
<1>12. ASSUME NEW id \in UUID PROVE SumNext(id)
  <2>1. Terms(id) BY AllTerms
  <2>2. PICK u, e, d : u = One(Universe = id) /\ e = One(entity = id) /\ d = One(debug = id) OBVIOUS
  <2>3. u \in Nat /\ e \in Nat /\ d \in Nat BY <2>2, OneIs
  <2>4. Refcount(g, id) = Refcount(factory, id) + u
    <3>1. Refcount(g, id) = Refcount(factory, id) + (IF id = Universe THEN 1 ELSE 0) BY <1>5 DEF RefsMore
    <3> QED BY <3>1, <2>2 DEF One
  <2>5. Refcount(h, id) = Refcount(g, id) + u
    <3>1. Refcount(h, id) = Refcount(g, id) + (IF id = Universe THEN 1 ELSE 0)
      BY <1>6 DEF CountedBy, RefsMore
    <3> QED BY <3>1, <2>2 DEF One
  <2>6. Refcount(h, id) = Refcount(factory', id) + e /\ Refcount(factory', id) \in Nat
    <3>1. FactoryOK(factory') BY <1>9
    <3> QED BY <3>1, <1>8, <2>2, RefcountNat DEF Released
  <2>7. LoadRefs(id)' = LoadRefs(id) + u BY <1>10, <2>2
  <2>8. /\ UnloadRefs(id)' = UnloadRefs(id) /\ UpdatingRefs(id)' = UpdatingRefs(id)
        /\ One(entity' = id) = u /\ One(debug' = id) = d /\ nodes' = nodes /\ TaskRefs(id)' = TaskRefs(id)
    BY <1>3, <2>2 DEF UnloadRefs, UpdatingRefs, TaskRefs
  <2>9. Refcount(factory, id) = LoadRefs(id) + UnloadRefs(id) + UpdatingRefs(id) + e + d + nodes[id] + TaskRefs(id)
    BY <2>1, <2>2 DEF Terms
  <2>10. /\ LoadRefs(id) \in Nat /\ UnloadRefs(id) \in Nat /\ UpdatingRefs(id) \in Nat
         /\ nodes[id] \in Nat /\ TaskRefs(id) \in Nat
    BY <2>1 DEF Terms
  <2>11. Refcount(factory', id) = LoadRefs(id) + u + UnloadRefs(id) + UpdatingRefs(id) + u + d + nodes[id] + TaskRefs(id)
    BY <2>3, <2>4, <2>5, <2>6, <2>9, <2>10
  <2> QED BY <2>7, <2>8, <2>11 DEF SumNext
<1>13. UniverseRest' BY <1>3, <1>9 DEF Parts, UniverseRest
<1>14. NodesInv' BY <1>3 DEF Parts, NodesInv
<1>15. LiveWorldsStay BY <1>3, SameWorldsStay
<1>16. phase' # "done" BY <1>3
<1> QED BY <1>9, <1>11, <1>12, <1>13, <1>14, <1>15, <1>16, StepKeeps

(* The components of an entity and its archetype. *)
LEMMA ComponentsOf ==
    ASSUME NEW f, FactoryOK(f), NEW id, Exists(f, id)
    PROVE  /\ Entry(f, id).type_id \in TypeID
           /\ PolyOf(f, id).components \in [Entry(f, id).type_id -> Nat]
<1>1. id \in DOMAIN f.m_entries BY DEF Exists
<1>2. Entry(f, id).header \in DOMAIN f.heap /\ PolyOf(f, id).archetype = Entry(f, id).type_id
  BY <1>1 DEF FactoryOK, BlocksOwned
<1>3. PolyOf(f, id).components \in [PolyOf(f, id).archetype -> Nat]
  BY <1>2 DEF FactoryOK, BlocksOK, BlocksListed, PolyOf, Entry
<1>4. Entry(f, id).type_id \in TypeID BY <1>1, RecordForm DEF Entry
<1> QED BY <1>2, <1>3, <1>4

(* A step that touches no Ref and adds no component but CName.              *)
LEMMA SetDebugNameKeeps ==
    ASSUME Parts, SetDebugName
    PROVE  /\ Parts'
           /\ \A j \in DOMAIN factory.m_entries : j # Universe => SamePoly(factory, factory', j)
           /\ \A c \in Entry(factory, Universe).type_id :
                PolyOf(factory', Universe).components[c] = PolyOf(factory, Universe).components[c]
<1>1. PICK g : g = AddTypes(factory, Universe, {"CName"}) OBVIOUS
<1>2. /\ phase = "commands" /\ entity = Universe /\ Exists(factory, Universe)
      /\ "CName" \notin Entry(factory, Universe).type_id
      /\ factory' = SetComponent(g, Universe, "CName", 1)
      /\ UNCHANGED <<phase, lists, refs, nodes, task, worlds, unloading, calls>>
  BY <1>1, HeldExists DEF SetDebugName
<1>3. PICK old, O, T, new : /\ old = PolyOf(factory, Universe).components
                            /\ O = Entry(factory, Universe).type_id
                            /\ T = O \union {"CName"}
                            /\ new = MovedComponents(old, T)
  OBVIOUS
<1>4. {"CName"} \in TypeID BY SimulationAssumption DEF TypeID, SimulationAssumption
<1>5. ComponentsBy(factory, g, Universe, T, new)
  BY <1>1, <1>2, <1>3, <1>4, AddTypesAdds DEF Parts
<1>6. /\ FactoryOK(g) /\ Exists(g, Universe) /\ Entry(g, Universe).type_id = T
      /\ PolyOf(g, Universe).components = new
  BY <1>2, <1>5 DEF ComponentsBy, Exists
<1>7. ComponentsBy(g, factory', Universe, T, [new EXCEPT !["CName"] = 1])
  <2>1. "CName" \in T /\ 1 \in Nat BY <1>3
  <2>2. ComponentsBy(g, SetComponent(g, Universe, "CName", 1), Universe, Entry(g, Universe).type_id,
                     [PolyOf(g, Universe).components EXCEPT !["CName"] = 1])
    BY <1>6, <2>1, SetComponentSets
  <2> QED BY <1>2, <1>6, <2>2
<1>8. /\ FactoryOK(factory') /\ factory'.m_callbacks = factory.m_callbacks
      /\ DOMAIN factory'.m_entries = DOMAIN factory.m_entries
      /\ \A j : Refcount(factory', j) = Refcount(factory, j)
  BY <1>5, <1>7 DEF ComponentsBy
<1>9. \A j \in DOMAIN factory.m_entries : j # Universe => SamePoly(factory, factory', j)
  BY <1>5, <1>7 DEF ComponentsBy, SamePoly
<1>10. old \in [O -> Nat] /\ O \in TypeID BY <1>2, <1>3, ComponentsOf DEF Parts
<1>11. PolyOf(factory', Universe).components = [new EXCEPT !["CName"] = 1] /\ Entry(factory', Universe).type_id = T
  BY <1>7 DEF ComponentsBy
<1>12. \A c \in O : PolyOf(factory', Universe).components[c] = old[c]
  <2>1. \A c \in O : new[c] = old[c] /\ c # "CName" BY <1>2, <1>3, <1>10 DEF MovedComponents
  <2>2. DOMAIN new = T BY <1>3 DEF MovedComponents
  <2> QED BY <1>3, <1>11, <2>1, <2>2
<1>13. OldOrFresh(factory, factory')
  <2>1. SameWorld(factory, factory', Universe)
    BY <1>3, <1>11, <1>12 DEF SameWorld
  <2>2. \A j \in DOMAIN factory.m_entries : SameWorld(factory, factory', j)
    BY <1>9, <2>1, SamePolySameWorld
  <2> QED BY <1>8, <2>2 DEF OldOrFresh
<1>14. TypesRest' BY <1>2, <1>8 DEF Parts, TypesRest, lists, refs
<1>15. RefsCounted' BY <1>2, <1>8, SameRefs, RefsCountedIff, RefsCountedIffNext DEF Parts
<1>16. WorldsOK' BY <1>2, <1>13, WorldsStay, SameWorldsStay DEF Parts
<1>17. UniverseRest' BY <1>2, <1>8, SameRefs DEF Parts, UniverseRest, lists, refs
<1>18. NodesInv' BY <1>2 DEF Parts, NodesInv, lists
<1>19. LeftOnlyQueued' BY <1>2, NotAtEnd
<1>20. Parts' BY <1>8, <1>14, <1>15, <1>16, <1>17, <1>18, <1>19 DEF Parts
<1> QED BY <1>3, <1>9, <1>12, <1>20

(* The renderer takes a Ref to the universe, or changes nothing. *)
LEMMA DebugRenderUpdateKeeps ==
    ASSUME Parts, DebugRenderUpdate
    PROVE  Parts' /\ SameTypes(factory, factory')
<1>1. /\ phase = "modules" /\ phase' \in {"crashed", "spatial"}
      /\ UNCHANGED <<lists, entity, nodes, task, worlds, unloading, calls>>
  BY DEF DebugRenderUpdate, Draw
<1>2. Universe \in UUID BY SimulationAssumption DEF SimulationAssumption
<1>3. PICK x : /\ x \in {Null, Universe} /\ (x # Null => debug = Null /\ Exists(factory, Universe))
               /\ factory' = IF x = Null THEN factory ELSE Count(factory, x, 1)
               /\ debug' = IF x = Null THEN debug ELSE x
  <2>1. CASE factory' = factory /\ debug' = debug BY <2>1
  <2>2. CASE Draw /\ debug = Null /\ universes # <<>>
    <3>1. PICK u : u = Head(universes) OBVIOUS
    <3>2. u = Universe
      <4>1. universes \in Seq(UUID) /\ universes # <<>> BY <2>2 DEF Parts, TypesRest
      <4>2. 1 \in DOMAIN universes /\ Head(universes) = universes[1] BY <4>1
      <4> QED BY <3>1, <4>2 DEF Parts, UniverseRest
    <3>3. u # debug BY <3>2, <2>2, <1>2, SimulationAssumption DEF SimulationAssumption
    <3>4. factory' = Count(factory, u, 1) /\ debug' = u BY <2>2, <3>1, <3>3 DEF Draw
    <3>5. entity = Universe BY <1>1, <2>2 DEF Parts, UniverseRest
    <3>6. Exists(factory, Universe) BY <3>2, <3>3, <3>5, <2>2, HeldExists
    <3> QED BY <2>2, <3>2, <3>3, <3>4, <3>6
  <2>3. CASE Draw /\ ~(debug = Null /\ universes # <<>>) BY <2>1, <2>3 DEF Draw
  <2> QED BY <2>1, <2>2, <2>3 DEF DebugRenderUpdate
<1>4. Taken(factory, factory', x)
  <2>1. x # Null => Exists(factory, x) BY <1>3
  <2> QED BY <1>3, <2>1, RefTaken DEF Parts
<1>5. OldOrFresh(factory, factory') /\ SameTypes(factory, factory') BY <1>4, SamePolysMean DEF Taken
<1>6. TypesRest' BY <1>1, <1>3, <1>4 DEF Parts, TypesRest, Phase, Taken, lists
<1>7. ASSUME NEW id \in UUID PROVE SumNext(id)
  <2>1. Terms(id) BY AllTerms
  <2>2. PICK a, e, d, p : a = One(x = id) /\ e = One(entity = id) /\ d = One(debug = id) /\ p = One(debug' = id)
    OBVIOUS
  <2>3. a \in Nat /\ e \in Nat /\ d \in Nat BY <2>2, OneIs
  <2>4. p = d + a
    <3>1. Null # id BY SimulationAssumption DEF SimulationAssumption
    <3>2. CASE x = Null BY <1>3, <2>2, <3>1, <3>2 DEF One
    <3>3. CASE x # Null BY <1>3, <2>2, <3>1, <3>3 DEF One
    <3> QED BY <3>2, <3>3
  <2>5. Refcount(factory', id) = Refcount(factory, id) + a BY <1>4, <2>2 DEF Taken
  <2>6. /\ LoadRefs(id)' = LoadRefs(id) /\ UnloadRefs(id)' = UnloadRefs(id) /\ UpdatingRefs(id)' = UpdatingRefs(id)
        /\ One(entity' = id) = e /\ One(debug' = id) = p /\ nodes' = nodes /\ TaskRefs(id)' = TaskRefs(id)
    BY <1>1, <2>2 DEF LoadRefs, UnloadRefs, UpdatingRefs, TaskRefs, lists
  <2>7. Refcount(factory, id) = LoadRefs(id) + UnloadRefs(id) + UpdatingRefs(id) + e + d + nodes[id] + TaskRefs(id)
    BY <2>1, <2>2 DEF Terms
  <2>8. /\ LoadRefs(id) \in Nat /\ UnloadRefs(id) \in Nat /\ UpdatingRefs(id) \in Nat
        /\ nodes[id] \in Nat /\ TaskRefs(id) \in Nat
    BY <2>1 DEF Terms
  <2>9. Refcount(factory', id) = LoadRefs(id) + UnloadRefs(id) + UpdatingRefs(id) + e + p + nodes[id] + TaskRefs(id)
    BY <2>3, <2>4, <2>5, <2>7, <2>8
  <2> QED BY <2>6, <2>9 DEF SumNext
<1>8. UniverseRest' BY <1>1, <1>4 DEF Parts, UniverseRest, LoadRefs, Taken, lists
<1>9. NodesInv' BY <1>1 DEF Parts, NodesInv, lists
<1>10. FactoryOK(factory') /\ phase' # "done" BY <1>1, <1>4 DEF Taken
<1>11. LiveWorldsStay BY <1>1, SameWorldsStay
<1> QED BY <1>5, <1>6, <1>7, <1>8, <1>9, <1>10, <1>11, StepKeeps

(* The context whose commands run has some. *)
LEMMA CurrentIs ==
    ASSUME \E c \in Context : Busy(c)
    PROVE  Current \in Context /\ Busy(Current)
<1>1. PICK c \in Context : Busy(c) OBVIOUS
<1>2. MainContext \in Context BY SimulationAssumption DEF SimulationAssumption
<1>3. \E d \in Context : Busy(d) /\ (Busy(MainContext) => d = MainContext)
  <2>1. CASE Busy(MainContext) BY <1>2, <2>1
  <2>2. CASE ~Busy(MainContext) BY <1>1, <2>2
  <2> QED BY <2>1, <2>2
<1> HIDE DEF Busy
<1> QED BY <1>3 DEF Current

(* The callbacks that are called for an entity when all are registered.      *)
LEMMA CalledIs ==
    ASSUME NEW f, FactoryOK(f), f.m_callbacks = Listener, NEW id, Exists(f, id)
    PROVE  /\ "OnLoadEntity" \in Called(f, id)
           /\ "OnLoadSpatialEntity" \in Called(f, id) <=> "CWorld" \in Entry(f, id).type_id
           /\ "OnUnloadSpatialEntity" \in Called(f, id) <=> "CWorld" \in Entry(f, id).type_id
           /\ "OnLoadUniverseEntity" \in Called(f, id) <=> "CUniverse" \in Entry(f, id).type_id
           /\ "OnUnloadUniverseEntity" \in Called(f, id) <=> "CUniverse" \in Entry(f, id).type_id
<1>1. PICK T : T = Entry(f, id).type_id OBVIOUS
<1>2. T \in DOMAIN f.m_archetypes
  <2>1. id \in DOMAIN f.m_entries BY DEF Exists
  <2>2. Entry(f, id).header \in DOMAIN f.heap /\ PolyOf(f, id).archetype = Entry(f, id).type_id
    BY <2>1 DEF FactoryOK, BlocksOwned
  <2> QED BY <1>1, <2>2 DEF FactoryOK, BlocksOK, BlocksListed, PolyOf, Entry
<1>3. Range(f.m_archetypes[T].callbacks) = {l \in Listener : ListensTo[l] \subseteq T}
  BY <1>2 DEF FactoryOK, BlocksOK, CallsAll
<1>4. Called(f, id) = {l \in Listener : ListensTo[l] \subseteq T} BY <1>1, <1>3 DEF Called
<1>5. /\ "OnLoadEntity" \in Listener /\ "OnLoadSpatialEntity" \in Listener /\ "OnUnloadSpatialEntity" \in Listener
      /\ "OnLoadUniverseEntity" \in Listener /\ "OnUnloadUniverseEntity" \in Listener
  BY SimulationAssumption DEF SimulationAssumption
<1>6. /\ ListensTo["OnLoadEntity"] = {}
      /\ ListensTo["OnLoadSpatialEntity"] = {"CWorld"} /\ ListensTo["OnUnloadSpatialEntity"] = {"CWorld"}
      /\ ListensTo["OnLoadUniverseEntity"] = {"CUniverse"} /\ ListensTo["OnUnloadUniverseEntity"] = {"CUniverse"}
  BY SimulationAssumption DEF SimulationAssumption
<1> QED BY <1>1, <1>4, <1>5, <1>6

(* The world of one entity changes, to none or to one that nobody has.       *)
WorldBecomes(x, v) ==
    /\ DOMAIN factory'.m_entries = DOMAIN factory.m_entries
    /\ \A j \in DOMAIN factory.m_entries : j # x => SameWorld(factory, factory', j)
    /\ Entry(factory', x).type_id = Entry(factory, x).type_id
    /\ WorldOf(x)' = v
    /\ v # Default => v \notin DOMAIN worlds /\ v \in DOMAIN worlds' /\ ~worlds'[v].unloading
    /\ \A w \in DOMAIN worlds : ~worlds[w].unloading /\ ~(HasWorld(x) /\ WorldOf(x) = w) =>
            w \in DOMAIN worlds' /\ ~worlds'[w].unloading

(* The worlds stay in order when one entity gets a new world or loses its own. *)
LEMMA WorldChanges ==
    ASSUME WorldsOK, NEW x \in DOMAIN factory.m_entries, NEW v, WorldBecomes(x, v)
    PROVE  WorldsOK'
<1>1. ASSUME NEW j \in DOMAIN factory'.m_entries, HasWorld(j)', j # x
      PROVE  /\ j \in DOMAIN factory.m_entries /\ HasWorld(j) /\ WorldOf(j)' = WorldOf(j)
             /\ WorldOf(j) \in DOMAIN worlds
             /\ WorldOf(j)' \in DOMAIN worlds' /\ ~worlds'[WorldOf(j)'].unloading
  <2>1. j \in DOMAIN factory.m_entries /\ SameWorld(factory, factory', j) BY <1>1 DEF WorldBecomes
  <2>2. HasWorld(j) /\ WorldOf(j)' = WorldOf(j) BY <1>1, <2>1 DEF SameWorld, HasWorld, WorldOf
  <2>3. WorldOf(j) \in DOMAIN worlds /\ ~worlds[WorldOf(j)].unloading BY <2>1, <2>2 DEF WorldsOK, WorldsLive
  <2>4. ~(HasWorld(x) /\ WorldOf(x) = WorldOf(j)) BY <1>1, <2>1, <2>2 DEF WorldsOK, WorldsApart
  <2> QED BY <2>1, <2>2, <2>3, <2>4 DEF WorldBecomes
<1>2. ASSUME HasWorld(x)'
      PROVE  WorldOf(x)' = v /\ v \notin DOMAIN worlds /\ v \in DOMAIN worlds' /\ ~worlds'[v].unloading
  BY <1>2 DEF WorldBecomes, HasWorld
<1>3. WorldsLive'
  <2>1. SUFFICES ASSUME NEW j \in DOMAIN factory'.m_entries, HasWorld(j)'
                 PROVE  WorldOf(j)' \in DOMAIN worlds' /\ ~worlds'[WorldOf(j)'].unloading
    BY DEF WorldsLive
  <2>2. CASE j = x BY <2>1, <2>2, <1>2
  <2>3. CASE j # x BY <2>1, <2>3, <1>1
  <2> QED BY <2>2, <2>3
<1>4. WorldsApart'
  <2>1. SUFFICES ASSUME NEW i \in DOMAIN factory'.m_entries, NEW j \in DOMAIN factory'.m_entries,
                        HasWorld(i)', HasWorld(j)', i # j
                 PROVE  WorldOf(i)' # WorldOf(j)'
    BY DEF WorldsApart
  <2>2. CASE i = x
    <3>1. WorldOf(j)' \in DOMAIN worlds BY <2>1, <2>2, <1>1
    <3> QED BY <2>1, <2>2, <3>1, <1>2
  <2>3. CASE j = x
    <3>1. WorldOf(i)' \in DOMAIN worlds BY <2>1, <2>3, <1>1
    <3> QED BY <2>1, <2>3, <3>1, <1>2
  <2>4. CASE i # x /\ j # x
    <3>1. i \in DOMAIN factory.m_entries /\ HasWorld(i) /\ WorldOf(i)' = WorldOf(i) BY <2>1, <2>4, <1>1
    <3>2. j \in DOMAIN factory.m_entries /\ HasWorld(j) /\ WorldOf(j)' = WorldOf(j) BY <2>1, <2>4, <1>1
    <3> QED BY <2>1, <3>1, <3>2 DEF WorldsOK, WorldsApart
  <2> QED BY <2>2, <2>3, <2>4
<1>5. EntriesUniverse'
  <2>1. SUFFICES ASSUME NEW j \in DOMAIN factory'.m_entries
                 PROVE  "CUniverse" \in Entry(factory', j).type_id <=> j = Universe
    BY DEF EntriesUniverse
  <2>2. "CUniverse" \in Entry(factory', j).type_id <=> "CUniverse" \in Entry(factory, j).type_id
    BY DEF WorldBecomes, SameWorld
  <2> QED BY <2>2 DEF WorldBecomes, WorldsOK, EntriesUniverse
<1> QED BY <1>3, <1>4, <1>5 DEF WorldsOK

(* The address of a new world. *)
LEMMA NewWorldIs ==
    ASSUME TypesRest
    PROVE  NewWorld \in (Nat \ {Default}) \ DOMAIN worlds
<1>1. IsFiniteSet(DOMAIN worlds) BY DEF TypesRest
<1> QED BY <1>1, FreeNumber DEF NewWorld, Default

(* g is f with another world for x, if x has the component.                 *)
WorldSet(f, g, x, v) ==
    /\ FactoryOK(g) /\ g.m_callbacks = f.m_callbacks
    /\ DOMAIN g.m_entries = DOMAIN f.m_entries
    /\ \A j \in DOMAIN f.m_entries : j # x => SamePoly(f, g, j)
    /\ Entry(g, x).type_id = Entry(f, x).type_id
    /\ "CWorld" \in Entry(f, x).type_id => PolyOf(g, x).components["CWorld"] = v
    /\ \A j : Refcount(g, j) = Refcount(f, j)

(* The pointer to the world is written if the entity has one. *)
LEMMA SetWorld ==
    ASSUME NEW f, FactoryOK(f), NEW x, Exists(f, x), NEW v \in Nat,
           NEW g, g = IF "CWorld" \in Entry(f, x).type_id THEN SetComponent(f, x, "CWorld", v) ELSE f
    PROVE  WorldSet(f, g, x, v)
<1>1. CASE "CWorld" \notin Entry(f, x).type_id BY <1>1 DEF WorldSet, SamePoly
<1>2. CASE "CWorld" \in Entry(f, x).type_id
  <2>1. ComponentsBy(f, g, x, Entry(f, x).type_id, [PolyOf(f, x).components EXCEPT !["CWorld"] = v])
    BY <1>2, SetComponentSets
  <2>2. PolyOf(f, x).components \in [Entry(f, x).type_id -> Nat] BY ComponentsOf
  <2>3. [PolyOf(f, x).components EXCEPT !["CWorld"] = v]["CWorld"] = v BY <1>2, <2>2
  <2> QED BY <2>1, <2>3 DEF ComponentsBy, WorldSet
<1> QED BY <1>1, <1>2

(* The factory after OnLoad and OnUnload and the end of the command: counts   *)
(* before and after the world is set.                                        *)
LEMMA CountSetCount ==
    ASSUME NEW f, FactoryOK(f), NEW g, DOMAIN g.m_entries = DOMAIN f.m_entries, SamePolys(f, g),
           FactoryOK(g), g.m_callbacks = f.m_callbacks,
           NEW x, Exists(f, x), Refcount(g, x) > 0, NEW v \in Nat,
           NEW h, h = IF "CWorld" \in Entry(f, x).type_id THEN SetComponent(g, x, "CWorld", v) ELSE g,
           NEW e, e = Count(h, x, -1)
    PROVE  /\ WorldSet(g, h, x, v) /\ CountedBy(h, e, x, -1)
           /\ FactoryOK(e) /\ e.m_callbacks = f.m_callbacks
           /\ DOMAIN e.m_entries = DOMAIN f.m_entries
           /\ \A j \in DOMAIN f.m_entries : j # x => SamePoly(f, e, j)
           /\ Entry(e, x).type_id = Entry(f, x).type_id
           /\ "CWorld" \in Entry(f, x).type_id => PolyOf(e, x).components["CWorld"] = v
           /\ SameTypes(f, e)
           /\ \A j : Refcount(e, j) = Refcount(g, j) + (IF j = x THEN -1 ELSE 0)
<1>1. Exists(g, x) /\ Entry(g, x).type_id = Entry(f, x).type_id BY DEF Exists, SamePolys, SamePoly
<1>2. WorldSet(g, h, x, v) BY <1>1, SetWorld
<1>3. FactoryOK(h) /\ Refcount(h, x) > 0 BY <1>2 DEF WorldSet
<1>4. CountedBy(h, e, x, -1) BY <1>3, CountDown
<1>5. \A j \in DOMAIN f.m_entries : j # x => SamePoly(f, e, j)
  BY <1>2, <1>4 DEF SamePolys, SamePoly, WorldSet, CountedBy
<1>6. Entry(e, x).type_id = Entry(f, x).type_id
  BY <1>1, <1>2, <1>4 DEF SamePolys, SamePoly, WorldSet, CountedBy, Exists
<1>7. "CWorld" \in Entry(f, x).type_id => PolyOf(e, x).components["CWorld"] = v
  BY <1>1, <1>2, <1>4 DEF SamePolys, SamePoly, WorldSet, CountedBy, Exists
<1>8. SameTypes(f, e) BY <1>5, <1>6 DEF SameTypes, SamePoly
<1>9. \A j : Refcount(e, j) = Refcount(g, j) + (IF j = x THEN -1 ELSE 0)
  BY <1>2, <1>4 DEF WorldSet, CountedBy, RefsMore
<1> QED BY <1>2, <1>4, <1>5, <1>6, <1>7, <1>8, <1>9 DEF WorldSet, CountedBy

(* The Ref of the command becomes that of updating_entities.                 *)
LEMMA BeginLoadKeeps ==
    ASSUME Parts, BeginLoad
    PROVE  Parts' /\ SameTypes(factory, factory')
<1>1. PICK c : c = Current OBVIOUS
<1>2. PICK x : x = Head(load_commands[c]) OBVIOUS
<1>3. PICK v : v = NewWorld OBVIOUS
<1>4. phase = "load" /\ c \in Context /\ load_commands[c] # <<>>
  BY <1>1, CurrentIs DEF BeginLoad
<1>5. Lists(load_commands, UUID) /\ FactoryOK(factory) BY DEF Parts, TypesRest
<1>6. x \in UUID /\ LoadRefs(x) > 0 BY <1>2, <1>4, <1>5, ListedHead DEF LoadRefs
<1>7. Refcount(factory, x) > 0 /\ Exists(factory, x)
  <2>1. Terms(x) BY <1>6, AllTerms
  <2>2. PICK e, d : e = One(entity = x) /\ d = One(debug = x) OBVIOUS
  <2>3. e \in Nat /\ d \in Nat BY <2>2, OneIs
  <2>4. Refcount(factory, x) > 0 BY <2>1, <2>2, <2>3, <1>6 DEF Terms
  <2> QED BY <2>4, <1>5, RefcountNat
<1>8. PICK T : T = Entry(factory, x).type_id OBVIOUS
<1>9. /\ "OnLoadEntity" \in Called(factory, x)
      /\ "OnLoadSpatialEntity" \in Called(factory, x) <=> "CWorld" \in T
      /\ "OnLoadUniverseEntity" \in Called(factory, x) <=> x = Universe
  <2>1. factory.m_callbacks = Listener BY <1>4 DEF Parts, UniverseRest
  <2>2. "CUniverse" \in T <=> x = Universe
    BY <1>7, <1>8 DEF Parts, WorldsOK, EntriesUniverse, Exists
  <2> QED BY <2>1, <2>2, <1>5, <1>7, <1>8, CalledIs
<1>10. PICK g : g = Count(factory, x, 1) OBVIOUS
<1>11. PICK h : h = IF "CWorld" \in T THEN SetComponent(g, x, "CWorld", v) ELSE g OBVIOUS
<1>12. /\ factory' = Count(h, x, -1)
       /\ updating_entities' = Append(updating_entities, x)
       /\ worlds' = IF "CWorld" \in T THEN Put(worlds, v, [unloading |-> FALSE]) ELSE worlds
       /\ universes' = IF x = Universe THEN Append(universes, x) ELSE universes
       /\ load_commands' = [load_commands EXCEPT ![c] = Tail(@)]
       /\ UNCHANGED <<phase, unload_commands, refs, nodes, task, unloading, calls>>
  <2>1. h = OnLoad(factory, x) BY <1>3, <1>9, <1>10, <1>11 DEF OnLoad
  <2> QED BY <2>1, <1>1, <1>2, <1>3, <1>9 DEF BeginLoad
<1>13. v \in (Nat \ {Default}) \ DOMAIN worlds BY <1>3, NewWorldIs DEF Parts
<1>14. CountedBy(factory, g, x, 1) BY <1>5, <1>7, <1>10, CountUp
<1>15. /\ FactoryOK(factory') /\ factory'.m_callbacks = factory.m_callbacks
       /\ DOMAIN factory'.m_entries = DOMAIN factory.m_entries
       /\ \A j \in DOMAIN factory.m_entries : j # x => SamePoly(factory, factory', j)
       /\ Entry(factory', x).type_id = Entry(factory, x).type_id
       /\ "CWorld" \in T => PolyOf(factory', x).components["CWorld"] = v
       /\ SameTypes(factory, factory')
       /\ \A j : Refcount(factory', j) = Refcount(g, j) + (IF j = x THEN -1 ELSE 0)
  <2>1. Refcount(g, x) > 0
    <3>1. Refcount(g, x) = Refcount(factory, x) + (IF x = x THEN 1 ELSE 0) BY <1>14 DEF CountedBy, RefsMore
    <3>2. Refcount(factory, x) \in Nat BY <1>5, RefcountNat
    <3> QED BY <3>1, <3>2
  <2>2. /\ FactoryOK(g) /\ g.m_callbacks = factory.m_callbacks
        /\ DOMAIN g.m_entries = DOMAIN factory.m_entries /\ SamePolys(factory, g)
    BY <1>14 DEF CountedBy
  <2>3. v \in Nat BY <1>13
  <2> QED BY <2>1, <2>2, <2>3, <1>5, <1>7, <1>8, <1>11, <1>12, CountSetCount
<1>16. ASSUME NEW id
       PROVE  /\ Lists(load_commands', UUID)
              /\ LoadRefs(id) = LoadRefs(id)' + One(x = id) /\ LoadRefs(id)' \in Nat
  <2>1. ListsMore(UUID, load_commands, load_commands', id, One(Head(load_commands[c]) = id))
        /\ Lists(load_commands', UUID)
    BY <1>4, <1>5, <1>12, ListedTail
  <2> QED BY <2>1, <1>2 DEF ListsMore, LoadRefs
<1>17. ASSUME NEW id
       PROVE  updating_entities' \in Seq(UUID) /\ UpdatingRefs(id)' = UpdatingRefs(id) + One(x = id)
  <2>1. updating_entities \in Seq(UUID) BY DEF Parts, TypesRest
  <2>2. Cardinality(Places(Append(updating_entities, x), id)) = Cardinality(Places(updating_entities, id)) + One(x = id)
    BY <2>1, <1>6, PlacesAppend
  <2>3. Append(updating_entities, x) \in Seq(UUID) BY <2>1, <1>6
  <2> QED BY <2>2, <2>3, <1>12 DEF UpdatingRefs
<1>18. /\ worlds' \in [DOMAIN worlds' -> [unloading : BOOLEAN]]
       /\ DOMAIN worlds' \subseteq Nat \ {Default} /\ IsFiniteSet(DOMAIN worlds')
       /\ \A w \in DOMAIN worlds : w \in DOMAIN worlds' /\ worlds'[w] = worlds[w]
       /\ "CWorld" \in T => v \in DOMAIN worlds' /\ worlds'[v].unloading = FALSE
  <2>1. /\ worlds \in [DOMAIN worlds -> [unloading : BOOLEAN]]
        /\ DOMAIN worlds \subseteq Nat \ {Default} /\ IsFiniteSet(DOMAIN worlds)
    BY DEF Parts, TypesRest
  <2>2. CASE "CWorld" \notin T BY <2>1, <2>2, <1>12
  <2>3. CASE "CWorld" \in T
    <3>1. worlds' = [w \in DOMAIN worlds \union {v} |-> IF w = v THEN [unloading |-> FALSE] ELSE worlds[w]]
      BY <2>3, <1>12 DEF Put
    <3>2. DOMAIN worlds' = DOMAIN worlds \union {v} BY <3>1
    <3>3. IsFiniteSet(DOMAIN worlds') BY <2>1, <3>2, FS_AddElement
    <3>4. worlds' \in [DOMAIN worlds' -> [unloading : BOOLEAN]] BY <2>1, <3>1
    <3> QED BY <2>1, <3>1, <3>2, <3>3, <3>4, <1>13
  <2> QED BY <2>2, <2>3
<1>19. universes' \in Seq(UUID) /\ \A i \in DOMAIN universes' : universes'[i] = Universe
  <2>1. universes \in Seq(UUID) /\ \A i \in DOMAIN universes : universes[i] = Universe
    BY DEF Parts, TypesRest, UniverseRest
  <2>2. CASE x # Universe BY <2>1, <2>2, <1>12
  <2>3. CASE x = Universe
    <3>1. universes' = Append(universes, x) BY <2>3, <1>12
    <3>2. universes' \in Seq(UUID) /\ DOMAIN universes' = 1 .. Len(universes) + 1 /\ DOMAIN universes = 1 .. Len(universes)
      BY <2>1, <3>1, <1>6, ListHas, AppendProperties DEF ListOf
    <3>3. /\ \A i \in 1 .. Len(universes) : universes'[i] = universes[i]
          /\ universes'[Len(universes) + 1] = x
      BY <2>1, <3>1, <1>6, AppendProperties
    <3>4. Len(universes) \in Nat BY <2>1
    <3> QED BY <2>1, <2>3, <3>2, <3>3, <3>4
  <2> QED BY <2>2, <2>3
<1>20. TypesRest' BY <1>12, <1>15, <1>16, <1>17, <1>18, <1>19 DEF Parts, TypesRest, refs
<1>21. RefsCounted'
  <2>1. ASSUME NEW id \in UUID PROVE SumNext(id)
    <3>1. Terms(id) BY AllTerms
    <3>2. PICK a, e, d : a = One(x = id) /\ e = One(entity = id) /\ d = One(debug = id) OBVIOUS
    <3>3. a \in Nat /\ e \in Nat /\ d \in Nat BY <3>2, OneIs
    <3>4. Refcount(factory', id) = Refcount(factory, id)
      <4>1. Refcount(g, id) = Refcount(factory, id) + (IF id = x THEN 1 ELSE 0) BY <1>14 DEF CountedBy, RefsMore
      <4>2. Refcount(factory', id) = Refcount(g, id) + (IF id = x THEN -1 ELSE 0) BY <1>15
      <4>3. Refcount(factory, id) \in Nat BY <1>5, RefcountNat
      <4> QED BY <4>1, <4>2, <4>3
    <3>5. LoadRefs(id) = LoadRefs(id)' + a /\ LoadRefs(id)' \in Nat BY <1>16, <3>2
    <3>6. UpdatingRefs(id)' = UpdatingRefs(id) + a BY <1>17, <3>2
    <3>7. /\ UnloadRefs(id)' = UnloadRefs(id) /\ One(entity' = id) = e /\ One(debug' = id) = d
          /\ nodes' = nodes /\ TaskRefs(id)' = TaskRefs(id)
      BY <1>12, <3>2 DEF UnloadRefs, TaskRefs, refs
    <3>8. Refcount(factory, id) = LoadRefs(id) + UnloadRefs(id) + UpdatingRefs(id) + e + d + nodes[id] + TaskRefs(id)
      BY <3>1, <3>2 DEF Terms
    <3>9. UnloadRefs(id) \in Nat /\ UpdatingRefs(id) \in Nat /\ nodes[id] \in Nat /\ TaskRefs(id) \in Nat
      BY <3>1 DEF Terms
    <3>10. Refcount(factory', id) = LoadRefs(id)' + UnloadRefs(id) + UpdatingRefs(id)' + e + d + nodes[id] + TaskRefs(id)
      BY <3>3, <3>4, <3>5, <3>6, <3>8, <3>9
    <3> QED BY <3>7, <3>10 DEF SumNext
  <2> QED BY <2>1, SumsNext
<1>22. WorldsOK'
  <2>1. \A w \in DOMAIN worlds : ~worlds[w].unloading => w \in DOMAIN worlds' /\ ~worlds'[w].unloading
    BY <1>18
  <2>2. \A j \in DOMAIN factory.m_entries : j # x => SameWorld(factory, factory', j)
    BY <1>15, SamePolySameWorld
  <2>3. CASE "CWorld" \in T
    <3>1. WorldOf(x)' = v BY <2>3, <1>15 DEF WorldOf
    <3>2. WorldBecomes(x, v) BY <2>1, <2>2, <2>3, <3>1, <1>13, <1>15, <1>18 DEF WorldBecomes
    <3> QED BY <3>2, <1>7, WorldChanges DEF Parts, Exists
  <2>4. CASE "CWorld" \notin T
    <3>1. SameWorld(factory, factory', x) BY <2>4, <1>8, <1>15 DEF SameWorld
    <3>2. OldOrFresh(factory, factory') BY <2>2, <3>1, <1>15 DEF OldOrFresh
    <3> QED BY <2>1, <3>2, WorldsStay DEF Parts, LiveWorldsStay
  <2> QED BY <2>3, <2>4
<1>23. UniverseRest'
  <2>1. x = Universe => entity = Universe BY <1>4, <1>6 DEF Parts, UniverseRest
  <2>2. LoadRefs(Universe)' > 0 => LoadRefs(Universe) > 0
    <3>1. LoadRefs(Universe) = LoadRefs(Universe)' + One(x = Universe) /\ LoadRefs(Universe)' \in Nat BY <1>16
    <3>2. One(x = Universe) \in Nat BY OneIs
    <3> QED BY <3>1, <3>2
  <2>3. universes' # <<>> => universes # <<>> \/ x = Universe BY <1>12
  <2>4. universes # <<>> \/ LoadRefs(Universe) > 0 => entity = Universe BY <1>4 DEF Parts, UniverseRest
  <2> QED BY <2>1, <2>2, <2>3, <2>4, <1>4, <1>12, <1>15, <1>19 DEF Parts, UniverseRest, refs
<1>24. NodesInv'
  <2>1. worlds' = <<>> => worlds = <<>>
    <3>1. worlds' = <<>> => DOMAIN worlds' = {} BY <1>20, NoWorldsNext
    <3>2. DOMAIN worlds = {} => worlds = <<>> BY NoWorlds DEF Parts
    <3> QED BY <3>1, <3>2, <1>18
  <2>2. \A t \in Task : task[t] = IdleTask BY <1>4 DEF Parts, NodesInv
  <2> QED BY <2>1, <2>2, <1>4, <1>12 DEF Parts, NodesInv
<1>25. LeftOnlyQueued' BY <1>4, <1>12, NotAtEnd
<1> QED BY <1>15, <1>20, <1>21, <1>22, <1>23, <1>24, <1>25 DEF Parts

(* unordered_erase_it leaves a list of the same elements. *)
LEMMA EraseFirstIn ==
    ASSUME NEW S, NEW s \in Seq(S)
    PROVE  EraseFirst(s) \in Seq(S) /\ (s = <<>> => EraseFirst(s) = <<>>)
<1>1. CASE s = <<>>
  <2>1. Len(s) = 0 BY <1>1
  <2>2. EraseFirst(s) = <<>> BY <2>1 DEF EraseFirst
  <2> QED BY <2>2, EmptySeq
<1>2. CASE s # <<>> BY <1>2, PlacesEraseFirst
<1> QED BY <1>1, <1>2

(* Two Refs end, of the entity that is erased and of the command; one that   *)
(* has both loses both.                                                      *)
LEMMA BeginUnloadKeeps ==
    ASSUME Parts, BeginUnload
    PROVE  Parts' /\ SameTypes(factory, factory')
<1>1. PICK c : c = Current OBVIOUS
<1>2. PICK x : x = Head(unload_commands[c]) OBVIOUS
<1>3. PICK S : S = UUID \union {Null} OBVIOUS
<1>4. phase = "load" /\ c \in Context /\ load_commands[c] = <<>> /\ unload_commands[c] # <<>>
  <2>1. Current \in Context /\ Busy(Current) BY CurrentIs DEF BeginUnload
  <2> QED BY <1>1, <2>1 DEF BeginUnload, Busy
<1>5. /\ Lists(unload_commands, S) /\ FactoryOK(factory)
      /\ updating_entities \in Seq(UUID)
      /\ DOMAIN factory.m_entries \subseteq UUID
  BY <1>3 DEF Parts, TypesRest
<1>6. x \in S /\ UnloadRefs(x) > 0 BY <1>2, <1>4, <1>5, ListedHead DEF UnloadRefs
<1>7. ~UnloadCrashes(x) BY <1>1, <1>2 DEF BeginUnload
<1>8. x \in UUID BY <1>3, <1>6, <1>7 DEF UnloadCrashes
<1>9. PICK y : y = IF updating_entities = <<>> THEN Null ELSE Head(updating_entities) OBVIOUS
<1>10. /\ y # Null => y \in UUID /\ UpdatingRefs(y) > 0
       /\ updating_entities # <<>> => y = Head(updating_entities) /\ y # Null
       /\ updating_entities = <<>> => y = Null
  <2>1. CASE updating_entities # <<>>
    <3>1. Head(updating_entities) \in UUID /\ Cardinality(Places(updating_entities, Head(updating_entities))) > 0
      BY <2>1, <1>5, PlacesHead
    <3> QED BY <2>1, <3>1, <1>9, SimulationAssumption DEF UpdatingRefs, SimulationAssumption
  <2>2. CASE updating_entities = <<>> BY <2>2, <1>9
  <2> QED BY <2>1, <2>2
<1>11. PICK g : g = IF y = Null THEN factory ELSE Count(factory, y, -1) OBVIOUS
<1>12. ASSUME NEW id \in UUID
       PROVE  /\ Refcount(factory, id) \in Nat
              /\ Refcount(factory, id) >= UnloadRefs(id) + UpdatingRefs(id)
              /\ UnloadRefs(id) \in Nat /\ UpdatingRefs(id) \in Nat
  <2>1. Terms(id) BY AllTerms
  <2>2. PICK e, d : e = One(entity = id) /\ d = One(debug = id) OBVIOUS
  <2>3. e \in Nat /\ d \in Nat BY <2>2, OneIs
  <2>4. /\ LoadRefs(id) \in Nat /\ UnloadRefs(id) \in Nat /\ UpdatingRefs(id) \in Nat
        /\ nodes[id] \in Nat /\ TaskRefs(id) \in Nat
        /\ Refcount(factory, id) = LoadRefs(id) + UnloadRefs(id) + UpdatingRefs(id) + e + d + nodes[id] + TaskRefs(id)
    BY <2>1, <2>2 DEF Terms
  <2> QED BY <2>3, <2>4
<1>13. Refcount(factory, x) > 0 /\ Exists(factory, x)
  <2>1. Refcount(factory, x) > 0 BY <1>6, <1>8, <1>12
  <2> QED BY <2>1, <1>5, RefcountNat
<1>14. Released(factory, g, y)
  <2>1. y # Null => Refcount(factory, y) > 0 BY <1>10, <1>12
  <2> QED BY <2>1, <1>5, <1>11, RefEnds
<1>15. Refcount(g, x) > 0
  <2>1. Refcount(factory, x) = Refcount(g, x) + One(y = x) BY <1>8, <1>14 DEF Released
  <2>2. Refcount(g, x) \in Nat BY <1>14, RefcountNat DEF Released
  <2>3. CASE y = x
    <3>1. One(y = x) = 1 BY <2>3, OneIs
    <3>2. y # Null BY <2>3, <1>8, SimulationAssumption DEF SimulationAssumption
    <3>3. UpdatingRefs(x) > 0 BY <2>3, <3>2, <1>10
    <3> QED BY <2>1, <2>2, <3>1, <3>3, <1>6, <1>8, <1>12
  <2>4. CASE y # x
    <3>1. One(y = x) = 0 BY <2>4, OneIs
    <3> QED BY <2>1, <2>2, <3>1, <1>13
  <2> QED BY <2>3, <2>4
<1>16. PICK T : T = Entry(factory, x).type_id OBVIOUS
<1>17. PICK h : h = IF "CWorld" \in T THEN SetComponent(g, x, "CWorld", Default) ELSE g OBVIOUS
<1>18. /\ "OnUnloadSpatialEntity" \in Called(factory, x) <=> "CWorld" \in T
       /\ "OnUnloadUniverseEntity" \in Called(factory, x) <=> "CUniverse" \in T
  <2>1. factory.m_callbacks = Listener BY <1>4 DEF Parts, UniverseRest
  <2> QED BY <2>1, <1>5, <1>13, <1>16, CalledIs
<1>19. PICK w : w = WorldOf(x) OBVIOUS
<1>20. /\ factory' = Count(h, x, -1)
       /\ updating_entities' = EraseFirst(updating_entities)
       /\ universes' \in {universes, EraseFirst(universes)}
       /\ worlds' = IF "CWorld" \in T THEN [worlds EXCEPT ![w].unloading = TRUE] ELSE worlds
       /\ unload_commands' = [unload_commands EXCEPT ![c] = Tail(@)]
       /\ UNCHANGED <<phase, load_commands, refs, nodes, task, unloading, calls>>
  <2>1. h = OnUnload(factory, x) BY <1>9, <1>10, <1>11, <1>17, <1>18 DEF OnUnload
  <2>2. /\ factory' = Count(OnUnload(factory, x), x, -1)
        /\ updating_entities' = EraseFirst(updating_entities)
        /\ universes' = OnUnloadUniverseEntity(x)
        /\ worlds' = IF "OnUnloadSpatialEntity" \in Called(factory, x)
                       THEN [worlds EXCEPT ![w].unloading = TRUE] ELSE worlds
        /\ unload_commands' = [unload_commands EXCEPT ![c] = Tail(@)]
        /\ UNCHANGED <<phase, load_commands, refs, nodes, task, unloading, calls>>
    BY <1>1, <1>2, <1>19 DEF BeginUnload
  <2> QED BY <2>1, <2>2, <1>18 DEF OnUnloadUniverseEntity
<1>21. "CWorld" \in T => HasWorld(x) /\ w \in DOMAIN worlds
  <2>1. ASSUME "CWorld" \in T PROVE HasWorld(x)
    <3>1. x # Null BY <1>8, SimulationAssumption DEF SimulationAssumption
    <3>2. WorldOf(x) # Default BY <2>1, <3>1, <1>7, <1>18 DEF UnloadCrashes
    <3> QED BY <2>1, <3>2, <1>16 DEF HasWorld
  <2>2. x \in DOMAIN factory.m_entries BY <1>13 DEF Exists
  <2> QED BY <2>1, <2>2, <1>19 DEF Parts, WorldsOK, WorldsLive
<1>22. /\ FactoryOK(factory') /\ factory'.m_callbacks = factory.m_callbacks
       /\ DOMAIN factory'.m_entries = DOMAIN factory.m_entries
       /\ \A j \in DOMAIN factory.m_entries : j # x => SamePoly(factory, factory', j)
       /\ Entry(factory', x).type_id = Entry(factory, x).type_id
       /\ "CWorld" \in T => PolyOf(factory', x).components["CWorld"] = Default
       /\ SameTypes(factory, factory')
       /\ \A j : Refcount(factory', j) = Refcount(g, j) + (IF j = x THEN -1 ELSE 0)
  <2>1. /\ FactoryOK(g) /\ g.m_callbacks = factory.m_callbacks
        /\ DOMAIN g.m_entries = DOMAIN factory.m_entries /\ SamePolys(factory, g)
    BY <1>14 DEF Released
  <2>2. Default \in Nat BY DEF Default
  <2> QED BY <2>1, <2>2, <1>5, <1>13, <1>15, <1>16, <1>17, <1>20, CountSetCount
<1>23. ASSUME NEW id
       PROVE  /\ Lists(unload_commands', S)
              /\ UnloadRefs(id) = UnloadRefs(id)' + One(x = id) /\ UnloadRefs(id)' \in Nat
  <2>1. ListsMore(S, unload_commands, unload_commands', id, One(Head(unload_commands[c]) = id))
        /\ Lists(unload_commands', S)
    BY <1>4, <1>5, <1>20, ListedTail
  <2> QED BY <2>1, <1>2 DEF ListsMore, UnloadRefs
<1>24. updating_entities' \in Seq(UUID) BY <1>5, <1>20, EraseFirstIn
<1>25. ASSUME NEW id \in UUID
       PROVE  UpdatingRefs(id) = UpdatingRefs(id)' + One(y = id) /\ UpdatingRefs(id)' \in Nat
  <2>1. UpdatingRefs(id)' \in Nat BY <1>24, PlacesCounted DEF UpdatingRefs
  <2>2. CASE updating_entities = <<>>
    <3>1. updating_entities' = updating_entities BY <2>2, <1>5, <1>20, EraseFirstIn
    <3>2. y # id BY <2>2, <1>10, SimulationAssumption DEF SimulationAssumption
    <3>3. One(y = id) = 0 BY <3>2, OneIs
    <3> QED BY <2>1, <3>1, <3>3 DEF UpdatingRefs
  <2>3. CASE updating_entities # <<>>
    <3>1. Cardinality(Places(updating_entities, id))
            = Cardinality(Places(EraseFirst(updating_entities), id)) + One(Head(updating_entities) = id)
      BY <2>3, <1>5, PlacesEraseFirst
    <3> QED BY <2>1, <2>3, <3>1, <1>10, <1>20 DEF UpdatingRefs
  <2> QED BY <2>2, <2>3
<1>26. /\ worlds' \in [DOMAIN worlds' -> [unloading : BOOLEAN]]
       /\ DOMAIN worlds' = DOMAIN worlds
       /\ \A u \in DOMAIN worlds : ~("CWorld" \in T /\ u = w) => worlds'[u] = worlds[u]
  <2>1. worlds \in [DOMAIN worlds -> [unloading : BOOLEAN]] BY DEF Parts, TypesRest
  <2>2. CASE "CWorld" \notin T BY <2>1, <2>2, <1>20
  <2>3. CASE "CWorld" \in T
    <3>1. PICK r : r = [worlds[w] EXCEPT !.unloading = TRUE] OBVIOUS
    <3>2. worlds' = [worlds EXCEPT ![w] = r] BY <2>3, <3>1, <1>20
    <3>3. r \in [unloading : BOOLEAN] BY <2>1, <2>3, <3>1, <1>21
    <3> QED BY <2>1, <2>3, <3>2, <3>3
  <2> QED BY <2>2, <2>3
<1>27. /\ universes' \in Seq(UUID) /\ \A i \in DOMAIN universes' : universes'[i] = Universe
       /\ universes' # <<>> => universes # <<>>
  <2>1. universes \in Seq(UUID) /\ \A i \in DOMAIN universes : universes[i] = Universe
    BY DEF Parts, TypesRest, UniverseRest
  <2>2. universes \in Seq({Universe})
    <3>1. ListOf(universes, Len(universes)) BY <2>1, ListHas
    <3>2. universes = [i \in 1 .. Len(universes) |-> universes[i]] BY <2>1, <3>1 DEF ListOf
    <3>3. Len(universes) \in Nat /\ \A i \in 1 .. Len(universes) : universes[i] \in {Universe}
      BY <2>1, <3>1 DEF ListOf
    <3> QED BY <3>2, <3>3, IsASeq
  <2>3. universes' \in Seq({Universe}) /\ (universes = <<>> => universes' = <<>>)
    BY <2>2, <1>20, EraseFirstIn
  <2>4. \A i \in DOMAIN universes' : universes'[i] = Universe
    <3>1. ListOf(universes', Len(universes')) /\ \A i \in 1 .. Len(universes') : universes'[i] \in {Universe}
      BY <2>3, ListHas
    <3> QED BY <3>1 DEF ListOf
  <2>5. universes' \in Seq(UUID)
    <3>1. {Universe} \subseteq UUID BY SimulationAssumption DEF SimulationAssumption
    <3> QED BY <2>3, <3>1
  <2> QED BY <2>3, <2>4, <2>5
<1>28. TypesRest' BY <1>3, <1>20, <1>22, <1>23, <1>24, <1>26, <1>27 DEF Parts, TypesRest, refs
<1>29. RefsCounted'
  <2>1. ASSUME NEW id \in UUID PROVE SumNext(id)
    <3>1. Terms(id) BY AllTerms
    <3>2. PICK a, b, e, d : a = One(x = id) /\ b = One(y = id) /\ e = One(entity = id) /\ d = One(debug = id)
      OBVIOUS
    <3>3. a \in Nat /\ b \in Nat /\ e \in Nat /\ d \in Nat BY <3>2, OneIs
    <3>4. Refcount(factory, id) = Refcount(factory', id) + a + b /\ Refcount(factory', id) \in Nat
      <4>1. Refcount(factory, id) = Refcount(g, id) + b BY <1>14, <3>2 DEF Released
      <4>2. Refcount(factory', id) = Refcount(g, id) + (IF id = x THEN -1 ELSE 0) BY <1>22
      <4>3. (IF id = x THEN -1 ELSE 0) = -a BY <3>2 DEF One
      <4>4. Refcount(g, id) \in Nat BY <1>14, RefcountNat DEF Released
      <4>5. Refcount(factory', id) \in Nat BY <1>22, RefcountNat
      <4> QED BY <3>3, <4>1, <4>2, <4>3, <4>4, <4>5
    <3>5. UnloadRefs(id) = UnloadRefs(id)' + a /\ UnloadRefs(id)' \in Nat BY <1>23, <3>2
    <3>6. UpdatingRefs(id) = UpdatingRefs(id)' + b /\ UpdatingRefs(id)' \in Nat BY <1>25, <3>2
    <3>7. /\ LoadRefs(id)' = LoadRefs(id) /\ One(entity' = id) = e /\ One(debug' = id) = d
          /\ nodes' = nodes /\ TaskRefs(id)' = TaskRefs(id)
      BY <1>20, <3>2 DEF LoadRefs, TaskRefs, refs
    <3>8. Refcount(factory, id) = LoadRefs(id) + UnloadRefs(id) + UpdatingRefs(id) + e + d + nodes[id] + TaskRefs(id)
      BY <3>1, <3>2 DEF Terms
    <3>9. LoadRefs(id) \in Nat /\ nodes[id] \in Nat /\ TaskRefs(id) \in Nat
      BY <3>1 DEF Terms
    <3>10. Refcount(factory', id) = LoadRefs(id) + UnloadRefs(id)' + UpdatingRefs(id)' + e + d + nodes[id] + TaskRefs(id)
      <4>1. PICK r, l, u, p, n, t : /\ r = Refcount(factory', id) /\ l = LoadRefs(id) /\ u = UnloadRefs(id)'
                                    /\ p = UpdatingRefs(id)' /\ n = nodes[id] /\ t = TaskRefs(id)
        OBVIOUS
      <4>2. r + a + b = l + (u + a) + (p + b) + e + d + n + t
        BY <3>4, <3>5, <3>6, <3>8, <4>1
      <4>3. r \in Nat /\ l \in Nat /\ u \in Nat /\ p \in Nat /\ n \in Nat /\ t \in Nat
        BY <3>4, <3>5, <3>6, <3>9, <4>1
      <4>4. r = l + u + p + e + d + n + t BY ONLY <3>3, <4>2, <4>3
      <4> QED BY <4>1, <4>4
    <3> QED BY <3>7, <3>10 DEF SumNext
  <2> QED BY <2>1, SumsNext
<1>30. WorldsOK'
  <2>1. \A j \in DOMAIN factory.m_entries : j # x => SameWorld(factory, factory', j)
    BY <1>22, SamePolySameWorld
  <2>2. CASE "CWorld" \in T
    <3>1. WorldOf(x)' = Default BY <2>2, <1>22 DEF WorldOf
    <3>2. \A u \in DOMAIN worlds : ~worlds[u].unloading /\ ~(HasWorld(x) /\ WorldOf(x) = u) =>
            u \in DOMAIN worlds' /\ ~worlds'[u].unloading
      BY <2>2, <1>19, <1>21, <1>26
    <3>3. WorldBecomes(x, Default) BY <2>1, <3>1, <3>2, <1>22 DEF WorldBecomes
    <3> QED BY <3>3, <1>13, WorldChanges DEF Parts, Exists
  <2>3. CASE "CWorld" \notin T
    <3>1. SameWorld(factory, factory', x) BY <2>3, <1>16, <1>22 DEF SameWorld
    <3>2. OldOrFresh(factory, factory') BY <2>1, <3>1, <1>22 DEF OldOrFresh
    <3>3. LiveWorldsStay BY <2>3, <1>20, SameWorldsStay
    <3> QED BY <3>2, <3>3, WorldsStay DEF Parts
  <2> QED BY <2>2, <2>3
<1>31. UniverseRest' BY <1>4, <1>20, <1>22, <1>27 DEF Parts, UniverseRest, LoadRefs, refs
<1>32. NodesInv'
  <2>1. worlds' = <<>> => worlds = <<>>
    <3>1. worlds' = <<>> => DOMAIN worlds' = {} BY <1>28, NoWorldsNext
    <3>2. DOMAIN worlds = {} => worlds = <<>> BY NoWorlds DEF Parts
    <3> QED BY <3>1, <3>2, <1>26
  <2>2. \A t \in Task : task[t] = IdleTask BY <1>4 DEF Parts, NodesInv
  <2> QED BY <2>1, <2>2, <1>4, <1>20 DEF Parts, NodesInv
<1>33. LeftOnlyQueued' BY <1>4, <1>20, NotAtEnd
<1> QED BY <1>22, <1>28, <1>29, <1>30, <1>31, <1>32, <1>33 DEF Parts

-----------------------------------------------------------------------------
(* Every step.                                                               *)

(* Without a change of type there is nothing to move. *)
LEMMA SameTypesKeep ==
    ASSUME SameTypes(factory, factory')
    PROVE  KeepsComponents
BY DEF SameTypes, KeepsComponents

(* Nor without a change of an entry. *)
LEMMA SameFactoryKeeps ==
    ASSUME factory'.m_entries = factory.m_entries
    PROVE  KeepsComponents
BY DEF KeepsComponents, Entry

(* The commands of scripts and the steps between frames. *)
LEMMA CommandStepKeeps ==
    ASSUME Parts, CommandStep
    PROVE  Parts' /\ KeepsComponents
<1>1. CASE \E l \in Listener : Initialize(l)
  <2>1. PICK l \in Listener : Initialize(l) BY <1>1
  <2>2. l \notin factory.m_callbacks /\ factory' = AddCallback(factory, l) BY <2>1 DEF Initialize
  <2>3. factory'.m_entries = factory.m_entries BY <2>2, AddCallbackAdds DEF Parts
  <2> QED BY <2>1, <2>3, InitializeKeeps, SameFactoryKeeps
<1>2. CASE StartLocalUniverse BY <1>2, StartLocalUniverseKeeps, SameTypesKeep
<1>3. CASE DisconnectFromUniverse BY <1>3, DisconnectFromUniverseKeeps, SameTypesKeep
<1>4. CASE SetDebugName
  <2>1. /\ Parts'
        /\ \A j \in DOMAIN factory.m_entries : j # Universe => SamePoly(factory, factory', j)
        /\ \A c \in Entry(factory, Universe).type_id :
             PolyOf(factory', Universe).components[c] = PolyOf(factory, Universe).components[c]
    BY <1>4, SetDebugNameKeeps
  <2>2. KeepsComponents BY <2>1 DEF KeepsComponents, SamePoly
  <2> QED BY <2>1, <2>2
<1>5. CASE SimulationUnload
  <2>1. factory' = factory BY <1>5 DEF SimulationUnload
  <2> QED BY <2>1, <1>5, SimulationUnloadKeeps, SameFactoryKeeps
<1>6. CASE BeginFrame
  <2>1. factory' = factory BY <1>6 DEF BeginFrame
  <2> QED BY <2>1, <1>6, QuietStepsKeep, SameFactoryKeeps
<1> QED BY <1>1, <1>2, <1>3, <1>4, <1>5, <1>6 DEF CommandStep

(* The tasks of the pool. *)
LEMMA TaskStepKeeps ==
    ASSUME Parts, TaskStep \/ (\E id \in UUID : TaskUnloadNode(id))
    PROVE  Parts' /\ KeepsComponents
<1>1. CASE \E t \in Task, id \in UUID \ {Universe} : TaskGetPoly(t, id)
  BY <1>1, TaskGetPolyKeeps, SameTypesKeep
<1>2. CASE \E t \in Task, c \in Context : TaskPushLoad(t, c) BY <1>2, TaskPushLoadKeeps, SameTypesKeep
<1>3. CASE \E t \in Task : TaskPushNode(t) BY <1>3, TaskPushNodeKeeps, SameTypesKeep
<1>4. CASE \E t \in Task : TaskEnd(t) BY <1>4, TaskEndKeeps, SameTypesKeep
<1>5. CASE \E id \in UUID : TaskUnloadNode(id) BY <1>5, TaskUnloadNodeKeeps, SameTypesKeep
<1> QED BY <1>1, <1>2, <1>3, <1>4, <1>5 DEF TaskStep

(* The single-threaded part of a frame, and the end of the simulation. *)
LEMMA FrameStepKeeps ==
    ASSUME Parts, FrameStep
    PROVE  Parts' /\ KeepsComponents
<1>1. CASE EndTasks \/ Crash \/ CheckUnload
  <2>1. factory' = factory BY <1>1 DEF EndTasks, Crash, CheckUnload
  <2> QED BY <2>1, <1>1, QuietStepsKeep, SameFactoryKeeps
<1>2. CASE DebugRenderUpdate BY <1>2, DebugRenderUpdateKeeps, SameTypesKeep
<1>3. CASE \E gone \in SUBSET DOMAIN worlds : SpatialUpdate(gone)
  <2>1. factory' = factory BY <1>3 DEF SpatialUpdate
  <2> QED BY <2>1, <1>3, SpatialUpdateKeeps, SameFactoryKeeps
<1>4. CASE BeginLoad BY <1>4, BeginLoadKeeps, SameTypesKeep
<1>5. CASE BeginUnload BY <1>5, BeginUnloadKeeps, SameTypesKeep
<1>6. CASE EndFrame
  <2>1. Parts' /\ \A j \in DOMAIN factory'.m_entries : SamePoly(factory, factory', j) BY <1>6, EndFrameKeeps
  <2>2. KeepsComponents BY <2>1 DEF KeepsComponents, SamePoly, Exists
  <2> QED BY <2>1, <2>2
<1>7. CASE SimulationUninitialize BY <1>7, SimulationUninitializeKeeps, SameTypesKeep
<1> QED BY <1>1, <1>2, <1>3, <1>4, <1>5, <1>6, <1>7 DEF FrameStep

(* Without a step nothing changes. *)
LEMMA StutterKeeps ==
    ASSUME Parts, UNCHANGED vars
    PROVE  Parts'
BY DEF vars, lists, refs, calls, Parts, TypesRest, RefsCounted, RefsTo, LeftOnlyQueued, WorldsOK, WorldsLive,
       WorldsApart, EntriesUniverse, HasWorld, WorldOf, UniverseRest, LoadRefs, NodesInv

(* Every step keeps the parts of the invariant, and the components of entities. *)
LEMMA NextKeeps ==
    ASSUME Parts, [Next]_vars
    PROVE  Parts' /\ [KeepsComponents]_vars
<1>1. CASE CommandStep BY <1>1, CommandStepKeeps
<1>2. CASE TaskStep \/ (\E id \in UUID : TaskUnloadNode(id)) BY <1>2, TaskStepKeeps
<1>3. CASE FrameStep BY <1>3, FrameStepKeeps
<1>4. CASE Ended \/ UNCHANGED vars
  <2>1. UNCHANGED vars BY <1>4 DEF Ended
  <2> QED BY <2>1, StutterKeeps
<1> QED BY <1>1, <1>2, <1>3, <1>4 DEF Next

(* What keeps the properties of the simulation true holds in every state, in *)
(* which threads of the pool, the simulation thread and the commands of      *)
(* scripts share the factory.                                                *)
THEOREM SimulationInvariant == Spec => []SimulationInv
<1>1. Init => Parts BY InitKeeps
<1>2. Parts /\ [Next]_vars => Parts' BY NextKeeps
<1>3. Parts => SimulationInv BY PartsOfInv
<1> QED BY <1>1, <1>2, <1>3, PTL DEF Spec

(* After each operation of PolyFactory.h the entries, the blocks and the     *)
(* archetypes agree, and an archetype calls every callback it has the        *)
(* components for, whether it or the callback came first.                    *)
THEOREM FactoryAlwaysConsistent == Spec => []FactoryConsistent
<1>1. SimulationInv => FactoryConsistent BY DEF SimulationInv
<1> QED BY <1>1, SimulationInvariant, PTL

(* The count of an entity is the number of Refs to it, so that Cleanup       *)
(* removes no entity in use and keeps none out of use; the end of the        *)
(* simulation leaves only entities of commands that were not run.            *)
THEOREM RefsAlwaysExact == Spec => []RefsExact
<1>1. SimulationInv => RefsExact BY DEF SimulationInv
<1> QED BY <1>1, SimulationInvariant, PTL

(* The world that an entity points to was not destroyed by spatial3d::Update *)
(* and is not about to be.                                                   *)
THEOREM WorldsAlwaysLive == Spec => []WorldsLive
<1>1. SimulationInv => WorldsLive BY DEF SimulationInv
<1> QED BY <1>1, SimulationInvariant, PTL

(* UpdatePolyType moves the components that both types have.                 *)
THEOREM ComponentsAlwaysKept == Spec => ComponentsKept
<1>1. Spec => []Parts
  <2>1. Init => Parts BY InitKeeps
  <2>2. Parts /\ [Next]_vars => Parts' BY NextKeeps
  <2> QED BY <2>1, <2>2, PTL DEF Spec
<1>2. Parts /\ [Next]_vars => [KeepsComponents]_vars BY NextKeeps
<1> QED BY <1>1, <1>2, PTL DEF Spec, ComponentsKept
=============================================================================
