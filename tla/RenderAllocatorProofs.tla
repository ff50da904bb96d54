------------------------ MODULE RenderAllocatorProofs -----------------------
(* That every RID is in one place, and that m_requests says when the render  *)
(* thread has made its last call, for any number of types and contexts, any  *)
(* sizes of the pools and any width of the counter.                          *)
EXTENDS RenderAllocator, SequenceTheorems, TLAPS

-----------------------------------------------------------------------------
(* Sequences of RIDs and the sets they stand for.                            *)

(* The elements of a list of m RIDs, by their positions. *)
Listed(s, m) ==
    /\ \A i \in 1 .. m : s[i] \in ToSet(s)
    /\ \A x \in ToSet(s) : \E i \in 1 .. m : x = s[i]
    /\ IsInjective(s) <=> \A i \in 1 .. m : \A j \in 1 .. m : s[i] = s[j] => i = j

(* The positions of a list. *)
LEMMA Positions ==
    ASSUME NEW s \in Seq(Nat), NEW m, m = Len(s)
    PROVE  Listed(s, m)
<1>1. DOMAIN s = 1 .. m BY LenProperties
<1> QED BY <1>1 DEF Listed, ToSet, IsInjective

(* The elements of a list as a set. *)
LEMMA ToSetIsRange ==
    ASSUME NEW s
    PROVE  ToSet(s) = Range(s)
BY DEF ToSet, Range

(* Moving one list behind another keeps every element, and once. *)
LEMMA Together ==
    ASSUME NEW s \in Seq(Nat), NEW t \in Seq(Nat)
    PROVE  /\ s \o t \in Seq(Nat)
           /\ Len(s \o t) = Len(s) + Len(t)
           /\ ToSet(s \o t) = ToSet(s) \union ToSet(t)
           /\ IsInjective(s) /\ IsInjective(t) /\ ToSet(s) \intersect ToSet(t) = {}
                => IsInjective(s \o t)
<1> DEFINE u == s \o t
           m == Len(s)
           n == Len(t)
<1>1. /\ u \in Seq(Nat) /\ Len(u) = m + n
      /\ \A i \in 1 .. m + n : u[i] = IF i <= m THEN s[i] ELSE t[i - m]
  BY ConcatProperties
<1>2. m \in Nat /\ n \in Nat BY LenProperties
<1>3. Listed(s, m) /\ Listed(t, n) /\ Listed(u, m + n)
  BY <1>1, Positions
<1> HIDE DEF u, m, n
<1>4. ASSUME NEW i \in 1 .. m + n
      PROVE  \/ i \in 1 .. m /\ u[i] = s[i]
             \/ \E k \in 1 .. n : i = m + k /\ u[i] = t[k]
  <2>1. CASE i <= m BY <2>1, <1>1, <1>2
  <2>2. CASE i > m
    <3>1. i - m \in 1 .. n /\ i = m + (i - m) /\ u[i] = t[i - m] BY <2>2, <1>1, <1>2
    <3> QED BY <3>1
  <2> QED BY <2>1, <2>2, <1>2
<1>5. ToSet(s \o t) = ToSet(s) \union ToSet(t)
  BY RangeConcatenation, ToSetIsRange
<1>6. ASSUME IsInjective(s), IsInjective(t), ToSet(s) \intersect ToSet(t) = {}
      PROVE  IsInjective(u)
  <2>1. SUFFICES ASSUME NEW i \in 1 .. m + n, NEW j \in 1 .. m + n, u[i] = u[j] PROVE i = j
    BY <1>3 DEF Listed
  <2>2. CASE i \in 1 .. m /\ u[i] = s[i]
    <3>1. s[i] \in ToSet(s) BY <2>2, <1>3 DEF Listed
    <3>2. CASE j \in 1 .. m /\ u[j] = s[j] BY <2>1, <2>2, <3>2, <1>3, <1>6 DEF Listed
    <3>3. CASE \E k \in 1 .. n : j = m + k /\ u[j] = t[k]
      <4>1. u[j] \in ToSet(t) BY <3>3, <1>3 DEF Listed
      <4> QED BY <4>1, <3>1, <2>1, <2>2, <1>6
    <3> QED BY <3>2, <3>3, <1>4
  <2>3. CASE \E k \in 1 .. n : i = m + k /\ u[i] = t[k]
    <3>1. PICK k \in 1 .. n : i = m + k /\ u[i] = t[k] BY <2>3
    <3>2. t[k] \in ToSet(t) BY <1>3 DEF Listed
    <3>3. CASE j \in 1 .. m /\ u[j] = s[j]
      <4>1. u[j] \in ToSet(s) BY <3>3, <1>3 DEF Listed
      <4> QED BY <4>1, <3>1, <3>2, <2>1, <1>6
    <3>4. CASE \E l \in 1 .. n : j = m + l /\ u[j] = t[l]
      <4>1. PICK l \in 1 .. n : j = m + l /\ u[j] = t[l] BY <3>4
      <4>2. t[k] = t[l] BY <4>1, <3>1, <2>1
      <4>3. k = l BY <4>2, <1>3, <1>6 DEF Listed
      <4> QED BY <4>1, <4>3, <3>1
    <3> QED BY <3>3, <3>4, <1>4
  <2> QED BY <2>2, <2>3, <1>4
<1> QED BY <1>1, <1>5, <1>6 DEF u, m, n

(* The k elements of a list after the first p. *)
LEMMA Slice ==
    ASSUME NEW s \in Seq(Nat), NEW p \in Nat, NEW k \in Nat, p + k <= Len(s),
           NEW a, a = p + 1, NEW b, b = p + k, NEW r, r = SubSeq(s, a, b)
    PROVE  /\ r \in Seq(Nat) /\ Len(r) = k
           /\ \A i \in 1 .. k : p + i \in 1 .. Len(s) /\ r[i] = s[p + i]
<1>1. a \in Int /\ b \in Int /\ Len(s) \in Nat BY LenProperties
<1>2. ASSUME NEW i \in a .. b PROVE s[i] \in Nat
  <2>1. i \in 1 .. Len(s) BY <1>1
  <2> QED BY <2>1, ElementOfSeq
<1>3. /\ SubSeq(s, a, b) \in Seq(Nat)
      /\ Len(SubSeq(s, a, b)) = IF a <= b THEN b - a + 1 ELSE 0
      /\ \A i \in 1 .. b - a + 1 : SubSeq(s, a, b)[i] = s[a + i - 1]
  BY <1>1, <1>2, SubSeqProperties, SMT
<1>4. b - a + 1 = k /\ (IF a <= b THEN b - a + 1 ELSE 0) = k OBVIOUS
<1>5. ASSUME NEW i \in 1 .. k PROVE p + i \in 1 .. Len(s) /\ r[i] = s[p + i]
  <2>1. a + i - 1 = p + i /\ p + i \in 1 .. Len(s) BY <1>1
  <2> QED BY <2>1, <1>3, <1>4
<1> QED BY <1>3, <1>4, <1>5

(* A list of different RIDs and its two parts. *)
Parts(s, front, back) ==
    /\ front \in Seq(Nat) /\ back \in Seq(Nat)
    /\ Len(s) = Len(front) + Len(back)
    /\ ToSet(front) \union ToSet(back) = ToSet(s)
    /\ IsInjective(s) => /\ IsInjective(front) /\ IsInjective(back)
                         /\ ToSet(front) \intersect ToSet(back) = {}

CutAt(s, n, front, back) ==
    /\ front = SubSeq(s, 1, Len(s) - n)
    /\ back = SubSeq(s, Len(s) - n + 1, Len(s))

(* Cutting the end off a list of different RIDs gives two lists without a    *)
(* common one.                                                               *)
LEMMA Apart ==
    ASSUME NEW s \in Seq(Nat), NEW n \in Nat, n <= Len(s),
           NEW front, NEW back, CutAt(s, n, front, back)
    PROVE  Len(back) = n /\ Parts(s, front, back)
<1> USE DEF CutAt
<1> DEFINE m == Len(s) - n
<1>1. Len(s) \in Nat /\ m \in Nat /\ Len(s) = m + n BY LenProperties
<1>3. /\ front \in Seq(Nat) /\ Len(front) = m
      /\ \A i \in 1 .. m : front[i] = s[i]
  <2>1. 0 + m <= Len(s) /\ 1 = 0 + 1 /\ m = 0 + m BY <1>1
  <2> HIDE DEF m
  <2>2. /\ front \in Seq(Nat) /\ Len(front) = m
        /\ \A i \in 1 .. m : front[i] = s[0 + i]
    <3>1. front = SubSeq(s, 1, m) BY DEF m
    <3> QED BY <2>1, <3>1, <1>1, Slice
  <2> QED BY <2>2
<1>4. /\ back \in Seq(Nat) /\ Len(back) = n
      /\ \A k \in 1 .. n : m + k \in 1 .. m + n /\ back[k] = s[m + k]
  <2>1. back = SubSeq(s, m + 1, Len(s)) OBVIOUS
  <2> HIDE DEF m
  <2> QED BY <2>1, <1>1, Slice
<1>5. Listed(s, m + n) /\ Listed(front, m) /\ Listed(back, n)
  BY <1>1, <1>3, <1>4, Positions
<1>6. s = front \o back
  <2>1. SubSeq(s, 1, m) \o SubSeq(s, m + 1, Len(s)) = SubSeq(s, 1, Len(s))
    <3>1. 1 \in 1 .. Len(s) + 1 /\ m \in 1 - 1 .. Len(s) /\ Len(s) \in m .. Len(s) BY <1>1
    <3> HIDE DEF m
    <3> QED BY <3>1, ConcatAdjacentSubSeq
  <2> QED BY <2>1, SubSeqFull
<1>7. ToSet(front) \union ToSet(back) = ToSet(s)
  <2>1. front \in Seq(Nat) /\ back \in Seq(Nat) BY <1>3, <1>4
  <2>2. ToSet(front \o back) = ToSet(front) \union ToSet(back) BY ONLY <2>1, Together
  <2> QED BY <2>2, <1>6
<1> HIDE DEF m
<1>8. ASSUME IsInjective(s)
      PROVE  IsInjective(front) /\ IsInjective(back) /\ ToSet(front) \intersect ToSet(back) = {}
  <2>1. \A i \in 1 .. m + n : \A j \in 1 .. m + n : s[i] = s[j] => i = j
    BY <1>5, <1>8 DEF Listed
  <2>2. IsInjective(front)
    <3>1. ASSUME NEW i \in 1 .. m, NEW j \in 1 .. m, front[i] = front[j] PROVE i = j
      <4>1. i \in 1 .. m + n /\ j \in 1 .. m + n BY <1>1
      <4>2. s[i] = s[j] BY <3>1, <1>3
      <4> QED BY <4>1, <4>2, <2>1
    <3> QED BY <3>1, <1>5 DEF Listed
  <2>3. IsInjective(back)
    <3>1. ASSUME NEW i \in 1 .. n, NEW j \in 1 .. n, back[i] = back[j] PROVE i = j
      <4>1. PICK k \in 1 .. m + n : k = m + i /\ back[i] = s[k] BY <1>4
      <4>2. PICK l \in 1 .. m + n : l = m + j /\ back[j] = s[l] BY <1>4
      <4>3. s[k] = s[l] BY <4>1, <4>2, <3>1
      <4>4. k = l BY <4>3, <2>1
      <4>5. m + i = m + j /\ m \in Nat BY <4>1, <4>2, <4>4, <1>1
      <4> QED BY ONLY <4>5, i \in 1 .. n, j \in 1 .. n, n \in Nat
    <3> QED BY <3>1, <1>5 DEF Listed
  <2>4. ASSUME NEW x \in ToSet(front), x \in ToSet(back) PROVE FALSE
    <3>1. PICK i \in 1 .. m : x = front[i] BY <1>5 DEF Listed
    <3>2. PICK j \in 1 .. n : x = back[j] BY <2>4, <1>5 DEF Listed
    <3>3. PICK k \in 1 .. m + n : k = m + j /\ back[j] = s[k] BY <1>4
    <3>4. i \in 1 .. m + n /\ s[i] = s[k]
      <4>1. i \in 1 .. m + n BY <1>1
      <4>2. s[i] = x BY <3>1, <1>3
      <4> QED BY <4>1, <4>2, <3>2, <3>3
    <3>5. i = k BY <3>4, <2>1
    <3> QED BY <3>3, <3>5, <1>1
  <2> QED BY <2>2, <2>3, <2>4
<1> QED BY <1>1, <1>3, <1>4, <1>7, <1>8 DEF m, Parts

(* The RIDs the render thread makes are new and different. *)
LEMMA Fresh ==
    ASSUME NEW n \in Nat, NEW m \in Nat, NEW s, s = [i \in 1 .. m |-> n + i]
    PROVE  /\ s \in Seq(Nat) /\ Len(s) = m
           /\ ToSet(s) = n + 1 .. n + m /\ IsInjective(s)
<1>1. s \in Seq(Nat) /\ Len(s) = m
  <2>1. s \in [1 .. m -> Nat] /\ DOMAIN s = 1 .. m OBVIOUS
  <2>2. s \in Seq(Nat) BY <2>1, SeqDef
  <2> QED BY <2>1, <2>2, LenProperties
<1>2. \A i \in 1 .. m : s[i] = n + i OBVIOUS
<1>3. Listed(s, m) BY <1>1, Positions
<1>4. ASSUME NEW k \in n + 1 .. n + m PROVE k \in ToSet(s)
  <2>1. PICK i \in 1 .. m : i = k - n OBVIOUS
  <2>2. s[i] = k BY <2>1, <1>2
  <2> QED BY <2>2, <1>3 DEF Listed
<1>5. ToSet(s) \subseteq n + 1 .. n + m
  <2>1. ASSUME NEW x \in ToSet(s) PROVE x \in n + 1 .. n + m
    <3>1. PICK i \in 1 .. m : x = s[i] BY <1>3 DEF Listed
    <3> QED BY <3>1, <1>2
  <2> QED BY <2>1
<1>6. IsInjective(s) BY <1>2, <1>3 DEF Listed
<1> QED BY <1>1, <1>4, <1>5, <1>6

-----------------------------------------------------------------------------
(* What each call does to the places of the RIDs of one type.               *)

(* OwnedOnce, RID by RID. *)
LEMMA OwnedOnceIff ==
    ASSUME NEW pool, NEW allocators, NEW inUse, NEW n
    PROVE  OwnedOnce(pool, allocators, inUse, n) <=>
             /\ IsInjective(pool)
             /\ \A c \in Context : IsInjective(allocators[c])
             /\ \A x : x \in 1 .. n <=>
                  x \in ToSet(pool) \/ x \in inUse \/ \E c \in Context : x \in ToSet(allocators[c])
             /\ \A x : ~ (x \in ToSet(pool) /\ x \in inUse)
             /\ \A c \in Context : \A x \in ToSet(allocators[c]) :
                  /\ x \notin ToSet(pool) /\ x \notin inUse
                  /\ \A d \in Context : x \in ToSet(allocators[d]) => d = c
BY SMTT(30) DEF OwnedOnce

(* GetRIDs moves RIDs from the end of the pool to an allocator. *)
LEMMA OwnedByGetRIDs ==
    ASSUME NEW pool \in Seq(Nat), NEW allocators \in [Context -> Seq(Nat)], NEW inUse, NEW n,
           OwnedOnce(pool, allocators, inUse, n),
           NEW c \in Context, NEW g \in Nat, g <= Len(pool),
           NEW front, NEW back, CutAt(pool, g, front, back),
           NEW filled, filled = [allocators EXCEPT ![c] = @ \o back]
    PROVE  OwnedOnce(front, filled, inUse, n)
<1>1. /\ front \in Seq(Nat) /\ back \in Seq(Nat)
      /\ ToSet(front) \union ToSet(back) = ToSet(pool)
      /\ IsInjective(pool) => /\ IsInjective(front) /\ IsInjective(back)
                              /\ ToSet(front) \intersect ToSet(back) = {}
  <2>1. Parts(pool, front, back) BY Apart
  <2> QED BY <2>1 DEF Parts
<1>2. /\ allocators[c] \in Seq(Nat)
      /\ filled[c] = allocators[c] \o back
      /\ \A d \in Context : d # c => filled[d] = allocators[d]
  OBVIOUS
<1> DEFINE P == ToSet(pool)
           F == ToSet(front)
           B == ToSet(back)
           A(d) == ToSet(allocators[d])
<1>3. /\ IsInjective(front) /\ IsInjective(back)
      /\ \A x : x \in P <=> x \in F \/ x \in B
      /\ \A x : ~ (x \in F /\ x \in B)
  BY <1>1, OwnedOnceIff
<1>4. /\ IsInjective(allocators[c]) /\ \A x : ~ (x \in A(c) /\ x \in B)
  BY <1>3, OwnedOnceIff
<1>5. /\ IsInjective(allocators[c] \o back)
      /\ ToSet(allocators[c] \o back) = A(c) \union B
  <2>1. A(c) \intersect B = {} BY <1>4
  <2>2. allocators[c] \in Seq(Nat) /\ back \in Seq(Nat) /\ IsInjective(allocators[c]) /\ IsInjective(back)
    BY <1>1, <1>2, <1>3, <1>4
  <2> QED BY <2>1, <2>2, Together
<1>6. /\ ToSet(filled[c]) = A(c) \union B /\ IsInjective(filled[c])
      /\ \A d \in Context : d # c => ToSet(filled[d]) = A(d) /\ IsInjective(filled[d])
  BY <1>2, <1>5, OwnedOnceIff
<1>7. ASSUME NEW d \in Context, NEW x
      PROVE  x \in ToSet(filled[d]) <=> x \in A(d) \/ (d = c /\ x \in B)
  BY <1>6
<1>8. /\ \A x : x \in 1 .. n <=> x \in P \/ x \in inUse \/ \E d \in Context : x \in A(d)
      /\ \A x : ~ (x \in P /\ x \in inUse)
      /\ \A d \in Context : \A x \in A(d) :
           /\ x \notin P /\ x \notin inUse
           /\ \A e \in Context : x \in A(e) => e = d
  BY OwnedOnceIff
<1> HIDE DEF P, F, B, A
<1>9. ASSUME NEW x
      PROVE  x \in 1 .. n <=> x \in F \/ x \in inUse \/ \E d \in Context : x \in ToSet(filled[d])
  BY <1>3, <1>7, <1>8
<1>10. ASSUME NEW x PROVE ~ (x \in F /\ x \in inUse)
  BY <1>3, <1>8
<1>11. ASSUME NEW d \in Context, NEW x \in ToSet(filled[d])
       PROVE  /\ x \notin F /\ x \notin inUse
              /\ \A e \in Context : x \in ToSet(filled[e]) => e = d
  <2>1. x \in A(d) \/ (d = c /\ x \in B) BY <1>7
  <2> QED BY <2>1, <1>3, <1>7, <1>8
<1>12. \A d \in Context : IsInjective(filled[d]) BY <1>6
<1> QED BY <1>3, <1>9, <1>10, <1>11, <1>12, OwnedOnceIff DEF F

(* FreeRIDs puts what an allocator has left back into the pool. *)
LEMMA OwnedByFreeRIDs ==
    ASSUME NEW pool \in Seq(Nat), NEW allocators \in [Context -> Seq(Nat)], NEW inUse, NEW n,
           OwnedOnce(pool, allocators, inUse, n), NEW c \in Context,
           NEW emptied, emptied = [allocators EXCEPT ![c] = <<>>]
    PROVE  OwnedOnce(pool \o allocators[c], emptied, inUse, n)
<1> DEFINE P == ToSet(pool)
           A(d) == ToSet(allocators[d])
           Q == ToSet(pool \o allocators[c])
<1>1. /\ \A x : x \in 1 .. n <=> x \in P \/ x \in inUse \/ \E d \in Context : x \in A(d)
      /\ \A x : ~ (x \in P /\ x \in inUse)
      /\ \A d \in Context : \A x \in A(d) :
           /\ x \notin P /\ x \notin inUse
           /\ \A e \in Context : x \in A(e) => e = d
      /\ IsInjective(pool)
      /\ \A d \in Context : IsInjective(allocators[d])
  BY OwnedOnceIff
<1>2. P \intersect A(c) = {} BY <1>1
<1>3. IsInjective(pool \o allocators[c]) /\ Q = P \union A(c)
  BY <1>1, <1>2, Together
<1>4. emptied[c] = <<>> /\ \A d \in Context : d # c => emptied[d] = allocators[d]
  OBVIOUS
<1>5. ToSet(<<>>) = {} /\ IsInjective(<<>>) BY DEF ToSet, IsInjective
<1>6. ASSUME NEW d \in Context, NEW x
      PROVE  x \in ToSet(emptied[d]) <=> x \in A(d) /\ d # c
  BY <1>4, <1>5
<1>7. \A d \in Context : IsInjective(emptied[d]) BY <1>1, <1>4, <1>5
<1> HIDE DEF P, A, Q
<1>8. ASSUME NEW x
      PROVE  x \in 1 .. n <=> x \in Q \/ x \in inUse \/ \E d \in Context : x \in ToSet(emptied[d])
  BY <1>1, <1>3, <1>6
<1>9. ASSUME NEW x PROVE ~ (x \in Q /\ x \in inUse)
  BY <1>1, <1>3
<1>10. ASSUME NEW d \in Context, NEW x \in ToSet(emptied[d])
       PROVE  /\ x \notin Q /\ x \notin inUse
              /\ \A e \in Context : x \in ToSet(emptied[e]) => e = d
  BY <1>1, <1>3, <1>6
<1> QED BY <1>3, <1>7, <1>8, <1>9, <1>10, OwnedOnceIff DEF Q

(* The last RID of a list and the others. *)
LEMMA LastApart ==
    ASSUME NEW s \in Seq(Nat), s # <<>>
    PROVE  /\ Front(s) \in Seq(Nat) /\ Last(s) \in Nat
           /\ Len(Front(s)) = Len(s) - 1
           /\ ToSet(s) = ToSet(Front(s)) \union {Last(s)}
           /\ IsInjective(s) => IsInjective(Front(s)) /\ Last(s) \notin ToSet(Front(s))
<1> DEFINE back == SubSeq(s, Len(s) - 1 + 1, Len(s))
<1>1. Len(s) \in Nat /\ Len(s) >= 1 BY EmptySeq, LenProperties
<1>2. CutAt(s, 1, Front(s), back) BY DEF CutAt, Front
<1>3. Len(back) = 1 /\ Parts(s, Front(s), back) BY <1>1, <1>2, Apart
<1>4. back \in Seq(Nat) /\ back[1] = s[Len(s)]
  <2>1. back = SubSeq(s, Len(s), Len(s)) /\ Len(s) - 1 + 1 <= Len(s) BY <1>1
  <2>2. Len(s) = (Len(s) - 1) + 1 /\ Len(s) - 1 \in Nat BY <1>1
  <2>3. \A i \in 1 .. 1 : back[i] = s[(Len(s) - 1) + i] BY <2>1, <2>2, Slice
  <2>4. back[1] = s[(Len(s) - 1) + 1] BY <2>3
  <2> QED BY <2>2, <2>4, <1>3 DEF Parts
<1>5. ToSet(back) = {Last(s)}
  <2>1. DOMAIN back = {1} BY <1>3, <1>4, LenProperties
  <2> QED BY <2>1, <1>4 DEF ToSet, Last
<1>6. Last(s) \in Nat BY <1>1, ElementOfSeq DEF Last
<1> HIDE DEF back
<1>7. Len(s) = Len(Front(s)) + 1 /\ Len(Front(s)) \in Nat
  BY <1>3, LenProperties DEF Parts
<1> QED BY <1>3, <1>5, <1>6, <1>7 DEF Parts

(* GetRID takes the last RID of an allocator. *)
LEMMA OwnedByGetRID ==
    ASSUME NEW pool \in Seq(Nat), NEW allocators \in [Context -> Seq(Nat)], NEW inUse, NEW n,
           OwnedOnce(pool, allocators, inUse, n), NEW c \in Context, allocators[c] # <<>>,
           NEW taken, taken = [allocators EXCEPT ![c] = Front(@)]
    PROVE  OwnedOnce(pool, taken, inUse \union {Last(allocators[c])}, n)
<1> DEFINE P == ToSet(pool)
           A(d) == ToSet(allocators[d])
           F == ToSet(Front(allocators[c]))
           l == Last(allocators[c])
<1>1. /\ \A x : x \in 1 .. n <=> x \in P \/ x \in inUse \/ \E d \in Context : x \in A(d)
      /\ \A x : ~ (x \in P /\ x \in inUse)
      /\ \A d \in Context : \A x \in A(d) :
           /\ x \notin P /\ x \notin inUse
           /\ \A e \in Context : x \in A(e) => e = d
      /\ IsInjective(pool)
      /\ \A d \in Context : IsInjective(allocators[d])
  BY OwnedOnceIff
<1>2. /\ \A x : x \in A(c) <=> x \in F \/ x = l
      /\ l \notin F /\ IsInjective(Front(allocators[c]))
  <2>1. allocators[c] \in Seq(Nat) /\ IsInjective(allocators[c]) BY <1>1
  <2> QED BY <2>1, LastApart
<1>3. taken[c] = Front(allocators[c]) /\ \A d \in Context : d # c => taken[d] = allocators[d]
  OBVIOUS
<1>4. ASSUME NEW d \in Context, NEW x
      PROVE  x \in ToSet(taken[d]) <=> x \in A(d) /\ (d = c => x # l)
  BY <1>2, <1>3
<1>5. \A d \in Context : IsInjective(taken[d]) BY <1>1, <1>2, <1>3
<1> HIDE DEF P, A, F, l
<1>6. ASSUME NEW x
      PROVE  x \in 1 .. n <=>
               x \in P \/ x \in inUse \union {l} \/ \E d \in Context : x \in ToSet(taken[d])
  BY <1>1, <1>2, <1>4
<1>7. ASSUME NEW x PROVE ~ (x \in P /\ x \in inUse \union {l})
  BY <1>1, <1>2
<1>8. ASSUME NEW d \in Context, NEW x \in ToSet(taken[d])
      PROVE  /\ x \notin P /\ x \notin inUse \union {l}
             /\ \A e \in Context : x \in ToSet(taken[e]) => e = d
  BY ZenonT(60), <1>1, <1>2, <1>4
<1> QED BY <1>1, <1>5, <1>6, <1>7, <1>8, OwnedOnceIff DEF P, l

(* EnsureRID makes one more RID, which is in use at once. *)
LEMMA OwnedByEnsureRID ==
    ASSUME NEW pool, NEW allocators, NEW inUse, NEW n \in Nat,
           OwnedOnce(pool, allocators, inUse, n)
    PROVE  OwnedOnce(pool, allocators, inUse \union {n + 1}, n + 1)
<1>1. \A x : x \in 1 .. n + 1 <=> x \in 1 .. n \/ x = n + 1 OBVIOUS
<1>2. n + 1 \notin 1 .. n OBVIOUS
<1> DEFINE k == n + 1
           R == 1 .. n
           S == 1 .. n + 1
<1>3. (\A x : x \in S <=> x \in R \/ x = k) /\ k \notin R BY <1>1, <1>2
<1>4. /\ \A x : x \in R <=> x \in ToSet(pool) \/ x \in inUse \/ \E d \in Context : x \in ToSet(allocators[d])
      /\ \A x : ~ (x \in ToSet(pool) /\ x \in inUse)
      /\ \A d \in Context : \A x \in ToSet(allocators[d]) :
           /\ x \notin ToSet(pool) /\ x \notin inUse
           /\ \A e \in Context : x \in ToSet(allocators[e]) => e = d
      /\ IsInjective(pool)
      /\ \A d \in Context : IsInjective(allocators[d])
  BY OwnedOnceIff
<1> HIDE DEF k, R, S
<1>5. /\ \A x : x \in S <=> x \in ToSet(pool) \/ x \in inUse \union {k}
                              \/ \E d \in Context : x \in ToSet(allocators[d])
      /\ \A x : ~ (x \in ToSet(pool) /\ x \in inUse \union {k})
      /\ \A d \in Context : \A x \in ToSet(allocators[d]) :
           /\ x \notin ToSet(pool) /\ x \notin inUse \union {k}
           /\ \A e \in Context : x \in ToSet(allocators[e]) => e = d
  BY <1>3, <1>4
<1> QED BY <1>4, <1>5, OwnedOnceIff DEF k, S

(* AllocateRIDsInternal makes m more RIDs, which are in the pool. *)
LEMMA OwnedByAllocate ==
    ASSUME NEW pool \in Seq(Nat), NEW allocators, NEW inUse, NEW n \in Nat, NEW m \in Nat,
           OwnedOnce(pool, allocators, inUse, n)
    PROVE  OwnedOnce(pool \o [i \in 1 .. m |-> n + i], allocators, inUse, n + m)
<1> DEFINE new == [i \in 1 .. m |-> n + i]
           P == ToSet(pool)
           N == n + 1 .. n + m
           R == 1 .. n
           S == 1 .. n + m
           Q == ToSet(pool \o new)
<1>1. new \in Seq(Nat) /\ ToSet(new) = N /\ IsInjective(new) BY Fresh
<1>2. /\ \A x : x \in R <=> x \in P \/ x \in inUse \/ \E d \in Context : x \in ToSet(allocators[d])
      /\ \A x : ~ (x \in P /\ x \in inUse)
      /\ \A d \in Context : \A x \in ToSet(allocators[d]) :
           /\ x \notin P /\ x \notin inUse
           /\ \A e \in Context : x \in ToSet(allocators[e]) => e = d
      /\ IsInjective(pool)
      /\ \A d \in Context : IsInjective(allocators[d])
  BY OwnedOnceIff
<1>3. (\A x : x \in S <=> x \in R \/ x \in N) /\ (\A x : ~ (x \in R /\ x \in N)) OBVIOUS
<1> HIDE DEF N, R, S
<1>4. P \intersect ToSet(new) = {} BY <1>1, <1>2, <1>3
<1>5. Q = P \union N /\ IsInjective(pool \o new)
  <2> HIDE DEF new
  <2> QED BY <1>1, <1>2, <1>4, Together
<1> HIDE DEF P, Q
<1>6. /\ \A x : x \in S <=> x \in Q \/ x \in inUse \/ \E d \in Context : x \in ToSet(allocators[d])
      /\ \A x : ~ (x \in Q /\ x \in inUse)
      /\ \A d \in Context : \A x \in ToSet(allocators[d]) :
           /\ x \notin Q /\ x \notin inUse
           /\ \A e \in Context : x \in ToSet(allocators[e]) => e = d
  BY <1>2, <1>3, <1>5
<1> HIDE DEF new
<1>7. OwnedOnce(pool \o new, allocators, inUse, n + m)
  BY <1>2, <1>5, <1>6, OwnedOnceIff DEF S, Q
<1> QED BY <1>7 DEF new

-----------------------------------------------------------------------------
(* Every RID is in one place.                                               *)

(* What an allocator is given is there, and wanted. *)
LEMMA GivingBounded ==
    ASSUME TypeOK, AllocatorsBounded, NEW c \in Context, NEW t \in Type
    PROVE  /\ Giving(c)[t] \in Nat /\ Giving(c)[t] <= Len(rids[t])
           /\ Giving(c)[t] <= Preallocated[t] - Len(held[c][t])
<1> DEFINE a == Len(rids[t])
           b == Preallocated[t] - Len(held[c][t])
           d == Preallocated[t] \div Share
<1>1. a \in Nat
  <2>1. rids[t] \in Seq(Nat) BY DEF TypeOK
  <2> QED BY <2>1, LenProperties
<1>2. b \in Nat
  <2>1. held[c][t] \in Seq(Nat) BY DEF TypeOK
  <2>2. Len(held[c][t]) \in Nat /\ Preallocated[t] \in Nat /\ Len(held[c][t]) <= Preallocated[t]
    BY <2>1, LenProperties, AllocatorAssumption DEF AllocatorsBounded, AllocatorAssumption
  <2> QED BY <2>2
<1>3. d \in Nat
  <2>1. Preallocated[t] \in Nat /\ Share \in Nat /\ Share > 0
    BY AllocatorAssumption DEF AllocatorAssumption
  <2> QED BY <2>1
<1>4. Giving(c)[t] = Min({a, b, d}) BY DEF Giving
<1> HIDE DEF a, b, d
<1>5. \E x \in {a, b, d} : \A y \in {a, b, d} : x <= y BY <1>1, <1>2, <1>3
<1>6. Min({a, b, d}) \in {a, b, d} /\ \A y \in {a, b, d} : Min({a, b, d}) <= y
  BY <1>5 DEF Min
<1> QED BY <1>1, <1>2, <1>3, <1>4, <1>6 DEF a, b

(* m_requests keeps its width. *)
LEMMA Counts ==
    ASSUME NEW n \in 0 .. Wrap - 1
    PROVE  /\ (n + 1) % Wrap = IF n = Wrap - 1 THEN 0 ELSE n + 1
           /\ (n - 1) % Wrap = IF n = 0 THEN Wrap - 1 ELSE n - 1
BY AllocatorAssumption DEF AllocatorAssumption

(* The places of the RIDs of one type: its pool and its allocators. *)
HeldOf(t) == [c \in Context |-> held[c][t]]

(* Process moves RIDs from the server to a context. *)
LEMMA ProcessKeepsRIDs ==
    ASSUME RIDsExact, NEW c \in Context, Process(c)
    PROVE  RIDsExact'
<1> USE DEF RIDsExact
<1>1. TypeOK BY DEF AllocatorsBounded
<1> DEFINE Front_(t) == SubSeq(rids[t], 1, Len(rids[t]) - Giving(c)[t])
           Back_(t) == SubSeq(rids[t], Len(rids[t]) - Giving(c)[t] + 1, Len(rids[t]))
<1>2. \A t \in Type :
        /\ rids'[t] = Front_(t)
        /\ held'[c][t] = held[c][t] \o Back_(t)
        /\ \A e \in Context \ {c} : held'[e][t] = held[e][t]
  BY <1>1 DEF Process, GetRIDs, TypeOK
<1>3. ASSUME NEW t \in Type
      PROVE  /\ rids'[t] \in Seq(Nat) /\ held'[c][t] \in Seq(Nat)
             /\ Len(held'[c][t]) <= Preallocated[t]
             /\ OwnedOnce(rids[t], HeldOf(t), used[t], created[t]) =>
                  OwnedOnce(rids'[t], HeldOf(t)', used[t], created[t])
  <2> DEFINE g == Giving(c)[t]
             f == Front_(t)
             b == Back_(t)
  <2>1. /\ rids[t] \in Seq(Nat) /\ held[c][t] \in Seq(Nat)
        /\ HeldOf(t) \in [Context -> Seq(Nat)]
    BY <1>1 DEF TypeOK, HeldOf
  <2>2. g \in Nat /\ g <= Len(rids[t]) /\ g <= Preallocated[t] - Len(held[c][t])
    BY <1>1, GivingBounded
  <2>3. CutAt(rids[t], g, f, b) BY DEF CutAt
  <2>4. HeldOf(t)' = [HeldOf(t) EXCEPT ![c] = @ \o b]
    BY <1>2 DEF HeldOf
  <2> HIDE DEF g, f, b, Front_, Back_
  <2>5. Len(b) = g /\ Parts(rids[t], f, b) BY <2>1, <2>2, <2>3, Apart
  <2>6. f \in Seq(Nat) /\ b \in Seq(Nat) BY <2>5 DEF Parts
  <2>7. /\ held[c][t] \o b \in Seq(Nat)
        /\ Len(held[c][t] \o b) = Len(held[c][t]) + g
    BY <2>1, <2>5, <2>6, ConcatProperties
  <2>8. rids'[t] = f /\ held'[c][t] = held[c][t] \o b BY <1>2 DEF f, b
  <2>9. Len(held[c][t]) + g <= Preallocated[t]
    <3>1. Len(held[c][t]) \in Nat BY <2>1, LenProperties
    <3>2. Preallocated[t] \in Nat BY AllocatorAssumption DEF AllocatorAssumption
    <3> QED BY <3>1, <3>2, <2>2
  <2>10. OwnedOnce(rids[t], HeldOf(t), used[t], created[t]) =>
           OwnedOnce(f, [HeldOf(t) EXCEPT ![c] = @ \o b], used[t], created[t])
    BY <2>1, <2>2, <2>3, OwnedByGetRIDs
  <2> QED BY <2>4, <2>6, <2>7, <2>8, <2>9, <2>10
<1>4. /\ rids' \in [Type -> Seq(Nat)] /\ held' \in [Context -> [Type -> Seq(Nat)]]
  <2>1. /\ rids' = [t \in Type |-> rids'[t]]
        /\ held' = [held EXCEPT ![c] = [t \in Type |-> held'[c][t]]]
    BY <1>1 DEF Process, GetRIDs, TypeOK
  <2>2. [t \in Type |-> held'[c][t]] \in [Type -> Seq(Nat)] BY <1>3
  <2> QED BY <1>1, <1>3, <2>1, <2>2 DEF TypeOK
<1>5. TypeOK'
  <2>1. calls' \in Seq({"allocate", "deallocate"}) /\ counting' \in BOOLEAN
    BY ZenonT(60), <1>1, AppendProperties DEF Process, GetRIDs, RequestRIDs, TypeOK
  <2> QED BY <1>1, <1>4, <2>1 DEF Process, TypeOK, Phase
<1>6. \A e \in Context : \A t \in Type : Len(held'[e][t]) <= Preallocated[t]
  BY <1>2, <1>3 DEF AllocatorsBounded
<1>7. RIDsOwnedOnce'
  <2>1. used' = used /\ created' = created BY DEF Process
  <2> QED BY <1>3, <2>1 DEF RIDsOwnedOnce, HeldOf
<1> QED BY <1>5, <1>6, <1>7 DEF AllocatorsBounded

(* FreeRIDs gives all RIDs of a context back to the server. *)
LEMMA FreeRIDsKeepsRIDs ==
    ASSUME RIDsExact, NEW c \in Context, FreeRIDs(c)
    PROVE  RIDsExact'
<1> USE DEF RIDsExact
<1>1. TypeOK BY DEF AllocatorsBounded
<1>2. ASSUME NEW t \in Type
      PROVE  /\ rids'[t] = rids[t] \o held[c][t] /\ rids'[t] \in Seq(Nat)
             /\ held'[c][t] = <<>> /\ \A e \in Context \ {c} : held'[e][t] = held[e][t]
  <2>1. rids[t] \in Seq(Nat) /\ held[c][t] \in Seq(Nat) BY <1>1 DEF TypeOK
  <2>2. rids[t] \o held[c][t] \in Seq(Nat) BY <2>1, ConcatProperties
  <2> QED BY <1>1, <2>2 DEF FreeRIDs, TypeOK
<1>3. rids' \in [Type -> Seq(Nat)] /\ held' \in [Context -> [Type -> Seq(Nat)]]
  <2>1. rids' = [t \in Type |-> rids'[t]] BY DEF FreeRIDs
  <2>2. [t \in Type |-> <<>>] \in [Type -> Seq(Nat)] BY EmptySeq
  <2>3. held' = [held EXCEPT ![c] = [t \in Type |-> <<>>]] BY DEF FreeRIDs, renderVars
  <2> QED BY <1>1, <1>2, <2>1, <2>2, <2>3 DEF TypeOK
<1>4. TypeOK' BY <1>1, <1>3 DEF FreeRIDs, TypeOK, serverVars, renderVars
<1>5. \A e \in Context : \A t \in Type : Len(held'[e][t]) <= Preallocated[t]
  <2>1. \A t \in Type : Preallocated[t] >= 0 BY AllocatorAssumption DEF AllocatorAssumption
  <2>2. \A t \in Type : Len(held'[c][t]) = 0 BY <1>2, EmptySeq
  <2> QED BY <1>2, <2>1, <2>2 DEF AllocatorsBounded
<1>6. ASSUME NEW t \in Type
      PROVE  OwnedOnce(rids'[t], HeldOf(t)', used'[t], created'[t])
  <2>1. /\ rids[t] \in Seq(Nat) /\ HeldOf(t) \in [Context -> Seq(Nat)]
        /\ HeldOf(t)[c] = held[c][t]
    BY <1>1 DEF TypeOK, HeldOf
  <2>2. OwnedOnce(rids[t], HeldOf(t), used[t], created[t]) BY DEF RIDsOwnedOnce, HeldOf
  <2>3. HeldOf(t)' = [HeldOf(t) EXCEPT ![c] = <<>>] BY <1>2 DEF HeldOf
  <2>4. OwnedOnce(rids[t] \o HeldOf(t)[c], [HeldOf(t) EXCEPT ![c] = <<>>], used[t], created[t])
    BY <2>1, <2>2, OwnedByFreeRIDs
  <2>5. used' = used /\ created' = created BY DEF FreeRIDs, renderVars
  <2> QED BY <1>2, <2>1, <2>3, <2>4, <2>5
<1> QED BY <1>4, <1>5, <1>6 DEF AllocatorsBounded, RIDsOwnedOnce, HeldOf

(* GetRID gives one RID of a context away. *)
LEMMA GetRIDKeepsRIDs ==
    ASSUME RIDsExact, NEW c \in Context, NEW t \in Type, GetRID(c, t)
    PROVE  RIDsExact'
<1> USE DEF RIDsExact
<1>1. TypeOK BY DEF AllocatorsBounded
<1>2. held[c][t] \in Seq(Nat) /\ held[c][t] # <<>> BY <1>1 DEF GetRID, TypeOK
<1>3. /\ Front(held[c][t]) \in Seq(Nat) /\ Last(held[c][t]) \in Nat
      /\ Len(Front(held[c][t])) = Len(held[c][t]) - 1
  BY <1>2, LastApart
<1>4. /\ held'[c][t] = Front(held[c][t])
      /\ \A e \in Context, u \in Type : e # c \/ u # t => held'[e][u] = held[e][u]
      /\ used'[t] = used[t] \union {Last(held[c][t])}
      /\ \A u \in Type \ {t} : used'[u] = used[u]
      /\ rids' = rids /\ created' = created
  BY <1>1 DEF GetRID, TypeOK, serverVars, renderVars
<1>5. held' \in [Context -> [Type -> Seq(Nat)]] /\ used' \in [Type -> SUBSET Nat]
  <2>1. held' = [held EXCEPT ![c] = [held[c] EXCEPT ![t] = Front(held[c][t])]]
    BY <1>1 DEF GetRID, TypeOK
  <2>2. [held[c] EXCEPT ![t] = Front(held[c][t])] \in [Type -> Seq(Nat)]
    BY <1>1, <1>3 DEF TypeOK
  <2>3. used' = [used EXCEPT ![t] = used[t] \union {Last(held[c][t])}]
    BY <1>1 DEF GetRID, TypeOK
  <2>4. used[t] \union {Last(held[c][t])} \in SUBSET Nat BY <1>1, <1>3 DEF TypeOK
  <2> QED BY <1>1, <2>1, <2>2, <2>3, <2>4 DEF TypeOK
<1>6. TypeOK' BY <1>1, <1>5 DEF GetRID, TypeOK, serverVars, renderVars
<1>7. \A e \in Context : \A u \in Type : Len(held'[e][u]) <= Preallocated[u]
  <2>1. Len(Front(held[c][t])) <= Preallocated[t]
    <3>1. Len(held[c][t]) \in Nat /\ Preallocated[t] \in Nat /\ Len(held[c][t]) <= Preallocated[t]
      BY <1>2, LenProperties, AllocatorAssumption DEF AllocatorAssumption, AllocatorsBounded
    <3> QED BY <3>1, <1>3
  <2> QED BY <1>4, <2>1 DEF AllocatorsBounded
<1>8. OwnedOnce(rids'[t], HeldOf(t)', used'[t], created'[t])
  <2>1. /\ rids[t] \in Seq(Nat) /\ HeldOf(t) \in [Context -> Seq(Nat)]
        /\ HeldOf(t)[c] = held[c][t]
    BY <1>1 DEF TypeOK, HeldOf
  <2>2. OwnedOnce(rids[t], HeldOf(t), used[t], created[t]) BY DEF RIDsOwnedOnce, HeldOf
  <2>3. HeldOf(t)' = [HeldOf(t) EXCEPT ![c] = Front(@)] BY <1>4 DEF HeldOf
  <2>4. OwnedOnce(rids[t], [HeldOf(t) EXCEPT ![c] = Front(@)],
                  used[t] \union {Last(HeldOf(t)[c])}, created[t])
    BY <1>2, <2>1, <2>2, OwnedByGetRID
  <2> QED BY <1>4, <2>1, <2>3, <2>4
<1>9. ASSUME NEW u \in Type, u # t
      PROVE  OwnedOnce(rids'[u], HeldOf(u)', used'[u], created'[u])
  <2>1. HeldOf(u)' = HeldOf(u) BY <1>4, <1>9 DEF HeldOf
  <2>2. OwnedOnce(rids[u], HeldOf(u), used[u], created[u]) BY DEF RIDsOwnedOnce, HeldOf
  <2> QED BY <1>4, <1>9, <2>1, <2>2
<1> QED BY <1>6, <1>7, <1>8, <1>9 DEF AllocatorsBounded, RIDsOwnedOnce, HeldOf

(* EnsureRID makes a RID that nobody has. *)
LEMMA EnsureRIDKeepsRIDs ==
    ASSUME RIDsExact, NEW c \in Context, NEW t \in Type, EnsureRID(c, t)
    PROVE  RIDsExact'
<1> USE DEF RIDsExact
<1>1. TypeOK BY DEF AllocatorsBounded
<1>2. /\ used'[t] = used[t] \union {created[t] + 1} /\ created'[t] = created[t] + 1
      /\ \A u \in Type \ {t} : used'[u] = used[u] /\ created'[u] = created[u]
      /\ rids' = rids /\ held' = held
  BY <1>1 DEF EnsureRID, TypeOK, serverVars, renderVars
<1>3. created' \in [Type -> Nat] /\ used' \in [Type -> SUBSET Nat]
  <2>1. /\ created' = [created EXCEPT ![t] = created[t] + 1]
        /\ used' = [used EXCEPT ![t] = used[t] \union {created[t] + 1}]
    BY <1>1 DEF EnsureRID, TypeOK
  <2>2. created[t] + 1 \in Nat /\ used[t] \subseteq Nat BY <1>1 DEF TypeOK
  <2>3. used[t] \union {created[t] + 1} \in SUBSET Nat BY <2>2
  <2> QED BY <1>1, <2>1, <2>2, <2>3 DEF TypeOK
<1>4. TypeOK' BY <1>1, <1>3 DEF EnsureRID, TypeOK, serverVars, renderVars
<1>5. \A e \in Context : \A u \in Type : Len(held'[e][u]) <= Preallocated[u]
  BY <1>2 DEF AllocatorsBounded
<1>6. OwnedOnce(rids'[t], HeldOf(t)', used'[t], created'[t])
  <2>1. OwnedOnce(rids[t], HeldOf(t), used[t], created[t]) BY DEF RIDsOwnedOnce, HeldOf
  <2>2. created[t] \in Nat BY <1>1 DEF TypeOK
  <2>3. OwnedOnce(rids[t], HeldOf(t), used[t] \union {created[t] + 1}, created[t] + 1)
    BY <2>1, <2>2, OwnedByEnsureRID
  <2>4. HeldOf(t)' = HeldOf(t) BY <1>2 DEF HeldOf
  <2> QED BY <1>2, <2>3, <2>4
<1>7. ASSUME NEW u \in Type, u # t
      PROVE  OwnedOnce(rids'[u], HeldOf(u)', used'[u], created'[u])
  <2>1. HeldOf(u)' = HeldOf(u) BY <1>2 DEF HeldOf
  <2>2. OwnedOnce(rids[u], HeldOf(u), used[u], created[u]) BY DEF RIDsOwnedOnce, HeldOf
  <2> QED BY <1>2, <1>7, <2>1, <2>2
<1> QED BY <1>4, <1>5, <1>6, <1>7 DEF AllocatorsBounded, RIDsOwnedOnce, HeldOf

(* AllocateRIDsInternal makes RIDs that nobody has. *)
LEMMA AllocateKeepsRIDs ==
    ASSUME RIDsExact, AllocateRIDsInternal
    PROVE  RIDsExact'
<1> USE DEF RIDsExact
<1>1. TypeOK BY DEF AllocatorsBounded
<1>2. ASSUME NEW t \in Type
      PROVE  /\ rids'[t] \in Seq(Nat) /\ created'[t] \in Nat
             /\ OwnedOnce(rids'[t], HeldOf(t)', used'[t], created'[t])
  <2> DEFINE m == Missing(t)
             new == [i \in 1 .. m |-> created[t] + i]
  <2>1. m \in Nat
    <3>1. Len(rids[t]) \in Nat /\ Preallocated[t] \in Nat
      <4>1. rids[t] \in Seq(Nat) BY <1>1 DEF TypeOK
      <4> QED BY <4>1, LenProperties, AllocatorAssumption DEF AllocatorAssumption
    <3> QED BY <3>1 DEF Missing
  <2>2. rids'[t] = rids[t] \o new /\ created'[t] = created[t] + m
    BY <1>1 DEF AllocateRIDsInternal, TypeOK
  <2>3. used' = used /\ held' = held BY DEF AllocateRIDsInternal
  <2> HIDE DEF m
  <2>4. created[t] \in Nat /\ rids[t] \in Seq(Nat) BY <1>1 DEF TypeOK
  <2>5. new \in Seq(Nat) BY <2>1, <2>4, Fresh
  <2>6. OwnedOnce(rids[t], HeldOf(t), used[t], created[t]) BY DEF RIDsOwnedOnce, HeldOf
  <2>7. OwnedOnce(rids[t] \o new, HeldOf(t), used[t], created[t] + m)
    BY <2>1, <2>4, <2>6, OwnedByAllocate
  <2> HIDE DEF new
  <2>8. rids[t] \o new \in Seq(Nat) BY <2>4, <2>5, ConcatProperties
  <2>9. HeldOf(t)' = HeldOf(t) BY <2>3 DEF HeldOf
  <2> QED BY <2>1, <2>2, <2>3, <2>4, <2>7, <2>8, <2>9
<1>3. rids' \in [Type -> Seq(Nat)] /\ created' \in [Type -> Nat]
  <2>1. rids' = [t \in Type |-> rids'[t]] /\ created' = [t \in Type |-> created'[t]]
    BY DEF AllocateRIDsInternal
  <2> QED BY <1>2, <2>1
<1>4. m_requests' \in 0 .. Wrap - 1
  <2>1. m_requests \in 0 .. Wrap - 1 /\ m_requests' = (m_requests - 1) % Wrap
    BY <1>1 DEF AllocateRIDsInternal, TypeOK
  <2> QED BY <2>1, Counts, AllocatorAssumption DEF AllocatorAssumption
<1>5. TypeOK' BY <1>1, <1>3, <1>4 DEF AllocateRIDsInternal, TypeOK, Phase
<1>6. held' = held BY DEF AllocateRIDsInternal
<1> QED BY <1>2, <1>5, <1>6 DEF AllocatorsBounded, RIDsOwnedOnce, HeldOf

(* The steps that move no RID. *)
LEMMA OthersKeepRIDs ==
    ASSUME RIDsExact,
           \/ StartSession \/ EndSession \/ DeleteServer \/ Count \/ Done \/ Request \/ ForceSync
           \/ Update \/ WaitForRequests \/ CheckRequired \/ DeallocateRIDsInternal
           \/ UNCHANGED vars
    PROVE  RIDsExact'
<1> USE DEF RIDsExact, serverVars, renderVars
<1>1. TypeOK BY DEF AllocatorsBounded
<1>2. rids' = rids /\ held' = held /\ used' = used /\ created' = created
  BY DEF StartSession, EndSession, DeleteServer, Count, Done, Request, ForceSync, Update,
         WaitForRequests, CheckRequired, DeallocateRIDsInternal, vars
<1>3. phase' \in Phase /\ todo' \subseteq Context /\ session' \in 0 .. MaxSessions
  BY <1>1, AllocatorAssumption
     DEF TypeOK, Phase, Then, AllocatorAssumption, StartSession, EndSession, DeleteServer, Count,
         Done, Request, ForceSync, Update, WaitForRequests, CheckRequired,
         DeallocateRIDsInternal, vars
<1>4. m_requests' \in 0 .. Wrap - 1
  <2>1. /\ m_requests \in 0 .. Wrap - 1
        /\ m_requests' \in {m_requests, (m_requests + 1) % Wrap, (m_requests - 1) % Wrap}
    BY <1>1
       DEF TypeOK, StartSession, EndSession, DeleteServer, Count, Done, Request, ForceSync, Update,
           WaitForRequests, CheckRequired, DeallocateRIDsInternal, vars
  <2> QED BY <2>1, Counts, AllocatorAssumption DEF AllocatorAssumption
<1>5. calls' \in Seq({"allocate", "deallocate"}) /\ counting' \in BOOLEAN /\ filling' \in BOOLEAN
  <2>1. calls \in Seq({"allocate", "deallocate"}) /\ counting \in BOOLEAN /\ filling \in BOOLEAN
    BY <1>1 DEF TypeOK
  <2>2. CASE calls' = calls
    BY <2>1, <2>2
       DEF StartSession, EndSession, DeleteServer, Count, Done, Request, RequestRIDs, ForceSync,
           Update, WaitForRequests, CheckRequired, AnyRequired, DeallocateRIDsInternal, vars
  <2>3. CASE calls' # calls
    BY ZenonT(60), <2>1, <2>3, AppendProperties, HeadTailProperties
       DEF StartSession, EndSession, DeleteServer, Count, Done, Request, RequestRIDs, ForceSync,
           Update, WaitForRequests, CheckRequired, AnyRequired, DeallocateRIDsInternal, vars
  <2> QED BY <2>2, <2>3
<1>6. freed' \in [Type -> SUBSET Nat]
  <2>1. CASE freed' = freed BY <1>1, <2>1 DEF TypeOK
  <2>2. CASE DeallocateRIDsInternal
    <3>1. ASSUME NEW t \in Type PROVE ToSet(rids[t]) \subseteq Nat
      <4>1. rids[t] \in Seq(Nat) BY <1>1 DEF TypeOK
      <4> QED BY <4>1, RangeOfSeq, ToSetIsRange
    <3> QED BY <1>1, <2>2, <3>1 DEF TypeOK, DeallocateRIDsInternal
  <2> QED BY <2>1, <2>2
        DEF StartSession, EndSession, DeleteServer, Count, Done, Request, ForceSync, Update,
            WaitForRequests, CheckRequired, vars
<1>7. TypeOK' BY <1>1, <1>2, <1>3, <1>4, <1>5, <1>6 DEF TypeOK
<1> QED BY <1>2, <1>7 DEF AllocatorsBounded, RIDsOwnedOnce

(* A new allocator has no RIDs. *)
LEMMA InitRIDs == Init => RIDsExact
<1> SUFFICES ASSUME Init PROVE RIDsExact OBVIOUS
<1>1. /\ <<>> \in Seq(Nat) /\ Len(<<>>) = 0 /\ ToSet(<<>>) = {} /\ IsInjective(<<>>)
      /\ <<>> \in Seq({"allocate", "deallocate"})
  BY EmptySeq DEF ToSet, IsInjective
<1>2. TypeOK
  <2>1. m_requests \in 0 .. Wrap - 1 /\ session \in 0 .. MaxSessions
    BY AllocatorAssumption DEF Init, AllocatorAssumption
  <2>2. phase \in Phase /\ todo \subseteq Context /\ counting \in BOOLEAN /\ filling \in BOOLEAN
    BY DEF Init, Phase
  <2>3. /\ rids \in [Type -> Seq(Nat)] /\ held \in [Context -> [Type -> Seq(Nat)]]
        /\ calls \in Seq({"allocate", "deallocate"})
    BY <1>1 DEF Init
  <2>4. created \in [Type -> Nat] /\ used \in [Type -> SUBSET Nat] /\ freed \in [Type -> SUBSET Nat]
    BY DEF Init
  <2> QED BY <2>1, <2>2, <2>3, <2>4 DEF TypeOK
<1>3. \A c \in Context : \A t \in Type : Len(held[c][t]) <= Preallocated[t]
  BY <1>1, AllocatorAssumption DEF Init, AllocatorAssumption
<1>4. ASSUME NEW t \in Type PROVE OwnedOnce(rids[t], HeldOf(t), used[t], created[t])
  <2>1. /\ rids[t] = <<>> /\ used[t] = {} /\ created[t] = 0
        /\ \A c \in Context : HeldOf(t)[c] = <<>>
    BY DEF Init, HeldOf
  <2>2. \A x : x \notin 1 .. 0 OBVIOUS
  <2> QED BY <1>1, <2>1, <2>2, OwnedOnceIff
<1> QED BY <1>2, <1>3, <1>4 DEF RIDsExact, AllocatorsBounded, RIDsOwnedOnce, HeldOf

(* Every step keeps the RIDs exact. *)
LEMMA NextRIDs == RIDsExact /\ [Next]_vars => RIDsExact'
<1> SUFFICES ASSUME RIDsExact, [Next]_vars PROVE RIDsExact' OBVIOUS
<1>1. ASSUME NEW c \in Context, Process(c) PROVE RIDsExact' BY <1>1, ProcessKeepsRIDs
<1>2. ASSUME NEW c \in Context, FreeRIDs(c) PROVE RIDsExact' BY <1>2, FreeRIDsKeepsRIDs
<1>3. ASSUME NEW c \in Context, NEW t \in Type, GetRID(c, t) PROVE RIDsExact'
  BY <1>3, GetRIDKeepsRIDs
<1>4. ASSUME NEW c \in Context, NEW t \in Type, EnsureRID(c, t) PROVE RIDsExact'
  BY <1>4, EnsureRIDKeepsRIDs
<1>5. CASE AllocateRIDsInternal BY <1>5, AllocateKeepsRIDs
<1>6. CASE \/ StartSession \/ EndSession \/ DeleteServer \/ Count \/ Done \/ Request \/ ForceSync
           \/ Update \/ WaitForRequests \/ CheckRequired \/ DeallocateRIDsInternal
           \/ UNCHANGED vars
  BY <1>6, OthersKeepRIDs
<1> QED BY <1>1, <1>2, <1>3, <1>4, <1>5, <1>6 DEF Next, OwnerStep, RenderStep, Stopped

(* RIDsExact: GetRIDs, FreeRIDs, GetRID, EnsureRID and AllocateRIDsInternal, *)
(* in any order and for any number of sessions, keep every RID in exactly    *)
(* one place and no allocator above its size.                                *)
THEOREM RIDsAlwaysExact == Spec => []RIDsExact
BY InitRIDs, NextRIDs, PTL DEF Spec

-----------------------------------------------------------------------------
(* m_requests and the calls that wait for the render thread.                *)

Asked == <<"allocate">>
Ended == <<"deallocate">>
Both  == <<"allocate", "deallocate">>

(* The lists of calls there can be. *)
LEMMA CallLists ==
    /\ <<>> # Asked /\ <<>> # Ended /\ <<>> # Both /\ Asked # Ended /\ Asked # Both /\ Ended # Both
    /\ Len(<<>>) = 0 /\ Len(Asked) = 1 /\ Len(Ended) = 1 /\ Len(Both) = 2
    /\ Append(<<>>, "allocate") = Asked /\ Append(<<>>, "deallocate") = Ended
    /\ Append(Asked, "deallocate") = Both
    /\ Head(Asked) = "allocate" /\ Head(Ended) = "deallocate" /\ Head(Both) = "allocate"
    /\ Tail(Asked) = <<>> /\ Tail(Ended) = <<>> /\ Tail(Both) = Ended
    /\ Last(Asked) = "allocate" /\ Last(Ended) = "deallocate" /\ Last(Both) = "deallocate"
<1>1. Len(<<>>) = 0 /\ Len(Asked) = 1 /\ Len(Ended) = 1 /\ Len(Both) = 2
  BY DEF Asked, Ended, Both
<1>2. /\ Head(Asked) = "allocate" /\ Head(Ended) = "deallocate" /\ Head(Both) = "allocate"
      /\ Last(Asked) = "allocate" /\ Last(Ended) = "deallocate" /\ Last(Both) = "deallocate"
  BY <1>1 DEF Asked, Ended, Both, Last
<1>3. <<>> # Asked /\ <<>> # Ended /\ <<>> # Both /\ Asked # Ended /\ Asked # Both /\ Ended # Both
  BY <1>1, <1>2
<1>4. Append(<<>>, "allocate") = Asked BY DEF Asked
<1>5. Append(<<>>, "deallocate") = Ended BY DEF Ended
<1>6. Append(Asked, "deallocate") = Both
  <2> DEFINE S == {"allocate", "deallocate"}
             both == Append(Asked, "deallocate")
  <2>1. Asked \in Seq(S) /\ Both \in Seq(S) /\ "deallocate" \in S BY DEF Asked, Both
  <2>2. both \in Seq(S) /\ Len(both) = 2 /\ both[1] = Asked[1] /\ both[2] = "deallocate"
    <3>1. both \in Seq(S) /\ Len(both) = Len(Asked) + 1 /\ both[Len(Asked) + 1] = "deallocate"
      BY <2>1, AppendProperties
    <3>2. both[1] = Asked[1]
      <4>1. \A i \in 1 .. Len(Asked) : both[i] = Asked[i] BY <2>1, AppendProperties
      <4>2. 1 \in 1 .. Len(Asked) BY <1>1
      <4> QED BY <4>1, <4>2
    <3> HIDE DEF both
    <3> QED BY <1>1, <3>1, <3>2
  <2>3. Asked[1] = "allocate" /\ Both[1] = "allocate" /\ Both[2] = "deallocate" BY DEF Asked, Both
  <2> HIDE DEF both, S
  <2>4. Len(both) = Len(Both) /\ \A i \in 1 .. Len(both) : both[i] = Both[i]
    BY <1>1, <2>2, <2>3
  <2> QED BY <2>1, <2>2, <2>4, SeqEqual DEF both
<1>7. Tail(Asked) = <<>> BY DEF Asked
<1>8. Tail(Ended) = <<>> BY DEF Ended
<1>9. Tail(Both) = Ended BY DEF Ended, Both
<1> QED BY <1>1, <1>2, <1>3, <1>4, <1>5, <1>6, <1>7, <1>8, <1>9

(* RequestsInv with the four lists by name, before and after a step. *)
CallsOK(ph, count, list, fill, more) ==
    /\ count => ph \in {"construct", "process", "sync", "wait"}
    /\ list \in {<<>>, Asked, Ended, Both}
    /\ fill => list \in {<<>>, Ended}
    /\ list \in {Ended, Both} => ph = "wait"
    /\ more \in {0, 1, Wrap}
    /\ more = 1 => ~fill /\ list \in {<<>>, Ended}

(* The conditions on the counted calls, one by one. *)
LEMMA CallsOKIff ==
    ASSUME NEW ph, NEW count, NEW list, NEW fill, NEW more
    PROVE  CallsOK(ph, count, list, fill, more) <=>
             /\ count => ph \in {"construct", "process", "sync", "wait"}
             /\ list \in {<<>>, <<"allocate">>, <<"deallocate">>, <<"allocate", "deallocate">>}
             /\ fill => list \in {<<>>, <<"deallocate">>}
             /\ list # <<>> /\ Last(list) = "deallocate" => ph = "wait"
             /\ more \in {0, 1, Wrap}
             /\ more = 1 => ~fill /\ list \in {<<>>, <<"deallocate">>}
<1>1. list \in {<<>>, Asked, Ended, Both} =>
        (list # <<>> /\ Last(list) = "deallocate" <=> list \in {Ended, Both})
  BY CallLists
<1>2. Asked = <<"allocate">> /\ Ended = <<"deallocate">> /\ Both = <<"allocate", "deallocate">>
  BY DEF Asked, Ended, Both
<1> QED BY <1>1, <1>2, Zenon DEF CallsOK

(* The invariant of the requests is these conditions. *)
LEMMA RequestsInvIff ==
    /\ RequestsInv <=> CallsOK(phase, counting, calls, filling, Requests - Pending)
    /\ RequestsInv' <=> CallsOK(phase', counting', calls', filling', Requests' - Pending')
BY CallsOKIff, Zenon DEF RequestsInv

(* When m_requests is zero and no request is being counted, nothing waits. *)
LEMMA Answered ==
    ASSUME TypeOK, RequestsInv, m_requests = 0, ~counting
    PROVE  calls = <<>> /\ ~filling
<1>1. calls \in {<<>>, Asked, Ended, Both} /\ Requests - Pending \in {0, 1, Wrap}
  BY RequestsInvIff DEF CallsOK
<1>2. Requests = 0 BY DEF Requests
<1>3. Pending \in 0 .. 3 /\ (Pending = 0 => calls = <<>> /\ ~filling)
  BY <1>1, CallLists DEF Pending
<1>4. Pending = 0 BY <1>1, <1>2, <1>3, AllocatorAssumption DEF AllocatorAssumption
<1> QED BY <1>3, <1>4

(* Steps that make no call and leave the counter alone. *)
LEMMA RequestsSame ==
    ASSUME RequestsInv, UNCHANGED <<m_requests, counting, calls, filling>>,
           phase = "wait" => phase' = "wait" \/ calls \notin {Ended, Both},
           counting => phase' \in {"construct", "process", "sync", "wait"}
    PROVE  RequestsInv'
<1>1. Requests' = Requests /\ Pending' = Pending BY DEF Requests, Pending
<1> QED BY <1>1, RequestsInvIff DEF CallsOK

(* How many calls wait, and how far the counter is. *)
LEMMA PendingBounded ==
    ASSUME TypeOK, RequestsInv
    PROVE  /\ Pending \in 0 .. 2 /\ Requests \in 0 .. Wrap /\ Wrap > 3
           /\ m_requests \in 0 .. Wrap - 1 /\ Wrap \in Nat
           /\ Requests = IF counting THEN m_requests + 1 ELSE m_requests
<1>1. /\ calls \in {<<>>, Asked, Ended, Both} /\ (filling => calls \in {<<>>, Ended})
  BY RequestsInvIff DEF CallsOK
<1>2. Pending \in 0 .. 2 BY <1>1, CallLists DEF Pending
<1>3. m_requests \in 0 .. Wrap - 1 /\ Wrap \in Nat /\ Wrap > 3 /\ counting \in BOOLEAN
  BY AllocatorAssumption DEF TypeOK, AllocatorAssumption
<1>4. Requests = IF counting THEN m_requests + 1 ELSE m_requests BY <1>3 DEF Requests
<1> QED BY <1>2, <1>3, <1>4

(* RequestRIDs, by a thread that counts no request. *)
LEMMA RequestRIDsKeepsRequests ==
    ASSUME TypeOK, RequestsInv, ~counting, phase # "wait",
           UNCHANGED <<m_requests, filling>>,
           RequestRIDs \/ UNCHANGED <<calls, counting>>,
           counting' => phase' \in {"construct", "process", "sync"}
    PROVE  RequestsInv'
<1>1. CASE RequestRIDs /\ m_requests = 0
  <2>1. calls = <<>> /\ ~filling BY <1>1, Answered
  <2>2. calls' = Asked /\ counting' = TRUE /\ ~filling' BY <1>1, <2>1, CallLists DEF RequestRIDs
  <2>3. Requests' = 1 BY <1>1, <2>2 DEF Requests
  <2>4. Pending' = 1 BY <2>2, CallLists DEF Pending
  <2>5. Requests' - Pending' = 0 BY <2>3, <2>4
  <2> QED BY <2>2, <2>5, CallLists, RequestsInvIff DEF CallsOK
<1>2. CASE UNCHANGED <<calls, counting>> BY <1>2, RequestsSame, RequestsInvIff DEF CallsOK
<1> QED BY <1>1, <1>2 DEF RequestRIDs

(* A counted request is one request more. *)
LEMMA CountKeepsRequests ==
    ASSUME TypeOK, RequestsInv, Count
    PROVE  RequestsInv'
<1> USE DEF Count, renderVars
<1>1. /\ Requests = m_requests + 1 /\ Requests' = m_requests' /\ Pending' = Pending
      /\ m_requests' = IF m_requests = Wrap - 1 THEN 0 ELSE m_requests + 1
  BY SMTT(30), PendingBounded, Counts DEF Requests, Pending
<1>2. Requests - Pending \in {0, 1, Wrap} BY RequestsInvIff DEF CallsOK
<1>3. CASE m_requests = Wrap - 1
  <2>1. Requests' - Pending' = 0 BY <1>1, <1>2, <1>3, PendingBounded
  <2> QED BY <2>1, RequestsInvIff DEF CallsOK
<1>4. CASE m_requests # Wrap - 1
  <2>1. Requests' - Pending' = Requests - Pending BY <1>1, <1>4
  <2> QED BY <2>1, RequestsInvIff DEF CallsOK
<1> QED BY <1>3, <1>4

(* AllocateRIDsInternal takes a request, or returns at once and loses it. *)
LEMMA CheckRequiredKeepsRequests ==
    ASSUME TypeOK, RequestsInv, CheckRequired
    PROVE  RequestsInv'
<1> USE DEF CheckRequired, serverVars
<1>1. calls \in {Asked, Both} /\ ~filling BY CallLists, RequestsInvIff DEF CallsOK
<1>2. /\ calls' \in {<<>>, Ended} /\ (calls' = Ended <=> calls = Both)
      /\ Len(calls') = Len(calls) - 1 /\ Len(calls) \in 1 .. 2 /\ filling' \in BOOLEAN
  BY <1>1, CallLists DEF AnyRequired
<1>3. Requests' = Requests BY DEF Requests
<1>4. Pending = Len(calls) /\ Pending' = IF filling' THEN Len(calls) ELSE Len(calls) - 1
  BY <1>1, <1>2 DEF Pending
<1>5. Requests - Pending \in {0, 1, Wrap} /\ Requests - Pending # 1
  BY <1>1, CallLists, RequestsInvIff DEF CallsOK
<1>6. Requests - Pending = 0 BY <1>2, <1>4, <1>5, PendingBounded
<1>7. Requests' - Pending' = IF filling' THEN 0 ELSE 1 BY <1>2, <1>3, <1>4, <1>6, PendingBounded
<1>8. phase' = phase /\ counting' = counting OBVIOUS
<1> QED BY <1>1, <1>2, <1>7, <1>8, CallLists, RequestsInvIff DEF CallsOK

(* The counter goes down with a call that was finished, below zero when the   *)
(* call is not counted yet.                                                  *)
LEMMA AnsweredKeepsRequests ==
    ASSUME TypeOK, RequestsInv, m_requests' = (m_requests - 1) % Wrap, counting' = counting,
           Pending > 0, Pending' = Pending - 1
    PROVE  /\ Requests' - Pending' \in {0, 1, Wrap}
           /\ Requests' - Pending' = 1 => Requests - Pending = 1
<1>1. m_requests' = IF m_requests = 0 THEN Wrap - 1 ELSE m_requests - 1
  BY PendingBounded, Counts
<1>2. Requests - Pending \in {0, 1, Wrap} BY RequestsInvIff DEF CallsOK
<1>3. Requests' = IF counting THEN m_requests' + 1 ELSE m_requests'
  BY <1>1, PendingBounded DEF Requests
<1>4. CASE m_requests > 0
  <2>1. Requests' = Requests - 1 BY <1>1, <1>3, <1>4, PendingBounded
  <2>2. Requests' - Pending' = Requests - Pending BY <2>1, PendingBounded
  <2> QED BY <2>2, <1>2
<1>5. CASE m_requests = 0
  <2>1. counting /\ Requests = 1 /\ Pending = 1 BY <1>2, <1>5, PendingBounded
  <2>2. Requests' = Wrap /\ Pending' = 0 BY <1>1, <1>3, <1>5, <2>1, PendingBounded
  <2> QED BY <2>2, PendingBounded
<1> QED BY <1>4, <1>5, PendingBounded

(* The render thread runs a request for RIDs. *)
LEMMA AllocateKeepsRequests ==
    ASSUME TypeOK, RequestsInv, AllocateRIDsInternal
    PROVE  RequestsInv'
<1> USE DEF AllocateRIDsInternal
<1>1. calls \in {<<>>, Ended} /\ calls' = calls /\ filling /\ ~filling'
  BY RequestsInvIff DEF CallsOK
<1>2. Len(calls) \in 0 .. 1 BY <1>1, CallLists
<1>3. Pending > 0 /\ Pending' = Pending - 1 BY <1>1, <1>2 DEF Pending
<1>4. Requests' - Pending' \in {0, 1, Wrap} BY <1>3, AnsweredKeepsRequests
<1> QED BY <1>1, <1>4, RequestsInvIff DEF CallsOK

(* The render thread runs the last request. *)
LEMMA DeallocateKeepsRequests ==
    ASSUME TypeOK, RequestsInv, DeallocateRIDsInternal
    PROVE  RequestsInv'
<1> USE DEF DeallocateRIDsInternal
<1>1. calls = Ended /\ calls' = <<>> /\ ~filling /\ ~filling'
  BY CallLists, RequestsInvIff DEF CallsOK
<1>2. Pending > 0 /\ Pending' = Pending - 1 BY <1>1, CallLists DEF Pending
<1>3. Requests' - Pending' \in {0, 1, Wrap} BY <1>2, AnsweredKeepsRequests
<1> QED BY <1>1, <1>3, CallLists, RequestsInvIff DEF CallsOK

(* ~AllocatorServer asks for the deallocation and counts it. *)
LEMMA DeleteServerKeepsRequests ==
    ASSUME TypeOK, RequestsInv, DeleteServer
    PROVE  RequestsInv'
<1> USE DEF DeleteServer, serverVars
<1>1. ~counting /\ calls \in {<<>>, Asked} BY RequestsInvIff DEF CallsOK
<1>2. /\ calls' \in {Ended, Both} /\ (calls' = Ended <=> calls = <<>>)
      /\ Len(calls') = Len(calls) + 1 /\ Len(calls) \in 0 .. 1
  BY <1>1, CallLists
<1>3. Requests' = Requests + 1 /\ counting' BY <1>1, PendingBounded DEF Requests
<1>4. Pending' = Pending + 1 BY <1>2 DEF Pending
<1>5. Requests' - Pending' = Requests - Pending BY SMTT(30), <1>3, <1>4, PendingBounded
<1>6. phase' = "wait" /\ filling' = filling OBVIOUS
<1> QED BY <1>1, <1>2, <1>5, <1>6, CallLists, RequestsInvIff DEF CallsOK

(* Steps that move a RID and no request. *)
LEMMA OthersKeepRequests ==
    ASSUME TypeOK, RequestsInv,
           \/ StartSession \/ EndSession \/ Done \/ ForceSync \/ Update \/ WaitForRequests
           \/ (\E c \in Context : FreeRIDs(c))
           \/ (\E c \in Context : \E t \in Type : GetRID(c, t) \/ EnsureRID(c, t))
           \/ UNCHANGED vars
    PROVE  RequestsInv'
<1>1. UNCHANGED <<m_requests, counting, calls, filling>>
  BY DEF StartSession, EndSession, Done, ForceSync, Update, WaitForRequests, FreeRIDs, GetRID,
         EnsureRID, vars, serverVars, renderVars
<1>2. counting => phase \in {"construct", "process", "sync", "wait"}
  BY RequestsInvIff DEF CallsOK
<1>3. counting => phase' \in {"construct", "process", "sync", "wait"}
  BY <1>2 DEF StartSession, EndSession, Done, ForceSync, Update, WaitForRequests, FreeRIDs, GetRID,
              EnsureRID, vars
<1>4. phase = "wait" => phase' = "wait" \/ calls \notin {Ended, Both}
  <2>1. CASE WaitForRequests BY <2>1, Answered, CallLists DEF WaitForRequests
  <2> QED BY <2>1 DEF StartSession, EndSession, Done, Then, ForceSync, Update, FreeRIDs, GetRID,
                      EnsureRID, vars
<1> QED BY <1>1, <1>3, <1>4, RequestsSame

(* Every step keeps the requests exact. *)
LEMMA NextRequests ==
    ASSUME TypeOK, RequestsInv, [Next]_vars
    PROVE  RequestsInv'
<1>1. ASSUME NEW c \in Context, Process(c) PROVE RequestsInv'
  <2>1. /\ ~counting /\ phase \in {"construct", "process"} /\ phase' = phase
        /\ UNCHANGED <<m_requests, filling>> /\ (RequestRIDs \/ UNCHANGED <<calls, counting>>)
    BY <1>1 DEF Process, GetRIDs
  <2> QED BY <2>1, RequestRIDsKeepsRequests
<1>2. CASE Request
  <2>1. ~counting BY <1>2, RequestsInvIff DEF Request, CallsOK
  <2>2. /\ phase = "request" /\ UNCHANGED <<m_requests, filling>> /\ RequestRIDs
        /\ (counting' => phase' = "sync")
    BY <1>2, <2>1 DEF Request, RequestRIDs, serverVars
  <2> QED BY <2>1, <2>2, RequestRIDsKeepsRequests
<1>3. CASE Count BY <1>3, CountKeepsRequests
<1>4. CASE CheckRequired BY <1>4, CheckRequiredKeepsRequests
<1>5. CASE AllocateRIDsInternal BY <1>5, AllocateKeepsRequests
<1>6. CASE DeallocateRIDsInternal BY <1>6, DeallocateKeepsRequests
<1>7. CASE DeleteServer BY <1>7, DeleteServerKeepsRequests
<1>8. CASE \/ StartSession \/ EndSession \/ Done \/ ForceSync \/ Update \/ WaitForRequests
           \/ (\E c \in Context : FreeRIDs(c))
           \/ (\E c \in Context : \E t \in Type : GetRID(c, t) \/ EnsureRID(c, t))
           \/ UNCHANGED vars
  BY <1>8, OthersKeepRequests
<1> QED BY <1>1, <1>2, <1>3, <1>4, <1>5, <1>6, <1>7, <1>8 DEF Next, OwnerStep, RenderStep, Stopped

-----------------------------------------------------------------------------
(* What the destructor leaves.                                              *)

(* Deallocated with the lists by name, before and after a step. *)
LEMMA DeallocatedIff ==
    /\ RequestsInv => (Deallocated <=> phase \in {"wait", "deleted"} /\ calls \notin {Ended, Both})
    /\ RequestsInv' => (Deallocated' <=> phase' \in {"wait", "deleted"} /\ calls' \notin {Ended, Both})
BY CallLists, RequestsInvIff DEF Deallocated, CallsOK

(* When every allocator is empty the pool has what is not in use. *)
LEMMA PoolIsTheRest ==
    ASSUME RIDsExact, NEW t \in Type, \A c \in Context : held[c][t] = <<>>
    PROVE  ToSet(rids[t]) \union used[t] = 1 .. created[t]
<1>1. OwnedOnce(rids[t], HeldOf(t), used[t], created[t]) BY DEF RIDsExact, RIDsOwnedOnce, HeldOf
<1>2. \A c \in Context : ToSet(HeldOf(t)[c]) = {} BY DEF HeldOf, ToSet
<1>3. ASSUME NEW x PROVE x \in 1 .. created[t] <=> x \in ToSet(rids[t]) \/ x \in used[t]
  BY <1>1, <1>2, OwnedOnceIff
<1> QED BY <1>3

(* How the simulation thread goes on. *)
LEMMA PhaseSteps ==
    ASSUME [Next]_vars
    PROVE  \/ phase' = phase /\ (todo' = todo \/ \E c \in Context : Process(c) \/ FreeRIDs(c))
           \/ phase \in {"construct", "process"} /\ phase' \in {"request", "frame"}
           \/ phase = "delete" /\ phase' = "none" /\ todo = {}
           \/ phase = "frame" /\ phase' = "delete" /\ todo' = Context
           \/ phase = "none" /\ DeleteServer
           \/ phase = "wait" /\ WaitForRequests
           \/ phase' \in {"construct", "sync", "initialize", "process"}
<1>1. CASE Done
  <2>1. phase \in {"construct", "process", "delete"} /\ todo = {} /\ phase' = Then[phase]
    BY <1>1 DEF Done, Then
  <2>2. /\ phase = "construct" => phase' = "request"
        /\ phase = "process" => phase' = "frame"
        /\ phase = "delete" => phase' = "none"
    BY <2>1 DEF Then
  <2> QED BY <2>1, <2>2
<1>2. CASE \/ StartSession \/ EndSession \/ DeleteServer \/ Count \/ Request \/ ForceSync \/ Update
           \/ WaitForRequests \/ RenderStep \/ UNCHANGED vars
  BY <1>2 DEF StartSession, EndSession, DeleteServer, Count, Request, ForceSync, Update,
              WaitForRequests, RenderStep, CheckRequired, AllocateRIDsInternal,
              DeallocateRIDsInternal, vars
<1>3. ASSUME NEW c \in Context, Process(c) \/ FreeRIDs(c)
      PROVE  phase' = phase
  BY <1>3 DEF Process, FreeRIDs
<1>4. ASSUME NEW c \in Context, NEW t \in Type, GetRID(c, t) \/ EnsureRID(c, t)
      PROVE  phase' = phase /\ todo' = todo
  BY <1>4 DEF GetRID, EnsureRID
<1> QED BY <1>1, <1>2, <1>3, <1>4 DEF Next, OwnerStep, Stopped

(* The allocators are emptied between the sessions. *)
LEMMA HeldQuiet ==
    ASSUME RIDsExact, QuietInv, [Next]_vars
    PROVE  /\ phase' \in {"none", "wait", "deleted"} =>
                \A c \in Context : \A t \in Type : held'[c][t] = <<>>
           /\ phase' = "delete" =>
                \A c \in Context \ todo' : \A t \in Type : held'[c][t] = <<>>
<1>1. CASE held' = held
  <2>1. ASSUME phase' \in {"none", "wait", "deleted"}
        PROVE  \/ phase \in {"none", "wait", "deleted"}
               \/ phase = "delete" /\ todo = {}
    BY <2>1, PhaseSteps DEF DeleteServer, WaitForRequests
  <2>2. ASSUME phase' = "delete"
        PROVE  todo' = Context \/ (phase = "delete" /\ (todo' = todo \/ \E c \in Context : FreeRIDs(c)))
    BY <2>2, PhaseSteps DEF DeleteServer, WaitForRequests, Process
  <2>3. ASSUME NEW c \in Context, FreeRIDs(c), held' = held
        PROVE  \A d \in Context \ todo' : \A t \in Type : held'[d][t] = <<>>
    <3>1. held'[c] = [t \in Type |-> <<>>] /\ todo' = todo \ {c} /\ phase = "delete"
      BY <2>3 DEF FreeRIDs, RIDsExact, AllocatorsBounded, TypeOK
    <3> QED BY <2>3, <3>1 DEF QuietInv
  <2> QED BY <1>1, <2>1, <2>2, <2>3 DEF QuietInv
<1>2. CASE held' # held
  <2>1. \/ phase' = phase /\ phase \in {"construct", "process", "frame"}
        \/ \E c \in Context : FreeRIDs(c)
    BY <1>2 DEF Next, OwnerStep, RenderStep, Stopped, vars, StartSession, EndSession, DeleteServer, Count, Done,
                Request, ForceSync, Update, WaitForRequests, CheckRequired, AllocateRIDsInternal,
                DeallocateRIDsInternal, Process, GetRID, EnsureRID
  <2>2. ASSUME NEW c \in Context, FreeRIDs(c)
        PROVE  phase' = "delete" /\ \A d \in Context \ todo' : \A t \in Type : held'[d][t] = <<>>
    <3>1. /\ held' = [held EXCEPT ![c] = [t \in Type |-> <<>>]] /\ todo' = todo \ {c}
          /\ phase = "delete" /\ phase' = phase /\ held \in [Context -> [Type -> Seq(Nat)]]
      BY <2>2 DEF FreeRIDs, RIDsExact, AllocatorsBounded, TypeOK
    <3> QED BY <3>1 DEF QuietInv
  <2> QED BY <2>1, <2>2
<1> QED BY <1>1, <1>2

(* Every step keeps contexts that were deleted without RIDs, and leaves      *)
(* nothing to do after the last request.                                     *)
LEMMA NextQuiet ==
    ASSUME RIDsExact, RequestsInv, QuietInv, RequestsInv', [Next]_vars
    PROVE  QuietInv'
<1>1. CASE Deallocated
  <2>1. calls = <<>> /\ ~filling /\ phase \in {"wait", "deleted"}
    BY <1>1 DEF QuietInv, Deallocated
  <2>2. phase' \in {"wait", "deleted"} /\ UNCHANGED <<calls, filling, freed, used, created>>
    BY <2>1 DEF Next, OwnerStep, RenderStep, Stopped, vars, serverVars, renderVars, StartSession,
                EndSession, DeleteServer, Count, Done, Then, Request, ForceSync, Update,
                WaitForRequests, CheckRequired, AllocateRIDsInternal, DeallocateRIDsInternal,
                Process, FreeRIDs, GetRID, EnsureRID
  <2>3. Deallocated' BY <2>1, <2>2 DEF Deallocated
  <2> QED BY <1>1, <2>1, <2>2, <2>3, HeldQuiet DEF QuietInv
<1>2. CASE ~Deallocated /\ DeallocateRIDsInternal
  <2>1. calls = Ended /\ ~filling /\ phase = "wait"
    BY <1>2, CallLists, RequestsInvIff DEF DeallocateRIDsInternal, CallsOK
  <2>2. /\ calls' = <<>> /\ ~filling' /\ phase' = "wait" /\ used' = used /\ created' = created
        /\ \A t \in Type : freed'[t] = freed[t] \union ToSet(rids[t])
    BY <1>2, <2>1, CallLists DEF DeallocateRIDsInternal
  <2>3. ASSUME NEW t \in Type PROVE freed'[t] \union used'[t] = 1 .. created'[t]
    <3>1. \A c \in Context : held[c][t] = <<>> BY <2>1 DEF QuietInv
    <3>2. freed[t] = {} BY <1>2 DEF QuietInv
    <3>3. ToSet(rids[t]) \union used[t] = 1 .. created[t] BY <3>1, PoolIsTheRest
    <3> QED BY <2>2, <3>2, <3>3
  <2>4. Deallocated' BY <2>2 DEF Deallocated
  <2> QED BY <2>2, <2>3, <2>4, HeldQuiet DEF QuietInv
<1>3. CASE ~Deallocated /\ ~DeallocateRIDsInternal
  <2>1. freed' = freed
    BY <1>3 DEF Next, OwnerStep, RenderStep, Stopped, vars, renderVars, StartSession,
                EndSession, DeleteServer, Count, Done, Request, ForceSync, Update,
                WaitForRequests, CheckRequired, AllocateRIDsInternal,
                Process, FreeRIDs, GetRID, EnsureRID
  <2>2. ~Deallocated'
    <3>1. TypeOK BY DEF RIDsExact, AllocatorsBounded
    <3>2. CASE WaitForRequests
      <4>1. calls = <<>> /\ phase = "wait" BY <3>1, <3>2, Answered DEF WaitForRequests
      <4> QED BY <4>1, <1>3 DEF Deallocated
    <3>3. CASE DeleteServer
      <4>1. calls \in {<<>>, Asked} BY <3>3, RequestsInvIff DEF DeleteServer, CallsOK
      <4>2. calls' \in {Ended, Both} BY <3>3, <4>1, CallLists DEF DeleteServer
      <4> QED BY <4>2, DeallocatedIff
    <3>4. CASE CheckRequired
      <4>1. calls \in {Asked, Both} BY <3>4, CallLists, RequestsInvIff DEF CheckRequired, CallsOK
      <4>2. CASE calls = Asked
        <5>1. phase \notin {"wait", "deleted"} BY <1>3, <4>2, CallLists, DeallocatedIff
        <5> QED BY <3>4, <5>1 DEF CheckRequired, Deallocated
      <4>3. CASE calls = Both
        <5>1. calls' = Ended BY <3>4, <4>3, CallLists DEF CheckRequired
        <5> QED BY <5>1, DeallocatedIff
      <4> QED BY <4>1, <4>2, <4>3
    <3>5. CASE ~WaitForRequests /\ ~DeleteServer /\ ~CheckRequired
      <4>1. \/ phase' \notin {"wait", "deleted"}
            \/ phase' = phase /\ calls' = calls
        <5>1. CASE phase' \in {"wait", "deleted"}
          <6>1. phase' = phase BY <3>5, <5>1, PhaseSteps
          <6>2. calls' = calls
            BY <1>3, <3>5, <5>1, <6>1
               DEF Next, OwnerStep, RenderStep, Stopped, vars, renderVars, StartSession,
                   EndSession, Count, Done, Request, ForceSync, Update,
                   AllocateRIDsInternal, Process, FreeRIDs, GetRID, EnsureRID
          <6> QED BY <6>1, <6>2
        <5> QED BY <5>1
      <4> QED BY <4>1, <1>3 DEF Deallocated
    <3> QED BY <3>2, <3>3, <3>4, <3>5
  <2> QED BY <1>3, <2>1, <2>2, HeldQuiet DEF QuietInv
<1> QED BY <1>1, <1>2, <1>3

-----------------------------------------------------------------------------

RenderInv == RIDsExact /\ AllocatorInv

(* The inductive invariant: every RID is in one place, no more calls wait    *)
(* than m_requests says, and what the destructor has freed.                  *)
THEOREM AllocatorInvariant == Spec => []RenderInv
<1>1. Init => RenderInv
  <2> SUFFICES ASSUME Init PROVE RenderInv OBVIOUS
  <2>1. RIDsExact BY InitRIDs
  <2>2. /\ phase = "none" /\ calls = <<>> /\ ~filling /\ ~counting /\ m_requests = 0
        /\ \A c \in Context, t \in Type : held[c][t] = <<>> /\ freed[t] = {}
    BY DEF Init
  <2>3. Requests = 0 /\ Pending = 0 BY <2>2, EmptySeq DEF Requests, Pending
  <2>4. RequestsInv BY <2>2, <2>3, RequestsInvIff, CallLists DEF CallsOK
  <2>5. QuietInv
    <3>1. ~Deallocated BY <2>2 DEF Deallocated
    <3>2. \A t \in Type : freed[t] = {} BY DEF Init
    <3> QED BY <2>2, <3>1, <3>2 DEF QuietInv
  <2> QED BY <2>1, <2>4, <2>5 DEF RenderInv, AllocatorInv
<1>2. RenderInv /\ [Next]_vars => RenderInv'
  <2> SUFFICES ASSUME RenderInv, [Next]_vars PROVE RenderInv' OBVIOUS
  <2>1. RIDsExact /\ RequestsInv /\ QuietInv /\ TypeOK
    BY DEF RenderInv, AllocatorInv, RIDsExact, AllocatorsBounded
  <2>2. RIDsExact' BY <2>1, NextRIDs
  <2>3. RequestsInv' BY <2>1, NextRequests
  <2>4. QuietInv' BY <2>1, <2>3, NextQuiet
  <2> QED BY <2>2, <2>3, <2>4 DEF RenderInv, AllocatorInv
<1> QED BY <1>1, <1>2, PTL DEF Spec

(* RequestsExact: whatever the counter goes through, and however few values  *)
(* it has, its value is the number of calls that wait or one more, and       *)
(* ~AllocatorServer returns after the last of them, with every RID freed     *)
(* that is not in use.                                                       *)
THEOREM RequestsAlwaysExact == Spec => []RequestsExact
<1>1. RenderInv => RequestsExact
  <2> SUFFICES ASSUME RenderInv PROVE RequestsExact OBVIOUS
  <2>1. RIDsExact /\ RequestsInv /\ QuietInv /\ TypeOK
    BY DEF RenderInv, AllocatorInv, RIDsExact, AllocatorsBounded
  <2>2. RequestsCounted
    <3>1. Requests - Pending \in {0, 1, Wrap} BY <2>1, RequestsInvIff DEF CallsOK
    <3>2. Wrap \in Nat /\ Wrap > 3 BY AllocatorAssumption DEF AllocatorAssumption
    <3>3. 0 % Wrap = 0 /\ 1 % Wrap = 1 /\ Wrap % Wrap = 0 BY <3>2
    <3> QED BY <3>1, <3>3 DEF RequestsCounted
  <2>3. DeletedQuiet
    <3>1. SUFFICES ASSUME phase = "deleted" PROVE Deallocated
      BY <2>1 DEF DeletedQuiet, QuietInv
    <3>2. calls \notin {Ended, Both} BY <2>1, <3>1, RequestsInvIff DEF CallsOK
    <3> QED BY <2>1, <3>1, <3>2, DeallocatedIff
  <2> QED BY <2>2, <2>3 DEF RequestsExact
<1> QED BY <1>1, AllocatorInvariant, PTL
=============================================================================
