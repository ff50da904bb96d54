------------------------- MODULE HashDatabaseProofs -------------------------
(***************************************************************************)
(* That a shard of the region database has sound chains and a sound pool   *)
(* in every session, that every image a crash leaves is one that Open can  *)
(* bring back to such a file, and that the whole behaves as RegionStore    *)
(* says: for any number of threads, keys, buckets and values.              *)
(***************************************************************************)
EXTENDS HashDatabase, FiniteSetTheorems, SequenceTheorems, WellFoundedInduction, TLAPS

-----------------------------------------------------------------------------
(* Numbers. *)

(* A set of numbers that is not empty has a least one. *)
LEMMA LeastOf ==
    ASSUME NEW S \in SUBSET Nat, S # {}
    PROVE  \E i \in S : \A j \in S : i <= j
<1>1. PICK i \in S : \A j \in S : ~(<<j, i>> \in OpToRel(<, Nat))
  BY NatLessThanWellFounded, WFMin
<1>2. \A j \in S : i <= j
  <2> TAKE j \in S
  <2>1. i \in Nat /\ j \in Nat OBVIOUS
  <2>2. ~(j < i) BY <1>1, <2>1 DEF OpToRel
  <2> QED BY <2>1, <2>2
<1> QED BY <1>2

(* Induction over the numbers, for a set instead of a predicate. *)
LEMMA Upwards ==
    ASSUME NEW S, 0 \in S, \A n \in Nat : n \in S => n + 1 \in S
    PROVE  Nat \subseteq S
<1> SUFFICES ASSUME Nat \ S # {} PROVE FALSE OBVIOUS
<1>1. PICK i \in Nat \ S : \A j \in Nat \ S : i <= j BY LeastOf
<1>2. i # 0 /\ i - 1 \in Nat BY <1>1
<1>3. i - 1 \in S BY <1>1, <1>2
<1> QED BY <1>1, <1>2, <1>3

(* From the top down to a bottom. *)
LEMMA Downwards ==
    ASSUME NEW lo \in Nat, NEW hi \in Nat, NEW S,
           \A n \in lo .. hi : (\A m \in n + 1 .. hi : m \in S) => n \in S
    PROVE  lo .. hi \subseteq S
<1> DEFINE D == {k \in Nat : \A m \in lo .. hi : hi - m < k => m \in S}
<1>1. 0 \in D OBVIOUS
<1>2. \A k \in Nat : k \in D => k + 1 \in D
  <2> TAKE k \in Nat
  <2> HAVE k \in D
  <2> SUFFICES ASSUME NEW m \in lo .. hi, hi - m < k + 1 PROVE m \in S OBVIOUS
  <2>1. \A j \in m + 1 .. hi : j \in S OBVIOUS
  <2> QED BY <2>1
<1>3. Nat \subseteq D
  <2> HIDE DEF D
  <2> QED BY <1>1, <1>2, Upwards
<1>4. hi - lo + 1 \in Nat \/ lo .. hi = {} OBVIOUS
<1>5. CASE hi - lo + 1 \in Nat
  <2>1. hi - lo + 1 \in D BY <1>3, <1>5
  <2> QED BY <2>1
<1> QED BY <1>4, <1>5

(* A set of numbers with a bound has a greatest one. *)
LEMMA GreatestOf ==
    ASSUME NEW hi \in Nat, NEW S, S \subseteq 0 .. hi, S # {}
    PROVE  Max(S) \in S /\ \A j \in S : j <= Max(S)
<1> DEFINE R == {k \in Nat : hi - k \in S}
<1>1. R # {}
  <2>1. PICK i \in S : TRUE OBVIOUS
  <2>2. hi - i \in Nat /\ hi - (hi - i) = i BY <2>1
  <2> QED BY <2>1, <2>2
<1>2. PICK k \in R : \A j \in R : k <= j
  <2> HIDE DEF R
  <2>1. R \in SUBSET Nat BY DEF R
  <2> QED BY <1>1, <2>1, LeastOf
<1>3. \A j \in S : j <= hi - k
  <2> TAKE j \in S
  <2>1. hi - j \in Nat /\ hi - (hi - j) = j OBVIOUS
  <2>2. k <= hi - j BY <1>2, <2>1
  <2> QED BY <2>2, <1>2
<1> QED BY <1>2, <1>3 DEF Max

LEMMA SmallestOf ==
    ASSUME NEW S, S \subseteq Nat, S # {}
    PROVE  Min(S) \in S /\ \A j \in S : Min(S) <= j
<1>1. PICK i \in S : \A j \in S : i <= j BY LeastOf
<1> QED BY <1>1 DEF Min

-----------------------------------------------------------------------------
(* Chains. *)

(* One step of a walk: the record at o, and what w finds behind it. *)
Ahead(f, n, w) == [o \in 0 .. MaxSize |-> IF n = 0 \/ o = 0 THEN <<>> ELSE <<o>> \o w[Child(f, o)]]

LEMMA NothingAhead ==
    ASSUME NEW f, NEW w, NEW z
    PROVE  Ahead(f, 0, w) = Ahead(f, 0, z)
BY DEF Ahead

(* A walk follows the children of the records. *)
LEMMA WalkIs ==
    ASSUME NEW f
    PROVE  Walk(f) = [n \in 0 .. MaxSize |-> Ahead(f, n, Walk(f)[n - 1])]
<1> DEFINE S == {k \in Nat : \E g : g = [n \in 0 .. k |-> Ahead(f, n, g[n - 1])]}
<1>1. 0 \in S
  <2> DEFINE g == [n \in 0 .. 0 |-> Ahead(f, 0, 0)]
  <2>1. \A n \in 0 .. 0 : Ahead(f, 0, 0) = Ahead(f, n, g[n - 1])
    <3> TAKE n \in 0 .. 0
    <3>1. n = 0 OBVIOUS
    <3>2. Ahead(f, 0, 0) = Ahead(f, 0, g[n - 1]) BY NothingAhead
    <3> QED BY <3>1, <3>2
  <2>2. g = [n \in 0 .. 0 |-> Ahead(f, n, g[n - 1])] BY <2>1
  <2> HIDE DEF g
  <2> QED BY <2>2
<1>2. \A k \in Nat : k \in S => k + 1 \in S
  <2> TAKE k \in Nat
  <2> HAVE k \in S
  <2>1. PICK g : g = [n \in 0 .. k |-> Ahead(f, n, g[n - 1])] OBVIOUS
  <2> DEFINE h == [n \in 0 .. k + 1 |-> IF n = k + 1 THEN Ahead(f, n, g[k]) ELSE g[n]]
  <2>2. \A n \in 0 .. k + 1 : h[n] = Ahead(f, n, h[n - 1])
    <3> TAKE n \in 0 .. k + 1
    <3>1. CASE n = 0
      <4>1. n \in 0 .. k /\ n # k + 1 BY <3>1
      <4>2. h[n] = g[n] /\ g[n] = Ahead(f, n, g[n - 1]) BY <4>1, <2>1
      <4>3. Ahead(f, 0, g[n - 1]) = Ahead(f, 0, h[n - 1]) BY NothingAhead
      <4> QED BY <4>2, <4>3, <3>1
    <3>2. CASE n = k + 1
      <4>1. h[n] = Ahead(f, n, g[k]) /\ n - 1 = k /\ n - 1 \in 0 .. k + 1 /\ n - 1 # k + 1 BY <3>2
      <4>2. h[n - 1] = g[k] BY <4>1
      <4> QED BY <4>1, <4>2
    <3>3. CASE n \in 1 .. k
      <4>1. n \in 0 .. k /\ n # 0 /\ n # k + 1 /\ n - 1 \in 0 .. k + 1 /\ n - 1 # k + 1 BY <3>3
      <4>2. h[n] = g[n] /\ h[n - 1] = g[n - 1] BY <4>1
      <4>3. g[n] = Ahead(f, n, g[n - 1]) BY <2>1, <4>1
      <4> QED BY <4>2, <4>3
    <3> QED BY <3>1, <3>2, <3>3
  <2>3. h = [n \in 0 .. k + 1 |-> h[n]] OBVIOUS
  <2> HIDE DEF h
  <2>4. h = [n \in 0 .. k + 1 |-> Ahead(f, n, h[n - 1])] BY <2>2, <2>3
  <2> QED BY <2>4
<1>3. MaxSize \in S
  <2> HIDE DEF S
  <2>1. Nat \subseteq S BY <1>1, <1>2, Upwards
  <2> QED BY <2>1, DatabaseAssumption
<1>4. \E g : g = [n \in 0 .. MaxSize |-> Ahead(f, n, g[n - 1])] BY <1>3
<1>5. Walk(f) = CHOOSE g : g = [n \in 0 .. MaxSize |-> Ahead(f, n, g[n - 1])] BY DEF Walk, Ahead
<1> QED BY <1>4, <1>5

LEMMA UpTo ==
    ASSUME NEW n \in Nat
    PROVE  IsFiniteSet(1 .. n) /\ Cardinality(1 .. n) = n
BY FS_Interval

(* A chain has no more records than the file has places. *)
LEMMA ChainLength ==
    ASSUME NEW c, c \in Seq(Base .. MaxSize), IsInjective(c)
    PROVE  /\ Len(c) \in 0 .. MaxSize
           /\ DOMAIN c = 1 .. Len(c)
           /\ c \in [1 .. Len(c) -> Base .. MaxSize]
<1>1. Len(c) \in Nat /\ DOMAIN c = 1 .. Len(c) /\ c \in [1 .. Len(c) -> Base .. MaxSize]
  BY LenProperties
<1>2. IsFiniteSet(1 .. MaxSize) /\ Cardinality(1 .. MaxSize) = MaxSize
  BY UpTo, DatabaseAssumption
<1>3. IsFiniteSet(1 .. Len(c)) /\ Cardinality(1 .. Len(c)) = Len(c)
  BY <1>1, UpTo
<1>4. c \in [1 .. Len(c) -> 1 .. MaxSize] BY <1>1 DEF Base
<1>5. ~(MaxSize < Len(c))
  <2> SUFFICES ASSUME MaxSize < Len(c) PROVE FALSE OBVIOUS
  <2>1. Cardinality(1 .. MaxSize) < Cardinality(1 .. Len(c)) BY <1>2, <1>3
  <2>2. \E x, y \in 1 .. Len(c) : x # y /\ c[x] = c[y]
    BY <1>2, <1>3, <1>4, <2>1, FS_PigeonHole
  <2> QED BY <2>2, <1>1 DEF IsInjective
<1> QED BY <1>1, <1>5, DatabaseAssumption

(* The rest of c from its i-th element. *)
Remainder(c, i) == [j \in 1 .. Len(c) + 1 - i |-> c[i + j - 1]]

LEMMA RemainderOf ==
    ASSUME NEW T, NEW c \in Seq(T)
    PROVE  /\ Remainder(c, Len(c) + 1) = <<>>
           /\ Remainder(c, 1) = c
           /\ \A i \in 1 .. Len(c) : <<c[i]>> \o Remainder(c, i + 1) = Remainder(c, i)
<1>1. Len(c) \in Nat /\ DOMAIN c = 1 .. Len(c) /\ c \in [1 .. Len(c) -> T] BY LenProperties
<1>2. Remainder(c, Len(c) + 1) = <<>>
  <2>1. Len(c) + 1 - (Len(c) + 1) = 0 BY <1>1
  <2>2. 1 .. 0 = {} OBVIOUS
  <2>3. Remainder(c, Len(c) + 1) = [j \in 1 .. 0 |-> c[Len(c) + 1 + j - 1]] BY <2>1 DEF Remainder
  <2>4. Remainder(c, Len(c) + 1) = [j \in {} |-> c[Len(c) + 1 + j - 1]] BY <2>2, <2>3
  <2>5. [j \in {} |-> c[Len(c) + 1 + j - 1]] \in Seq(T) BY <2>2, <2>3, <2>4
  <2> QED BY <2>4, <2>5, EmptySeq
<1>3. Remainder(c, 1) = c
  <2>1. Len(c) + 1 - 1 = Len(c) BY <1>1
  <2>2. \A j \in 1 .. Len(c) : 1 + j - 1 = j BY <1>1
  <2>3. Remainder(c, 1) = [j \in 1 .. Len(c) |-> c[1 + j - 1]] BY <2>1 DEF Remainder
  <2>4. Remainder(c, 1) = [j \in 1 .. Len(c) |-> c[j]] BY <2>2, <2>3
  <2> QED BY <2>4, <1>1
<1>4. ASSUME NEW i \in 1 .. Len(c) PROVE <<c[i]>> \o Remainder(c, i + 1) = Remainder(c, i)
  <2>1. PICK l \in Nat : l = Len(c) BY <1>1
  <2>2. PICK m \in Nat : m = l - i
    <3>1. l - i \in Nat BY <2>1
    <3> QED BY <3>1
  <2>3. l + 1 - (i + 1) = m /\ l + 1 - i = m + 1 BY <2>1, <2>2
  <2>4. PICK r : r = Remainder(c, i + 1) OBVIOUS
  <2>5. r = [j \in 1 .. m |-> c[i + 1 + j - 1]] BY <2>1, <2>3, <2>4 DEF Remainder
  <2>6. \A j \in 1 .. m : i + 1 + j - 1 = i + j /\ i + j \in 1 .. l BY <2>1, <2>2
  <2>7. r = [j \in 1 .. m |-> c[i + j]] BY <2>5, <2>6
  <2>8. r \in [1 .. m -> T] BY <2>7, <2>6, <2>1, <1>1
  <2>9. r \in Seq(T) /\ Len(r) = m BY <2>8
  <2>10. c[i] \in T BY <1>1
  <2>11. Remainder(c, i) = [j \in 1 .. m + 1 |-> c[i + j - 1]] BY <2>1, <2>3 DEF Remainder
  <2>12. \A j \in 1 .. m + 1 : (<<c[i]>> \o r)[j] = c[i + j - 1]
    <3> TAKE j \in 1 .. m + 1
    <3>1. (<<c[i]>> \o r)[j] = IF j = 1 THEN c[i] ELSE r[j - 1] BY <2>9, <2>10
    <3>2. CASE j = 1 BY <3>1, <3>2
    <3>3. CASE j # 1
      <4>1. j - 1 \in 1 .. m /\ i + (j - 1) = i + j - 1 BY <3>3
      <4>2. r[j - 1] = c[i + (j - 1)] BY <2>7, <4>1
      <4> QED BY <3>1, <3>3, <4>1, <4>2
    <3> QED BY <3>2, <3>3
  <2>13. (<<c[i]>> \o r) \in Seq(T) /\ Len(<<c[i]>> \o r) = m + 1 BY <2>9, <2>10
  <2>14. <<c[i]>> \o r = [j \in 1 .. m + 1 |-> (<<c[i]>> \o r)[j]] BY <2>13
  <2> QED BY <2>4, <2>11, <2>12, <2>14
<1> QED BY <1>2, <1>3, <1>4

(* A walk along a chain finds the rest of it, and nothing behind it. *)
Finds(f, c, n) ==
    \A i \in 1 .. Len(c) + 1 :
        Len(c) + 1 - i <= n => Walk(f)[n][IF i <= Len(c) THEN c[i] ELSE 0] = Remainder(c, i)

LEMMA WalkOfChain ==
    ASSUME NEW f, NEW b, NEW c, IsFile(f), Chained(f, b, c)
    PROVE  \A n \in 0 .. MaxSize : Finds(f, c, n)
<1>1. DOMAIN f.recs \subseteq Base .. MaxSize BY DEF IsFile
<1>2. c \in Seq(Base .. MaxSize) /\ IsInjective(c) BY <1>1, SeqMonotonic DEF Chained
<1>3. PICK l \in Nat : l = Len(c) /\ DOMAIN c = 1 .. l BY <1>2, ChainLength
<1>4. PICK W : W = Walk(f) OBVIOUS
<1>5. \A n \in 0 .. MaxSize : W[n] = Ahead(f, n, W[n - 1])
  <2>1. W = [n \in 0 .. MaxSize |-> Ahead(f, n, W[n - 1])] BY <1>4, WalkIs
  <2> QED BY <2>1
<1>6. \A n \in 0 .. MaxSize : W[n][0] = <<>>
  <2> TAKE n \in 0 .. MaxSize
  <2>1. 0 \in 0 .. MaxSize BY DatabaseAssumption
  <2>2. Ahead(f, n, W[n - 1])[0] = <<>> BY <2>1 DEF Ahead
  <2> QED BY <2>2, <1>5
<1>7. \A n \in 0 .. MaxSize : W[n][0] = Remainder(c, l + 1) BY <1>6, <1>2, <1>3, RemainderOf
<1>8. Finds(f, c, 0)
  <2> SUFFICES ASSUME NEW i \in 1 .. l + 1, l + 1 - i <= 0
               PROVE  W[0][IF i <= l THEN c[i] ELSE 0] = Remainder(c, i)
    BY <1>3, <1>4 DEF Finds
  <2>1. i = l + 1 /\ ~(i <= l) OBVIOUS
  <2>2. 0 \in 0 .. MaxSize BY DatabaseAssumption
  <2> QED BY <2>1, <2>2, <1>7
<1>9. ASSUME NEW n \in Nat, n + 1 \in 0 .. MaxSize, Finds(f, c, n)
      PROVE  Finds(f, c, n + 1)
  <2> SUFFICES ASSUME NEW i \in 1 .. l + 1, l + 1 - i <= n + 1
               PROVE  W[n + 1][IF i <= l THEN c[i] ELSE 0] = Remainder(c, i)
    BY <1>3, <1>4 DEF Finds
  <2>1. CASE i = l + 1
    <3>1. ~(i <= l) BY <2>1
    <3> QED BY <2>1, <3>1, <1>7, <1>9
  <2>2. CASE i \in 1 .. l
    <3>1. i \in DOMAIN c /\ i <= l BY <2>2, <1>3
    <3>2. /\ c[i] \in DOMAIN f.recs
          /\ f.recs[c[i]].child = IF i = l THEN 0 ELSE c[i + 1]
      BY <1>3, <3>1 DEF Chained, Live
    <3>3. (i = l) <=> ~(i + 1 <= l) BY <2>2
    <3>4. Child(f, c[i]) = IF i + 1 <= l THEN c[i + 1] ELSE 0 BY <3>2, <3>3 DEF Child
    <3>5. W[n + 1] = Ahead(f, n + 1, W[n])
      <4>1. n + 1 - 1 = n OBVIOUS
      <4> QED BY <1>5, <1>9, <4>1
    <3>6. c[i] \in 0 .. MaxSize /\ c[i] # 0 /\ n + 1 # 0
      <4>1. c[i] \in Base .. MaxSize BY <3>2, <1>1
      <4> QED BY <4>1 DEF Base
    <3>7. W[n + 1][c[i]] = <<c[i]>> \o W[n][Child(f, c[i])] BY <3>5, <3>6 DEF Ahead
    <3>8. W[n][IF i + 1 <= l THEN c[i + 1] ELSE 0] = Remainder(c, i + 1)
      <4>1. i + 1 \in 1 .. l + 1 /\ l + 1 - (i + 1) <= n BY <2>2
      <4> QED BY <4>1, <1>3, <1>4, <1>9 DEF Finds
    <3>9. <<c[i]>> \o Remainder(c, i + 1) = Remainder(c, i) BY <1>2, <1>3, <2>2, RemainderOf
    <3> QED BY <3>1, <3>4, <3>7, <3>8, <3>9
  <2> QED BY <2>1, <2>2
<1> DEFINE S == {n \in Nat : n \in 0 .. MaxSize => Finds(f, c, n)}
<1>10. 0 \in S BY <1>8
<1>11. \A n \in Nat : n \in S => n + 1 \in S
  <2> TAKE n \in Nat
  <2> HAVE n \in S
  <2>1. CASE n + 1 \in 0 .. MaxSize
    <3>1. n \in 0 .. MaxSize BY <2>1, DatabaseAssumption
    <3>2. Finds(f, c, n) BY <3>1
    <3>3. Finds(f, c, n + 1)
      <4> HIDE DEF S
      <4> QED BY <1>9, <2>1, <3>2
    <3> QED BY <3>3
  <2>2. CASE n + 1 \notin 0 .. MaxSize BY <2>2
  <2> QED BY <2>1, <2>2
<1>12. Nat \subseteq S
  <2> HIDE DEF S
  <2> QED BY <1>10, <1>11, Upwards
<1> QED BY <1>12, DatabaseAssumption

(* A bucket has one chain. *)
LEMMA ChainIs ==
    ASSUME NEW f, NEW b, NEW c, IsFile(f), Chained(f, b, c)
    PROVE  Chain(f, b) = c
<1>1. DOMAIN f.recs \subseteq Base .. MaxSize BY DEF IsFile
<1>2. c \in Seq(Base .. MaxSize) /\ IsInjective(c) BY <1>1, SeqMonotonic DEF Chained
<1>3. Len(c) \in 0 .. MaxSize /\ DOMAIN c = 1 .. Len(c) BY <1>2, ChainLength
<1>4. f.bucket[b] = IF 1 <= Len(c) THEN c[1] ELSE 0
  <2>1. c = <<>> <=> Len(c) = 0 BY <1>2, EmptySeq
  <2>2. (1 <= Len(c)) <=> Len(c) # 0 BY <1>3
  <2> QED BY <2>1, <2>2 DEF Chained
<1>5. Finds(f, c, MaxSize)
  <2>1. MaxSize \in 0 .. MaxSize BY DatabaseAssumption
  <2> QED BY <2>1, WalkOfChain
<1>6. 1 \in 1 .. Len(c) + 1 /\ Len(c) + 1 - 1 <= MaxSize BY <1>3
<1>7. Walk(f)[MaxSize][f.bucket[b]] = Remainder(c, 1) BY <1>4, <1>5, <1>6 DEF Finds
<1>8. Remainder(c, 1) = c BY <1>2, RemainderOf
<1> QED BY <1>7, <1>8 DEF Chain

LEMMA OneSeq ==
    ASSUME NEW S, NEW x \in S
    PROVE  <<x>> \in Seq(S)
<1>1. <<x>> = [i \in 1 .. 1 |-> x] OBVIOUS
<1>2. [i \in 1 .. 1 |-> x] \in [1 .. 1 -> S] OBVIOUS
<1> QED BY <1>1, <1>2, SeqDef

(* What Find and Get return, for the chain c of the bucket of k. *)
Found(f, k, c) ==
    /\ \A i \in DOMAIN c : f.recs[c[i]].key = k =>
         /\ Find(f, k) = [cur |-> c[i], par |-> IF i = 1 THEN 0 ELSE c[i - 1]]
         /\ Lookup(f, k) = f.recs[c[i]].val
    /\ (\A i \in DOMAIN c : f.recs[c[i]].key # k) =>
         /\ Find(f, k) = [cur |-> 0, par |-> 0]
         /\ Lookup(f, k) = None

LEMMA FindIs ==
    ASSUME NEW f, NEW k \in Key, NEW c, IsFile(f), Chained(f, BucketOf[k], c)
    PROVE  Found(f, k, c)
<1> DEFINE H == {i \in DOMAIN c : c[i] \in DOMAIN f.recs /\ f.recs[c[i]].key = k}
<1>1. Chain(f, BucketOf[k]) = c BY ChainIs
<1>2. Find(f, k) = IF H = {} THEN [cur |-> 0, par |-> 0]
                   ELSE LET i == Min(H) IN [cur |-> c[i], par |-> IF i = 1 THEN 0 ELSE c[i - 1]]
  BY <1>1 DEF Find
<1>3. \A i \in DOMAIN c : c[i] \in DOMAIN f.recs BY DEF Chained, Live
<1>4. DOMAIN f.recs \subseteq Base .. MaxSize BY DEF IsFile
<1>5. \A i, j \in DOMAIN c : f.recs[c[i]].key = f.recs[c[j]].key => i = j BY DEF Chained
<1>6. ASSUME NEW i \in DOMAIN c, f.recs[c[i]].key = k
      PROVE  /\ Find(f, k) = [cur |-> c[i], par |-> IF i = 1 THEN 0 ELSE c[i - 1]]
             /\ Lookup(f, k) = f.recs[c[i]].val
  <2>1. H = {i} BY <1>3, <1>5, <1>6
  <2>2. Min(H) = i
    <3>1. DOMAIN c \subseteq Nat BY LenProperties DEF Chained
    <3> QED BY <2>1, <3>1 DEF Min
  <2>3. Find(f, k) = [cur |-> c[i], par |-> IF i = 1 THEN 0 ELSE c[i - 1]]
    <3>1. H # {} BY <2>1
    <3> HIDE DEF H
    <3> QED BY <1>2, <2>2, <3>1
  <2>4. c[i] # 0 BY <1>3, <1>4, DatabaseAssumption DEF Base
  <2> QED BY <2>3, <2>4 DEF Lookup
<1>7. ASSUME \A i \in DOMAIN c : f.recs[c[i]].key # k
      PROVE  Find(f, k) = [cur |-> 0, par |-> 0] /\ Lookup(f, k) = None
  <2>1. H = {} BY <1>7
  <2>2. Find(f, k) = [cur |-> 0, par |-> 0] BY <1>2, <2>1
  <2> QED BY <2>2 DEF Lookup
<1> QED BY <1>6, <1>7 DEF Found

(* A place in the chain for a record that is found. *)
LEMMA FoundAt ==
    ASSUME NEW f, NEW k \in Key, NEW c, IsFile(f), Chained(f, BucketOf[k], c), Find(f, k).cur # 0
    PROVE  \E i \in DOMAIN c : /\ f.recs[c[i]].key = k
                               /\ Find(f, k) = [cur |-> c[i], par |-> IF i = 1 THEN 0 ELSE c[i - 1]]
                               /\ Lookup(f, k) = f.recs[c[i]].val
<1>1. Found(f, k, c) BY FindIs
<1>2. CASE \E i \in DOMAIN c : f.recs[c[i]].key = k BY <1>1, <1>2 DEF Found
<1>3. CASE \A i \in DOMAIN c : f.recs[c[i]].key # k
  <2>1. Find(f, k) = [cur |-> 0, par |-> 0] BY <1>1, <1>3 DEF Found
  <2> QED BY <2>1
<1> QED BY <1>2, <1>3

(* A chain of a file is a chain of any other that has the same bucket and    *)
(* the same records in it.                                                  *)
SameOn(f, g, b, c) ==
    /\ g.bucket[b] = f.bucket[b]
    /\ \A i \in DOMAIN c : c[i] \in DOMAIN g.recs /\ g.recs[c[i]] = f.recs[c[i]]

LEMMA SameChain ==
    ASSUME NEW f, NEW g, NEW b, NEW c, IsFile(f), Chained(f, b, c), SameOn(f, g, b, c)
    PROVE  Chained(g, b, c)
<1>1. c \in [1 .. Len(c) -> DOMAIN f.recs] /\ DOMAIN c = 1 .. Len(c) /\ Len(c) \in Nat
  BY LenProperties DEF Chained
<1>2. c \in Seq(DOMAIN g.recs)
  <2>1. c \in [1 .. Len(c) -> DOMAIN g.recs] BY <1>1 DEF SameOn
  <2> QED BY <1>1, <2>1
<1> QED BY <1>1, <1>2 DEF Chained, SameOn, Live

(* ... and then Find and Get return the same. *)
LEMMA SameFound ==
    ASSUME NEW f, NEW g, NEW k \in Key, NEW c, IsFile(f), IsFile(g),
           Chained(f, BucketOf[k], c), SameOn(f, g, BucketOf[k], c)
    PROVE  Find(g, k) = Find(f, k) /\ Lookup(g, k) = Lookup(f, k)
<1>1. Chained(g, BucketOf[k], c) BY SameChain
<1>2. Found(f, k, c) /\ Found(g, k, c) BY <1>1, FindIs
<1>3. CASE \E i \in DOMAIN c : f.recs[c[i]].key = k
  <2>1. PICK i \in DOMAIN c : f.recs[c[i]].key = k BY <1>3
  <2>2. g.recs[c[i]] = f.recs[c[i]] BY DEF SameOn
  <2> QED BY <1>2, <2>1, <2>2 DEF Found
<1>4. CASE \A i \in DOMAIN c : f.recs[c[i]].key # k
  <2>1. \A i \in DOMAIN c : g.recs[c[i]].key # k BY <1>4 DEF SameOn
  <2> QED BY <1>2, <1>4, <2>1 DEF Found
<1> QED BY <1>3, <1>4

-----------------------------------------------------------------------------
(* Writing. *)

(* g is f with the record rec at o. *)
Wrote(f, g, o, rec) ==
    /\ IsFile(g)
    /\ g.meta = f.meta /\ g.synced = f.synced /\ g.saved = f.saved /\ g.bucket = f.bucket
    /\ DOMAIN g.recs = DOMAIN f.recs \union {o}
    /\ g.recs[o] = rec
    /\ \A p \in DOMAIN f.recs : p # o => g.recs[p] = f.recs[p]

LEMMA WriteRecordIs ==
    ASSUME NEW f, NEW o \in Base .. MaxSize, NEW rec \in Record, IsFile(f)
    PROVE  Wrote(f, WriteRecord(f, o, rec), o, rec)
<1> DEFINE new == [p \in {o} |-> rec]
           r == Over(new, f.recs)
           g == [f EXCEPT !.recs = r]
<1>1. DOMAIN new = {o} /\ new[o] = rec OBVIOUS
<1>2. /\ DOMAIN r = DOMAIN f.recs \union {o}
      /\ r = [p \in DOMAIN f.recs \union {o} |-> r[p]]
      /\ r[o] = rec
      /\ \A p \in DOMAIN f.recs : p # o => r[p] = f.recs[p]
  BY <1>1 DEF Over
<1> HIDE DEF r
<1>3. f = [meta |-> f.meta, synced |-> f.synced, saved |-> f.saved, bucket |-> f.bucket, recs |-> f.recs]
  BY DEF IsFile
<1>4. g = [meta |-> f.meta, synced |-> f.synced, saved |-> f.saved, bucket |-> f.bucket, recs |-> r]
  BY <1>3
<1>5. WriteRecord(f, o, rec) = g BY DEF WriteRecord, r
<1> HIDE DEF g
<1>6. /\ g.meta = f.meta /\ g.synced = f.synced /\ g.saved = f.saved
      /\ g.bucket = f.bucket /\ g.recs = r
  BY <1>4
<1>7. r \in [DOMAIN r -> Record]
  <2>1. f.recs \in [DOMAIN f.recs -> Record] BY DEF IsFile
  <2>2. \A p \in DOMAIN r : r[p] \in Record BY <1>2, <2>1
  <2> QED BY <1>2, <2>2
<1>8. DOMAIN r \subseteq Base .. MaxSize BY <1>2 DEF IsFile
<1>9. IsFile(g) BY <1>4, <1>6, <1>7, <1>8 DEF IsFile
<1> QED BY <1>2, <1>5, <1>6, <1>9 DEF Wrote

(* g is f with a record of another child at o. *)
SetChild(rec, child) == [rec EXCEPT !.child = child]

LEMMA ChildSet ==
    ASSUME NEW f, NEW o \in DOMAIN f.recs, NEW child \in 0 .. MaxSize, IsFile(f)
    PROVE  Wrote(f, [f EXCEPT !.recs[o].child = child], o, SetChild(f.recs[o], child))
<1> DEFINE r == [f.recs EXCEPT ![o] = SetChild(f.recs[o], child)]
           g == [f EXCEPT !.recs[o].child = child]
<1>1. f.recs[o] \in Record /\ f.recs \in [DOMAIN f.recs -> Record] BY DEF IsFile
<1>2. SetChild(f.recs[o], child) \in Record BY <1>1 DEF SetChild, Record
<1>3. f = [meta |-> f.meta, synced |-> f.synced, saved |-> f.saved, bucket |-> f.bucket, recs |-> f.recs]
  BY DEF IsFile
<1>4. g = [f EXCEPT !.recs = r] BY <1>3 DEF SetChild
<1>5. g = [meta |-> f.meta, synced |-> f.synced, saved |-> f.saved, bucket |-> f.bucket, recs |-> r]
  BY <1>3, <1>4
<1>6. /\ DOMAIN r = DOMAIN f.recs /\ r \in [DOMAIN r -> Record]
      /\ r[o] = SetChild(f.recs[o], child)
      /\ \A p \in DOMAIN f.recs : p # o => r[p] = f.recs[p]
  BY <1>1, <1>2
<1> HIDE DEF r, g
<1>7. /\ g.meta = f.meta /\ g.synced = f.synced /\ g.saved = f.saved
      /\ g.bucket = f.bucket /\ g.recs = r
  BY <1>5
<1>8. IsFile(g) BY <1>5, <1>6, <1>7 DEF IsFile
<1>9. Wrote(f, g, o, SetChild(f.recs[o], child)) BY <1>6, <1>7, <1>8 DEF Wrote
<1> QED BY <1>9 DEF g

(* g is f with another first record in bucket b. *)
Headed(f, g, b, o) ==
    /\ IsFile(g)
    /\ g.meta = f.meta /\ g.synced = f.synced /\ g.saved = f.saved /\ g.recs = f.recs
    /\ g.bucket = [f.bucket EXCEPT ![b] = o]

LEMMA BucketSet ==
    ASSUME NEW f, NEW b \in Bucket, NEW o \in 0 .. MaxSize, IsFile(f)
    PROVE  Headed(f, [f EXCEPT !.bucket[b] = o], b, o)
<1> DEFINE k == [f.bucket EXCEPT ![b] = o]
           g == [f EXCEPT !.bucket[b] = o]
<1>1. k \in [Bucket -> 0 .. MaxSize] BY DEF IsFile
<1>2. f = [meta |-> f.meta, synced |-> f.synced, saved |-> f.saved, bucket |-> f.bucket, recs |-> f.recs]
  BY DEF IsFile
<1>3. g = [meta |-> f.meta, synced |-> f.synced, saved |-> f.saved, bucket |-> k, recs |-> f.recs]
  BY <1>2
<1> HIDE DEF k, g
<1>4. /\ g.meta = f.meta /\ g.synced = f.synced /\ g.saved = f.saved
      /\ g.recs = f.recs /\ g.bucket = k
  BY <1>3
<1>5. IsFile(g) BY <1>1, <1>3, <1>4 DEF IsFile
<1>6. Headed(f, g, b, o) BY <1>4, <1>5 DEF Headed, k
<1> QED BY <1>6 DEF g

-----------------------------------------------------------------------------
(* A step of one thread, seen from the others. *)

(* The places in O hold the same in both files. *)
SameAt(f, g, O) ==
    \A o \in O : /\ o \in DOMAIN g.recs <=> o \in DOMAIN f.recs
                 /\ o \in DOMAIN f.recs => g.recs[o] = f.recs[o]

LEMMA ChainRange ==
    ASSUME NEW f, NEW k, NEW c, IsFile(f), Chained(f, BucketOf[k], c)
    PROVE  \A o : InChain(f, k, o) <=> \E i \in DOMAIN c : c[i] = o
BY ChainIs DEF InChain, Range

LEMMA UnderwayKept ==
    ASSUME NEW f, NEW g, NEW s, IsFile(f), IsFile(g), Underway(f, s),
           NEW c, Chained(f, BucketOf[s.key], c),
           SameOn(f, g, BucketOf[s.key], c), SameAt(f, g, Owned(s))
    PROVE  Underway(g, s)
<1> DEFINE b == BucketOf[s.key]
<1>1. s \in OpenSet /\ s.key \in Key BY DEF Underway, OpenSet
<1>2. Chained(g, b, c) BY SameChain
<1>3. Find(g, s.key) = Find(f, s.key) /\ Lookup(g, s.key) = Lookup(f, s.key)
  BY <1>1, SameFound
<1>4. \A o : InChain(g, s.key, o) <=> InChain(f, s.key, o) BY <1>2, ChainRange
<1>5. ASSUME Find(f, s.key).cur # 0
      PROVE  g.recs[Find(f, s.key).cur] = f.recs[Find(f, s.key).cur]
  <2> DEFINE k == s.key
  <2>0. k \in Key /\ Chained(f, BucketOf[k], c) /\ Find(f, k).cur # 0 BY <1>1, <1>5
  <2>1. PICK i \in DOMAIN c : Find(f, k) = [cur |-> c[i], par |-> IF i = 1 THEN 0 ELSE c[i - 1]]
    <3> HIDE DEF k
    <3> QED BY <2>0, FoundAt
  <2>2. Find(f, s.key).cur = c[i] BY <2>1
  <2> QED BY <2>2 DEF SameOn
<1>6. s.pc \in {"place", "write", "link"} =>
         /\ Find(g, s.key) = [cur |-> s.cur, par |-> s.par]
         /\ s.cur # 0 => g.recs[s.cur] = f.recs[s.cur]
         /\ s.child = IF s.cur # 0 THEN g.recs[s.cur].child ELSE g.bucket[b]
         /\ s.was = Lookup(g, s.key)
  <2> HAVE s.pc \in {"place", "write", "link"}
  <2>1. Find(f, s.key) = [cur |-> s.cur, par |-> s.par] /\ s.was = Lookup(f, s.key)
    BY DEF Underway
  <2>2. s.cur # 0 => g.recs[s.cur] = f.recs[s.cur] BY <1>5, <2>1
  <2>3. g.bucket[b] = f.bucket[b] BY DEF SameOn
  <2>4. s.child = IF s.cur # 0 THEN f.recs[s.cur].child ELSE f.bucket[b] BY DEF Underway
  <2> QED BY <1>3, <2>1, <2>2, <2>3, <2>4
<1>7. /\ s.pc \in {"place", "write", "link"} => Size[s.val] <= s.size
      /\ s.pc = "place" => s.dest = 0
      /\ s.pc \in {"write", "link"} => s.dest # 0
  BY DEF Underway
<1>8. s.pc = "write" =>
         IF s.dest = s.cur THEN s.size = g.recs[s.cur].size
         ELSE s.dest \in DOMAIN g.recs => g.recs[s.dest] = Void(s.size)
  <2> HAVE s.pc = "write"
  <2>1. CASE s.dest = s.cur
    <3>1. s.cur # 0 BY <2>1, <1>7
    <3> QED BY <1>6, <2>1, <3>1 DEF Underway
  <2>2. CASE s.dest # s.cur
    <3>1. s.dest \in Owned(s) BY <2>2 DEF Owned
    <3> QED BY <2>2, <3>1 DEF Underway, SameAt
  <2> QED BY <2>1, <2>2
<1>9. s.pc = "link" =>
         /\ s.dest # s.cur /\ s.dest \in DOMAIN g.recs /\ ~InChain(g, s.key, s.dest)
         /\ g.recs[s.dest] = [size |-> s.size, type |-> "live", key |-> s.key, val |-> s.val, child |-> s.child]
  <2> HAVE s.pc = "link"
  <2>1. s.dest # s.cur BY DEF Underway
  <2>2. s.dest \in Owned(s) BY <2>1 DEF Owned
  <2> QED BY <1>4, <2>1, <2>2 DEF Underway, SameAt
<1>10. s.pc \in {"void", "free"} => s.cur \in Owned(s) BY DEF Owned
<1>11. s.pc \in {"void", "free"} =>
         /\ s.cur # 0 /\ s.cur \in DOMAIN g.recs /\ s.dest # 0
         /\ g.recs[s.cur] = f.recs[s.cur]
         /\ Find(g, s.key).cur = s.dest /\ g.recs[s.dest].val = s.val
  <2> HAVE s.pc \in {"void", "free"}
  <2>1. /\ s.cur # 0 /\ s.cur \in DOMAIN f.recs /\ s.dest # 0
        /\ Find(f, s.key).cur = s.dest /\ f.recs[s.dest].val = s.val
    BY DEF Underway
  <2>2. s.cur \in DOMAIN g.recs /\ g.recs[s.cur] = f.recs[s.cur] BY <1>10, <2>1 DEF SameAt
  <2> QED BY <1>3, <1>5, <2>1, <2>2
<1>12. s.pc = "void" =>
         /\ Live(g, s.cur) /\ ~InChain(g, s.key, s.cur)
         /\ g.recs[s.cur].key = s.key /\ g.recs[s.cur].val = s.was
  BY <1>4, <1>11 DEF Underway, Live
<1>13. s.pc = "free" => g.recs[s.cur] = Void(g.recs[s.cur].size)
  BY <1>11 DEF Underway
<1> QED BY <1>1, <1>6, <1>7, <1>8, <1>9, <1>11, <1>12, <1>13 DEF Underway

(* What a step of thread t in bucket b does to the file: the chain of b is   *)
(* c then; s is what is left of the Set, if anything is.                    *)
StepOf(T, f, ops, t, b, g, s, c) ==
    /\ IsFile(g) /\ Live_Fit(g) /\ NoneTorn(g)
    /\ b \in Bucket /\ Chained(g, b, c)
    /\ \A d \in Bucket \ {b} : SameOn(f, g, d, Chain(f, d))
    /\ ops[t] # None => BucketOf[ops[t].key] = b
    /\ s # None => /\ Underway(g, s) /\ BucketOf[s.key] = b
    /\ \A u \in T \ {t} : ops[u] # None =>
         /\ BucketOf[ops[u].key] # b
         /\ SameAt(f, g, Owned(ops[u]))
         /\ s # None => Owned(s) \intersect Owned(ops[u]) = {}
    /\ \A o \in DOMAIN g.recs : Live(g, o) =>
         IF BucketOf[g.recs[o].key] = b
         THEN \/ \E i \in DOMAIN c : c[i] = o
              \/ s # None /\ (\/ s.pc = "link" /\ o = s.dest
                              \/ s.pc = "void" /\ o = s.cur)
         ELSE o \in DOMAIN f.recs /\ f.recs[o] = g.recs[o]

(* Then thread t is in the Set s. *)
Becomes(T, ops, t, s, ops2) == t \in T /\ DOMAIN ops = T /\ ops2 = [ops EXCEPT ![t] = s]

LEMMA OrderlyStep ==
    ASSUME NEW T, NEW f, NEW e, NEW ops, NEW t, Orderly(T, f, e, ops),
           NEW b, NEW g, NEW s, NEW c, StepOf(T, f, ops, t, b, g, s, c),
           NEW d, NEW ops2, Becomes(T, ops, t, s, ops2),
           Tiled(Extents(T, g, ops2), d)
    PROVE  Orderly(T, g, d, ops2)
<1>0. t \in T BY DEF Becomes
<1>1. IsFile(f) /\ IsFile(g) /\ Live_Fit(g) /\ NoneTorn(g) BY DEF Orderly, StepOf
<1>2. ops2[t] = s /\ \A u \in T : u # t => ops2[u] = ops[u] BY DEF Becomes
<1>3. \A a \in Bucket : Chained(f, a, Chain(f, a)) BY DEF Orderly, AllChained
<1>4. Chain(g, b) = c /\ Chained(g, b, Chain(g, b))
  <2>1. Chained(g, b, c) BY DEF StepOf
  <2> QED BY <1>1, <2>1, ChainIs
<1>5. \A a \in Bucket \ {b} : Chain(g, a) = Chain(f, a) /\ Chained(g, a, Chain(g, a))
  <2> TAKE a \in Bucket \ {b}
  <2>1. Chained(f, a, Chain(f, a)) /\ SameOn(f, g, a, Chain(f, a)) BY <1>3 DEF StepOf
  <2>2. Chained(g, a, Chain(f, a)) BY <1>1, <2>1, SameChain
  <2>3. Chain(g, a) = Chain(f, a) BY <1>1, <2>2, ChainIs
  <2> QED BY <2>2, <2>3
<1>6. AllChained(g) BY <1>4, <1>5 DEF AllChained
<1>7. \A u \in T : ops2[u] # None => Underway(g, ops2[u])
  <2> TAKE u \in T
  <2> HAVE ops2[u] # None
  <2>1. CASE u = t BY <2>1, <1>2 DEF StepOf
  <2>2. CASE u # t
    <3>1. ops[u] # None /\ ops2[u] = ops[u] BY <1>2, <2>2
    <3>2. Underway(f, ops[u]) BY <3>1 DEF Orderly
    <3>3. ops[u].key \in Key BY <3>2 DEF Underway, OpenSet
    <3>4. BucketOf[ops[u].key] \in Bucket \ {b} /\ SameAt(f, g, Owned(ops[u]))
      BY <2>2, <3>1, <3>3, DatabaseAssumption DEF StepOf
    <3>5. PICK a \in Bucket \ {b} : a = BucketOf[ops[u].key] BY <3>4
    <3>6. Chained(f, a, Chain(f, a)) /\ SameOn(f, g, a, Chain(f, a)) BY <1>3 DEF StepOf
    <3>7. PICK h : h = Chain(f, a) OBVIOUS
    <3>8. Underway(g, ops[u])
      <4>1. Chained(f, BucketOf[ops[u].key], h) /\ SameOn(f, g, BucketOf[ops[u].key], h)
        BY <3>5, <3>6, <3>7
      <4>2. PICK r : r = ops[u] OBVIOUS
      <4>3. /\ Underway(f, r) /\ Chained(f, BucketOf[r.key], h) /\ SameOn(f, g, BucketOf[r.key], h)
            /\ SameAt(f, g, Owned(r))
        BY <3>2, <3>4, <4>1, <4>2
      <4>4. Underway(g, r) BY <1>1, <4>3, UnderwayKept
      <4> QED BY <4>2, <4>4
    <3> QED BY <3>1, <3>8
  <2> QED BY <2>1, <2>2
<1>8. \A u, v \in T : u # v /\ ops2[u] # None /\ ops2[v] # None =>
         /\ BucketOf[ops2[u].key] # BucketOf[ops2[v].key]
         /\ Owned(ops2[u]) \intersect Owned(ops2[v]) = {}
  <2> TAKE u, v \in T
  <2> HAVE u # v /\ ops2[u] # None /\ ops2[v] # None
  <2>1. CASE u = t
    <3>1. ops2[u] = s /\ ops2[v] = ops[v] /\ v \in T \ {t} /\ s # None /\ ops[v] # None BY <1>2, <2>1
    <3> QED BY <3>1 DEF StepOf
  <2>2. CASE v = t
    <3>1. ops2[v] = s /\ ops2[u] = ops[u] /\ u \in T \ {t} /\ s # None /\ ops[u] # None BY <1>2, <2>2
    <3>2. BucketOf[s.key] = b /\ BucketOf[ops[u].key] # b /\ Owned(s) \intersect Owned(ops[u]) = {}
      BY <3>1 DEF StepOf
    <3> QED BY <3>1, <3>2
  <2>3. CASE u # t /\ v # t
    <3>1. ops2[v] = ops[v] /\ ops2[u] = ops[u] BY <1>2, <2>3
    <3> QED BY <3>1 DEF Orderly
  <2> QED BY <2>1, <2>2, <2>3
<1>9. \A o \in DOMAIN g.recs : Live(g, o) =>
         \/ InChain(g, g.recs[o].key, o)
         \/ \E u \in T : ops2[u] # None /\ (\/ ops2[u].pc = "link" /\ o = ops2[u].dest
                                            \/ ops2[u].pc = "void" /\ o = ops2[u].cur)
  <2> TAKE o \in DOMAIN g.recs
  <2> HAVE Live(g, o)
  <2>1. CASE BucketOf[g.recs[o].key] = b
    <3>1. CASE \E i \in DOMAIN c : c[i] = o
      <4>1. InChain(g, g.recs[o].key, o) BY <1>4, <2>1, <3>1 DEF InChain, Range
      <4> QED BY <4>1
    <3>2. CASE s # None /\ (\/ s.pc = "link" /\ o = s.dest
                            \/ s.pc = "void" /\ o = s.cur)
      BY <1>0, <1>2, <3>2
    <3> QED BY <2>1, <3>1, <3>2 DEF StepOf
  <2>2. CASE BucketOf[g.recs[o].key] # b
    <3>1. o \in DOMAIN f.recs /\ f.recs[o] = g.recs[o] BY <2>2 DEF StepOf
    <3>2. Live(f, o) BY <3>1 DEF Live
    <3>3. g.recs[o].key \in Key BY DEF Live_Fit, StepOf
    <3>4. PICK a \in Bucket \ {b} : a = BucketOf[g.recs[o].key] BY <2>2, <3>3, DatabaseAssumption
    <3>5. CASE InChain(f, f.recs[o].key, o)
      <4>1. InChain(g, g.recs[o].key, o) BY <1>5, <3>1, <3>4, <3>5 DEF InChain
      <4> QED BY <4>1
    <3>6. CASE \E u \in T : ops[u] # None /\ (\/ ops[u].pc = "link" /\ o = ops[u].dest
                                              \/ ops[u].pc = "void" /\ o = ops[u].cur)
      <4>1. PICK u \in T : ops[u] # None /\ (\/ ops[u].pc = "link" /\ o = ops[u].dest
                                             \/ ops[u].pc = "void" /\ o = ops[u].cur)
        BY <3>6
      <4>2. Underway(f, ops[u]) BY <4>1 DEF Orderly
      <4>3. f.recs[o].key = ops[u].key
        <5>1. CASE ops[u].pc = "link" /\ o = ops[u].dest BY <4>2, <5>1 DEF Underway
        <5>2. CASE ops[u].pc = "void" /\ o = ops[u].cur BY <4>2, <5>2 DEF Underway
        <5> QED BY <4>1, <5>1, <5>2
      <4>4. u # t BY <2>2, <3>1, <4>1, <4>3 DEF StepOf
      <4>5. ops2[u] = ops[u] BY <1>2, <4>4
      <4> QED BY <4>1, <4>5
    <3> QED BY <3>2, <3>1, <3>5, <3>6 DEF Orderly
  <2> QED BY <2>1, <2>2
<1> QED BY <1>1, <1>6, <1>7, <1>8, <1>9 DEF Orderly

-----------------------------------------------------------------------------
(* The steps of Set. *)

(* A live record is in its chain, or a Set in its bucket has yet to link or  *)
(* to void it.                                                              *)
LEMMA LiveWhere ==
    ASSUME NEW T, NEW f, NEW e, NEW ops, Orderly(T, f, e, ops), NEW o, Live(f, o)
    PROVE  \/ \E i \in DOMAIN Chain(f, BucketOf[f.recs[o].key]) : Chain(f, BucketOf[f.recs[o].key])[i] = o
           \/ \E u \in T : /\ ops[u] # None /\ ops[u].key = f.recs[o].key
                           /\ \/ ops[u].pc = "link" /\ o = ops[u].dest
                              \/ ops[u].pc = "void" /\ o = ops[u].cur
<1>1. CASE InChain(f, f.recs[o].key, o) BY <1>1 DEF InChain, Range
<1>2. ASSUME NEW u \in T, ops[u] # None,
             \/ ops[u].pc = "link" /\ o = ops[u].dest
             \/ ops[u].pc = "void" /\ o = ops[u].cur
      PROVE  ops[u].key = f.recs[o].key
  <2>1. Underway(f, ops[u]) BY <1>2 DEF Orderly
  <2>2. CASE ops[u].pc = "link" /\ o = ops[u].dest BY <2>1, <2>2 DEF Underway
  <2>3. CASE ops[u].pc = "void" /\ o = ops[u].cur BY <2>1, <2>3 DEF Underway
  <2> QED BY <1>2, <2>2, <2>3
<1>3. o \in DOMAIN f.recs BY DEF Live
<1> QED BY <1>1, <1>2, <1>3 DEF Orderly

LEMMA InExtents ==
    ASSUME NEW T, NEW f, NEW ops
    PROVE  \A x : x \in Extents(T, f, ops) <=>
             \/ \E o \in DOMAIN f.recs : x = [offset |-> o, size |-> f.recs[o].size]
             \/ \E u \in T : /\ ops[u] # None /\ ops[u].pc = "write"
                             /\ x = [offset |-> ops[u].dest, size |-> ops[u].size]
BY DEF Extents, Places

(* The record of a key, with what it has for it. *)
LEMMA FoundRecord ==
    ASSUME NEW f, NEW k \in Key, IsFile(f), Live_Fit(f), AllChained(f)
    PROVE  /\ Find(f, k).cur = 0 => Find(f, k) = [cur |-> 0, par |-> 0] /\ Lookup(f, k) = None
           /\ Find(f, k).cur # 0 =>
                /\ Live(f, Find(f, k).cur) /\ f.recs[Find(f, k).cur].key = k
                /\ InChain(f, k, Find(f, k).cur)
                /\ Lookup(f, k) = f.recs[Find(f, k).cur].val
           /\ Find(f, k) \in [cur : 0 .. MaxSize, par : 0 .. MaxSize]
           /\ Lookup(f, k) \in Value \union {None}
<1>1. PICK c : c = Chain(f, BucketOf[k]) OBVIOUS
<1>2. BucketOf[k] \in Bucket BY DatabaseAssumption
<1>3. Chained(f, BucketOf[k], c) BY <1>1, <1>2 DEF AllChained
<1>4. Found(f, k, c) BY <1>3, FindIs
<1>5. \A i \in DOMAIN c : Live(f, c[i]) /\ c[i] \in DOMAIN f.recs BY <1>3 DEF Chained, Live
<1>6. DOMAIN f.recs \subseteq Base .. MaxSize BY DEF IsFile
<1>7. CASE \E i \in DOMAIN c : f.recs[c[i]].key = k
  <2>1. PICK i \in DOMAIN c : f.recs[c[i]].key = k BY <1>7
  <2>2. /\ Find(f, k) = [cur |-> c[i], par |-> IF i = 1 THEN 0 ELSE c[i - 1]]
        /\ Lookup(f, k) = f.recs[c[i]].val
    BY <1>4, <2>1 DEF Found
  <2>3. (IF i = 1 THEN 0 ELSE c[i - 1]) \in 0 .. MaxSize
    <3>1. DOMAIN c = 1 .. Len(c) /\ Len(c) \in Nat BY <1>3, LenProperties DEF Chained
    <3>2. CASE i = 1 BY <3>2, DatabaseAssumption
    <3>3. CASE i # 1
      <4>1. i - 1 \in DOMAIN c BY <3>1, <3>3
      <4>2. c[i - 1] \in Base .. MaxSize BY <1>5, <1>6, <4>1
      <4> QED BY <3>3, <4>2, DatabaseAssumption DEF Base
    <3> QED BY <3>2, <3>3
  <2>4. c[i] \in Base .. MaxSize BY <1>5, <1>6
  <2>5. c[i] # 0 /\ c[i] \in 0 .. MaxSize BY <2>4, DatabaseAssumption DEF Base
  <2>6. Find(f, k) \in [cur : 0 .. MaxSize, par : 0 .. MaxSize] BY <2>2, <2>3, <2>5
  <2>7. InChain(f, k, c[i]) BY <1>1 DEF InChain, Range
  <2>8. Lookup(f, k) \in Value \union {None} BY <1>5, <2>2 DEF Live_Fit
  <2> QED BY <1>5, <2>1, <2>2, <2>5, <2>6, <2>7, <2>8
<1>8. CASE \A i \in DOMAIN c : f.recs[c[i]].key # k
  <2>1. Find(f, k) = [cur |-> 0, par |-> 0] /\ Lookup(f, k) = None BY <1>4, <1>8 DEF Found
  <2>2. 0 \in 0 .. MaxSize BY DatabaseAssumption
  <2> QED BY <2>1, <2>2
<1> QED BY <1>7, <1>8

(* What Set begins with. *)
LEMMA StartedIs ==
    ASSUME NEW f, NEW k \in Key, NEW v \in Value, IsFile(f), Live_Fit(f), AllChained(f)
    PROVE  /\ Underway(f, Started(f, k, v))
           /\ Started(f, k, v).key = k /\ Started(f, k, v).val = v
           /\ Started(f, k, v).pc \in {"place", "write"} /\ Owned(Started(f, k, v)) = {}
           /\ Started(f, k, v).pc = "place" => Started(f, k, v).size = Size[v]
           /\ Started(f, k, v).pc = "write" =>
                /\ Live(f, Started(f, k, v).dest)
                /\ Started(f, k, v).size = f.recs[Started(f, k, v).dest].size
                /\ Started(f, k, v).dest = Started(f, k, v).cur
<1>1. PICK at : at = Find(f, k) OBVIOUS
<1>2. PICK fits : fits = (at.cur # 0 /\ Size[v] <= f.recs[at.cur].size) OBVIOUS
<1>3. PICK s : s = Started(f, k, v) OBVIOUS
<1>4. s = [pc |-> IF fits THEN "write" ELSE "place", key |-> k, val |-> v,
         cur |-> at.cur, par |-> at.par,
         child |-> IF at.cur # 0 THEN f.recs[at.cur].child ELSE f.bucket[BucketOf[k]],
         dest |-> IF fits THEN at.cur ELSE 0,
         size |-> IF fits THEN f.recs[at.cur].size ELSE Size[v],
         was |-> Lookup(f, k)]
  BY <1>1, <1>2, <1>3 DEF Started
<1>5. /\ at.cur # 0 => Live(f, at.cur) /\ at.cur \in DOMAIN f.recs
      /\ at \in [cur : 0 .. MaxSize, par : 0 .. MaxSize]
      /\ Lookup(f, k) \in Value \union {None}
  BY <1>1, FoundRecord DEF Live
<1>6. /\ f.recs \in [DOMAIN f.recs -> Record] /\ f.bucket \in [Bucket -> 0 .. MaxSize]
      /\ Size[v] \in 1 .. MaxSize /\ BucketOf[k] \in Bucket /\ 0 \in 0 .. MaxSize
  BY DatabaseAssumption DEF IsFile
<1>7. at.cur # 0 => f.recs[at.cur].size \in 1 .. MaxSize /\ f.recs[at.cur].child \in 0 .. MaxSize
  BY <1>5, <1>6 DEF Record
<1>8. s \in OpenSet
  <2>1. (IF at.cur # 0 THEN f.recs[at.cur].child ELSE f.bucket[BucketOf[k]]) \in 0 .. MaxSize
    BY <1>6, <1>7
  <2>2. (IF fits THEN f.recs[at.cur].size ELSE Size[v]) \in 1 .. MaxSize BY <1>2, <1>6, <1>7
  <2>3. (IF fits THEN at.cur ELSE 0) \in 0 .. MaxSize BY <1>5, <1>6
  <2>4. at.cur \in 0 .. MaxSize /\ at.par \in 0 .. MaxSize BY <1>5
  <2>5. (IF fits THEN "write" ELSE "place") \in {"place", "write", "link", "void", "free"} OBVIOUS
  <2> QED BY <1>4, <1>5, <2>1, <2>2, <2>3, <2>4, <2>5 DEF OpenSet
<1>9. /\ s.key = k /\ s.val = v /\ s.cur = at.cur /\ s.par = at.par /\ s.was = Lookup(f, k)
      /\ s.child = IF at.cur # 0 THEN f.recs[at.cur].child ELSE f.bucket[BucketOf[k]]
      /\ fits => /\ s.pc = "write" /\ s.dest = at.cur /\ s.size = f.recs[at.cur].size
                 /\ at.cur # 0 /\ Size[v] <= s.size
      /\ ~fits => s.pc = "place" /\ s.dest = 0 /\ s.size = Size[v]
  BY <1>2, <1>4
<1>0. Size[v] <= s.size BY <1>2, <1>6, <1>9, DatabaseAssumption
<1>10. Find(f, s.key) = [cur |-> s.cur, par |-> s.par] BY <1>1, <1>5, <1>9
<1>11. Owned(s) = {} BY <1>9 DEF Owned
<1>12. Underway(f, s) BY <1>0, <1>8, <1>9, <1>10 DEF Underway
<1> QED BY <1>3, <1>5, <1>9, <1>11, <1>12

(* What the records take, and one Set that is about to write. *)
Taking(f, s) ==
    Places(f) \union {x \in {[offset |-> s.dest, size |-> s.size]} : s # None /\ s.pc = "write"}

Moved(T, ops, t, s, ops2) == ops2[t] = s /\ \A u \in T \ {t} : ops2[u] = ops[u]

TakesMore(f, r, g, s, X) == Taking(g, s) = Taking(f, r) \union X

LEMMA ExtentsAdd ==
    ASSUME NEW T, NEW f, NEW g, NEW ops, NEW t \in T, NEW s,
           NEW ops2, Moved(T, ops, t, s, ops2),
           NEW X, TakesMore(f, ops[t], g, s, X)
    PROVE  Extents(T, g, ops2) = Extents(T, f, ops) \union X
<1> DEFINE Rest == {[offset |-> ops[u].dest, size |-> ops[u].size] :
                      u \in {w \in T \ {t} : ops[w] # None /\ ops[w].pc = "write"}}
<1>1. Extents(T, f, ops) = Taking(f, ops[t]) \union Rest
  <2>1. \A x : x \in Extents(T, f, ops) <=> x \in Taking(f, ops[t]) \/ x \in Rest
    BY DEF Extents, Taking
  <2> HIDE DEF Rest
  <2> QED BY <2>1
<1>2. ops2[t] = s /\ \A u \in T \ {t} : ops2[u] = ops[u] BY DEF Moved
<1>3. Extents(T, g, ops2) = Taking(g, s) \union Rest
  <2>1. \A x : x \in Extents(T, g, ops2) <=> x \in Taking(g, s) \/ x \in Rest
    BY <1>2 DEF Extents, Taking
  <2> HIDE DEF Rest
  <2> QED BY <2>1
<1> HIDE DEF Rest
<1> QED BY <1>1, <1>3 DEF TakesMore

LEMMA ExtentsSame ==
    ASSUME NEW T, NEW f, NEW g, NEW ops, NEW t \in T, NEW s,
           NEW ops2, Moved(T, ops, t, s, ops2),
           Taking(f, ops[t]) = Taking(g, s)
    PROVE  Extents(T, f, ops) = Extents(T, g, ops2)
<1>1. PICK X : X = {} OBVIOUS
<1>2. TakesMore(f, ops[t], g, s, X) BY <1>1 DEF TakesMore
<1>3. Extents(T, g, ops2) = Extents(T, f, ops) \union X BY <1>2, ExtentsAdd
<1> QED BY <1>1, <1>3

(* A step that leaves the file alone. *)
StillStep(T, f, ops, t, b, s) ==
    /\ ops[t] # None => BucketOf[ops[t].key] = b
    /\ s # None => Underway(f, s) /\ BucketOf[s.key] = b
    /\ \A u \in T \ {t} : ops[u] # None =>
         /\ BucketOf[ops[u].key] # b
         /\ s # None => Owned(s) \intersect Owned(ops[u]) = {}
    /\ ops[t] # None => ops[t].pc \notin {"link", "void"}

LEMMA StillStepOf ==
    ASSUME NEW T, NEW f, NEW e, NEW ops, NEW t \in T, Orderly(T, f, e, ops),
           NEW b \in Bucket, NEW s, StillStep(T, f, ops, t, b, s)
    PROVE  StepOf(T, f, ops, t, b, f, s, Chain(f, b))
<1>1. IsFile(f) /\ Live_Fit(f) /\ NoneTorn(f) /\ AllChained(f) BY DEF Orderly
<1>2. PICK c : c = Chain(f, b) OBVIOUS
<1>3. Chained(f, b, c) BY <1>1, <1>2 DEF AllChained
<1>4. \A d \in Bucket \ {b} : SameOn(f, f, d, Chain(f, d))
  <2> TAKE d \in Bucket \ {b}
  <2>1. Chained(f, d, Chain(f, d)) BY <1>1 DEF AllChained
  <2> QED BY <2>1 DEF SameOn, Chained, Live
<1>5. \A o \in DOMAIN f.recs : Live(f, o) /\ BucketOf[f.recs[o].key] = b => \E i \in DOMAIN c : c[i] = o
  <2> TAKE o \in DOMAIN f.recs
  <2> HAVE Live(f, o) /\ BucketOf[f.recs[o].key] = b
  <2>1. \A u \in T : ops[u] # None /\ ops[u].pc \in {"link", "void"} => ops[u].key # f.recs[o].key
    BY DEF StillStep
  <2> QED BY <1>2, <2>1, LiveWhere
<1>6. StepOf(T, f, ops, t, b, f, s, c)
  BY <1>1, <1>3, <1>4, <1>5 DEF StepOf, StillStep, SameAt
<1> QED BY <1>2, <1>6

(* Set begins when no other is in the bucket. *)
LEMMA BeginStep ==
    ASSUME NEW T, NEW f, NEW e, NEW ops, NEW t \in T, DOMAIN ops = T, Orderly(T, f, e, ops),
           ops[t] = None, NEW k \in Key, NEW v \in Value,
           \A u \in T : ops[u] # None => BucketOf[ops[u].key] # BucketOf[k],
           NEW s, s = Started(f, k, v)
    PROVE  Orderly(T, f, e, [ops EXCEPT ![t] = s])
<1>1. IsFile(f) /\ Live_Fit(f) /\ AllChained(f) /\ Tiled(Extents(T, f, ops), e)
  BY DEF Orderly
<1>2. PICK b \in Bucket : b = BucketOf[k] BY DatabaseAssumption
<1>5. /\ Underway(f, s) /\ s.key = k /\ s.val = v
      /\ s.pc \in {"place", "write"} /\ Owned(s) = {}
      /\ s.pc = "write" => Live(f, s.dest) /\ s.size = f.recs[s.dest].size
  BY <1>1, StartedIs
<1>8. StillStep(T, f, ops, t, b, s) BY <1>2, <1>5 DEF StillStep
<1>9. PICK c : StepOf(T, f, ops, t, b, f, s, c) BY <1>8, StillStepOf
<1>10. PICK ops2 : ops2 = [ops EXCEPT ![t] = s] OBVIOUS
<1>11. Taking(f, ops[t]) = Taking(f, s)
  <2>1. Taking(f, ops[t]) = Places(f) BY DEF Taking
  <2>2. s.pc = "write" => [offset |-> s.dest, size |-> s.size] \in Places(f)
    BY <1>5 DEF Places, Live
  <2>3. Taking(f, s) = Places(f) BY <2>2 DEF Taking
  <2> QED BY <2>1, <2>3
<1>12. Tiled(Extents(T, f, ops2), e)
  <2>1. Moved(T, ops, t, s, ops2) BY <1>10 DEF Moved
  <2>2. Extents(T, f, ops) = Extents(T, f, ops2) BY <1>11, <2>1, ExtentsSame
  <2> QED BY <1>1, <2>2
<1>13. Orderly(T, f, e, ops2)
  <2>1. Becomes(T, ops, t, s, ops2) BY <1>10 DEF Becomes
  <2> QED BY <1>9, <1>12, <2>1, OrderlyStep
<1> QED BY <1>10, <1>13

(* There is a first of the blocks. *)
LEMMA FirstIs ==
    ASSUME NEW blocks, blocks \subseteq Block, blocks # {}
    PROVE  First(blocks) \in blocks
<1>1. \A b \in blocks : b.size \in Nat /\ b.offset \in Nat /\ b = [offset |-> b.offset, size |-> b.size]
  BY DatabaseAssumption DEF Block, Base
<1> DEFINE Sizes == {b.size : b \in blocks}
<1>2. PICK n \in Sizes : \A m \in Sizes : n <= m
  <2>1. Sizes \in SUBSET Nat /\ Sizes # {} BY <1>1
  <2> HIDE DEF Sizes
  <2> QED BY <2>1, LeastOf
<1> DEFINE Offsets == {b.offset : b \in {x \in blocks : x.size = n}}
<1>3. PICK o \in Offsets : \A p \in Offsets : o <= p
  <2>1. Offsets \in SUBSET Nat /\ Offsets # {} BY <1>1, <1>2
  <2> HIDE DEF Offsets
  <2> QED BY <2>1, LeastOf
<1>4. PICK b \in blocks : b.size = n /\ b.offset = o BY <1>3
<1>5. \A c \in blocks \ {b} : Before(b, c)
  <2> TAKE c \in blocks \ {b}
  <2>1. n <= c.size BY <1>2
  <2>2. CASE n = c.size
    <3>1. o <= c.offset BY <1>3, <2>2
    <3>2. o # c.offset
      <4>1. c = [offset |-> c.offset, size |-> c.size] /\ b = [offset |-> o, size |-> n] BY <1>1, <1>4
      <4> QED BY <2>2, <4>1
    <3> QED BY <1>1, <1>4, <2>2, <3>1, <3>2 DEF Before
  <2>3. CASE n # c.size BY <1>1, <1>4, <2>1, <2>3 DEF Before
  <2> QED BY <2>2, <2>3
<1> QED BY <1>4, <1>5 DEF First

(* A block that is taken, or the end of the file moved. *)
TakenFor(db, s, p, b) ==
    /\ b \in db.pool /\ b.size >= s.size
    /\ p.db = [db EXCEPT !.pool = @ \ {b}]
    /\ p.s = [s EXCEPT !.pc = "write", !.dest = b.offset, !.size = b.size]

LEMMA PlacedIs ==
    ASSUME NEW db, NEW s, db.pool \subseteq Block
    PROVE  \/ /\ Placed(db, s).db = [db EXCEPT !.end = @ + s.size]
              /\ Placed(db, s).s = [s EXCEPT !.pc = "write", !.dest = db.end]
           \/ \E b : TakenFor(db, s, Placed(db, s), b)
<1> DEFINE fit == {b \in db.pool : b.size >= s.size}
<1>1. CASE fit = {}
  <2>1. FetchFreeBlock(db.pool, s.size) = {} BY <1>1 DEF FetchFreeBlock
  <2> QED BY <2>1 DEF Placed
<1>2. CASE fit # {}
  <2>1. PICK b : b = First(fit) OBVIOUS
  <2>2. b \in fit
    <3>1. fit \subseteq Block OBVIOUS
    <3> HIDE DEF fit
    <3> QED BY <1>2, <2>1, <3>1, FirstIs
  <2>3. FetchFreeBlock(db.pool, s.size) = {b} BY <1>2, <2>1 DEF FetchFreeBlock
  <2>4. (CHOOSE x \in {b} : TRUE) = b OBVIOUS
  <2>5. Placed(db, s) = [db |-> [db EXCEPT !.pool = @ \ {b}],
                         s  |-> [s EXCEPT !.pc = "write", !.dest = b.offset, !.size = b.size]]
    BY <2>3, <2>4 DEF Placed
  <2>6. /\ Placed(db, s).db = [db EXCEPT !.pool = @ \ {b}]
        /\ Placed(db, s).s = [s EXCEPT !.pc = "write", !.dest = b.offset, !.size = b.size]
    BY <2>5
  <2>7. b \in db.pool /\ b.size >= s.size BY <2>2
  <2>8. TakenFor(db, s, Placed(db, s), b) BY <2>6, <2>7 DEF TakenFor
  <2> QED BY <2>8
<1> QED BY <1>1, <1>2

(* What is put at the end of a file that is full up to there leaves it so.   *)
LEMMA TiledFurther ==
    ASSUME NEW B, NEW e, Tiled(B, e), NEW n \in 1 .. MaxSize, e + n <= MaxSize + 1
    PROVE  Tiled(B \union {[offset |-> e, size |-> n]}, e + n)
<1>1. PICK x : x = [offset |-> e, size |-> n] OBVIOUS
<1>2. PICK C : C = B \union {x} OBVIOUS
<1>3. e \in Base .. MaxSize + 1 /\ n \in Nat /\ n > 0 /\ MaxSize \in Nat BY DatabaseAssumption DEF Tiled
<1>4. x \in Block /\ x.offset = e /\ x.size = n BY <1>1, <1>3 DEF Block, Base
<1>5. \A y \in B : y \in Block /\ y.offset \in Nat /\ y.size \in Nat /\ y.size > 0 /\ y.offset + y.size <= e
  BY DatabaseAssumption DEF Tiled, Apart, Block, Base
<1>6. Apart(C)
  <2>1. C \subseteq Block BY <1>2, <1>4, <1>5
  <2>2. \A y \in C : y.offset + y.size <= MaxSize + 1 BY <1>2, <1>4, <1>5, <1>3 DEF Base
  <2>3. ASSUME NEW y \in C, NEW z \in C
        PROVE  /\ y.offset = z.offset => y = z
               /\ y.offset < z.offset => y.offset + y.size <= z.offset
    <3>1. CASE y \in B /\ z \in B BY <3>1 DEF Tiled, Apart
    <3>2. CASE y = x /\ z \in B BY <1>3, <1>4, <1>5, <3>2 DEF Base
    <3>3. CASE y \in B /\ z = x BY <1>3, <1>4, <1>5, <3>3 DEF Base
    <3>4. CASE y = x /\ z = x BY <1>3, <1>4, <3>4 DEF Base
    <3> QED BY <1>2, <3>1, <3>2, <3>3, <3>4
  <2> QED BY <2>1, <2>2, <2>3 DEF Apart
<1>7. e + n \in Base .. MaxSize + 1 BY <1>3 DEF Base
<1>8. \E y \in C : y.offset = Base
  <2>1. CASE e = Base BY <1>2, <1>4, <2>1
  <2>2. CASE \E y \in B : y.offset = Base BY <1>2, <2>2
  <2> QED BY <2>1, <2>2 DEF Tiled
<1>9. \A y \in C : /\ y.offset + y.size <= e + n
                   /\ y.offset + y.size = e + n \/ \E z \in C : z.offset = y.offset + y.size
  <2> TAKE y \in C
  <2>1. CASE y = x BY <1>3, <1>4, <2>1 DEF Base
  <2>2. CASE y \in B
    <3>1. y.offset + y.size <= e + n BY <1>3, <1>5, <2>2 DEF Base
    <3>2. y.offset + y.size = e \/ \E z \in B : z.offset = y.offset + y.size BY <2>2 DEF Tiled
    <3> QED BY <1>2, <1>4, <3>1, <3>2
  <2> QED BY <1>2, <2>1, <2>2
<1> QED BY <1>1, <1>2, <1>6, <1>7, <1>8, <1>9 DEF Tiled

(* What a Set has when it has found a place. *)
Vacant(f, dest, size) == dest \in DOMAIN f.recs => f.recs[dest] = Void(size)

PlacedAt(s, dest, size) == [s EXCEPT !.pc = "write", !.dest = dest, !.size = size]

LEMMA PlacedUnderway ==
    ASSUME NEW f, NEW s, Underway(f, s), s.pc = "place", IsFile(f), Live_Fit(f), AllChained(f),
           NEW dest \in Base .. MaxSize, NEW size \in 1 .. MaxSize, s.size <= size,
           Vacant(f, dest, size), NEW r, r = PlacedAt(s, dest, size)
    PROVE  /\ Underway(f, r) /\ Owned(r) = {dest}
           /\ r.pc = "write" /\ r.key = s.key /\ r.val = s.val /\ r.was = s.was
           /\ r.dest = dest /\ r.size = size /\ dest # r.cur
<1>2. s \in OpenSet BY DEF Underway
<1>3. /\ r.pc = "write" /\ r.key = s.key /\ r.val = s.val /\ r.cur = s.cur /\ r.par = s.par
      /\ r.child = s.child /\ r.dest = dest /\ r.size = size /\ r.was = s.was
  BY <1>2 DEF PlacedAt, OpenSet
<1>4. dest \in 0 .. MaxSize /\ dest # 0 BY DatabaseAssumption DEF Base
<1>5. r \in OpenSet BY <1>2, <1>4 DEF PlacedAt, OpenSet
<1>6. Find(f, s.key) = [cur |-> s.cur, par |-> s.par] /\ s.key \in Key BY <1>2 DEF Underway, OpenSet
<1>7. s.cur # 0 => Live(f, s.cur)
  <2>1. Find(f, s.key).cur = s.cur BY <1>6
  <2> QED BY <1>6, <2>1, FoundRecord
<1>8. dest # s.cur
  <2>1. CASE s.cur = 0 BY <1>4, <2>1
  <2>2. CASE s.cur # 0 BY <1>7, <2>2 DEF Live, Void, Vacant
  <2> QED BY <2>1, <2>2
<1>9. Size[s.val] <= size
  <2>1. Size[s.val] <= s.size /\ s.size \in Nat /\ Size[s.val] \in Nat
    BY <1>2, DatabaseAssumption DEF Underway, OpenSet
  <2> QED BY <2>1
<1>10. Underway(f, r) BY <1>3, <1>4, <1>5, <1>8, <1>9 DEF Underway, Vacant
<1>11. Owned(r) = {dest} BY <1>3, <1>8 DEF Owned
<1> QED BY <1>3, <1>8, <1>10, <1>11

(* Every place that a Set has lies before the end, and none is free.        *)
LEMMA OwnedBefore ==
    ASSUME NEW T, NEW f, NEW e, NEW ops, Orderly(T, f, e, ops), NEW u \in T, ops[u] # None,
           NEW o \in Owned(ops[u])
    PROVE  o < e
<1>1. Underway(f, ops[u]) /\ ops[u] \in OpenSet BY DEF Orderly, Underway
<1>2. \A x \in Extents(T, f, ops) : x \in Block /\ x.offset + x.size <= e /\ e \in Base .. MaxSize + 1
  BY DEF Orderly, Tiled, Apart
<1>3. CASE o \in DOMAIN f.recs
  <2>1. [offset |-> o, size |-> f.recs[o].size] \in Extents(T, f, ops) BY <1>3 DEF Extents, Places
  <2>2. [offset |-> o, size |-> f.recs[o].size] \in Block /\ o + f.recs[o].size <= e /\ e \in Base .. MaxSize + 1
    BY <1>2, <2>1
  <2> QED BY <2>2, DatabaseAssumption DEF Block, Base
<1>4. CASE ops[u].pc = "write" /\ o = ops[u].dest
  <2>1. [offset |-> o, size |-> ops[u].size] \in Extents(T, f, ops) BY <1>4, InExtents
  <2>2. [offset |-> o, size |-> ops[u].size] \in Block /\ o + ops[u].size <= e /\ e \in Base .. MaxSize + 1
    BY <1>2, <2>1
  <2> QED BY <2>2, DatabaseAssumption DEF Block, Base
<1>5. o \in DOMAIN f.recs \/ (ops[u].pc = "write" /\ o = ops[u].dest)
  BY <1>1 DEF Owned, Underway
<1> QED BY <1>3, <1>4, <1>5

LEMMA RecordBefore ==
    ASSUME NEW T, NEW f, NEW e, NEW ops, Orderly(T, f, e, ops), NEW o \in DOMAIN f.recs
    PROVE  o < e /\ o + f.recs[o].size <= e
<1>1. [offset |-> o, size |-> f.recs[o].size] \in Extents(T, f, ops) BY DEF Extents, Places
<1>2. PICK x \in Extents(T, f, ops) : x = [offset |-> o, size |-> f.recs[o].size] BY <1>1
<1>3. x \in Block /\ x.offset + x.size <= e /\ e \in Base .. MaxSize + 1
  BY DEF Orderly, Tiled, Apart
<1> QED BY <1>2, <1>3, DatabaseAssumption DEF Block, Base

(* What becomes of a Set that has a place. *)
HasPlace(s, r) ==
    r.pc = "write" /\ r.key = s.key /\ r.val = s.val /\ r.was = s.was /\ r.dest # r.cur

(* A Set that has a place of its own and has yet to write it: at the end of  *)
(* the file, or in a block that was free.                                   *)
LEMMA PlaceAtEnd ==
    ASSUME NEW T, NEW f, NEW e, NEW ops, NEW t \in T, DOMAIN ops = T, Orderly(T, f, e, ops),
           ops[t] # None, ops[t].pc = "place", e + ops[t].size <= MaxSize + 1,
           NEW pool1, AllFree(T, f, pool1, ops),
           NEW s, s = PlacedAt(ops[t], e, ops[t].size)
    PROVE  /\ Orderly(T, f, e + ops[t].size, [ops EXCEPT ![t] = s])
           /\ AllFree(T, f, pool1, [ops EXCEPT ![t] = s])
           /\ HasPlace(ops[t], s) /\ Underway(f, s)
<1>1. /\ IsFile(f) /\ Live_Fit(f) /\ AllChained(f) /\ NoneTorn(f) /\ Tiled(Extents(T, f, ops), e)
      /\ Underway(f, ops[t])
  BY DEF Orderly
<1>2. PICK r : r = ops[t] OBVIOUS
<1>3. r \in OpenSet /\ r.key \in Key /\ r.size \in 1 .. MaxSize BY <1>1, <1>2 DEF Underway, OpenSet
<1>4. PICK n \in 1 .. MaxSize : n = r.size BY <1>3
<1>5. e \in Base .. MaxSize BY <1>1, <1>2, <1>3, DatabaseAssumption DEF Tiled, Base
<1>6. e \notin DOMAIN f.recs
  <2> SUFFICES ASSUME e \in DOMAIN f.recs PROVE FALSE OBVIOUS
  <2>1. e < e BY RecordBefore
  <2> QED BY <2>1, <1>5 DEF Base
<1>7. /\ Underway(f, s) /\ s.key = r.key /\ Owned(s) = {e}
      /\ s.pc = "write" /\ s.dest = e /\ s.size = n
      /\ s.val = r.val /\ s.was = r.was /\ s.dest # s.cur
  <2>1. Underway(f, r) /\ r.pc = "place" /\ r.size <= n /\ s = PlacedAt(r, e, n)
    BY <1>1, <1>2, <1>4
  <2>2. PICK z : z = PlacedAt(r, e, n) OBVIOUS
  <2>4. Vacant(f, e, n) BY <1>6 DEF Vacant
  <2>3. /\ Underway(f, z) /\ z.key = r.key /\ Owned(z) = {e}
        /\ z.pc = "write" /\ z.dest = e /\ z.size = n
        /\ z.val = r.val /\ z.was = r.was /\ z.dest # z.cur
    BY <1>1, <1>5, <2>1, <2>2, <2>4, PlacedUnderway
  <2> QED BY <2>1, <2>2, <2>3
<1>8. s # None BY <1>7, NoneAssumption DEF Underway
<1>9. PICK b \in Bucket : b = BucketOf[r.key] BY <1>3, DatabaseAssumption
<1>10. \A u \in T \ {t} : ops[u] # None => e \notin Owned(ops[u])
  <2> TAKE u \in T \ {t}
  <2> HAVE ops[u] # None
  <2> SUFFICES ASSUME e \in Owned(ops[u]) PROVE FALSE OBVIOUS
  <2>1. e < e BY OwnedBefore
  <2> QED BY <2>1, <1>5 DEF Base
<1>11. StillStep(T, f, ops, t, b, s)
  <2>1. \A u \in T \ {t} : ops[u] # None => BucketOf[ops[u].key] # b BY <1>2, <1>9 DEF Orderly
  <2> QED BY <2>1, <1>2, <1>7, <1>9, <1>10 DEF StillStep
<1>12. PICK c : StepOf(T, f, ops, t, b, f, s, c) BY <1>11, StillStepOf
<1>13. PICK ops2 : ops2 = [ops EXCEPT ![t] = s] OBVIOUS
<1>14. PICK X : X = {[offset |-> e, size |-> n]} OBVIOUS
<1>15. Extents(T, f, ops2) = Extents(T, f, ops) \union X
  <2>1. Moved(T, ops, t, s, ops2) BY <1>13 DEF Moved
  <2>2. TakesMore(f, ops[t], f, s, X)
    <3>1. Taking(f, ops[t]) = Places(f) BY DEF Taking
    <3>2. Taking(f, s) = Places(f) \union X BY <1>7, <1>8, <1>14 DEF Taking
    <3> QED BY <3>1, <3>2 DEF TakesMore
  <2> QED BY <2>1, <2>2, ExtentsAdd
<1>16. Tiled(Extents(T, f, ops2), e + n)
  BY <1>1, <1>2, <1>4, <1>14, <1>15, TiledFurther
<1>17. Orderly(T, f, e + n, ops2)
  <2>1. Becomes(T, ops, t, s, ops2) BY <1>13 DEF Becomes
  <2> QED BY <1>12, <1>16, <2>1, OrderlyStep
<1>18. AllFree(T, f, pool1, ops2)
  BY <1>6, <1>7, <1>13 DEF AllFree
<1> QED BY <1>2, <1>4, <1>7, <1>13, <1>17, <1>18 DEF HasPlace

LEMMA PlaceInFree ==
    ASSUME NEW T, NEW f, NEW e, NEW ops, NEW t \in T, DOMAIN ops = T, Orderly(T, f, e, ops),
           ops[t] # None, ops[t].pc = "place",
           NEW pool1, AllFree(T, f, pool1, ops), NEW b \in pool1, b.size >= ops[t].size,
           NEW s, s = PlacedAt(ops[t], b.offset, b.size)
    PROVE  /\ Orderly(T, f, e, [ops EXCEPT ![t] = s])
           /\ AllFree(T, f, pool1 \ {b}, [ops EXCEPT ![t] = s])
           /\ HasPlace(ops[t], s) /\ Underway(f, s)
<1>1. /\ IsFile(f) /\ Live_Fit(f) /\ AllChained(f) /\ NoneTorn(f) /\ Tiled(Extents(T, f, ops), e)
      /\ Underway(f, ops[t])
  BY DEF Orderly
<1>2. PICK r : r = ops[t] OBVIOUS
<1>3. r \in OpenSet /\ r.key \in Key /\ r.size \in 1 .. MaxSize BY <1>1, <1>2 DEF Underway, OpenSet
<1>4. PICK n \in 1 .. MaxSize : n = b.size BY DEF AllFree, Block
<1>5. PICK o \in Base .. MaxSize : o = b.offset BY DEF AllFree, Block
<1>6. o \in DOMAIN f.recs /\ f.recs[o] = Void(n) /\ r.size <= n
  <2>1. r.size <= n BY <1>2, <1>3, <1>4, DatabaseAssumption
  <2> QED BY <2>1, <1>4, <1>5 DEF AllFree
<1>7. /\ Underway(f, s) /\ s.key = r.key /\ Owned(s) = {o}
      /\ s.pc = "write" /\ s.dest = o /\ s.size = n
      /\ s.val = r.val /\ s.was = r.was /\ s.dest # s.cur
  <2>1. Underway(f, r) /\ r.pc = "place" /\ s = PlacedAt(r, o, n)
    BY <1>1, <1>2, <1>4, <1>5
  <2>2. PICK z : z = PlacedAt(r, o, n) OBVIOUS
  <2>4. Vacant(f, o, n) BY <1>6 DEF Vacant
  <2>3. /\ Underway(f, z) /\ z.key = r.key /\ Owned(z) = {o}
        /\ z.pc = "write" /\ z.dest = o /\ z.size = n
        /\ z.val = r.val /\ z.was = r.was /\ z.dest # z.cur
    BY <1>1, <1>5, <1>6, <2>1, <2>2, <2>4, PlacedUnderway
  <2> QED BY <2>1, <2>2, <2>3
<1>8. s # None BY <1>7, NoneAssumption DEF Underway
<1>9. PICK d \in Bucket : d = BucketOf[r.key] BY <1>3, DatabaseAssumption
<1>10. \A u \in T \ {t} : ops[u] # None => o \notin Owned(ops[u])
  BY <1>5 DEF AllFree
<1>11. StillStep(T, f, ops, t, d, s)
  <2>1. \A u \in T \ {t} : ops[u] # None => BucketOf[ops[u].key] # d BY <1>2, <1>9 DEF Orderly
  <2> QED BY <2>1, <1>2, <1>7, <1>9, <1>10 DEF StillStep
<1>12. PICK c : StepOf(T, f, ops, t, d, f, s, c) BY <1>11, StillStepOf
<1>13. PICK ops2 : ops2 = [ops EXCEPT ![t] = s] OBVIOUS
<1>14. Extents(T, f, ops) = Extents(T, f, ops2)
  <2>1. Moved(T, ops, t, s, ops2) BY <1>13 DEF Moved
  <2>2. Taking(f, ops[t]) = Taking(f, s)
    <3>1. Taking(f, ops[t]) = Places(f) BY DEF Taking
    <3>2. [offset |-> o, size |-> n] \in Places(f)
      <4>1. f.recs[o].size = n BY <1>6 DEF Void
      <4> QED BY <4>1, <1>6 DEF Places
    <3>3. Taking(f, s) = Places(f) BY <1>7, <3>2 DEF Taking
    <3> QED BY <3>1, <3>3
  <2> QED BY <2>1, <2>2, ExtentsSame
<1>15. Tiled(Extents(T, f, ops2), e) BY <1>1, <1>14
<1>16. Orderly(T, f, e, ops2)
  <2>1. Becomes(T, ops, t, s, ops2) BY <1>13 DEF Becomes
  <2> QED BY <1>12, <1>15, <2>1, OrderlyStep
<1>17. AllFree(T, f, pool1 \ {b}, ops2)
  <2>1. \A a \in pool1 \ {b} : a.offset # o
    <3> TAKE a \in pool1 \ {b}
    <3>1. /\ a = [offset |-> a.offset, size |-> a.size] /\ b = [offset |-> o, size |-> n]
          /\ f.recs[a.offset] = Void(a.size)
      BY <1>4, <1>5 DEF AllFree, Block
    <3>2. a.offset = o => a.size = n BY <1>6, <3>1 DEF Void
    <3> QED BY <3>1, <3>2
  <2> QED BY <2>1, <1>7, <1>13 DEF AllFree
<1> QED BY <1>2, <1>7, <1>13, <1>16, <1>17 DEF HasPlace

(* The parts of a database. *)
Parts(db, f, e, blocks) == db = [file |-> f, end |-> e, pool |-> blocks]

(* s finds a place, and is s2 then. *)
Placing(db, s, p, e2, blocks2, s2) ==
    /\ p = Placed(db, s) /\ p.db.end = e2 /\ p.db.pool = blocks2 /\ p.s = s2
    /\ e2 <= MaxSize + 1 /\ s # None /\ s.pc = "place"

LEMMA PlaceStep ==
    ASSUME NEW T, NEW f, NEW e, NEW ops, NEW t, Orderly(T, f, e, ops),
           NEW pool1, AllFree(T, f, pool1, ops), NEW db, Parts(db, f, e, pool1),
           NEW p, NEW e2, NEW pool2, NEW s2, Placing(db, ops[t], p, e2, pool2, s2),
           NEW ops2, Becomes(T, ops, t, s2, ops2)
    PROVE  /\ Parts(p.db, f, e2, pool2)
           /\ Orderly(T, f, e2, ops2)
           /\ AllFree(T, f, pool2, ops2)
           /\ HasPlace(ops[t], s2) /\ Underway(f, s2)
           /\ e2 \in {e, e + ops[t].size} /\ pool2 \subseteq pool1
<1>0. t \in T /\ DOMAIN ops = T /\ ops2 = [ops EXCEPT ![t] = s2] BY DEF Becomes
<1>11. /\ p = Placed(db, ops[t]) /\ p.db.end = e2 /\ p.db.pool = pool2 /\ p.s = s2
       /\ p.db.end <= MaxSize + 1 /\ ops[t] # None /\ ops[t].pc = "place"
  BY DEF Placing
<1>1. Underway(f, ops[t]) BY <1>0, <1>11 DEF Orderly
<1>2. PICK r : r = ops[t] OBVIOUS
<1>3. r \in OpenSet BY <1>1, <1>2 DEF Underway
<1>4. db = [file |-> f, end |-> e, pool |-> pool1] BY DEF Parts
<1>5. db.file = f /\ db.end = e /\ db.pool = pool1 BY <1>4
<1>6. p = Placed(db, r) BY <1>2, <1>11
<1>7. pool1 \subseteq Block BY DEF AllFree
<1>8. CASE p.db = [db EXCEPT !.end = @ + r.size] /\ p.s = [r EXCEPT !.pc = "write", !.dest = db.end]
  <2>1. p.db.end = e + r.size /\ p.db.pool = pool1 /\ p.db = [file |-> f, end |-> e + r.size, pool |-> pool1]
    BY <1>4, <1>8
  <2>2. p.s = PlacedAt(ops[t], e, ops[t].size) BY <1>2, <1>3, <1>5, <1>8 DEF PlacedAt, OpenSet
  <2>3. PICK s : s = p.s OBVIOUS
  <2>4. e + ops[t].size <= MaxSize + 1 BY <1>2, <1>11, <2>1
  <2>5. /\ Orderly(T, f, e + ops[t].size, [ops EXCEPT ![t] = s])
        /\ AllFree(T, f, pool1, [ops EXCEPT ![t] = s])
        /\ HasPlace(ops[t], s) /\ Underway(f, s)
    BY <1>0, <1>11, <2>2, <2>3, <2>4, PlaceAtEnd
  <2> QED BY <1>0, <1>2, <1>11, <2>1, <2>3, <2>5 DEF Parts
<1>9. CASE \E b : TakenFor(db, r, p, b)
  <2>1. PICK b : TakenFor(db, r, p, b) BY <1>9
  <2>2. b \in pool1 /\ b.size >= ops[t].size BY <1>2, <1>5, <2>1 DEF TakenFor
  <2>3. p.db.end = e /\ p.db.pool = pool1 \ {b} /\ p.db = [file |-> f, end |-> e, pool |-> pool1 \ {b}]
    BY <1>4, <2>1 DEF TakenFor
  <2>4. p.s = PlacedAt(ops[t], b.offset, b.size) BY <1>2, <2>1 DEF TakenFor, PlacedAt
  <2>5. PICK s : s = p.s OBVIOUS
  <2>6. /\ Orderly(T, f, e, [ops EXCEPT ![t] = s])
        /\ AllFree(T, f, pool1 \ {b}, [ops EXCEPT ![t] = s])
        /\ HasPlace(ops[t], s) /\ Underway(f, s)
    BY <1>0, <1>11, <2>2, <2>4, <2>5, PlaceInFree
  <2> QED BY <1>0, <1>11, <2>3, <2>5, <2>6 DEF Parts
<1>10. \/ /\ Placed(db, r).db = [db EXCEPT !.end = @ + r.size]
          /\ Placed(db, r).s = [r EXCEPT !.pc = "write", !.dest = db.end]
       \/ \E b : TakenFor(db, r, Placed(db, r), b)
  BY <1>5, <1>7, PlacedIs
<1> QED BY <1>6, <1>8, <1>9, <1>10

(* What is at a place that a Set has is of its key, if it is live.           *)
LEMMA OwnedLive ==
    ASSUME NEW f, NEW s, Underway(f, s), NEW o \in Owned(s), Live(f, o)
    PROVE  f.recs[o].key = s.key
<1>1. CASE s.pc = "write" /\ s.dest # s.cur /\ o = s.dest BY <1>1 DEF Underway, Live, Void
<1>2. CASE s.pc = "link" /\ o = s.dest BY <1>2 DEF Underway
<1>3. CASE s.pc = "void" /\ o = s.cur BY <1>3 DEF Underway
<1>4. CASE s.pc = "free" /\ o = s.cur BY <1>4 DEF Underway, Live, Void
<1> QED BY <1>1, <1>2, <1>3, <1>4 DEF Owned

(* The places that nobody but a Set may change. *)
Own(f, s, o) == o \in Owned(s) \/ InChain(f, s.key, o)

LEMMA ChainLive ==
    ASSUME NEW f, IsFile(f), AllChained(f), NEW d \in Bucket, NEW i \in DOMAIN Chain(f, d)
    PROVE  /\ Live(f, Chain(f, d)[i]) /\ f.recs[Chain(f, d)[i]].key \in Key
           /\ BucketOf[f.recs[Chain(f, d)[i]].key] = d
<1>1. PICK c : c = Chain(f, d) OBVIOUS
<1>2. Chained(f, d, c) BY <1>1 DEF AllChained
<1>3. \A j \in DOMAIN c : Live(f, c[j]) /\ f.recs[c[j]].key \in Key /\ BucketOf[f.recs[c[j]].key] = d
  BY <1>2 DEF Chained
<1> QED BY <1>1, <1>3

LEMMA Mine ==
    ASSUME NEW T, NEW f, NEW e, NEW ops, Orderly(T, f, e, ops), NEW t \in T, ops[t] # None,
           NEW o, Own(f, ops[t], o)
    PROVE  /\ \A d \in Bucket \ {BucketOf[ops[t].key]} : \A i \in DOMAIN Chain(f, d) : Chain(f, d)[i] # o
           /\ \A u \in T \ {t} : ops[u] # None => o \notin Owned(ops[u])
           /\ \A blocks : AllFree(T, f, blocks, ops) => \A x \in blocks : x.offset # o
<1>1. IsFile(f) /\ AllChained(f) BY DEF Orderly
<1>2. \A u \in T : ops[u] # None => Underway(f, ops[u]) /\ ops[u].key \in Key BY DEF Orderly, Underway, OpenSet
<1>3. PICK b \in Bucket : b = BucketOf[ops[t].key] BY <1>2, DatabaseAssumption
<1>4. InChain(f, ops[t].key, o) => Live(f, o) /\ BucketOf[f.recs[o].key] = b
  BY <1>1, <1>3, ChainLive DEF InChain, Range
<1>5. o \in Owned(ops[t]) /\ Live(f, o) => BucketOf[f.recs[o].key] = b
  BY <1>2, <1>3, OwnedLive
<1>6. \A d \in Bucket \ {b} : \A i \in DOMAIN Chain(f, d) : Chain(f, d)[i] # o
  <2> TAKE d \in Bucket \ {b}
  <2> TAKE i \in DOMAIN Chain(f, d)
  <2>1. Live(f, Chain(f, d)[i]) /\ BucketOf[f.recs[Chain(f, d)[i]].key] = d BY <1>1, ChainLive
  <2> QED BY <2>1, <1>4, <1>5 DEF Own
<1>7. \A u \in T \ {t} : ops[u] # None => o \notin Owned(ops[u])
  <2> TAKE u \in T \ {t}
  <2> HAVE ops[u] # None
  <2> SUFFICES ASSUME o \in Owned(ops[u]) PROVE FALSE OBVIOUS
  <2>1. BucketOf[ops[u].key] # b /\ Owned(ops[u]) \intersect Owned(ops[t]) = {} BY <1>3 DEF Orderly
  <2>2. Live(f, o) /\ BucketOf[f.recs[o].key] = b BY <1>4, <2>1 DEF Own
  <2>3. f.recs[o].key = ops[u].key BY <1>2, <2>2, OwnedLive
  <2> QED BY <2>1, <2>2, <2>3
<1>8. \A blocks : AllFree(T, f, blocks, ops) => \A x \in blocks : x.offset # o
  <2> TAKE blocks
  <2> HAVE AllFree(T, f, blocks, ops)
  <2> TAKE x \in blocks
  <2>1. f.recs[x.offset] = Void(x.size) /\ x.offset \notin Owned(ops[t]) BY DEF AllFree
  <2>2. ~Live(f, x.offset) BY <2>1 DEF Live, Void
  <2> QED BY <1>4, <2>1, <2>2 DEF Own
<1> QED BY <1>3, <1>6, <1>7, <1>8

(* g is f but for the bucket b and the record at o. *)
Touched(f, g, b, o) ==
    /\ IsFile(g)
    /\ \A d \in Bucket \ {b} : g.bucket[d] = f.bucket[d]
    /\ DOMAIN f.recs \subseteq DOMAIN g.recs /\ DOMAIN g.recs \subseteq DOMAIN f.recs \union {o}
    /\ \A p \in DOMAIN f.recs : p # o => g.recs[p] = f.recs[p]

(* A live record has its place in the chain c, or in the Set s. *)
HasItsPlace(s, c, p) ==
    \/ \E i \in DOMAIN c : c[i] = p
    \/ s # None /\ (\/ s.pc = "link" /\ p = s.dest
                    \/ s.pc = "void" /\ p = s.cur)

(* What one step of the Set r does to the file: s is what is left of it.     *)
Change(f, r, b, o, g, s, c) ==
    /\ BucketOf[r.key] = b
    /\ Touched(f, g, b, o) /\ Own(f, r, o)
    /\ o \in DOMAIN g.recs /\ g.recs[o].type # "torn"
    /\ Live(g, o) => /\ g.recs[o].key \in Key /\ BucketOf[g.recs[o].key] = b
                     /\ g.recs[o].val \in Value /\ Size[g.recs[o].val] <= g.recs[o].size
    /\ Chained(g, b, c)
    /\ s # None => /\ Underway(g, s) /\ BucketOf[s.key] = b
                   /\ \A p \in Owned(s) : Own(f, r, p)
    /\ \A p \in DOMAIN g.recs : Live(g, p) /\ (p = o \/ HasItsPlace(r, Chain(f, b), p)) => HasItsPlace(s, c, p)

LEMMA ChangeStepOf ==
    ASSUME NEW T, NEW f, NEW e, NEW ops, Orderly(T, f, e, ops), NEW t \in T, ops[t] # None,
           NEW b \in Bucket, NEW o, NEW g, NEW s, NEW c, Change(f, ops[t], b, o, g, s, c)
    PROVE  StepOf(T, f, ops, t, b, g, s, c)
<1>1. IsFile(f) /\ AllChained(f) /\ Live_Fit(f) /\ NoneTorn(f) BY DEF Orderly
<1>2. BucketOf[ops[t].key] = b /\ Touched(f, g, b, o) /\ IsFile(g) BY DEF Change, Touched
<1>3. /\ \A d \in Bucket \ {b} : \A i \in DOMAIN Chain(f, d) : Chain(f, d)[i] # o
      /\ \A u \in T \ {t} : ops[u] # None => o \notin Owned(ops[u])
  BY <1>2, Mine DEF Change
<1>4. \A p \in DOMAIN g.recs : p # o => p \in DOMAIN f.recs /\ g.recs[p] = f.recs[p]
  BY <1>2 DEF Touched
<1>5. Live_Fit(g) /\ NoneTorn(g)
  BY <1>1, <1>4 DEF Live_Fit, NoneTorn, Change, Live
<1>6. \A d \in Bucket \ {b} : SameOn(f, g, d, Chain(f, d))
  <2> TAKE d \in Bucket \ {b}
  <2>1. \A i \in DOMAIN Chain(f, d) : Chain(f, d)[i] \in DOMAIN f.recs BY <1>1, ChainLive DEF Live
  <2> QED BY <1>2, <1>3, <2>1 DEF SameOn, Touched
<1>7. \A u \in T \ {t} : ops[u] # None =>
         /\ BucketOf[ops[u].key] # b
         /\ SameAt(f, g, Owned(ops[u]))
         /\ s # None => Owned(s) \intersect Owned(ops[u]) = {}
  <2> TAKE u \in T \ {t}
  <2> HAVE ops[u] # None
  <2>1. BucketOf[ops[u].key] # b BY <1>2 DEF Orderly
  <2>2. SameAt(f, g, Owned(ops[u])) BY <1>2, <1>3 DEF SameAt, Touched
  <2>3. ASSUME s # None, NEW p \in Owned(s) PROVE p \notin Owned(ops[u])
    <3>1. Own(f, ops[t], p) BY <2>3 DEF Change
    <3> QED BY <3>1, Mine
  <2> QED BY <2>1, <2>2, <2>3
<1>8. \A p \in DOMAIN g.recs : Live(g, p) =>
         IF BucketOf[g.recs[p].key] = b THEN HasItsPlace(s, c, p)
         ELSE p \in DOMAIN f.recs /\ f.recs[p] = g.recs[p]
  <2> TAKE p \in DOMAIN g.recs
  <2> HAVE Live(g, p)
  <2>1. CASE p = o BY <2>1 DEF Change
  <2>2. CASE p # o
    <3>1. p \in DOMAIN f.recs /\ g.recs[p] = f.recs[p] /\ Live(f, p) BY <1>4, <2>2 DEF Live
    <3>2. CASE BucketOf[g.recs[p].key] = b
      <4>1. HasItsPlace(ops[t], Chain(f, b), p)
        <5>1. \/ \E i \in DOMAIN Chain(f, b) : Chain(f, b)[i] = p
              \/ \E u \in T : /\ ops[u] # None /\ ops[u].key = f.recs[p].key
                              /\ \/ ops[u].pc = "link" /\ p = ops[u].dest
                                 \/ ops[u].pc = "void" /\ p = ops[u].cur
          BY <3>1, <3>2, LiveWhere
        <5>2. ASSUME NEW u \in T, ops[u] # None, ops[u].key = f.recs[p].key PROVE u = t
          BY <1>2, <3>1, <3>2, <5>2 DEF Orderly
        <5> QED BY <5>1, <5>2 DEF HasItsPlace
      <4> QED BY <3>2, <4>1 DEF Change
    <3> QED BY <3>1, <3>2
  <2> QED BY <2>1, <2>2
<1> QED BY <1>2, <1>5, <1>6, <1>7, <1>8 DEF StepOf, Change, HasItsPlace

LEMMA ChangeStep ==
    ASSUME NEW T, NEW f, NEW e, NEW ops, Orderly(T, f, e, ops), NEW t \in T, ops[t] # None,
           NEW b \in Bucket, NEW o, NEW g, NEW s, NEW c, Change(f, ops[t], b, o, g, s, c),
           NEW ops2, Becomes(T, ops, t, s, ops2), Taking(f, ops[t]) = Taking(g, s)
    PROVE  /\ Orderly(T, g, e, ops2)
           /\ \A blocks : AllFree(T, f, blocks, ops) => AllFree(T, g, blocks, ops2)
<1>1. ops2[t] = s /\ \A u \in T \ {t} : ops2[u] = ops[u] BY DEF Becomes
<1>2. Tiled(Extents(T, g, ops2), e)
  <2>1. Moved(T, ops, t, s, ops2) BY <1>1 DEF Moved
  <2>2. Extents(T, f, ops) = Extents(T, g, ops2) BY <2>1, ExtentsSame
  <2> QED BY <2>2 DEF Orderly
<1>3. Orderly(T, g, e, ops2)
  <2>1. StepOf(T, f, ops, t, b, g, s, c) BY ChangeStepOf
  <2> QED BY <1>2, <2>1, OrderlyStep
<1>4. ASSUME NEW blocks, AllFree(T, f, blocks, ops) PROVE AllFree(T, g, blocks, ops2)
  <2>1. \A p : Own(f, ops[t], p) => \A x \in blocks : x.offset # p BY <1>4, Mine
  <2>2. Own(f, ops[t], o) /\ Touched(f, g, b, o) BY DEF Change
  <2> SUFFICES ASSUME NEW x \in blocks
      PROVE  /\ x \in Block /\ x.offset \in DOMAIN g.recs /\ g.recs[x.offset] = Void(x.size)
             /\ \A u \in T : ops2[u] # None => x.offset \notin Owned(ops2[u])
    BY DEF AllFree
  <2>3. /\ x \in Block /\ x.offset \in DOMAIN f.recs /\ f.recs[x.offset] = Void(x.size)
        /\ \A u \in T : ops[u] # None => x.offset \notin Owned(ops[u])
    BY <1>4 DEF AllFree
  <2>4. x.offset # o BY <2>1, <2>2
  <2>5. x.offset \in DOMAIN g.recs /\ g.recs[x.offset] = Void(x.size) BY <2>2, <2>3, <2>4 DEF Touched
  <2>6. s # None => x.offset \notin Owned(s) BY <2>1 DEF Change
  <2> QED BY <1>1, <2>3, <2>5, <2>6
<1> QED BY <1>3, <1>4

(* s becomes s2 by a step that makes g of f. *)
Does(f, s, g, s2) ==
    \E b \in Bucket : \E o, c : Change(f, s, b, o, g, s2, c) /\ Taking(f, s) = Taking(g, s2)

LEMMA DoesStep ==
    ASSUME NEW T, NEW f, NEW e, NEW ops, Orderly(T, f, e, ops), NEW t \in T, ops[t] # None,
           NEW g, NEW s, Does(f, ops[t], g, s), NEW ops2, Becomes(T, ops, t, s, ops2)
    PROVE  /\ Orderly(T, g, e, ops2)
           /\ \A blocks : AllFree(T, f, blocks, ops) => AllFree(T, g, blocks, ops2)
<1>1. PICK b, o, c : b \in Bucket /\ Change(f, ops[t], b, o, g, s, c) /\ Taking(f, ops[t]) = Taking(g, s)
  BY DEF Does
<1> QED BY <1>1, ChangeStep

(* What a Get of every key returns, before and after. *)
Gets(f, g, k, v) == \A j \in Key : Lookup(g, j) = IF j = k THEN v ELSE Lookup(f, j)
SameGets(f, g)   == \A j \in Key : Lookup(g, j) = Lookup(f, j)

LEMMA GetElsewhere ==
    ASSUME NEW f, IsFile(f), AllChained(f), NEW r, NEW b \in Bucket, NEW o, NEW g, NEW s, NEW c,
           Change(f, r, b, o, g, s, c), \A d \in Bucket \ {b} : \A i \in DOMAIN Chain(f, d) : Chain(f, d)[i] # o,
           NEW j \in Key, BucketOf[j] # b
    PROVE  Find(g, j) = Find(f, j) /\ Lookup(g, j) = Lookup(f, j)
<1>1. PICK d \in Bucket \ {b} : d = BucketOf[j] BY DatabaseAssumption
<1>2. PICK h : h = Chain(f, d) OBVIOUS
<1>3. Chained(f, d, h) BY <1>2 DEF AllChained
<1>4. Touched(f, g, b, o) /\ IsFile(g) BY DEF Change, Touched
<1>5. SameOn(f, g, d, h)
  <2>1. \A i \in DOMAIN h : h[i] \in DOMAIN f.recs BY <1>3 DEF Chained, Live
  <2> QED BY <1>2, <1>4, <2>1 DEF SameOn, Touched
<1>6. Chained(f, BucketOf[j], h) /\ SameOn(f, g, BucketOf[j], h) BY <1>1, <1>3, <1>5
<1> QED BY <1>4, <1>6, SameFound

(* A Get by the records of a chain. *)
LEMMA GetOf ==
    ASSUME NEW f, NEW j \in Key, NEW c, IsFile(f), Chained(f, BucketOf[j], c)
    PROVE  /\ \A i \in DOMAIN c : f.recs[c[i]].key = j => Lookup(f, j) = f.recs[c[i]].val /\ Find(f, j).cur = c[i]
           /\ (\A i \in DOMAIN c : f.recs[c[i]].key # j) => Lookup(f, j) = None /\ Find(f, j).cur = 0
<1>1. Found(f, j, c) BY FindIs
<1>2. ASSUME NEW i \in DOMAIN c, f.recs[c[i]].key = j
      PROVE  Lookup(f, j) = f.recs[c[i]].val /\ Find(f, j).cur = c[i]
  <2>1. Find(f, j) = [cur |-> c[i], par |-> IF i = 1 THEN 0 ELSE c[i - 1]] /\ Lookup(f, j) = f.recs[c[i]].val
    BY <1>1, <1>2 DEF Found
  <2> QED BY <2>1
<1>3. ASSUME \A i \in DOMAIN c : f.recs[c[i]].key # j PROVE Lookup(f, j) = None /\ Find(f, j).cur = 0
  <2>1. Find(f, j) = [cur |-> 0, par |-> 0] /\ Lookup(f, j) = None BY <1>1, <1>3 DEF Found
  <2> QED BY <2>1
<1> QED BY <1>2, <1>3

(* A place that is in the chain of one bucket, or that a Set of a key of it  *)
(* has, is in no other.                                                     *)
LEMMA NotElsewhere ==
    ASSUME NEW f, IsFile(f), AllChained(f), NEW s, Underway(f, s), NEW o, Own(f, s, o)
    PROVE  \A d \in Bucket \ {BucketOf[s.key]} : \A i \in DOMAIN Chain(f, d) : Chain(f, d)[i] # o
<1>1. s.key \in Key BY DEF Underway, OpenSet
<1>2. PICK b \in Bucket : b = BucketOf[s.key] BY <1>1, DatabaseAssumption
<1>3. InChain(f, s.key, o) => Live(f, o) /\ BucketOf[f.recs[o].key] = b
  BY <1>2, ChainLive DEF InChain, Range
<1>4. o \in Owned(s) /\ Live(f, o) => BucketOf[f.recs[o].key] = b
  BY <1>2, OwnedLive
<1>5. \A d \in Bucket \ {b} : \A i \in DOMAIN Chain(f, d) : Chain(f, d)[i] # o
  <2> TAKE d \in Bucket \ {b}
  <2> TAKE i \in DOMAIN Chain(f, d)
  <2>1. Live(f, Chain(f, d)[i]) /\ BucketOf[f.recs[Chain(f, d)[i]].key] = d BY ChainLive
  <2> QED BY <2>1, <1>3, <1>4 DEF Own
<1> QED BY <1>2, <1>5

LEMMA ChangeGets ==
    ASSUME NEW f, IsFile(f), AllChained(f), NEW s, Underway(f, s), NEW b \in Bucket, NEW o, NEW g, NEW s2, NEW c,
           Change(f, s, b, o, g, s2, c)
    PROVE  \A j \in Key : BucketOf[j] # b => Find(g, j) = Find(f, j) /\ Lookup(g, j) = Lookup(f, j)
<1>1. BucketOf[s.key] = b /\ Own(f, s, o) BY DEF Change
<1>2. \A d \in Bucket \ {b} : \A i \in DOMAIN Chain(f, d) : Chain(f, d)[i] # o BY <1>1, NotElsewhere
<1> TAKE j \in Key
<1> HAVE BucketOf[j] # b
<1> QED BY <1>2, GetElsewhere

(* The record that a Set writes. *)
NewRecord(s) == [size |-> s.size, type |-> "live", key |-> s.key, val |-> s.val, child |-> s.child]

LEMMA NewRecordIs ==
    ASSUME NEW s \in OpenSet
    PROVE  /\ NewRecord(s) \in Record
           /\ NewRecord(s).size = s.size /\ NewRecord(s).type = "live" /\ NewRecord(s).key = s.key
           /\ NewRecord(s).val = s.val /\ NewRecord(s).child = s.child
BY DEF NewRecord, Record, OpenSet

LEMMA WrittenIs ==
    ASSUME NEW f, IsFile(f), NEW s, Underway(f, s), s.pc = "write"
    PROVE  Wrote(f, Written(f, s), s.dest, NewRecord(s)) /\ s.dest \in Base .. MaxSize
<1>1. s \in OpenSet BY DEF Underway
<1>2. s.dest \in Base .. MaxSize
  <2>1. s.dest # 0 /\ s.dest \in 0 .. MaxSize BY <1>1 DEF Underway, OpenSet
  <2> QED BY <2>1, DatabaseAssumption DEF Base
<1>3. Written(f, s) = WriteRecord(f, s.dest, NewRecord(s)) BY DEF Written, NewRecord
<1>4. PICK o \in Base .. MaxSize : o = s.dest BY <1>2
<1>5. PICK rec \in Record : rec = NewRecord(s) BY <1>1, NewRecordIs
<1>6. Wrote(f, WriteRecord(f, o, rec), o, rec) BY WriteRecordIs
<1> QED BY <1>2, <1>3, <1>4, <1>5, <1>6

LEMMA WroteTouches ==
    ASSUME NEW f, NEW g, NEW o, NEW rec, Wrote(f, g, o, rec)
    PROVE  /\ \A b : Touched(f, g, b, o)
           /\ o \in DOMAIN g.recs /\ g.recs[o] = rec
BY DEF Wrote, Touched

(* A record is written over. *)
LEMMA WriteOver ==
    ASSUME NEW f, IsFile(f), Live_Fit(f), AllChained(f), NEW s, Underway(f, s),
           s.pc = "write", s.dest = s.cur, NEW g, g = Written(f, s)
    PROVE  Does(f, s, g, None) /\ Gets(f, g, s.key, s.val)
<1>1. s \in OpenSet /\ s.key \in Key /\ s.val \in Value BY DEF Underway, OpenSet
<1>2. PICK k \in Key : k = s.key BY <1>1
<1>3. PICK b \in Bucket : b = BucketOf[k] BY DatabaseAssumption
<1>4. PICK c : c = Chain(f, b) OBVIOUS
<1>5. Chained(f, b, c) BY <1>4 DEF AllChained
<1>6. PICK o : o = s.cur OBVIOUS
<1>7. /\ Find(f, k) = [cur |-> o, par |-> s.par] /\ o # 0
      /\ s.child = f.recs[o].child /\ s.size = f.recs[o].size /\ Size[s.val] <= s.size
  BY <1>2, <1>6 DEF Underway
<1>8. Find(f, k).cur = o BY <1>7
<1>9. PICK i0 \in DOMAIN c : f.recs[c[i0]].key = k /\ Find(f, k) = [cur |-> c[i0], par |-> IF i0 = 1 THEN 0 ELSE c[i0 - 1]]
  BY <1>3, <1>5, <1>7, <1>8, FoundAt
<1>10. c[i0] = o BY <1>8, <1>9
<1>11. PICK rec : rec = NewRecord(s) OBVIOUS
<1>12. rec.size = s.size /\ rec.type = "live" /\ rec.key = k /\ rec.val = s.val /\ rec.child = s.child
  BY <1>1, <1>2, <1>11, NewRecordIs
<1>13. Wrote(f, g, o, rec) /\ o \in Base .. MaxSize BY <1>6, <1>11, WrittenIs
<1>14. Touched(f, g, b, o) /\ o \in DOMAIN g.recs /\ g.recs[o] = rec BY <1>13, WroteTouches
<1>15. /\ IsFile(g) /\ g.bucket = f.bucket /\ DOMAIN g.recs = DOMAIN f.recs \union {o}
       /\ \A p \in DOMAIN f.recs : p # o => g.recs[p] = f.recs[p]
  BY <1>13 DEF Wrote
<1>16. \A i \in DOMAIN c : /\ c[i] \in DOMAIN g.recs /\ g.recs[c[i]].type = "live"
                           /\ g.recs[c[i]].key = f.recs[c[i]].key /\ g.recs[c[i]].child = f.recs[c[i]].child
                           /\ i # i0 => g.recs[c[i]] = f.recs[c[i]]
  <2> TAKE i \in DOMAIN c
  <2>1. c[i] \in DOMAIN f.recs /\ f.recs[c[i]].type = "live" BY <1>5 DEF Chained, Live
  <2>2. CASE i = i0 BY <2>1, <2>2, <1>7, <1>9, <1>10, <1>12, <1>14, <1>15
  <2>3. CASE i # i0
    <3>1. c[i] # o BY <1>5, <1>10, <2>3 DEF Chained, IsInjective
    <3> QED BY <2>1, <3>1, <1>15
  <2> QED BY <2>2, <2>3
<1>17. Chained(g, b, c)
  <2>1. c \in Seq(DOMAIN g.recs)
    <3>1. DOMAIN f.recs \subseteq DOMAIN g.recs BY <1>15
    <3> QED BY <1>5, <3>1, SeqMonotonic DEF Chained
  <2> QED BY <2>1, <1>5, <1>15, <1>16 DEF Chained, Live
<1>18. Own(f, s, o)
  <2>1. InChain(f, k, o) BY <1>3, <1>4, <1>10 DEF InChain, Range
  <2> QED BY <2>1, <1>2 DEF Own
<1>19. \A p \in DOMAIN g.recs : Live(g, p) /\ (p = o \/ HasItsPlace(s, Chain(f, b), p)) => HasItsPlace(None, c, p)
  <2> TAKE p \in DOMAIN g.recs
  <2>1. p = o => HasItsPlace(None, c, p) BY <1>10 DEF HasItsPlace
  <2>2. HasItsPlace(s, Chain(f, b), p) => HasItsPlace(None, c, p) BY <1>4 DEF HasItsPlace
  <2> QED BY <2>1, <2>2
<1>20. Change(f, s, b, o, g, None, c)
  <2>1. /\ g.recs[o].type = "live" /\ g.recs[o].key \in Key /\ BucketOf[g.recs[o].key] = b
        /\ g.recs[o].val \in Value /\ Size[g.recs[o].val] <= g.recs[o].size
    BY <1>1, <1>3, <1>7, <1>12, <1>14
  <2> QED BY <2>1, <1>2, <1>3, <1>14, <1>17, <1>18, <1>19 DEF Change
<1>21. Taking(f, s) = Taking(g, None)
  <2>1. o \in DOMAIN f.recs BY <1>5, <1>10 DEF Chained, Live
  <2>2. \A p \in DOMAIN f.recs : g.recs[p].size = f.recs[p].size BY <1>7, <1>12, <1>14, <1>15
  <2>3. Places(g) = Places(f) BY <2>1, <2>2, <1>15 DEF Places
  <2>4. [offset |-> s.dest, size |-> s.size] \in Places(f) BY <2>1, <1>6, <1>7 DEF Places
  <2>5. Taking(f, s) = Places(f) BY <2>4 DEF Taking
  <2>6. Taking(g, None) = Places(g) BY DEF Taking
  <2> QED BY <2>3, <2>5, <2>6
<1>22. \A j \in Key : Lookup(g, j) = IF j = k THEN s.val ELSE Lookup(f, j)
  <2> TAKE j \in Key
  <2>1. CASE BucketOf[j] # b
    <3>1. Lookup(g, j) = Lookup(f, j) BY <1>20, <2>1, ChangeGets
    <3> QED BY <2>1, <1>3, <3>1
  <2>2. CASE BucketOf[j] = b
    <3>1. Chained(f, BucketOf[j], c) /\ Chained(g, BucketOf[j], c) BY <1>5, <1>17, <2>2
    <3>2. /\ \A i \in DOMAIN c : f.recs[c[i]].key = j => Lookup(f, j) = f.recs[c[i]].val
          /\ (\A i \in DOMAIN c : f.recs[c[i]].key # j) => Lookup(f, j) = None
          /\ \A i \in DOMAIN c : g.recs[c[i]].key = j => Lookup(g, j) = g.recs[c[i]].val
          /\ (\A i \in DOMAIN c : g.recs[c[i]].key # j) => Lookup(g, j) = None
      BY <3>1, <1>15, GetOf
    <3>3. CASE j = k
      <4>1. Lookup(g, j) = g.recs[o].val BY <3>2, <3>3, <1>9, <1>10, <1>16
      <4> QED BY <3>3, <4>1, <1>12, <1>14
    <3>4. CASE j # k
      <4>1. CASE \E i \in DOMAIN c : f.recs[c[i]].key = j
        <5>1. PICK i \in DOMAIN c : f.recs[c[i]].key = j BY <4>1
        <5>2. i # i0 BY <1>9, <3>4, <5>1
        <5> QED BY <1>16, <3>2, <3>4, <5>1, <5>2
      <4>2. CASE \A i \in DOMAIN c : f.recs[c[i]].key # j
        <5>1. \A i \in DOMAIN c : g.recs[c[i]].key # j BY <4>2, <1>16
        <5> QED BY <3>2, <3>4, <4>2, <5>1
      <4> QED BY <4>1, <4>2
    <3> QED BY <3>3, <3>4
  <2> QED BY <2>1, <2>2
<1>23. Gets(f, g, k, s.val) BY <1>22 DEF Gets
<1> QED BY <1>2, <1>20, <1>21, <1>23 DEF Does

(* A new record is written where nothing was. *)
LEMMA WriteFresh ==
    ASSUME NEW f, IsFile(f), Live_Fit(f), AllChained(f), NEW s, Underway(f, s),
           s.pc = "write", s.dest # s.cur, NEW g, g = Written(f, s),
           NEW s2, s2 = [s EXCEPT !.pc = "link"]
    PROVE  Does(f, s, g, s2) /\ SameGets(f, g) /\ Underway(g, s2)
<1>1. s \in OpenSet /\ s.key \in Key /\ s.val \in Value BY DEF Underway, OpenSet
<1>2. PICK k \in Key : k = s.key BY <1>1
<1>3. PICK b \in Bucket : b = BucketOf[k] BY DatabaseAssumption
<1>4. PICK c : c = Chain(f, b) OBVIOUS
<1>5. Chained(f, b, c) BY <1>4 DEF AllChained
<1>6. PICK o : o = s.dest OBVIOUS
<1>7. /\ Find(f, k) = [cur |-> s.cur, par |-> s.par]
      /\ s.child = IF s.cur # 0 THEN f.recs[s.cur].child ELSE f.bucket[b]
      /\ s.was = Lookup(f, k) /\ Size[s.val] <= s.size /\ o # 0
      /\ o \in DOMAIN f.recs => f.recs[o] = Void(s.size)
  BY <1>2, <1>3, <1>6 DEF Underway
<1>8. PICK rec : rec = NewRecord(s) OBVIOUS
<1>9. rec.size = s.size /\ rec.type = "live" /\ rec.key = k /\ rec.val = s.val
  BY <1>1, <1>2, <1>8, NewRecordIs
<1>10. Wrote(f, g, o, rec) /\ o \in Base .. MaxSize BY <1>6, <1>8, WrittenIs
<1>11. Touched(f, g, b, o) /\ o \in DOMAIN g.recs /\ g.recs[o] = rec BY <1>10, WroteTouches
<1>12. /\ IsFile(g) /\ g.bucket = f.bucket /\ DOMAIN g.recs = DOMAIN f.recs \union {o}
       /\ \A p \in DOMAIN f.recs : p # o => g.recs[p] = f.recs[p]
  BY <1>10 DEF Wrote
<1>13. \A i \in DOMAIN c : c[i] # o /\ c[i] \in DOMAIN f.recs
  BY <1>5, <1>7 DEF Chained, Live, Void
<1>14. SameOn(f, g, b, c) BY <1>12, <1>13 DEF SameOn
<1>15. Chained(g, b, c) BY <1>5, <1>14, SameChain
<1>16. Find(g, k) = Find(f, k) /\ Lookup(g, k) = Lookup(f, k)
  <2>1. Chained(f, BucketOf[k], c) /\ SameOn(f, g, BucketOf[k], c) BY <1>3, <1>5, <1>14
  <2> QED BY <2>1, <1>12, SameFound
<1>17. /\ s2 \in OpenSet /\ s2.pc = "link" /\ s2.key = k /\ s2.val = s.val /\ s2.cur = s.cur /\ s2.par = s.par
       /\ s2.child = s.child /\ s2.dest = o /\ s2.size = s.size /\ s2.was = s.was
  BY <1>1, <1>2, <1>6 DEF OpenSet
<1>18. s.cur # 0 => g.recs[s.cur] = f.recs[s.cur]
  <2> HAVE s.cur # 0
  <2>1. Find(f, k).cur = s.cur /\ Chained(f, BucketOf[k], c) BY <1>3, <1>5, <1>7
  <2>2. PICK i \in DOMAIN c : Find(f, k) = [cur |-> c[i], par |-> IF i = 1 THEN 0 ELSE c[i - 1]]
    BY <2>1, FoundAt
  <2>3. c[i] = s.cur BY <2>1, <2>2
  <2> QED BY <2>3, <1>14 DEF SameOn
<1>19. ~InChain(g, k, o)
  <2>1. Chained(g, BucketOf[k], c) BY <1>3, <1>15
  <2> QED BY <2>1, <1>12, <1>13, ChainRange
<1>20. Underway(g, s2)
  <2>1. Find(g, s2.key) = [cur |-> s2.cur, par |-> s2.par] BY <1>7, <1>16, <1>17
  <2>2. s2.child = IF s2.cur # 0 THEN g.recs[s2.cur].child ELSE g.bucket[BucketOf[s2.key]]
    BY <1>3, <1>7, <1>12, <1>17, <1>18
  <2>3. s2.was = Lookup(g, s2.key) /\ Size[s2.val] <= s2.size /\ s2.dest # 0 BY <1>7, <1>16, <1>17
  <2>4. s2.dest # s2.cur /\ s2.dest \in DOMAIN g.recs /\ ~InChain(g, s2.key, s2.dest)
    BY <1>6, <1>11, <1>17, <1>19
  <2>5. g.recs[s2.dest] = [size |-> s2.size, type |-> "live", key |-> s2.key, val |-> s2.val, child |-> s2.child]
    BY <1>2, <1>8, <1>11, <1>17 DEF NewRecord
  <2> QED BY <1>17, <2>1, <2>2, <2>3, <2>4, <2>5 DEF Underway
<1>21. Owned(s) = {o} /\ Owned(s2) = {o}
  BY <1>6, <1>17 DEF Owned
<1>22. s2 # None BY <1>17, NoneAssumption
<1>23. \A p \in DOMAIN g.recs : Live(g, p) /\ (p = o \/ HasItsPlace(s, Chain(f, b), p)) => HasItsPlace(s2, c, p)
  BY <1>4, <1>17, <1>22 DEF HasItsPlace
<1>24. Change(f, s, b, o, g, s2, c)
  <2>1. /\ g.recs[o].type = "live" /\ g.recs[o].key \in Key /\ BucketOf[g.recs[o].key] = b
        /\ g.recs[o].val \in Value /\ Size[g.recs[o].val] <= g.recs[o].size
    BY <1>1, <1>3, <1>7, <1>9, <1>11
  <2>2. Own(f, s, o) /\ \A p \in Owned(s2) : Own(f, s, p) BY <1>21 DEF Own
  <2> QED BY <2>1, <2>2, <1>2, <1>3, <1>11, <1>15, <1>17, <1>20, <1>23 DEF Change
<1>25. Taking(f, s) = Taking(g, s2)
  <2>1. PICK x : x = [offset |-> o, size |-> s.size] OBVIOUS
  <2>2. s # None BY <1>1, NoneAssumption
  <2>3. Taking(f, s) = Places(f) \union {x} BY <1>6, <2>1, <2>2 DEF Taking
  <2>4. Taking(g, s2) = Places(g) BY <1>17 DEF Taking
  <2>5. \A p \in DOMAIN f.recs : g.recs[p].size = f.recs[p].size BY <1>7, <1>9, <1>11, <1>12 DEF Void
  <2>6. Places(g) = Places(f) \union {x}
    <3>1. \A y : y \in Places(g) <=> y \in Places(f) \/ y = x BY <1>9, <1>11, <1>12, <2>1, <2>5 DEF Places
    <3> QED BY <3>1
  <2> QED BY <2>3, <2>4, <2>6
<1>26. \A j \in Key : Lookup(g, j) = Lookup(f, j)
  <2> TAKE j \in Key
  <2>1. CASE BucketOf[j] # b BY <1>24, <2>1, ChangeGets
  <2>2. CASE BucketOf[j] = b
    <3>1. Chained(f, BucketOf[j], c) /\ SameOn(f, g, BucketOf[j], c) BY <1>5, <1>14, <2>2
    <3> QED BY <3>1, <1>12, SameFound
  <2> QED BY <2>1, <2>2
<1> QED BY <1>20, <1>24, <1>25, <1>26 DEF Does, SameGets

(* g is f with o as what follows the record par, or as the first of bucket b. *)
LinkTo(f, g, b, par, o) ==
    /\ IsFile(g) /\ DOMAIN g.recs = DOMAIN f.recs
    /\ \A p \in DOMAIN f.recs : /\ g.recs[p].size = f.recs[p].size /\ g.recs[p].type = f.recs[p].type
                                /\ g.recs[p].key = f.recs[p].key /\ g.recs[p].val = f.recs[p].val
                                /\ p # par => g.recs[p] = f.recs[p]
    /\ par # 0 => g.recs[par].child = o /\ g.bucket = f.bucket
    /\ par = 0 => g.bucket = [f.bucket EXCEPT ![b] = o]
    /\ Touched(f, g, b, IF par = 0 THEN o ELSE par)

LEMMA LinkedIs ==
    ASSUME NEW f, IsFile(f), NEW s, s \in OpenSet, s.dest \in DOMAIN f.recs,
           s.par # 0 => s.par \in DOMAIN f.recs
    PROVE  LinkTo(f, Linked(f, s), BucketOf[s.key], s.par, s.dest)
<1>1. PICK o : o = s.dest OBVIOUS
<1>2. PICK par : par = s.par OBVIOUS
<1>3. PICK b \in Bucket : b = BucketOf[s.key] BY DatabaseAssumption DEF OpenSet
<1>4. o \in DOMAIN f.recs /\ o \in 0 .. MaxSize /\ 0 \notin DOMAIN f.recs
  BY <1>1, DatabaseAssumption DEF OpenSet, IsFile, Base
<1>5. PICK g : g = Linked(f, s) OBVIOUS
<1>6. CASE par = 0
  <2>1. g = [f EXCEPT !.bucket[b] = o] BY <1>1, <1>2, <1>3, <1>5, <1>6 DEF Linked
  <2>2. Headed(f, g, b, o) BY <1>4, <2>1, BucketSet
  <2>3. /\ IsFile(g) /\ g.recs = f.recs /\ g.bucket = [f.bucket EXCEPT ![b] = o] BY <2>2 DEF Headed
  <2>4. \A d \in Bucket \ {b} : g.bucket[d] = f.bucket[d] BY <2>3
  <2>5. Touched(f, g, b, o) BY <2>3, <2>4 DEF Touched
  <2>6. LinkTo(f, g, b, par, o) BY <1>6, <2>3, <2>5 DEF LinkTo
  <2> QED BY <1>1, <1>2, <1>3, <1>5, <2>6
<1>7. CASE par # 0
  <2>1. par \in DOMAIN f.recs BY <1>2, <1>7
  <2>2. g = [f EXCEPT !.recs[par].child = o] BY <1>1, <1>2, <1>5, <1>7 DEF Linked
  <2>3. PICK rec : rec = SetChild(f.recs[par], o) OBVIOUS
  <2>4. Wrote(f, g, par, rec) BY <1>4, <2>1, <2>2, <2>3, ChildSet
  <2>5. Touched(f, g, b, par) /\ g.recs[par] = rec BY <2>4, WroteTouches
  <2>6. /\ IsFile(g) /\ g.bucket = f.bucket /\ DOMAIN g.recs = DOMAIN f.recs
        /\ \A p \in DOMAIN f.recs : p # par => g.recs[p] = f.recs[p]
    BY <2>1, <2>4 DEF Wrote
  <2>7. f.recs[par] \in Record BY <2>1 DEF IsFile
  <2>8. /\ rec.size = f.recs[par].size /\ rec.type = f.recs[par].type /\ rec.key = f.recs[par].key
        /\ rec.val = f.recs[par].val /\ rec.child = o
    BY <2>3, <2>7 DEF SetChild, Record
  <2>9. \A p \in DOMAIN f.recs : /\ g.recs[p].size = f.recs[p].size /\ g.recs[p].type = f.recs[p].type
                                 /\ g.recs[p].key = f.recs[p].key /\ g.recs[p].val = f.recs[p].val
                                 /\ p # par => g.recs[p] = f.recs[p]
    BY <2>5, <2>6, <2>8
  <2>10. LinkTo(f, g, b, par, o) BY <1>7, <2>5, <2>6, <2>8, <2>9 DEF LinkTo
  <2> QED BY <1>1, <1>2, <1>3, <1>5, <2>10
<1> QED BY <1>6, <1>7

(* A record of a new key becomes the first of its bucket. *)
LEMMA LinkFirst ==
    ASSUME NEW f, IsFile(f), Live_Fit(f), AllChained(f), NEW s, Underway(f, s),
           s.pc = "link", s.cur = 0, NEW g, g = Linked(f, s)
    PROVE  Does(f, s, g, None) /\ Gets(f, g, s.key, s.val)
<1>1. s \in OpenSet /\ s.key \in Key /\ s.val \in Value BY DEF Underway, OpenSet
<1>2. PICK k \in Key : k = s.key BY <1>1
<1>3. PICK b \in Bucket : b = BucketOf[k] BY DatabaseAssumption
<1>4. PICK c : c = Chain(f, b) OBVIOUS
<1>5. Chained(f, b, c) BY <1>4 DEF AllChained
<1>6. PICK o : o = s.dest OBVIOUS
<1>7. /\ Find(f, k) = [cur |-> 0, par |-> s.par]
      /\ s.child = f.bucket[b] /\ Size[s.val] <= s.size /\ o # 0 /\ o \in DOMAIN f.recs
      /\ ~InChain(f, k, o)
      /\ f.recs[o] = [size |-> s.size, type |-> "live", key |-> k, val |-> s.val, child |-> s.child]
  BY <1>2, <1>3, <1>6 DEF Underway
<1>8. f.recs[o].size = s.size /\ f.recs[o].type = "live" /\ f.recs[o].key = k /\ f.recs[o].val = s.val
      /\ f.recs[o].child = f.bucket[b]
  BY <1>7
<1>9. s.par = 0 /\ \A i \in DOMAIN c : f.recs[c[i]].key # k
  <2>1. Find(f, k).cur = 0 /\ Find(f, k).par = s.par BY <1>7
  <2>2. Find(f, k) = [cur |-> 0, par |-> 0] BY <2>1, FoundRecord
  <2>3. Find(f, k).par = 0 BY <2>2
  <2>4. \A i \in DOMAIN c : c[i] # 0
    BY <1>5, DatabaseAssumption DEF Chained, Live, IsFile, Base
  <2>5. Chained(f, BucketOf[k], c) BY <1>3, <1>5
  <2>6. \A i \in DOMAIN c : f.recs[c[i]].key = k => Find(f, k).cur = c[i] BY <2>5, GetOf
  <2> QED BY <2>1, <2>3, <2>4, <2>6
<1>10. LinkTo(f, g, b, 0, o)
  <2>1. s.dest \in DOMAIN f.recs /\ (s.par # 0 => s.par \in DOMAIN f.recs) BY <1>6, <1>7, <1>9
  <2>2. LinkTo(f, Linked(f, s), BucketOf[s.key], s.par, s.dest) BY <1>1, <2>1, LinkedIs
  <2> QED BY <1>2, <1>3, <1>6, <1>9, <2>2
<1>11. /\ IsFile(g) /\ DOMAIN g.recs = DOMAIN f.recs /\ Touched(f, g, b, o)
       /\ \A p \in DOMAIN f.recs : g.recs[p] = f.recs[p]
       /\ g.bucket[b] = o
  <2>1. 0 \notin DOMAIN f.recs BY DatabaseAssumption DEF IsFile, Base
  <2>2. f.bucket \in [Bucket -> 0 .. MaxSize] BY DEF IsFile
  <2> QED BY <1>10, <2>1, <2>2 DEF LinkTo
<1>12. PICK c2 : c2 = <<o>> \o c OBVIOUS
<1>13. c \in Seq(DOMAIN f.recs) /\ DOMAIN c = 1 .. Len(c) /\ Len(c) \in Nat BY <1>5, LenProperties DEF Chained
<1>14. /\ c2 \in Seq(DOMAIN f.recs) /\ Len(c2) = Len(c) + 1 /\ DOMAIN c2 = 1 .. Len(c) + 1
       /\ c2[1] = o /\ \A i \in DOMAIN c : c2[i + 1] = c[i]
  <2>1. <<o>> \in Seq(DOMAIN f.recs) /\ Len(<<o>>) = 1 /\ <<o>>[1] = o
    <3>1. o \in DOMAIN f.recs BY <1>7
    <3>2. <<o>> \in Seq(DOMAIN f.recs) BY <3>1, OneSeq
    <3>3. Len(<<o>>) = 1 OBVIOUS
    <3>4. <<o>>[1] = o OBVIOUS
    <3> QED BY <3>2, <3>3, <3>4
  <2>2. PICK w : w = <<o>> OBVIOUS
  <2>3. /\ c2 \in Seq(DOMAIN f.recs) /\ Len(c2) = 1 + Len(c)
        /\ \A i \in 1 .. 1 + Len(c) : c2[i] = IF i <= 1 THEN w[i] ELSE c[i - 1]
    BY <1>12, <1>13, <2>1, <2>2, ConcatProperties
  <2>4. DOMAIN c2 = 1 .. Len(c) + 1 BY <1>13, <2>3, LenProperties
  <2>5. c2[1] = o
    <3>1. 1 \in 1 .. 1 + Len(c) /\ 1 <= 1 BY <1>13
    <3> QED BY <2>1, <2>2, <2>3, <3>1
  <2>6. \A i \in DOMAIN c : c2[i + 1] = c[i]
    <3> TAKE i \in DOMAIN c
    <3>1. i \in Nat /\ i + 1 \in 1 .. 1 + Len(c) /\ ~(i + 1 <= 1) /\ i + 1 - 1 = i BY <1>13
    <3> QED BY <2>3, <3>1
  <2> QED BY <1>13, <2>3, <2>4, <2>5, <2>6
<1>15. \A j \in DOMAIN c2 : j = 1 \/ (j - 1 \in DOMAIN c /\ c2[j] = c[j - 1] /\ (j = Len(c2) <=> j - 1 = Len(c)))
  <2> TAKE j \in DOMAIN c2
  <2>1. j \in 1 .. Len(c) + 1 BY <1>14
  <2>2. j # 1 => j - 1 \in DOMAIN c /\ j - 1 + 1 = j BY <1>13, <2>1
  <2>3. j = Len(c2) <=> j - 1 = Len(c) BY <1>13, <1>14, <2>1
  <2> QED BY <1>14, <2>2, <2>3
<1>16. \A i \in DOMAIN c : c[i] # o
  <2>1. Chained(f, BucketOf[k], c) BY <1>3, <1>5
  <2> QED BY <2>1, <1>7, ChainRange
<1>17. Chained(g, b, c2)
  <2>1. c2 \in Seq(DOMAIN g.recs) BY <1>11, <1>14
  <2>2. ASSUME NEW i \in DOMAIN c2, NEW j \in DOMAIN c2, c2[i] = c2[j] PROVE i = j
    <3>1. i \in 1 .. Len(c) + 1 /\ j \in 1 .. Len(c) + 1 BY <1>14
    <3>2. CASE i = 1 \/ j = 1 BY <1>14, <1>15, <1>16, <2>2, <3>2
    <3>3. CASE i # 1 /\ j # 1
      <4>1. i - 1 \in DOMAIN c /\ j - 1 \in DOMAIN c /\ c[i - 1] = c[j - 1] BY <1>15, <2>2, <3>3
      <4>2. i - 1 = j - 1 BY <1>5, <4>1 DEF Chained, IsInjective
      <4> QED BY <1>13, <3>1, <4>2
    <3> QED BY <3>2, <3>3
  <2>3. IsInjective(c2) BY <2>2 DEF IsInjective
  <2>4. g.bucket[b] = IF c2 = <<>> THEN 0 ELSE c2[1]
    <3>1. c2 # <<>> BY <1>13, <1>14
    <3> QED BY <1>11, <1>14, <3>1
  <2>5. ASSUME NEW i \in DOMAIN c2
        PROVE  /\ Live(g, c2[i]) /\ g.recs[c2[i]].key \in Key /\ BucketOf[g.recs[c2[i]].key] = b
               /\ g.recs[c2[i]].child = IF i = Len(c2) THEN 0 ELSE c2[i + 1]
    <3>1. CASE i = 1
      <4>1. g.recs[c2[i]] = f.recs[o] /\ c2[i] \in DOMAIN g.recs BY <1>7, <1>11, <1>14, <3>1
      <4>2. Live(g, c2[i]) /\ g.recs[c2[i]].key \in Key /\ BucketOf[g.recs[c2[i]].key] = b
        BY <1>3, <1>8, <4>1 DEF Live
      <4>3. f.bucket[b] = IF i = Len(c2) THEN 0 ELSE c2[i + 1]
        <5>1. CASE c = <<>>
          <6>1. Len(c) = 0 BY <5>1
          <6> QED BY <1>5, <1>14, <3>1, <5>1, <6>1 DEF Chained
        <5>2. CASE c # <<>>
          <6>1. Len(c) # 0 BY <1>13, <5>2, EmptySeq
          <6>2. 1 \in DOMAIN c /\ i # Len(c2) BY <1>13, <1>14, <3>1, <6>1
          <6> QED BY <1>5, <1>14, <3>1, <5>2, <6>2 DEF Chained
        <5> QED BY <5>1, <5>2
      <4> QED BY <1>8, <4>1, <4>2, <4>3
    <3>2. CASE i # 1
      <4>1. PICK j \in DOMAIN c : j = i - 1 /\ c2[i] = c[j] /\ (i = Len(c2) <=> j = Len(c)) BY <1>15, <3>2
      <4>2. /\ Live(f, c[j]) /\ f.recs[c[j]].key \in Key /\ BucketOf[f.recs[c[j]].key] = b
            /\ f.recs[c[j]].child = IF j = Len(c) THEN 0 ELSE c[j + 1]
        BY <1>5 DEF Chained
      <4>3. g.recs[c[j]] = f.recs[c[j]] /\ Live(g, c[j]) BY <1>11, <4>2 DEF Live
      <4>4. j # Len(c) => c[j + 1] = c2[i + 1]
        <5> HAVE j # Len(c)
        <5>1. j + 1 \in DOMAIN c /\ j + 1 = i /\ i \in Nat BY <1>13, <1>14, <4>1
        <5>2. c2[j + 1 + 1] = c[j + 1] BY <1>14, <5>1
        <5> QED BY <5>1, <5>2
      <4> QED BY <4>1, <4>2, <4>3, <4>4
    <3> QED BY <3>1, <3>2
  <2>6. ASSUME NEW i \in DOMAIN c2, NEW j \in DOMAIN c2, g.recs[c2[i]].key = g.recs[c2[j]].key
        PROVE  i = j
    <3>1. i \in 1 .. Len(c) + 1 /\ j \in 1 .. Len(c) + 1 BY <1>14
    <3>2. \A h \in DOMAIN c2 : c2[h] \in DOMAIN f.recs BY <1>14
    <3>3. g.recs[c2[i]] = f.recs[c2[i]] /\ g.recs[c2[j]] = f.recs[c2[j]] BY <1>11, <3>2
    <3>4. CASE i = 1 \/ j = 1 BY <1>8, <1>9, <1>14, <1>15, <2>6, <3>3, <3>4
    <3>5. CASE i # 1 /\ j # 1
      <4>1. i - 1 \in DOMAIN c /\ j - 1 \in DOMAIN c /\ f.recs[c[i - 1]].key = f.recs[c[j - 1]].key
        BY <1>15, <2>6, <3>3, <3>5
      <4>2. i - 1 = j - 1 BY <1>5, <4>1 DEF Chained
      <4> QED BY <1>13, <3>1, <4>2
    <3> QED BY <3>4, <3>5
  <2> QED BY <2>1, <2>3, <2>4, <2>5, <2>6 DEF Chained
<1>18. \A p \in DOMAIN g.recs : Live(g, p) /\ (p = o \/ HasItsPlace(s, Chain(f, b), p)) => HasItsPlace(None, c2, p)
  <2> TAKE p \in DOMAIN g.recs
  <2>1. p = o => HasItsPlace(None, c2, p)
    <3>1. 1 \in DOMAIN c2 BY <1>13, <1>14
    <3> QED BY <1>14, <3>1 DEF HasItsPlace
  <2>2. ASSUME NEW i \in DOMAIN c, c[i] = p PROVE HasItsPlace(None, c2, p)
    <3>1. i + 1 \in DOMAIN c2 BY <1>13, <1>14
    <3> QED BY <1>14, <2>2, <3>1 DEF HasItsPlace
  <2>3. HasItsPlace(s, Chain(f, b), p) => p = o \/ \E i \in DOMAIN c : c[i] = p
    BY <1>4, <1>6 DEF HasItsPlace
  <2> QED BY <2>1, <2>2, <2>3
<1>19. Change(f, s, b, o, g, None, c2)
  <2>1. Own(f, s, o)
    <3>1. o # s.cur BY <1>7
    <3> QED BY <1>6, <3>1 DEF Own, Owned
  <2>2. /\ o \in DOMAIN g.recs /\ g.recs[o].type = "live" /\ g.recs[o].key \in Key /\ BucketOf[g.recs[o].key] = b
        /\ g.recs[o].val \in Value /\ Size[g.recs[o].val] <= g.recs[o].size
    BY <1>1, <1>3, <1>7, <1>8, <1>11
  <2> QED BY <2>1, <2>2, <1>2, <1>3, <1>11, <1>17, <1>18 DEF Change
<1>20. Taking(f, s) = Taking(g, None)
  <2>1. Taking(f, s) = Places(f) /\ Taking(g, None) = Places(g) BY DEF Taking
  <2>2. Places(g) = Places(f) BY <1>11 DEF Places
  <2> QED BY <2>1, <2>2
<1>21. \A j \in Key : Lookup(g, j) = IF j = k THEN s.val ELSE Lookup(f, j)
  <2> TAKE j \in Key
  <2>1. CASE BucketOf[j] # b
    <3>1. Lookup(g, j) = Lookup(f, j) BY <1>19, <2>1, ChangeGets
    <3> QED BY <2>1, <1>3, <3>1
  <2>2. CASE BucketOf[j] = b
    <3>1. Chained(f, BucketOf[j], c) /\ Chained(g, BucketOf[j], c2) BY <1>5, <1>17, <2>2
    <3>2. /\ \A i \in DOMAIN c : f.recs[c[i]].key = j => Lookup(f, j) = f.recs[c[i]].val
          /\ (\A i \in DOMAIN c : f.recs[c[i]].key # j) => Lookup(f, j) = None
          /\ \A i \in DOMAIN c2 : g.recs[c2[i]].key = j => Lookup(g, j) = g.recs[c2[i]].val
          /\ (\A i \in DOMAIN c2 : g.recs[c2[i]].key # j) => Lookup(g, j) = None
      BY <3>1, <1>11, GetOf
    <3>3. CASE j = k
      <4>1. 1 \in DOMAIN c2 /\ g.recs[c2[1]] = f.recs[o] BY <1>7, <1>11, <1>13, <1>14
      <4> QED BY <3>2, <3>3, <4>1, <1>8
    <3>4. CASE j # k
      <4>1. CASE \E i \in DOMAIN c : f.recs[c[i]].key = j
        <5>1. PICK i \in DOMAIN c : f.recs[c[i]].key = j BY <4>1
        <5>2. i + 1 \in DOMAIN c2 /\ c2[i + 1] = c[i] BY <1>13, <1>14
        <5>3. g.recs[c[i]] = f.recs[c[i]] BY <1>5, <1>11 DEF Chained, Live
        <5> QED BY <3>2, <3>4, <5>1, <5>2, <5>3
      <4>2. CASE \A i \in DOMAIN c : f.recs[c[i]].key # j
        <5>1. \A i \in DOMAIN c2 : g.recs[c2[i]] = f.recs[c2[i]] BY <1>11, <1>14
        <5>2. \A i \in DOMAIN c2 : g.recs[c2[i]].key # j BY <1>8, <1>14, <1>15, <3>4, <4>2, <5>1
        <5> QED BY <3>2, <3>4, <4>2, <5>2
      <4> QED BY <4>1, <4>2
    <3> QED BY <3>3, <3>4
  <2> QED BY <2>1, <2>2
<1>22. Gets(f, g, k, s.val) BY <1>21 DEF Gets
<1> QED BY <1>2, <1>19, <1>20, <1>22 DEF Does

(* A larger record takes the place of the old one in the chain. *)
LEMMA LinkOver ==
    ASSUME NEW f, IsFile(f), Live_Fit(f), AllChained(f), NEW s, Underway(f, s),
           s.pc = "link", s.cur # 0, NEW g, g = Linked(f, s),
           NEW s2, s2 = [s EXCEPT !.pc = "void"]
    PROVE  Does(f, s, g, s2) /\ Gets(f, g, s.key, s.val) /\ Underway(g, s2)
<1>1. s \in OpenSet /\ s.key \in Key /\ s.val \in Value BY DEF Underway, OpenSet
<1>2. PICK k \in Key : k = s.key BY <1>1
<1>3. PICK b \in Bucket : b = BucketOf[k] BY DatabaseAssumption
<1>4. PICK c : c = Chain(f, b) OBVIOUS
<1>5. Chained(f, b, c) BY <1>4 DEF AllChained
<1>6. PICK o : o = s.dest OBVIOUS
<1>7. PICK q : q = s.cur OBVIOUS
<1>8. /\ Find(f, k) = [cur |-> q, par |-> s.par] /\ q # 0
      /\ s.child = f.recs[q].child /\ s.was = Lookup(f, k)
      /\ Size[s.val] <= s.size /\ o # 0 /\ o # q /\ o \in DOMAIN f.recs
      /\ ~InChain(f, k, o)
      /\ f.recs[o] = [size |-> s.size, type |-> "live", key |-> k, val |-> s.val, child |-> s.child]
  BY <1>2, <1>6, <1>7 DEF Underway
<1>9. f.recs[o].size = s.size /\ f.recs[o].type = "live" /\ f.recs[o].key = k /\ f.recs[o].val = s.val
      /\ f.recs[o].child = f.recs[q].child
  BY <1>8
<1>10. Chained(f, BucketOf[k], c) /\ Find(f, k).cur = q /\ Find(f, k).par = s.par BY <1>3, <1>5, <1>8
<1>11. PICK i0 \in DOMAIN c : /\ f.recs[c[i0]].key = k
                              /\ Find(f, k) = [cur |-> c[i0], par |-> IF i0 = 1 THEN 0 ELSE c[i0 - 1]]
                              /\ Lookup(f, k) = f.recs[c[i0]].val
  BY <1>8, <1>10, FoundAt
<1>12. c[i0] = q /\ s.par = IF i0 = 1 THEN 0 ELSE c[i0 - 1] BY <1>10, <1>11
<1>13. PICK par : par = s.par OBVIOUS
<1>14. PICK n \in Nat : n = Len(c) /\ DOMAIN c = 1 .. n /\ c \in Seq(DOMAIN f.recs) BY <1>5, LenProperties DEF Chained
<1>15. 0 \notin DOMAIN f.recs BY DatabaseAssumption DEF IsFile, Base
<1>16. \A i \in DOMAIN c : c[i] \in DOMAIN f.recs /\ Live(f, c[i]) BY <1>5 DEF Chained, Live
<1>17. par # 0 => i0 - 1 \in DOMAIN c /\ par = c[i0 - 1]
  <2> HAVE par # 0
  <2>1. i0 # 1 /\ par = c[i0 - 1] BY <1>12, <1>13
  <2> QED BY <1>14, <2>1
<1>18. par = 0 => i0 = 1
  <2> SUFFICES ASSUME par = 0, i0 # 1 PROVE FALSE OBVIOUS
  <2>1. i0 - 1 \in DOMAIN c BY <1>14
  <2>2. c[i0 - 1] = 0 BY <1>12, <1>13
  <2> QED BY <2>1, <2>2, <1>15, <1>16
<1>19. LinkTo(f, g, b, par, o)
  <2>1. s.dest \in DOMAIN f.recs /\ (s.par # 0 => s.par \in DOMAIN f.recs) BY <1>6, <1>8, <1>13, <1>16, <1>17
  <2>2. LinkTo(f, Linked(f, s), BucketOf[s.key], s.par, s.dest) BY <1>1, <2>1, LinkedIs
  <2> QED BY <1>2, <1>3, <1>6, <1>13, <2>2
<1>20. PICK x : x = IF par = 0 THEN o ELSE par OBVIOUS
<1>21. /\ IsFile(g) /\ DOMAIN g.recs = DOMAIN f.recs /\ Touched(f, g, b, x)
       /\ \A p \in DOMAIN f.recs : /\ g.recs[p].size = f.recs[p].size /\ g.recs[p].type = f.recs[p].type
                                   /\ g.recs[p].key = f.recs[p].key /\ g.recs[p].val = f.recs[p].val
                                   /\ p # par => g.recs[p] = f.recs[p]
       /\ par # 0 => g.recs[par].child = o /\ g.bucket[b] = f.bucket[b]
       /\ par = 0 => g.bucket[b] = o
  <2>1. f.bucket \in [Bucket -> 0 .. MaxSize] BY DEF IsFile
  <2> QED BY <1>19, <1>20, <2>1 DEF LinkTo
<1>22. \A i \in DOMAIN c : c[i] # o BY <1>8, <1>10, ChainRange
<1>23. PICK c2 : c2 = [c EXCEPT ![i0] = o] OBVIOUS
<1>24. /\ c2 \in Seq(DOMAIN f.recs) /\ Len(c2) = n /\ DOMAIN c2 = 1 .. n
       /\ c2[i0] = o /\ \A i \in DOMAIN c : i # i0 => c2[i] = c[i]
  <2>1. c2 \in Seq(DOMAIN f.recs) /\ Len(c2) = Len(c)
    <3>1. PICK S : S = DOMAIN f.recs OBVIOUS
    <3>2. c \in Seq(S) /\ o \in S /\ i0 \in 1 .. Len(c) BY <1>8, <1>14, <3>1
    <3>3. [c EXCEPT ![i0] = o] \in Seq(S) /\ Len([c EXCEPT ![i0] = o]) = Len(c) BY <3>2, ExceptSeq
    <3> QED BY <1>23, <3>1, <3>3
  <2>2. DOMAIN c2 = 1 .. n BY <1>14, <1>23
  <2> QED BY <1>14, <1>23, <2>1, <2>2
<1>25. \A i, j \in DOMAIN c : c[i] = c[j] => i = j BY <1>5 DEF Chained, IsInjective
<1>26. \A i \in DOMAIN c : g.recs[c2[i]].key = f.recs[c[i]].key
  BY <1>9, <1>11, <1>16, <1>21, <1>24, <1>8
<1>27. Chained(g, b, c2)
  <2>1. c2 \in Seq(DOMAIN g.recs) BY <1>21, <1>24
  <2>2. \A i, j \in DOMAIN c2 : c2[i] = c2[j] => i = j BY <1>14, <1>22, <1>24, <1>25
  <2>3. IsInjective(c2) BY <2>2 DEF IsInjective
  <2>4. g.bucket[b] = IF c2 = <<>> THEN 0 ELSE c2[1]
    <3>1. n # 0 /\ c2 # <<>> /\ c # <<>> BY <1>14, <1>24
    <3>2. CASE par = 0 BY <1>18, <1>21, <1>24, <3>1, <3>2
    <3>3. CASE par # 0
      <4>1. i0 # 1 /\ 1 \in DOMAIN c BY <1>14, <1>17, <3>3, <3>1
      <4> QED BY <1>5, <1>21, <1>24, <3>1, <3>3, <4>1 DEF Chained
    <3> QED BY <3>2, <3>3
  <2>5. ASSUME NEW i \in DOMAIN c2
        PROVE  /\ Live(g, c2[i]) /\ g.recs[c2[i]].key \in Key /\ BucketOf[g.recs[c2[i]].key] = b
               /\ g.recs[c2[i]].child = IF i = Len(c2) THEN 0 ELSE c2[i + 1]
    <3>1. i \in DOMAIN c BY <1>14, <1>24
    <3>2. /\ Live(f, c[i]) /\ f.recs[c[i]].key \in Key /\ BucketOf[f.recs[c[i]].key] = b
          /\ f.recs[c[i]].child = IF i = Len(c) THEN 0 ELSE c[i + 1]
      BY <1>5, <3>1 DEF Chained
    <3>3. Live(g, c2[i]) BY <1>8, <1>9, <1>16, <1>21, <1>24, <3>1 DEF Live
    <3>4. g.recs[c2[i]].key \in Key /\ BucketOf[g.recs[c2[i]].key] = b BY <1>26, <3>1, <3>2
    <3>5. g.recs[c2[i]].child = IF i = Len(c2) THEN 0 ELSE c2[i + 1]
      <4>1. CASE i = i0
        <5>1. o # par BY <1>8, <1>15, <1>17, <1>22
        <5>2. g.recs[o].child = f.recs[q].child BY <1>8, <1>9, <1>21, <5>1
        <5>3. i # n => i + 1 \in DOMAIN c /\ i + 1 # i0 BY <1>14, <3>1, <4>1
        <5>4. i # n => c2[i + 1] = c[i + 1] BY <1>24, <5>3
        <5> QED BY <1>12, <1>14, <1>24, <3>2, <4>1, <5>2, <5>4
      <4>2. CASE par # 0 /\ i = i0 - 1
        <5>1. i # n /\ i + 1 = i0 /\ i # i0 BY <1>14, <4>2
        <5>2. c2[i] = par BY <1>17, <1>24, <3>1, <4>2, <5>1
        <5> QED BY <1>21, <1>24, <4>2, <5>1, <5>2
      <4>3. CASE i # i0 /\ ~(par # 0 /\ i = i0 - 1)
        <5>1. c[i] # par BY <1>15, <1>16, <1>17, <1>25, <3>1, <4>3
        <5>2. g.recs[c2[i]] = f.recs[c[i]] BY <1>16, <1>21, <1>24, <3>1, <4>3, <5>1
        <5>3. i # n => i + 1 \in DOMAIN c BY <1>14, <3>1
        <5>4. i + 1 # i0
          <6> SUFFICES ASSUME i + 1 = i0 PROVE FALSE OBVIOUS
          <6>1. i0 # 1 /\ i = i0 - 1 BY <1>14, <3>1
          <6> QED BY <6>1, <1>18, <4>3
        <5>5. i # n => c2[i + 1] = c[i + 1] BY <1>24, <5>3, <5>4
        <5> QED BY <1>14, <1>24, <3>2, <5>2, <5>5
      <4> QED BY <4>1, <4>2, <4>3
    <3> QED BY <3>3, <3>4, <3>5
  <2>6. \A i, j \in DOMAIN c2 : g.recs[c2[i]].key = g.recs[c2[j]].key => i = j
    <3>1. \A i, j \in DOMAIN c : f.recs[c[i]].key = f.recs[c[j]].key => i = j BY <1>5 DEF Chained
    <3>2. DOMAIN c = DOMAIN c2 BY <1>14, <1>24
    <3> QED BY <1>26, <3>1, <3>2
  <2> QED BY <2>1, <2>3, <2>4, <2>5, <2>6 DEF Chained
<1>28. i0 \in DOMAIN c2 /\ DOMAIN c2 = DOMAIN c BY <1>14, <1>24
<1>29. /\ s2 \in OpenSet /\ s2.pc = "void" /\ s2.key = k /\ s2.val = s.val /\ s2.cur = q
       /\ s2.dest = o /\ s2.was = s.was
  BY <1>1, <1>2, <1>6, <1>7 DEF OpenSet
<1>30. \A i \in DOMAIN c2 : c2[i] # q
  <2> TAKE i \in DOMAIN c2
  <2>1. CASE i = i0 BY <2>1, <1>8, <1>24
  <2>2. CASE i # i0
    <3>1. c2[i] = c[i] /\ c[i] # c[i0] BY <2>2, <1>24, <1>25, <1>28
    <3> QED BY <3>1, <1>12
  <2> QED BY <2>1, <2>2
<1>31. Chained(g, BucketOf[k], c2) BY <1>3, <1>27
<1>32. Underway(g, s2)
  <2>1. q \in DOMAIN g.recs /\ Live(g, q) /\ g.recs[q].key = k /\ g.recs[q].val = s.was
    <3>1. q \in DOMAIN f.recs /\ Live(f, q) BY <1>12, <1>16
    <3> QED BY <3>1, <1>8, <1>11, <1>12, <1>21 DEF Live
  <2>2. ~InChain(g, k, q)
    <3>0. IsFile(g) BY <1>21
    <3>1. Chain(g, BucketOf[k]) = c2 BY <3>0, <1>31, ChainIs
    <3> QED BY <1>30, <3>1 DEF InChain, Range
  <2>3. Find(g, k).cur = o
    <3>1. g.recs[c2[i0]].key = k BY <1>11, <1>26
    <3> QED BY <3>1, <1>21, <1>24, <1>28, <1>31, GetOf
  <2>4. g.recs[o].val = s.val BY <1>8, <1>9, <1>21
  <2> QED BY <2>1, <2>2, <2>3, <2>4, <1>8, <1>29 DEF Underway
<1>33. s2 # None BY <1>29, NoneAssumption
<1>34. \A p \in DOMAIN g.recs : Live(g, p) /\ (p = x \/ HasItsPlace(s, Chain(f, b), p)) => HasItsPlace(s2, c2, p)
  <2> TAKE p \in DOMAIN g.recs
  <2>1. p = o => HasItsPlace(s2, c2, p) BY <1>24, <1>28 DEF HasItsPlace
  <2>2. ASSUME NEW i \in DOMAIN c, c[i] = p PROVE HasItsPlace(s2, c2, p)
    <3>1. CASE i = i0 BY <1>12, <1>29, <1>33, <2>2, <3>1 DEF HasItsPlace
    <3>2. CASE i # i0 BY <1>24, <1>28, <2>2, <3>2 DEF HasItsPlace
    <3> QED BY <3>1, <3>2
  <2>3. p = x => p = o \/ \E i \in DOMAIN c : c[i] = p BY <1>17, <1>20
  <2>4. HasItsPlace(s, Chain(f, b), p) => p = o \/ \E i \in DOMAIN c : c[i] = p
    BY <1>4, <1>6 DEF HasItsPlace
  <2> QED BY <2>1, <2>2, <2>3, <2>4
<1>35. \A p : p = o \/ (\E i \in DOMAIN c : c[i] = p) => Own(f, s, p)
  <2>1. Own(f, s, o)
    <3>1. o # s.cur BY <1>7, <1>8
    <3> QED BY <1>6, <3>1 DEF Own, Owned
  <2>2. \A i \in DOMAIN c : InChain(f, s.key, c[i]) BY <1>2, <1>3, <1>4 DEF InChain, Range
  <2> QED BY <2>1, <2>2 DEF Own
<1>36. Change(f, s, b, x, g, s2, c2)
  <2>1. x \in DOMAIN f.recs /\ (x = o \/ \E i \in DOMAIN c : c[i] = x) BY <1>8, <1>16, <1>17, <1>20
  <2>2. Own(f, s, x) BY <1>35, <2>1
  <2>3. Live(f, x) /\ f.recs[x].key \in Key /\ BucketOf[f.recs[x].key] = b
    <3>1. CASE x = o BY <3>1, <1>3, <1>8, <1>9 DEF Live
    <3>2. CASE \E i \in DOMAIN c : c[i] = x BY <3>2, <1>5 DEF Chained
    <3> QED BY <2>1, <3>1, <3>2
  <2>4. /\ x \in DOMAIN g.recs /\ g.recs[x].type = "live" /\ g.recs[x].key \in Key /\ BucketOf[g.recs[x].key] = b
        /\ g.recs[x].val \in Value /\ Size[g.recs[x].val] <= g.recs[x].size
    BY <1>21, <2>1, <2>3 DEF Live, Live_Fit
  <2>5. \A p \in Owned(s2) : Own(f, s, p)
    <3>1. Owned(s2) = {q} BY <1>29 DEF Owned
    <3> QED BY <3>1, <1>12, <1>35
  <2> QED BY <2>2, <2>4, <2>5, <1>2, <1>3, <1>21, <1>27, <1>29, <1>32, <1>34 DEF Change
<1>37. Taking(f, s) = Taking(g, s2)
  <2>1. Taking(f, s) = Places(f) /\ Taking(g, s2) = Places(g) BY <1>29 DEF Taking
  <2>2. Places(g) = Places(f) BY <1>21 DEF Places
  <2> QED BY <2>1, <2>2
<1>38. \A j \in Key : Lookup(g, j) = IF j = k THEN s.val ELSE Lookup(f, j)
  <2> TAKE j \in Key
  <2>1. CASE BucketOf[j] # b
    <3>1. Lookup(g, j) = Lookup(f, j) BY <1>36, <2>1, ChangeGets
    <3> QED BY <2>1, <1>3, <3>1
  <2>2. CASE BucketOf[j] = b
    <3>1. Chained(f, BucketOf[j], c) /\ Chained(g, BucketOf[j], c2) BY <1>5, <1>27, <2>2
    <3>2. /\ \A i \in DOMAIN c : f.recs[c[i]].key = j => Lookup(f, j) = f.recs[c[i]].val
          /\ (\A i \in DOMAIN c : f.recs[c[i]].key # j) => Lookup(f, j) = None
          /\ \A i \in DOMAIN c2 : g.recs[c2[i]].key = j => Lookup(g, j) = g.recs[c2[i]].val
          /\ (\A i \in DOMAIN c2 : g.recs[c2[i]].key # j) => Lookup(g, j) = None
      BY <3>1, <1>21, GetOf, SMTT(30)
    <3>3. CASE j = k
      <4>1. g.recs[c2[i0]].key = k /\ g.recs[o].val = s.val BY <1>8, <1>9, <1>11, <1>21, <1>26
      <4> QED BY <3>2, <3>3, <4>1, <1>24, <1>28
    <3>4. CASE j # k
      <4>1. CASE \E i \in DOMAIN c : f.recs[c[i]].key = j
        <5>1. PICK i \in DOMAIN c : f.recs[c[i]].key = j BY <4>1
        <5>2. i # i0 /\ i \in DOMAIN c2 /\ g.recs[c2[i]].key = j BY <1>11, <1>26, <1>28, <3>4, <5>1
        <5>3. c2[i] = c[i] /\ g.recs[c[i]].val = f.recs[c[i]].val BY <1>16, <1>21, <1>24, <5>2
        <5> QED BY <3>2, <3>4, <5>1, <5>2, <5>3
      <4>2. CASE \A i \in DOMAIN c : f.recs[c[i]].key # j
        <5>1. \A i \in DOMAIN c2 : g.recs[c2[i]].key # j BY <1>26, <1>28, <4>2
        <5> QED BY <3>2, <3>4, <4>2, <5>1
      <4> QED BY <4>1, <4>2
    <3> QED BY <3>3, <3>4
  <2> QED BY <2>1, <2>2
<1>39. Gets(f, g, k, s.val) BY <1>38 DEF Gets
<1> QED BY <1>2, <1>32, <1>36, <1>37, <1>39 DEF Does

(* The old record is marked as void. *)
LEMMA VoidOver ==
    ASSUME NEW f, IsFile(f), Live_Fit(f), AllChained(f), NEW s, Underway(f, s),
           s.pc = "void", NEW g, g = Voided(f, s), NEW s2, s2 = [s EXCEPT !.pc = "free"]
    PROVE  Does(f, s, g, s2) /\ SameGets(f, g) /\ Underway(g, s2)
<1>1. s \in OpenSet /\ s.key \in Key /\ s.val \in Value BY DEF Underway, OpenSet
<1>2. PICK k \in Key : k = s.key BY <1>1
<1>3. PICK b \in Bucket : b = BucketOf[k] BY DatabaseAssumption
<1>4. PICK c : c = Chain(f, b) OBVIOUS
<1>5. Chained(f, b, c) BY <1>4 DEF AllChained
<1>6. PICK o : o = s.cur OBVIOUS
<1>7. /\ o # 0 /\ o \in DOMAIN f.recs /\ s.dest # 0
      /\ Find(f, k).cur = s.dest /\ f.recs[s.dest].val = s.val /\ ~InChain(f, k, o)
  BY <1>2, <1>6 DEF Underway
<1>8. PICK n \in 1 .. MaxSize : n = f.recs[o].size BY <1>7 DEF IsFile, Record
<1>9. PICK rec : rec = Void(n) OBVIOUS
<1>10. rec \in Record /\ rec.type = "void" /\ rec.size = n
  <2>1. 0 \in 0 .. MaxSize BY DatabaseAssumption
  <2> QED BY <2>1, <1>9 DEF Void, Record
<1>11. Wrote(f, g, o, rec)
  <2>1. g = WriteRecord(f, o, rec) BY <1>6, <1>8, <1>9 DEF Voided
  <2>2. o \in Base .. MaxSize BY <1>7 DEF IsFile
  <2> QED BY <2>1, <2>2, <1>10, WriteRecordIs
<1>12. Touched(f, g, b, o) /\ o \in DOMAIN g.recs /\ g.recs[o] = rec BY <1>11, WroteTouches
<1>13. /\ IsFile(g) /\ g.bucket = f.bucket /\ DOMAIN g.recs = DOMAIN f.recs
       /\ \A p \in DOMAIN f.recs : p # o => g.recs[p] = f.recs[p]
  BY <1>7, <1>11 DEF Wrote
<1>14. \A i \in DOMAIN c : c[i] # o /\ c[i] \in DOMAIN f.recs
  <2>1. Chained(f, BucketOf[k], c) BY <1>3, <1>5
  <2>2. Chain(f, BucketOf[k]) = c BY <2>1, ChainIs
  <2> QED BY <2>2, <1>5, <1>7 DEF InChain, Range, Chained, Live
<1>15. SameOn(f, g, b, c) BY <1>13, <1>14 DEF SameOn
<1>16. Chained(g, b, c) BY <1>5, <1>15, SameChain
<1>17. Find(g, k) = Find(f, k)
  <2>1. Chained(f, BucketOf[k], c) /\ SameOn(f, g, BucketOf[k], c) BY <1>3, <1>5, <1>15
  <2> QED BY <2>1, <1>13, SameFound
<1>18. g.recs[s.dest] = f.recs[s.dest]
  <2>1. Chained(f, BucketOf[k], c) /\ Find(f, k).cur # 0 BY <1>3, <1>5, <1>7
  <2>2. PICK i \in DOMAIN c : Find(f, k) = [cur |-> c[i], par |-> IF i = 1 THEN 0 ELSE c[i - 1]]
    BY <2>1, FoundAt
  <2>3. c[i] = s.dest BY <1>7, <2>2
  <2> QED BY <2>3, <1>15 DEF SameOn
<1>19. /\ s2 \in OpenSet /\ s2.pc = "free" /\ s2.key = k /\ s2.val = s.val /\ s2.cur = o /\ s2.dest = s.dest
  BY <1>1, <1>2, <1>6 DEF OpenSet
<1>20. Underway(g, s2)
  <2>1. g.recs[o] = Void(g.recs[o].size) BY <1>9, <1>10, <1>12
  <2> QED BY <2>1, <1>7, <1>12, <1>17, <1>18, <1>19 DEF Underway
<1>21. Change(f, s, b, o, g, s2, c)
  <2>1. Owned(s) = {o} /\ Owned(s2) = {o} BY <1>6, <1>19 DEF Owned
  <2>2. Own(f, s, o) /\ \A p \in Owned(s2) : Own(f, s, p) BY <2>1 DEF Own
  <2>3. g.recs[o].type # "torn" /\ ~Live(g, o) BY <1>10, <1>12 DEF Live
  <2>4. \A p \in DOMAIN g.recs : Live(g, p) /\ (p = o \/ HasItsPlace(s, Chain(f, b), p)) => HasItsPlace(s2, c, p)
    BY <2>3, <1>4, <1>6 DEF HasItsPlace
  <2> QED BY <2>2, <2>3, <2>4, <1>2, <1>3, <1>12, <1>16, <1>19, <1>20 DEF Change
<1>22. Taking(f, s) = Taking(g, s2)
  <2>1. Taking(f, s) = Places(f) /\ Taking(g, s2) = Places(g) BY <1>19 DEF Taking
  <2>2. \A p \in DOMAIN f.recs : g.recs[p].size = f.recs[p].size BY <1>8, <1>10, <1>12, <1>13
  <2>3. Places(g) = Places(f) BY <2>2, <1>13 DEF Places
  <2> QED BY <2>1, <2>3
<1>23. \A j \in Key : Lookup(g, j) = Lookup(f, j)
  <2> TAKE j \in Key
  <2>1. CASE BucketOf[j] # b BY <1>21, <2>1, ChangeGets
  <2>2. CASE BucketOf[j] = b
    <3>1. Chained(f, BucketOf[j], c) /\ SameOn(f, g, BucketOf[j], c) BY <1>5, <1>15, <2>2
    <3> QED BY <3>1, <1>13, SameFound
  <2> QED BY <2>1, <2>2
<1> QED BY <1>20, <1>21, <1>22, <1>23 DEF Does, SameGets

(* The block of the old record is given back. *)
LEMMA FreeAfter ==
    ASSUME NEW f, IsFile(f), AllChained(f), NEW s, Underway(f, s), s.pc = "free"
    PROVE  Does(f, s, f, None)
<1>1. s \in OpenSet /\ s.key \in Key BY DEF Underway, OpenSet
<1>2. PICK b \in Bucket : b = BucketOf[s.key] BY <1>1, DatabaseAssumption
<1>3. PICK c : c = Chain(f, b) OBVIOUS
<1>4. Chained(f, b, c) BY <1>3 DEF AllChained
<1>5. PICK o : o = s.cur OBVIOUS
<1>6. o \in DOMAIN f.recs /\ f.recs[o] = Void(f.recs[o].size) BY <1>5 DEF Underway
<1>7. f.recs[o].type = "void" /\ ~Live(f, o) BY <1>6 DEF Void, Live
<1>8. Touched(f, f, b, o) BY DEF Touched
<1>9. Own(f, s, o) BY <1>5 DEF Own, Owned
<1>10. \A p \in DOMAIN f.recs : Live(f, p) /\ (p = o \/ HasItsPlace(s, Chain(f, b), p)) => HasItsPlace(None, c, p)
  BY <1>3, <1>7 DEF HasItsPlace
<1>11. Change(f, s, b, o, f, None, c) BY <1>2, <1>4, <1>6, <1>7, <1>8, <1>9, <1>10 DEF Change
<1>12. Taking(f, s) = Taking(f, None) BY DEF Taking
<1> QED BY <1>11, <1>12 DEF Does

LEMMA InsertIs ==
    ASSUME NEW blocks, NEW b
    PROVE  InsertFreeBlock(blocks, b) \subseteq blocks \union {b}
BY DEF InsertFreeBlock

LEMMA FreeStep ==
    ASSUME NEW T, NEW f, NEW e, NEW ops, Orderly(T, f, e, ops), NEW t \in T, ops[t] # None, ops[t].pc = "free",
           NEW ops2, Becomes(T, ops, t, None, ops2), NEW blocks, AllFree(T, f, blocks, ops)
    PROVE  Orderly(T, f, e, ops2) /\ AllFree(T, f, Freed(f, blocks, ops[t]), ops2)
<1>1. IsFile(f) /\ AllChained(f) /\ Underway(f, ops[t]) BY DEF Orderly
<1>2. Does(f, ops[t], f, None) BY <1>1, FreeAfter
<1>3. /\ Orderly(T, f, e, ops2)
      /\ \A a : AllFree(T, f, a, ops) => AllFree(T, f, a, ops2)
  BY <1>2, DoesStep
<1>4. AllFree(T, f, blocks, ops2) BY <1>3
<1>5. PICK o : o = ops[t].cur OBVIOUS
<1>6. PICK x : x = [offset |-> o, size |-> f.recs[o].size] OBVIOUS
<1>7. Freed(f, blocks, ops[t]) \subseteq blocks \union {x} BY <1>5, <1>6, InsertIs DEF Freed
<1>8. /\ o \in DOMAIN f.recs /\ f.recs[o] = Void(f.recs[o].size) /\ f.recs[o].size \in 1 .. MaxSize
      /\ o \in Base .. MaxSize
  <2>1. o \in DOMAIN f.recs /\ f.recs[o] = Void(f.recs[o].size) BY <1>1, <1>5 DEF Underway
  <2> QED BY <1>1, <2>1 DEF IsFile, Record
<1>9. x \in Block /\ x.offset = o /\ x.size = f.recs[o].size BY <1>6, <1>8 DEF Block
<1>10. \A u \in T : ops2[u] # None => o \notin Owned(ops2[u])
  <2>1. Own(f, ops[t], o) BY <1>5 DEF Own, Owned
  <2>2. \A u \in T \ {t} : ops[u] # None => o \notin Owned(ops[u]) BY <2>1, Mine
  <2>3. ops2[t] = None /\ \A u \in T \ {t} : ops2[u] = ops[u] BY DEF Becomes
  <2> QED BY <2>2, <2>3
<1>11. AllFree(T, f, Freed(f, blocks, ops[t]), ops2)
  BY <1>4, <1>7, <1>8, <1>9, <1>10 DEF AllFree
<1> QED BY <1>3, <1>11

-----------------------------------------------------------------------------
(* Set, by a thread that is alone. *)

One(s) == [u \in {0} |-> s]

(* A database with one Set in it, or none. *)
Steady(db, s) ==
    /\ db = [file |-> db.file, end |-> db.end, pool |-> db.pool]
    /\ Orderly({0}, db.file, db.end, One(s))
    /\ AllFree({0}, db.file, db.pool, One(s))

LEMMA SteadyIs ==
    ASSUME NEW f, NEW e, NEW blocks, NEW s, Orderly({0}, f, e, One(s)), AllFree({0}, f, blocks, One(s)),
           NEW db, db = [file |-> f, end |-> e, pool |-> blocks]
    PROVE  Steady(db, s)
<1>1. db.file = f /\ db.end = e /\ db.pool = blocks OBVIOUS
<1> QED BY <1>1 DEF Steady

LEMMA OneBecomes ==
    ASSUME NEW s, NEW s2
    PROVE  /\ One(s)[0] = s /\ 0 \in {0} /\ DOMAIN One(s) = {0}
           /\ [One(s) EXCEPT ![0] = s2] = One(s2)
           /\ Becomes({0}, One(s), 0, s2, One(s2))
<1>1. [One(s) EXCEPT ![0] = s2] = One(s2) BY DEF One
<1> QED BY <1>1 DEF One, Becomes

OtherFile(db, g, db2) == db2 = [db EXCEPT !.file = g]

LEMMA SteadyStep ==
    ASSUME NEW db, NEW s, Steady(db, s), s # None, NEW g, NEW s2, Does(db.file, s, g, s2),
           NEW db2, OtherFile(db, g, db2)
    PROVE  Steady(db2, s2) /\ db2.file = g /\ db2.end = db.end /\ db2.pool = db.pool
<1>1. PICK f, e, blocks : f = db.file /\ e = db.end /\ blocks = db.pool OBVIOUS
<1>2. PICK ops, ops2, t : ops = One(s) /\ ops2 = One(s2) /\ t = 0 OBVIOUS
<1>3. PICK T : T = {0} OBVIOUS
<1>4. Orderly(T, f, e, ops) /\ AllFree(T, f, blocks, ops) /\ db = [file |-> f, end |-> e, pool |-> blocks]
  BY <1>1, <1>2, <1>3 DEF Steady
<1>5. t \in T /\ ops[t] = s /\ Becomes(T, ops, t, s2, ops2) BY <1>2, <1>3, OneBecomes
<1>6. Does(f, ops[t], g, s2) /\ ops[t] # None BY <1>1, <1>5
<1>7. Orderly(T, g, e, ops2) /\ AllFree(T, g, blocks, ops2) BY <1>4, <1>5, <1>6, DoesStep
<1>8. db2 = [file |-> g, end |-> e, pool |-> blocks] BY <1>4 DEF OtherFile
<1>9. Steady(db2, s2) BY <1>2, <1>3, <1>7, <1>8, SteadyIs
<1> QED BY <1>1, <1>8, <1>9

(* The steps leave the metadata alone. *)
LEMMA SameMeta ==
    ASSUME NEW f, IsFile(f), NEW s
    PROVE  Written(f, s).meta = f.meta /\ Linked(f, s).meta = f.meta /\ Voided(f, s).meta = f.meta
<1>1. f = [meta |-> f.meta, synced |-> f.synced, saved |-> f.saved, bucket |-> f.bucket, recs |-> f.recs]
  BY DEF IsFile
<1>2. \A r : [f EXCEPT !.recs = r].meta = f.meta BY <1>1
<1>3. \A o, rec : WriteRecord(f, o, rec).meta = f.meta BY <1>2 DEF WriteRecord
<1>4. Linked(f, s).meta = f.meta BY <1>1 DEF Linked
<1> QED BY <1>3, <1>4 DEF Written, Voided

(* How far a Set of v at k in db0 has come. *)
Going(db0, k, v, d) ==
    /\ Steady(d.db, d.s)
    /\ d.db.file.meta = db0.file.meta
    /\ db0.end \in Nat /\ d.db.end \in Nat /\ d.db.end <= db0.end + Size[v]
    /\ d.s # None =>
         /\ Underway(d.db.file, d.s) /\ d.s.key = k /\ d.s.val = v
         /\ d.s.pc \in {"place", "write", "link"} => SameGets(db0.file, d.db.file)
         /\ d.s.pc \in {"void", "free"} => Gets(db0.file, d.db.file, k, v)
         /\ d.s.pc = "place" => d.db.end = db0.end /\ d.s.size = Size[v]
    /\ d.s = None => Gets(db0.file, d.db.file, k, v)

(* What d2 is after a step of d. *)
Further(d, d2) ==
    \/ d2.s = None
    \/ d.s # None /\ (\/ d.s.pc = "place" /\ d2.s.pc = "write"
                      \/ d.s.pc = "write" /\ d2.s.pc = "link"
                      \/ d.s.pc = "link" /\ d2.s.pc = "void"
                      \/ d.s.pc = "void" /\ d2.s.pc = "free")

LEMMA GetsAfter ==
    ASSUME NEW f, NEW g, NEW h, NEW k, NEW v
    PROVE  /\ SameGets(f, g) /\ SameGets(g, h) => SameGets(f, h)
           /\ SameGets(f, g) /\ Gets(g, h, k, v) => Gets(f, h, k, v)
           /\ Gets(f, g, k, v) /\ SameGets(g, h) => Gets(f, h, k, v)
           /\ SameGets(f, f)
BY DEF SameGets, Gets

(* What the next step does. *)
LEMMA SteppedIs ==
    ASSUME NEW d
    PROVE  /\ d.s = None => Stepped(d) = d
           /\ At(d, "place") => Stepped(d) = Placed(d.db, d.s)
           /\ At(d, "write") => Stepped(d) = InFile(d, Written(d.db.file, d.s), AfterWrite(d.s))
           /\ At(d, "link") => Stepped(d) = InFile(d, Linked(d.db.file, d.s), AfterLink(d.s))
           /\ At(d, "void") => Stepped(d) = InFile(d, Voided(d.db.file, d.s), [d.s EXCEPT !.pc = "free"])
           /\ At(d, "free") => Stepped(d) = InPool(d, Freed(d.db.file, d.db.pool, d.s))
<1>1. \A p, q \in {"place", "write", "link", "void", "free"} : p # q /\ At(d, p) => ~At(d, q) BY DEF At
<1>2. d.s = None => \A p : ~At(d, p) BY DEF At
<1> QED BY <1>1, <1>2 DEF Stepped

LEMMA GoingOn ==
    ASSUME NEW db0, NEW k \in Key, NEW v \in Value, NEW d, Going(db0, k, v, d),
           db0.end + Size[v] <= MaxSize + 1, NEW d2, d2 = Stepped(d)
    PROVE  Going(db0, k, v, d2) /\ Further(d, d2)
<1>1. CASE d.s = None
  <2>1. d2 = d BY <1>1, SteppedIs
  <2> QED BY <1>1, <2>1 DEF Further
<1> SUFFICES ASSUME d.s # None PROVE Going(db0, k, v, d2) /\ Further(d, d2) BY <1>1
<1>2. PICK db, s : db = d.db /\ s = d.s OBVIOUS
<1>3. /\ Steady(db, s) /\ s # None /\ db.file.meta = db0.file.meta
      /\ db0.end \in Nat /\ db.end \in Nat /\ db.end <= db0.end + Size[v]
      /\ Underway(db.file, s) /\ s.key = k /\ s.val = v
      /\ s.pc \in {"place", "write", "link"} => SameGets(db0.file, db.file)
      /\ s.pc \in {"void", "free"} => Gets(db0.file, db.file, k, v)
      /\ s.pc = "place" => db.end = db0.end /\ s.size = Size[v]
  BY <1>2 DEF Going
<1>4. PICK f : f = db.file OBVIOUS
<1>5. IsFile(f) /\ Live_Fit(f) /\ AllChained(f) /\ Underway(f, s) /\ s \in OpenSet
  BY <1>3, <1>4 DEF Steady, Orderly, Underway
<1>6. s.pc \in {"place", "write", "link", "void", "free"} BY <1>5 DEF OpenSet
<1>7. CASE s.pc = "place"
  <2>0. At(d, "place") BY <1>2, <1>7 DEF At
  <2>1. d2 = Placed(db, s) BY <1>2, <2>0, SteppedIs
  <2>2. PICK e, blocks : e = db.end /\ blocks = db.pool OBVIOUS
  <2>3. PICK T, ops, t : T = {0} /\ ops = One(s) /\ t = 0 OBVIOUS
  <2>4. Orderly(T, f, e, ops) /\ AllFree(T, f, blocks, ops) /\ db = [file |-> f, end |-> e, pool |-> blocks]
    BY <1>3, <1>4, <2>2, <2>3 DEF Steady
  <2>5. t \in T /\ ops[t] = s /\ DOMAIN ops = T BY <2>3, OneBecomes
  <2>6. d2 = Placed(db, ops[t]) /\ Parts(db, f, e, blocks) BY <2>1, <2>4, <2>5 DEF Parts
  <2>7. d2.db.end \in {e, e + Size[v]} /\ blocks \subseteq Block
    <3>1. blocks \subseteq Block BY <2>4 DEF AllFree
    <3>2. db.pool \subseteq Block BY <2>2, <3>1
    <3>3. \/ d2.db = [db EXCEPT !.end = @ + s.size]
          \/ \E b : TakenFor(db, s, d2, b)
      BY <2>1, <3>2, PlacedIs
    <3>4. d2.db.end \in {e, e + s.size} BY <2>4, <3>3 DEF TakenFor
    <3> QED BY <1>3, <1>7, <3>1, <3>4
  <2>8. d2.db.end <= MaxSize + 1 /\ d2.db.end \in Nat /\ d2.db.end <= db0.end + Size[v]
    BY <1>3, <1>7, <2>2, <2>7, DatabaseAssumption
  <2>9. PICK ops2, e2, blocks2, s2 : ops2 = One(s2) /\ e2 = d2.db.end /\ blocks2 = d2.db.pool /\ s2 = d2.s
    <3>1. PICK s2 : s2 = d2.s OBVIOUS
    <3> QED BY <3>1
  <2>10. /\ Parts(d2.db, f, e2, blocks2)
         /\ Orderly(T, f, e2, ops2)
         /\ AllFree(T, f, blocks2, ops2)
         /\ HasPlace(ops[t], s2) /\ Underway(f, s2)
    <3>1. Placing(db, ops[t], d2, e2, blocks2, s2) BY <1>3, <1>7, <2>5, <2>6, <2>8, <2>9 DEF Placing
    <3>2. Becomes(T, ops, t, s2, ops2) BY <2>3, <2>9, OneBecomes
    <3>3. Orderly(T, f, e, ops) BY <2>4
    <3>4. AllFree(T, f, blocks, ops) BY <2>4
    <3>5. Parts(db, f, e, blocks) BY <2>6
    <3> QED BY ONLY <3>1, <3>2, <3>3, <3>4, <3>5, PlaceStep, ZenonT(60)
  <2>11. Steady(d2.db, d2.s) /\ d2.db.file = f
    <3>1. d2.db = [file |-> f, end |-> d2.db.end, pool |-> d2.db.pool] BY <2>9, <2>10 DEF Parts
    <3>2. d2.db.file = f BY <3>1
    <3> QED BY <2>3, <2>9, <2>10, <3>1, <3>2 DEF Steady
  <2>12. d2.db.file = f BY <2>11
  <2>13. d2.s # None BY <2>9, <2>10, NoneAssumption DEF Underway
  <2>14. d2.s.pc = "write" /\ d2.s.key = k /\ d2.s.val = v BY <1>3, <2>5, <2>9, <2>10 DEF HasPlace
  <2>15. Further(d, d2) BY <1>2, <1>7, <2>14 DEF Further
  <2> QED BY <1>3, <1>4, <1>7, <2>8, <2>9, <2>10, <2>11, <2>12, <2>13, <2>14, <2>15 DEF Going
<1>8. CASE s.pc = "write"
  <2>1. PICK g, s2 : g = Written(f, s) /\ s2 = AfterWrite(s) OBVIOUS
  <2>2. d2 = [db |-> [db EXCEPT !.file = g], s |-> s2]
    <3>1. At(d, "write") BY <1>2, <1>8 DEF At
    <3>2. d2 = InFile(d, g, s2) BY <1>2, <1>4, <2>1, <3>1, SteppedIs
    <3> QED BY <1>2, <3>2 DEF InFile
  <2>3. g.meta = f.meta BY <1>5, <2>1, SameMeta
  <2>4. CASE s.dest = s.cur
    <3>1. s2 = None BY <2>1, <2>4 DEF AfterWrite
    <3>2. Does(f, s, g, s2) /\ Gets(f, g, k, v) BY <1>3, <1>5, <1>8, <2>1, <2>4, <3>1, WriteOver
    <3>3. Steady(d2.db, s2) /\ d2.db.file = g /\ d2.db.end = db.end
      <4>0. PICK db2 : db2 = [db EXCEPT !.file = g] OBVIOUS
      <4>1. OtherFile(db, g, db2) BY <4>0 DEF OtherFile
      <4>2. Does(db.file, s, g, s2) BY <1>4, <3>2
      <4>3. Steady(db2, s2) /\ db2.file = g /\ db2.end = db.end BY <1>3, <4>1, <4>2, SteadyStep
      <4>4. d2.db = db2 BY <2>2, <4>0
      <4> QED BY <4>3, <4>4
    <3>4. d2.s = None /\ d2.s = s2 BY <2>2, <3>1
    <3>5. Gets(db0.file, g, k, v) BY <1>3, <1>4, <1>8, <3>2, GetsAfter
    <3> QED BY <1>3, <1>4, <2>3, <3>3, <3>4, <3>5 DEF Going, Further
  <2>5. CASE s.dest # s.cur
    <3>1. s2 = [s EXCEPT !.pc = "link"] BY <2>1, <2>5 DEF AfterWrite
    <3>2. Does(f, s, g, s2) /\ SameGets(f, g) /\ Underway(g, s2) BY <1>5, <1>8, <2>1, <2>5, <3>1, WriteFresh
    <3>3. Steady(d2.db, s2) /\ d2.db.file = g /\ d2.db.end = db.end
      <4>0. PICK db2 : db2 = [db EXCEPT !.file = g] OBVIOUS
      <4>1. OtherFile(db, g, db2) BY <4>0 DEF OtherFile
      <4>2. Does(db.file, s, g, s2) BY <1>4, <3>2
      <4>3. Steady(db2, s2) /\ db2.file = g /\ db2.end = db.end BY <1>3, <4>1, <4>2, SteadyStep
      <4>4. d2.db = db2 BY <2>2, <4>0
      <4> QED BY <4>3, <4>4
    <3>4. d2.s = s2 /\ s2.pc = "link" /\ s2.key = k /\ s2.val = v BY <1>3, <1>5, <2>2, <3>1 DEF OpenSet
    <3>5. SameGets(db0.file, g) BY <1>3, <1>4, <1>8, <3>2, GetsAfter
    <3>6. Further(d, d2) BY <1>2, <1>8, <3>4 DEF Further
    <3>7. s2 # None BY <3>2, NoneAssumption DEF Underway
    <3> QED BY <1>3, <1>4, <2>3, <3>2, <3>3, <3>4, <3>5, <3>6, <3>7 DEF Going
  <2> QED BY <2>4, <2>5
<1>9. CASE s.pc = "link"
  <2>1. PICK g, s2 : g = Linked(f, s) /\ s2 = AfterLink(s) OBVIOUS
  <2>2. d2 = [db |-> [db EXCEPT !.file = g], s |-> s2]
    <3>1. At(d, "link") BY <1>2, <1>9 DEF At
    <3>2. d2 = InFile(d, g, s2) BY <1>2, <1>4, <2>1, <3>1, SteppedIs
    <3> QED BY <1>2, <3>2 DEF InFile
  <2>3. g.meta = f.meta BY <1>5, <2>1, SameMeta
  <2>4. CASE s.cur = 0
    <3>1. s2 = None BY <2>1, <2>4 DEF AfterLink
    <3>2. Does(f, s, g, s2) /\ Gets(f, g, k, v) BY <1>3, <1>5, <1>9, <2>1, <2>4, <3>1, LinkFirst
    <3>3. Steady(d2.db, s2) /\ d2.db.file = g /\ d2.db.end = db.end
      <4>0. PICK db2 : db2 = [db EXCEPT !.file = g] OBVIOUS
      <4>1. OtherFile(db, g, db2) BY <4>0 DEF OtherFile
      <4>2. Does(db.file, s, g, s2) BY <1>4, <3>2
      <4>3. Steady(db2, s2) /\ db2.file = g /\ db2.end = db.end BY <1>3, <4>1, <4>2, SteadyStep
      <4>4. d2.db = db2 BY <2>2, <4>0
      <4> QED BY <4>3, <4>4
    <3>4. d2.s = None /\ d2.s = s2 BY <2>2, <3>1
    <3>5. Gets(db0.file, g, k, v) BY <1>3, <1>4, <1>9, <3>2, GetsAfter
    <3> QED BY <1>3, <1>4, <2>3, <3>3, <3>4, <3>5 DEF Going, Further
  <2>5. CASE s.cur # 0
    <3>1. s2 = [s EXCEPT !.pc = "void"] BY <2>1, <2>5 DEF AfterLink
    <3>2. Does(f, s, g, s2) /\ Gets(f, g, k, v) /\ Underway(g, s2) BY <1>3, <1>5, <1>9, <2>1, <2>5, <3>1, LinkOver
    <3>3. Steady(d2.db, s2) /\ d2.db.file = g /\ d2.db.end = db.end
      <4>0. PICK db2 : db2 = [db EXCEPT !.file = g] OBVIOUS
      <4>1. OtherFile(db, g, db2) BY <4>0 DEF OtherFile
      <4>2. Does(db.file, s, g, s2) BY <1>4, <3>2
      <4>3. Steady(db2, s2) /\ db2.file = g /\ db2.end = db.end BY <1>3, <4>1, <4>2, SteadyStep
      <4>4. d2.db = db2 BY <2>2, <4>0
      <4> QED BY <4>3, <4>4
    <3>4. d2.s = s2 /\ s2.pc = "void" /\ s2.key = k /\ s2.val = v BY <1>3, <1>5, <2>2, <3>1 DEF OpenSet
    <3>5. Gets(db0.file, g, k, v) BY <1>3, <1>4, <1>9, <3>2, GetsAfter
    <3>6. Further(d, d2) BY <1>2, <1>9, <3>4 DEF Further
    <3>7. s2 # None BY <3>2, NoneAssumption DEF Underway
    <3> QED BY <1>3, <1>4, <2>3, <3>2, <3>3, <3>4, <3>5, <3>6, <3>7 DEF Going
  <2> QED BY <2>4, <2>5
<1>10. CASE s.pc = "void"
  <2>1. PICK g, s2 : g = Voided(f, s) /\ s2 = [s EXCEPT !.pc = "free"] OBVIOUS
  <2>2. d2 = [db |-> [db EXCEPT !.file = g], s |-> s2]
    <3>1. At(d, "void") BY <1>2, <1>10 DEF At
    <3>2. d2 = InFile(d, g, s2) BY <1>2, <1>4, <2>1, <3>1, SteppedIs
    <3> QED BY <1>2, <3>2 DEF InFile
  <2>3. g.meta = f.meta BY <1>5, <2>1, SameMeta
  <2>4. Does(f, s, g, s2) /\ SameGets(f, g) /\ Underway(g, s2) BY <1>5, <1>10, <2>1, VoidOver
  <2>5. Steady(d2.db, s2) /\ d2.db.file = g /\ d2.db.end = db.end
    <3>0. PICK db2 : db2 = [db EXCEPT !.file = g] OBVIOUS
    <3>1. OtherFile(db, g, db2) BY <3>0 DEF OtherFile
    <3>2. Does(db.file, s, g, s2) BY <1>4, <2>4
    <3>3. Steady(db2, s2) /\ db2.file = g /\ db2.end = db.end BY <1>3, <3>1, <3>2, SteadyStep
    <3>4. d2.db = db2 BY <2>2, <3>0
    <3> QED BY <3>3, <3>4
  <2>6. d2.s = s2 /\ s2.pc = "free" /\ s2.key = k /\ s2.val = v BY <1>3, <1>5, <2>1, <2>2 DEF OpenSet
  <2>7. Gets(db0.file, g, k, v) BY <1>3, <1>4, <1>10, <2>4, GetsAfter
  <2>8. Further(d, d2) BY <1>2, <1>10, <2>6 DEF Further
  <2>9. s2 # None BY <2>4, NoneAssumption DEF Underway
  <2> QED BY <1>3, <1>4, <2>3, <2>4, <2>5, <2>6, <2>7, <2>8, <2>9 DEF Going
<1>11. CASE s.pc = "free"
  <2>1. PICK e, blocks : e = db.end /\ blocks = db.pool OBVIOUS
  <2>2. PICK T, ops, ops2, t : T = {0} /\ ops = One(s) /\ ops2 = One(None) /\ t = 0 OBVIOUS
  <2>3. Orderly(T, f, e, ops) /\ AllFree(T, f, blocks, ops) /\ db = [file |-> f, end |-> e, pool |-> blocks]
    BY <1>3, <1>4, <2>1, <2>2 DEF Steady
  <2>4. t \in T /\ ops[t] = s /\ Becomes(T, ops, t, None, ops2) BY <2>2, OneBecomes
  <2>5. Orderly(T, f, e, ops2) /\ AllFree(T, f, Freed(f, blocks, ops[t]), ops2)
    BY <1>3, <1>11, <2>3, <2>4, FreeStep
  <2>6. PICK b2 : b2 = Freed(f, blocks, s) OBVIOUS
  <2>7. d2 = [db |-> [db EXCEPT !.pool = b2], s |-> None]
    <3>1. At(d, "free") BY <1>2, <1>11 DEF At
    <3>2. d2 = InPool(d, b2) BY <1>2, <1>4, <2>1, <2>6, <3>1, SteppedIs
    <3> QED BY <1>2, <3>2 DEF InPool
  <2>8. d2.db = [file |-> f, end |-> e, pool |-> b2] /\ d2.s = None BY <2>3, <2>7
  <2>9. Steady(d2.db, None) BY <2>2, <2>4, <2>5, <2>6, <2>8, SteadyIs
  <2>10. d2.db.file = f /\ d2.db.end = e BY <2>8
  <2> QED BY <1>3, <1>4, <1>11, <2>1, <2>8, <2>9, <2>10 DEF Going, Further
<1> QED BY <1>6, <1>7, <1>8, <1>9, <1>10, <1>11

(* A Set that is alone runs to its end, and only its key changes. *)
LEMMA SetIs ==
    ASSUME NEW db0, Steady(db0, None), NEW k \in Key, NEW v \in Value,
           db0.end \in Nat, db0.end + Size[v] <= MaxSize + 1, NEW db2, db2 = Set(db0, k, v)
    PROVE  /\ Steady(db2, None) /\ Gets(db0.file, db2.file, k, v) /\ db2.file.meta = db0.file.meta
           /\ db2.end \in Nat /\ db2.end <= db0.end + Size[v]
<1>1. PICK f, e, blocks : f = db0.file /\ e = db0.end /\ blocks = db0.pool OBVIOUS
<1>2. PICK T, ops, t : T = {0} /\ ops = One(None) /\ t = 0 OBVIOUS
<1>3. Orderly(T, f, e, ops) /\ AllFree(T, f, blocks, ops) /\ db0 = [file |-> f, end |-> e, pool |-> blocks]
  BY <1>1, <1>2 DEF Steady
<1>4. t \in T /\ ops[t] = None /\ DOMAIN ops = T /\ T = {t} BY <1>2, OneBecomes
<1>5. PICK s : s = Started(f, k, v) OBVIOUS
<1>6. IsFile(f) /\ Live_Fit(f) /\ AllChained(f) BY <1>3 DEF Orderly
<1>7. /\ Underway(f, s) /\ s.key = k /\ s.val = v
      /\ s.pc \in {"place", "write"} /\ Owned(s) = {}
      /\ s.pc = "place" => s.size = Size[v]
  BY <1>5, <1>6, StartedIs
<1>8. PICK d0 : d0 = [db |-> db0, s |-> s] OBVIOUS
<1>9. d0.db = db0 /\ d0.s = s BY <1>8
<1>10. Orderly(T, f, e, [ops EXCEPT ![t] = s]) BY <1>3, <1>4, <1>5, BeginStep
<1>11. [ops EXCEPT ![t] = s] = One(s) BY <1>2, OneBecomes
<1>12. AllFree(T, f, blocks, One(s))
  <2>1. \A u \in T : One(s)[u] = s BY <1>2, OneBecomes
  <2>2. \A b \in blocks : b \in Block /\ b.offset \in DOMAIN f.recs /\ f.recs[b.offset] = Void(b.size)
    BY <1>3 DEF AllFree
  <2> QED BY <2>1, <2>2, <1>7 DEF AllFree
<1>13. Steady(db0, s) BY <1>1, <1>2, <1>3, <1>10, <1>11, <1>12, SteadyIs
<1>14. Size[v] \in Nat BY DatabaseAssumption
<1>15. s # None BY <1>7, NoneAssumption DEF Underway
<1>16. SameGets(db0.file, db0.file) BY DEF SameGets
<1>17. Going(db0, k, v, d0)
  BY <1>1, <1>7, <1>9, <1>13, <1>14, <1>15, <1>16 DEF Going
<1>18. PICK d1 : d1 = Stepped(d0) OBVIOUS
<1>19. PICK d2 : d2 = Stepped(d1) OBVIOUS
<1>20. PICK d3 : d3 = Stepped(d2) OBVIOUS
<1>21. PICK d4 : d4 = Stepped(d3) OBVIOUS
<1>22. PICK d5 : d5 = Stepped(d4) OBVIOUS
<1>23. Going(db0, k, v, d1) /\ Further(d0, d1) BY <1>17, <1>18, GoingOn
<1>24. Going(db0, k, v, d2) /\ Further(d1, d2) BY <1>19, <1>23, GoingOn
<1>25. Going(db0, k, v, d3) /\ Further(d2, d3) BY <1>20, <1>24, GoingOn
<1>26. Going(db0, k, v, d4) /\ Further(d3, d4) BY <1>21, <1>25, GoingOn
<1>27. Going(db0, k, v, d5) /\ Further(d4, d5) BY <1>22, <1>26, GoingOn
<1>28. d5.s = None BY <1>23, <1>24, <1>25, <1>26, <1>27 DEF Further
<1>29. db2 = d5.db
  <2>1. Set(db0, k, v) = Twice(Twice(d1)).db BY <1>1, <1>5, <1>8, <1>18 DEF Set
  <2>2. Twice(d1) = d3 BY <1>19, <1>20 DEF Twice
  <2>3. Twice(d3) = d5 BY <1>21, <1>22 DEF Twice
  <2> QED BY <2>1, <2>2, <2>3
<1> QED BY <1>27, <1>28, <1>29 DEF Going

-----------------------------------------------------------------------------
(* What a restoration reads. *)

(* The records of an image lie behind one another, inside the file. *)
LEMMA ImageIs ==
    ASSUME NEW f, IsFile(f), Apart(Places(f))
    PROVE  \A o \in DOMAIN f.recs :
             /\ o \in Base .. MaxSize /\ f.recs[o] \in Record /\ f.recs[o].size \in 1 .. MaxSize
             /\ o + f.recs[o].size <= MaxSize + 1
             /\ \A p \in DOMAIN f.recs : o < p => o + f.recs[o].size <= p
<1> TAKE o \in DOMAIN f.recs
<1>1. o \in Base .. MaxSize /\ f.recs[o] \in Record BY DEF IsFile
<1>2. f.recs[o].size \in 1 .. MaxSize BY <1>1 DEF Record
<1>3. \A p \in DOMAIN f.recs : [offset |-> p, size |-> f.recs[p].size] \in Places(f) BY DEF Places
<1>4. PICK x : x = [offset |-> o, size |-> f.recs[o].size] OBVIOUS
<1>5. x \in Places(f) /\ x.offset = o /\ x.size = f.recs[o].size BY <1>3, <1>4
<1>6. o + f.recs[o].size <= MaxSize + 1 BY <1>5 DEF Apart
<1>7. ASSUME NEW p \in DOMAIN f.recs, o < p PROVE o + f.recs[o].size <= p
  <2>1. PICK y : y = [offset |-> p, size |-> f.recs[p].size] OBVIOUS
  <2>2. y \in Places(f) /\ y.offset = p BY <1>3, <2>1
  <2> QED BY <1>5, <1>7, <2>2 DEF Apart
<1> QED BY <1>1, <1>2, <1>6, <1>7

LEMMA EndIs ==
    ASSUME NEW f, IsFile(f), Apart(Places(f))
    PROVE  /\ EndOf(f) \in Base .. MaxSize + 1
           /\ \A o \in DOMAIN f.recs : o + f.recs[o].size <= EndOf(f)
           /\ EndOf(f) = Base \/ \E o \in DOMAIN f.recs : EndOf(f) = o + f.recs[o].size
<1> DEFINE S == {Base} \union {o + f.recs[o].size : o \in DOMAIN f.recs}
<1>1. S \subseteq 0 .. MaxSize + 1
  <2>1. Base \in 0 .. MaxSize + 1 BY DatabaseAssumption DEF Base
  <2>2. \A o \in DOMAIN f.recs : o + f.recs[o].size \in 0 .. MaxSize + 1 BY ImageIs, DatabaseAssumption DEF Base
  <2> QED BY <2>1, <2>2
<1>2. Max(S) \in S /\ \A j \in S : j <= Max(S)
  <2>1. S # {} /\ MaxSize + 1 \in Nat BY DatabaseAssumption
  <2> HIDE DEF S
  <2> QED BY <1>1, <2>1, GreatestOf
<1>3. EndOf(f) = Max(S) BY DEF EndOf
<1>4. \A o \in DOMAIN f.recs : o + f.recs[o].size \in S OBVIOUS
<1>5. Base <= Max(S)
  <2>1. Base \in S OBVIOUS
  <2> QED BY <1>2, <2>1
<1>6. EndOf(f) \in 0 .. MaxSize + 1 /\ Base <= EndOf(f)
  <2> HIDE DEF S
  <2> QED BY <1>1, <1>2, <1>3, <1>5
<1>7. EndOf(f) \in S
  <2> HIDE DEF S
  <2> QED BY <1>2, <1>3
<1>8. \A o \in DOMAIN f.recs : o + f.recs[o].size <= EndOf(f)
  <2> HIDE DEF S
  <2> QED BY <1>2, <1>3, <1>4
<1> QED BY <1>6, <1>7, <1>8, DatabaseAssumption DEF Base

LEMMA NextOffsetIs ==
    ASSUME NEW f, IsFile(f), Apart(Places(f)), NEW o \in Nat
    PROVE  FindNextOffset(f, o) = 0 \/ FindNextOffset(f, o) \in o + 1 .. MaxSize + 1
<1>1. PICK hi : hi = Min({EndOf(f), o + MaxShiftTries}) OBVIOUS
<1>2. hi \in Nat /\ hi <= MaxSize + 1
  <2>1. EndOf(f) \in Nat /\ EndOf(f) <= MaxSize + 1 BY EndIs, DatabaseAssumption DEF Base
  <2>2. PICK S : S = {EndOf(f), o + MaxShiftTries} OBVIOUS
  <2>3. S \subseteq Nat /\ S # {} /\ EndOf(f) \in S BY <2>1, <2>2, DatabaseAssumption
  <2>4. Min(S) \in S /\ Min(S) <= EndOf(f) BY <2>3, SmallestOf
  <2> QED BY <1>1, <2>1, <2>2, <2>3, <2>4, DatabaseAssumption
<1>3. PICK S : /\ S \subseteq o + 1 .. hi
               /\ FindNextOffset(f, o) = IF S = {} THEN 0 ELSE Min(S)
  BY <1>1 DEF FindNextOffset
<1>4. CASE S = {} BY <1>3, <1>4
<1>5. CASE S # {}
  <2>1. S \subseteq Nat BY <1>2, <1>3
  <2>2. Min(S) \in S BY <1>5, <2>1, SmallestOf
  <2>3. FindNextOffset(f, o) = Min(S) BY <1>3, <1>5
  <2>4. Min(S) \in o + 1 .. hi BY <1>3, <2>2
  <2>5. Min(S) \in o + 1 .. MaxSize + 1 BY <1>2, <2>4, DatabaseAssumption
  <2> QED BY <2>3, <2>5
<1> QED BY <1>4, <1>5

(* What is read from o, if g is what is read from behind it. *)
ReplayAt(f, g, o) ==
    IF Readable(f, o) THEN <<o>> \o g[o + f.recs[o].size]
    ELSE IF o >= EndOf(f) \/ FindNextOffset(f, o) = 0 THEN <<>>
    ELSE g[FindNextOffset(f, o)]

LEMMA ReplayBehind ==
    ASSUME NEW f, IsFile(f), Apart(Places(f)), NEW o \in Base .. 3 * MaxSize, NEW g, NEW h,
           \A p \in o + 1 .. 3 * MaxSize : g[p] = h[p]
    PROVE  ReplayAt(f, g, o) = ReplayAt(f, h, o)
<1>0. MaxSize \in Nat \ {0} /\ o \in Nat /\ MaxSize + 1 <= 3 * MaxSize BY DatabaseAssumption DEF Base
<1>1. CASE Readable(f, o)
  <2>1. o + f.recs[o].size \in o + 1 .. 3 * MaxSize BY <1>0, <1>1, ImageIs DEF Readable
  <2>2. g[o + f.recs[o].size] = h[o + f.recs[o].size] BY <2>1
  <2> QED BY <1>1, <2>2 DEF ReplayAt
<1>2. CASE ~Readable(f, o) /\ FindNextOffset(f, o) # 0
  <2>1. PICK q : q = FindNextOffset(f, o) OBVIOUS
  <2>2. q \in o + 1 .. 3 * MaxSize BY <1>0, <1>2, <2>1, NextOffsetIs
  <2>3. g[q] = h[q] BY <2>2
  <2> QED BY <1>2, <2>1, <2>3 DEF ReplayAt
<1>3. CASE ~Readable(f, o) /\ FindNextOffset(f, o) = 0 BY <1>3 DEF ReplayAt
<1> QED BY <1>1, <1>2, <1>3

LEMMA ReplayedFromIs ==
    ASSUME NEW f, IsFile(f), Apart(Places(f))
    PROVE  \A o \in Base .. 3 * MaxSize : ReplayedFrom(f)[o] = ReplayAt(f, ReplayedFrom(f), o)
<1> DEFINE S == {n \in Nat : \E g : g = [o \in n .. 3 * MaxSize |-> ReplayAt(f, g, o)]}
<1>0. 3 * MaxSize \in Nat /\ Base \in Nat BY DatabaseAssumption DEF Base
<1>1. ASSUME NEW n \in Base .. 3 * MaxSize, \A m \in n + 1 .. 3 * MaxSize : m \in S
      PROVE  n \in S
  <2>1. PICK g : \A o \in n + 1 .. 3 * MaxSize : g[o] = ReplayAt(f, g, o)
    <3>1. CASE n + 1 \in n + 1 .. 3 * MaxSize
      <4>1. n + 1 \in S BY <1>1, <3>1
      <4>2. PICK g : g = [o \in n + 1 .. 3 * MaxSize |-> ReplayAt(f, g, o)] BY <4>1
      <4> QED BY <4>2
    <3>2. CASE n + 1 \notin n + 1 .. 3 * MaxSize
      <4>1. n + 1 .. 3 * MaxSize = {} BY <1>0, <3>2 DEF Base
      <4> QED BY <4>1
    <3> QED BY <3>1, <3>2
  <2>2. PICK h : h = [o \in n .. 3 * MaxSize |-> IF o = n THEN ReplayAt(f, g, n) ELSE g[o]] OBVIOUS
  <2>3. \A p \in n + 1 .. 3 * MaxSize : g[p] = h[p] BY <1>0, <2>2 DEF Base
  <2>4. \A o \in n .. 3 * MaxSize : h[o] = ReplayAt(f, h, o)
    <3> TAKE o \in n .. 3 * MaxSize
    <3>1. o \in Base .. 3 * MaxSize /\ \A p \in o + 1 .. 3 * MaxSize : p \in n + 1 .. 3 * MaxSize
      BY <1>0 DEF Base
    <3>2. ReplayAt(f, g, o) = ReplayAt(f, h, o) BY <2>3, <3>1, ReplayBehind
    <3>3. h[o] = ReplayAt(f, g, o)
      <4>1. CASE o = n BY <2>2, <4>1
      <4>2. CASE o # n
        <5>1. o \in n + 1 .. 3 * MaxSize BY <1>0, <4>2 DEF Base
        <5> QED BY <2>1, <2>2, <5>1, <4>2
      <4> QED BY <4>1, <4>2
    <3> QED BY <3>2, <3>3
  <2>5. h = [o \in n .. 3 * MaxSize |-> ReplayAt(f, h, o)] BY <2>2, <2>4
  <2>6. n \in Nat BY <1>0
  <2> QED BY <2>5, <2>6
<1>2. Base \in S
  <2>1. Base .. 3 * MaxSize \subseteq S
    <3> HIDE DEF S
    <3> QED BY <1>0, <1>1, Downwards, ZenonT(60)
  <2>2. Base \in Base .. 3 * MaxSize BY DatabaseAssumption DEF Base
  <2> HIDE DEF S
  <2> QED BY <2>1, <2>2
<1>3. \E g : g = [o \in Base .. 3 * MaxSize |-> ReplayAt(f, g, o)] BY <1>2
<1>4. ReplayedFrom(f) = CHOOSE g : g = [o \in Base .. 3 * MaxSize |-> ReplayAt(f, g, o)]
  BY DEF ReplayedFrom, ReplayAt
<1>5. ReplayedFrom(f) = [o \in Base .. 3 * MaxSize |-> ReplayAt(f, ReplayedFrom(f), o)]
  BY <1>3, <1>4
<1> QED BY <1>5

(* R is a sequence of records that can be read, one behind the other from o. *)
IsReplay(f, o, R) ==
    /\ R \in Seq(DOMAIN f.recs)
    /\ \A i \in 1 .. Len(R) : Readable(f, R[i]) /\ o <= R[i]
    /\ \A i, j \in 1 .. Len(R) : i < j => R[i] + f.recs[R[i]].size <= R[j]

LEMMA ReplayPrepend ==
    ASSUME NEW f, IsFile(f), Apart(Places(f)), NEW o \in DOMAIN f.recs, Readable(f, o),
           NEW R, IsReplay(f, o + f.recs[o].size, R)
    PROVE  IsReplay(f, o, <<o>> \o R)
<1>1. R \in Seq(DOMAIN f.recs) /\ <<o>> \in Seq(DOMAIN f.recs) BY OneSeq DEF IsReplay
<1>2. PICK n \in Nat : n = Len(R) /\ DOMAIN R = 1 .. n BY <1>1, LenProperties
<1>3. PICK Q : Q = <<o>> \o R OBVIOUS
<1>4. Q \in Seq(DOMAIN f.recs) /\ Len(Q) = n + 1 /\ Q[1] = o /\ \A i \in 2 .. n + 1 : Q[i] = R[i - 1]
  <2>1. Len(<<o>>) = 1 /\ <<o>>[1] = o OBVIOUS
  <2>2. Len(Q) = 1 + n BY <1>1, <1>2, <1>3, <2>1, ConcatProperties
  <2>3. \A i \in 1 .. Len(Q) : Q[i] = IF i <= 1 THEN <<o>>[i] ELSE R[i - 1]
    BY <1>1, <1>3, <2>1, ConcatProperties
  <2>4. Q \in Seq(DOMAIN f.recs) BY <1>1, <1>3, ConcatProperties
  <2> QED BY <2>1, <2>2, <2>3, <2>4
<1>5. \A i \in 1 .. n : Readable(f, R[i]) /\ o + f.recs[o].size <= R[i] /\ R[i] \in DOMAIN f.recs
  BY <1>1, <1>2 DEF IsReplay
<1>6. o \in Nat /\ f.recs[o].size \in Nat /\ \A p \in DOMAIN f.recs : p \in Nat
  BY ImageIs, DatabaseAssumption DEF Base
<1>7. \A i \in 1 .. n + 1 : Readable(f, Q[i]) /\ o <= Q[i]
  <2> TAKE i \in 1 .. n + 1
  <2>1. CASE i = 1 BY <1>4, <1>6, <2>1
  <2>2. CASE i # 1
    <3>1. i - 1 \in 1 .. n /\ Q[i] = R[i - 1] BY <1>4, <2>2
    <3> QED BY <1>5, <1>6, <3>1
  <2> QED BY <2>1, <2>2
<1>8. \A i, j \in 1 .. n + 1 : i < j => Q[i] + f.recs[Q[i]].size <= Q[j]
  <2> TAKE i, j \in 1 .. n + 1
  <2> HAVE i < j
  <2>1. j - 1 \in 1 .. n /\ Q[j] = R[j - 1] BY <1>4
  <2>2. CASE i = 1 BY <1>4, <1>5, <2>1, <2>2
  <2>3. CASE i # 1
    <3>1. i - 1 \in 1 .. n /\ Q[i] = R[i - 1] /\ i - 1 < j - 1 BY <1>4, <2>3
    <3>2. R[i - 1] + f.recs[R[i - 1]].size <= R[j - 1] BY <1>2, <2>1, <3>1 DEF IsReplay
    <3> QED BY <2>1, <3>1, <3>2
  <2> QED BY <2>2, <2>3
<1>9. IsReplay(f, o, Q) BY <1>4, <1>7, <1>8 DEF IsReplay
<1> QED BY <1>3, <1>9

LEMMA ReplayLater ==
    ASSUME NEW f, IsFile(f), NEW o \in Nat, NEW q \in Nat, o <= q, NEW R, IsReplay(f, q, R)
    PROVE  IsReplay(f, o, R)
<1>1. R \in Seq(DOMAIN f.recs) /\ DOMAIN f.recs \subseteq Base .. MaxSize BY DEF IsReplay, IsFile
<1>2. \A i \in 1 .. Len(R) : R[i] \in Nat BY <1>1, DatabaseAssumption DEF Base
<1> QED BY <1>2 DEF IsReplay

LEMMA ReplayedFromIsReplay ==
    ASSUME NEW f, IsFile(f), Apart(Places(f))
    PROVE  \A o \in Base .. 3 * MaxSize : IsReplay(f, o, ReplayedFrom(f)[o])
<1> DEFINE S == {n \in Nat : IsReplay(f, n, ReplayedFrom(f)[n])}
<1>0. 3 * MaxSize \in Nat /\ Base \in Nat /\ MaxSize + 1 <= 3 * MaxSize BY DatabaseAssumption DEF Base
<1>1. ASSUME NEW n \in Base .. 3 * MaxSize, \A m \in n + 1 .. 3 * MaxSize : m \in S
      PROVE  n \in S
  <2>0. n \in Nat BY <1>0
  <2>1. PICK g : g = ReplayedFrom(f) OBVIOUS
  <2>2. g[n] = ReplayAt(f, g, n) BY <2>1, ReplayedFromIs
  <2>3. CASE Readable(f, n)
    <3>1. n \in DOMAIN f.recs BY <2>3 DEF Readable
    <3>2. n + f.recs[n].size \in n + 1 .. 3 * MaxSize
      <4>1. f.recs[n].size \in 1 .. MaxSize /\ n + f.recs[n].size <= MaxSize + 1 BY <3>1, ImageIs
      <4> QED BY <1>0, <2>0, <4>1, DatabaseAssumption
    <3>3. IsReplay(f, n + f.recs[n].size, g[n + f.recs[n].size]) BY <1>1, <2>1, <3>2
    <3>4. g[n] = <<n>> \o g[n + f.recs[n].size] BY <2>2, <2>3 DEF ReplayAt
    <3>5. IsReplay(f, n, g[n]) BY <2>3, <3>1, <3>3, <3>4, ReplayPrepend
    <3> QED BY <2>0, <2>1, <3>5
  <2>4. CASE ~Readable(f, n) /\ (n >= EndOf(f) \/ FindNextOffset(f, n) = 0)
    <3>1. g[n] = <<>> BY <2>2, <2>4 DEF ReplayAt
    <3>2. IsReplay(f, n, <<>>) BY DEF IsReplay
    <3> QED BY <2>0, <2>1, <3>1, <3>2
  <2>5. CASE ~Readable(f, n) /\ ~(n >= EndOf(f) \/ FindNextOffset(f, n) = 0)
    <3>1. PICK q : q = FindNextOffset(f, n) OBVIOUS
    <3>2. g[n] = g[q] BY <2>2, <2>5, <3>1 DEF ReplayAt
    <3>3. q \in n + 1 .. MaxSize + 1 BY <2>0, <2>5, <3>1, NextOffsetIs
    <3>4. q \in n + 1 .. 3 * MaxSize /\ q \in Nat /\ n <= q BY <1>0, <2>0, <3>3, DatabaseAssumption
    <3>5. IsReplay(f, q, g[q]) BY <1>1, <2>1, <3>4
    <3>6. IsReplay(f, n, g[q]) BY <2>0, <3>4, <3>5, ReplayLater
    <3> QED BY <2>0, <2>1, <3>2, <3>6
  <2> QED BY <2>3, <2>4, <2>5
<1>2. Base .. 3 * MaxSize \subseteq S
  <2> HIDE DEF S
  <2> QED BY <1>0, <1>1, Downwards, ZenonT(60)
<1> QED BY <1>2

LEMMA RangePrepend ==
    ASSUME NEW S, NEW x \in S, NEW R \in Seq(S)
    PROVE  x \in Range(<<x>> \o R) /\ Range(R) \subseteq Range(<<x>> \o R)
<1>1. <<x>> \in Seq(S) /\ Len(<<x>>) = 1 /\ <<x>>[1] = x BY OneSeq
<1>2. PICK n \in Nat : n = Len(R) /\ DOMAIN R = 1 .. n BY LenProperties
<1>3. PICK Q : Q = <<x>> \o R OBVIOUS
<1>4. Len(Q) = 1 + n /\ Q \in Seq(S) BY <1>1, <1>2, <1>3, ConcatProperties
<1>5. \A i \in 1 .. Len(Q) : Q[i] = IF i <= 1 THEN <<x>>[i] ELSE R[i - 1]
  BY <1>1, <1>3, ConcatProperties
<1>6. DOMAIN Q = 1 .. n + 1 BY <1>4, LenProperties
<1>7. x \in Range(Q)
  <2>1. 1 \in DOMAIN Q /\ Q[1] = x BY <1>1, <1>4, <1>5, <1>6
  <2> QED BY <2>1 DEF Range
<1>8. ASSUME NEW i \in DOMAIN R PROVE R[i] \in Range(Q)
  <2>1. i \in 1 .. n BY <1>2
  <2>2. i + 1 \in DOMAIN Q /\ i + 1 \in 1 .. Len(Q) /\ i + 1 - 1 = i /\ ~(i + 1 <= 1) BY <2>1, <1>4, <1>6
  <2>3. Q[i + 1] = R[i] BY <2>2, <1>5
  <2> QED BY <2>2, <2>3 DEF Range
<1> QED BY <1>3, <1>7, <1>8 DEF Range

(* Everything up to o is read if it can be, from the start on. *)
LEMMA ReadsTo ==
    ASSUME NEW f, IsFile(f), Apart(Places(f)), NEW B \in SUBSET Nat, Base \in B, NEW o \in B, o >= Base,
           \A p \in B : p <= o => Readable(f, p),
           \A p \in B : p < o => p + f.recs[p].size \in B /\ p + f.recs[p].size <= o
    PROVE  o \in Range(Replayed(f))
<1> DEFINE S == {n \in Nat : n \in B => o \in Range(ReplayedFrom(f)[n])}
<1>0. Base \in Nat /\ o \in DOMAIN f.recs /\ o \in Base .. MaxSize /\ MaxSize <= 3 * MaxSize
  BY ImageIs, DatabaseAssumption DEF Base, Readable
<1>1. ASSUME NEW n \in Base .. o, \A m \in n + 1 .. o : m \in S
      PROVE  n \in S
  <2>0. n \in Nat BY <1>0
  <2> SUFFICES ASSUME n \in B PROVE o \in Range(ReplayedFrom(f)[n]) BY <2>0
  <2>1. PICK g : g = ReplayedFrom(f) OBVIOUS
  <2>2. n \in Base .. 3 * MaxSize BY <1>0, DatabaseAssumption DEF Base
  <2>3. g[n] = ReplayAt(f, g, n) BY <2>1, <2>2, ReplayedFromIs
  <2>4. Readable(f, n) BY <1>0, <2>0
  <2>5. g[n] = <<n>> \o g[n + f.recs[n].size] BY <2>3, <2>4 DEF ReplayAt
  <2>6. n \in DOMAIN f.recs BY <2>4 DEF Readable
  <2>7. f.recs[n].size \in 1 .. MaxSize /\ n + f.recs[n].size <= MaxSize + 1 BY <2>6, ImageIs
  <2>8. PICK q : q = n + f.recs[n].size OBVIOUS
  <2>9. q \in Base .. 3 * MaxSize /\ q > n BY <2>0, <2>2, <2>7, <2>8, DatabaseAssumption DEF Base
  <2>10. IsReplay(f, q, g[q]) BY <2>1, <2>9, ReplayedFromIsReplay
  <2>11. g[q] \in Seq(DOMAIN f.recs) BY <2>10 DEF IsReplay
  <2>12. n \in Range(g[n]) /\ Range(g[q]) \subseteq Range(g[n]) BY <2>5, <2>6, <2>8, <2>11, RangePrepend
  <2>13. CASE n = o BY <2>1, <2>12, <2>13
  <2>14. CASE n # o
    <3>1. n < o BY <1>0, <2>0, <2>14
    <3>2. q \in B /\ q <= o BY <2>8, <3>1
    <3>3. q \in n + 1 .. o BY <1>0, <2>0, <2>9, <3>2
    <3>4. o \in Range(g[q]) BY <1>1, <2>1, <3>2, <3>3
    <3> QED BY <2>1, <2>12, <3>4
  <2> QED BY <2>13, <2>14
<1>2. Base .. o \subseteq S
  <2> HIDE DEF S
  <2> QED BY <1>0, <1>1, Downwards
<1>3. Base \in Base .. o BY <1>0
<1> QED BY <1>2, <1>3 DEF Replayed

-----------------------------------------------------------------------------
(* What a restoration makes of it. *)

NewDatabase == [file |-> NewFile("closed"), end |-> Base, pool |-> {}]

LEMMA RebuiltIs ==
    ASSUME NEW f, Len(Replayed(f)) \in Nat
    PROVE  \A i \in 0 .. Len(Replayed(f)) :
             Rebuilt(f)[i] = IF i = 0 THEN NewDatabase ELSE Replay(f, Rebuilt(f)[i - 1], Replayed(f)[i])
<1> DEFINE R == Replayed(f)
           N == Len(R)
           S == {k \in Nat : \E g : g = [i \in 0 .. k |-> IF i = 0 THEN NewDatabase ELSE Replay(f, g[i - 1], R[i])]}
<1> HIDE DEF R
<1>1. 0 \in S
  <2> DEFINE g == [i \in 0 .. 0 |-> NewDatabase]
  <2>1. g = [i \in 0 .. 0 |-> IF i = 0 THEN NewDatabase ELSE Replay(f, g[i - 1], R[i])] OBVIOUS
  <2> HIDE DEF g
  <2> QED BY <2>1
<1>2. \A k \in Nat : k \in S => k + 1 \in S
  <2> TAKE k \in Nat
  <2> HAVE k \in S
  <2>1. PICK g : g = [i \in 0 .. k |-> IF i = 0 THEN NewDatabase ELSE Replay(f, g[i - 1], R[i])] OBVIOUS
  <2> DEFINE h == [i \in 0 .. k + 1 |-> IF i = k + 1 THEN Replay(f, g[k], R[k + 1]) ELSE g[i]]
  <2>2. \A i \in 0 .. k + 1 : h[i] = IF i = 0 THEN NewDatabase ELSE Replay(f, h[i - 1], R[i])
    <3> TAKE i \in 0 .. k + 1
    <3>1. CASE i = 0 BY <3>1, <2>1
    <3>2. CASE i = k + 1
      <4>1. h[i] = Replay(f, g[k], R[k + 1]) /\ i - 1 = k /\ i - 1 \in 0 .. k + 1 /\ i - 1 # k + 1 /\ i # 0 BY <3>2
      <4>2. h[i - 1] = g[k] BY <4>1
      <4> QED BY <3>2, <4>1, <4>2
    <3>3. CASE i \in 1 .. k
      <4>1. i \in 0 .. k /\ i # 0 /\ i # k + 1 /\ i - 1 \in 0 .. k + 1 /\ i - 1 # k + 1 BY <3>3
      <4>2. h[i] = g[i] /\ h[i - 1] = g[i - 1] BY <4>1
      <4>3. g[i] = Replay(f, g[i - 1], R[i]) BY <2>1, <4>1
      <4> QED BY <4>1, <4>2, <4>3
    <3> QED BY <3>1, <3>2, <3>3
  <2>3. h = [i \in 0 .. k + 1 |-> h[i]] OBVIOUS
  <2> HIDE DEF h
  <2>4. h = [i \in 0 .. k + 1 |-> IF i = 0 THEN NewDatabase ELSE Replay(f, h[i - 1], R[i])] BY <2>2, <2>3
  <2> QED BY <2>4
<1>3. N \in S
  <2>1. N \in Nat BY DEF R
  <2> HIDE DEF S
  <2>2. Nat \subseteq S BY <1>1, <1>2, Upwards
  <2> QED BY <2>1, <2>2
<1>4. \E g : g = [i \in 0 .. N |-> IF i = 0 THEN NewDatabase ELSE Replay(f, g[i - 1], R[i])]
  BY <1>3
<1>5. Rebuilt(f) = CHOOSE g : g = [i \in 0 .. N |-> IF i = 0 THEN NewDatabase ELSE Replay(f, g[i - 1], R[i])]
  BY DEF Rebuilt, NewDatabase, R
<1>6. Rebuilt(f) = [i \in 0 .. N |-> IF i = 0 THEN NewDatabase ELSE Replay(f, Rebuilt(f)[i - 1], R[i])]
  BY <1>4, <1>5
<1> QED BY <1>6 DEF R

(* A file without records, open or closed. *)
LEMMA NewFileIs ==
    ASSUME NEW meta \in {"absent", "bare", "closed", "open", "torn"}
    PROVE  /\ IsFile(NewFile(meta)) /\ Live_Fit(NewFile(meta)) /\ NoneTorn(NewFile(meta))
           /\ \A b \in Bucket : Chained(NewFile(meta), b, <<>>)
           /\ AllChained(NewFile(meta)) /\ Places(NewFile(meta)) = {}
           /\ \A k \in Key : Lookup(NewFile(meta), k) = None /\ Find(NewFile(meta), k).cur = 0
<1>1. PICK f : f = NewFile(meta) OBVIOUS
<1>2. f = [meta |-> meta, synced |-> Base, saved |-> {}, bucket |-> [b \in Bucket |-> 0], recs |-> <<>>]
  BY <1>1 DEF NewFile
<1>3. /\ f.meta = meta /\ f.synced = Base /\ f.saved = {}
      /\ f.bucket = [b \in Bucket |-> 0] /\ f.recs = <<>>
  BY <1>2
<1>4. DOMAIN f.recs = {} BY <1>3
<1>5. f.recs \in [DOMAIN f.recs -> Record] BY <1>3, <1>4
<1>6. IsFile(f)
  <2>1. Base \in Base .. MaxSize + 1 /\ 0 \in 0 .. MaxSize BY DatabaseAssumption DEF Base
  <2> QED BY <1>2, <1>3, <1>4, <1>5, <2>1 DEF IsFile
<1>7. \A b \in Bucket : Chained(f, b, <<>>)
  <2> TAKE b \in Bucket
  <2>1. <<>> \in Seq(DOMAIN f.recs) /\ DOMAIN <<>> = {} OBVIOUS
  <2> QED BY <1>3, <2>1 DEF Chained, IsInjective
<1>8. AllChained(f)
  <2> SUFFICES ASSUME NEW b \in Bucket PROVE Chained(f, b, Chain(f, b)) BY DEF AllChained
  <2>1. Chain(f, b) = <<>> BY <1>6, <1>7, ChainIs
  <2> QED BY <1>7, <2>1
<1>9. ASSUME NEW k \in Key PROVE Lookup(f, k) = None /\ Find(f, k).cur = 0
  <2>1. PICK c : c = <<>> /\ DOMAIN c = {} OBVIOUS
  <2>2. BucketOf[k] \in Bucket BY DatabaseAssumption
  <2>3. Chained(f, BucketOf[k], c) BY <1>7, <2>1, <2>2
  <2> QED BY <1>6, <2>1, <2>3, GetOf
<1>10. Live_Fit(f) /\ NoneTorn(f) /\ Places(f) = {} BY <1>4 DEF Live_Fit, NoneTorn, Places
<1> QED BY <1>1, <1>6, <1>7, <1>8, <1>9, <1>10

LEMMA OrderlyNew ==
    ASSUME NEW meta \in {"absent", "bare", "closed", "open", "torn"}, NEW T, NEW ops, \A t \in T : ops[t] = None
    PROVE  Orderly(T, NewFile(meta), Base, ops) /\ AllFree(T, NewFile(meta), {}, ops)
<1>1. PICK f : f = NewFile(meta) OBVIOUS
<1>2. /\ IsFile(f) /\ Live_Fit(f) /\ NoneTorn(f) /\ AllChained(f) /\ Places(f) = {}
  BY <1>1, NewFileIs
<1>3. Extents(T, f, ops) = {} BY <1>2 DEF Extents
<1>4. Tiled({}, Base)
  <2>1. Base \in Base .. MaxSize + 1 BY DatabaseAssumption DEF Base
  <2> QED BY <2>1 DEF Tiled, Apart
<1>5. DOMAIN f.recs = {} BY <1>1 DEF NewFile
<1>6. AllFree(T, f, {}, ops) BY DEF AllFree
<1> QED BY <1>1, <1>2, <1>3, <1>4, <1>5, <1>6 DEF Orderly

(* The record at o sets k. *)
Sets(f, o, k) == f.recs[o].type = "live" /\ f.recs[o].key = k

(* What a Get of every key returns when the records at O have been set. *)
Gathered(f, O, g) ==
    \A k \in Key :
      \/ Lookup(g, k) = None /\ \A o \in O : ~Sets(f, o, k)
      \/ \E o \in O : Sets(f, o, k) /\ Lookup(g, k) = f.recs[o].val

(* What is read until e, in db. *)
Gathering(f, O, e, db) ==
    /\ Steady(db, None) /\ db.file.meta = "closed"
    /\ db.end \in Nat /\ db.end <= e
    /\ Gathered(f, O, db.file)

LEMMA ReplayIs ==
    ASSUME NEW f, Image(f), NEW O, NEW e, NEW db, Gathering(f, O, e, db),
           NEW o \in DOMAIN f.recs, e \in Nat, e <= o, NEW db2, db2 = Replay(f, db, o)
    PROVE  Gathering(f, O \union {o}, o + f.recs[o].size, db2)
<1>0. IsFile(f) /\ Live_Fit(f) /\ Apart(Places(f)) BY DEF Image
<1>1. /\ o \in Nat /\ f.recs[o].size \in Nat /\ o + f.recs[o].size <= MaxSize + 1
      /\ o + f.recs[o].size \in Nat
  BY <1>0, ImageIs, DatabaseAssumption DEF Base
<1>2. /\ Steady(db, None) /\ db.file.meta = "closed" /\ db.end \in Nat /\ db.end <= e
      /\ Gathered(f, O, db.file)
  BY DEF Gathering
<1>3. CASE f.recs[o].type # "live"
  <2>1. db2 = db BY <1>3 DEF Replay
  <2>2. db.end <= o + f.recs[o].size BY <1>1, <1>2
  <2>3. Gathered(f, O \union {o}, db.file) BY <1>2, <1>3 DEF Gathered, Sets
  <2> QED BY <1>2, <2>1, <2>2, <2>3 DEF Gathering
<1>4. CASE f.recs[o].type = "live"
  <2>1. PICK k \in Key, v \in Value : k = f.recs[o].key /\ v = f.recs[o].val BY <1>0, <1>4 DEF Live_Fit, Live
  <2>2. db2 = Set(db, k, v) BY <1>4, <2>1 DEF Replay
  <2>3. Size[v] <= f.recs[o].size /\ Size[v] \in Nat BY <1>0, <1>4, <2>1, DatabaseAssumption DEF Live_Fit, Live
  <2>4. db.end + Size[v] <= o + f.recs[o].size BY <1>1, <1>2, <2>3
  <2>5. db.end + Size[v] <= MaxSize + 1 BY <1>1, <1>2, <2>3, <2>4, DatabaseAssumption
  <2>6. /\ Steady(db2, None) /\ Gets(db.file, db2.file, k, v) /\ db2.file.meta = "closed"
        /\ db2.end \in Nat /\ db2.end <= db.end + Size[v]
    BY <1>2, <2>2, <2>5, SetIs
  <2>7. db2.end <= o + f.recs[o].size BY <1>1, <1>2, <2>3, <2>4, <2>6
  <2>8. Gathered(f, O \union {o}, db2.file)
    <3> SUFFICES ASSUME NEW j \in Key
                 PROVE  \/ Lookup(db2.file, j) = None /\ \A p \in O \union {o} : ~Sets(f, p, j)
                        \/ \E p \in O \union {o} : Sets(f, p, j) /\ Lookup(db2.file, j) = f.recs[p].val
      BY DEF Gathered
    <3>1. CASE j = k
      <4>1. Lookup(db2.file, j) = v BY <2>6, <3>1 DEF Gets
      <4>2. Sets(f, o, j) BY <1>4, <2>1, <3>1 DEF Sets
      <4> QED BY <2>1, <4>1, <4>2
    <3>2. CASE j # k
      <4>1. Lookup(db2.file, j) = Lookup(db.file, j) BY <2>6, <3>2 DEF Gets
      <4>2. ~Sets(f, o, j) BY <2>1, <3>2 DEF Sets
      <4> QED BY <1>2, <4>1, <4>2 DEF Gathered
    <3> QED BY <3>1, <3>2
  <2> QED BY <2>6, <2>7, <2>8 DEF Gathering
<1> QED BY <1>3, <1>4

LEMMA RebuiltGathers ==
    ASSUME NEW f, Image(f)
    PROVE  /\ Len(Replayed(f)) \in Nat /\ Range(Replayed(f)) \subseteq DOMAIN f.recs
           /\ \E e \in Nat : e <= MaxSize + 1 /\ Gathering(f, Range(Replayed(f)), e, Rebuilt(f)[Len(Replayed(f))])
<1>0. IsFile(f) /\ Apart(Places(f)) BY DEF Image
<1>1. PICK R : R = Replayed(f) OBVIOUS
<1>2. IsReplay(f, Base, R)
  <2>1. Base \in Base .. 3 * MaxSize BY DatabaseAssumption DEF Base
  <2> QED BY <1>0, <1>1, <2>1, ReplayedFromIsReplay DEF Replayed
<1>3. R \in Seq(DOMAIN f.recs) BY <1>2 DEF IsReplay
<1>4. PICK n \in Nat : n = Len(R) /\ DOMAIN R = 1 .. n BY <1>3, LenProperties
<1>5. \A i \in 1 .. n : R[i] \in DOMAIN f.recs BY <1>3, <1>4
<1>6. PICK db : db = Rebuilt(f) OBVIOUS
<1>7. \A i \in 0 .. n : db[i] = IF i = 0 THEN NewDatabase ELSE Replay(f, db[i - 1], R[i])
  BY <1>1, <1>4, <1>6, RebuiltIs
<1> DEFINE End(i) == IF i = 0 THEN Base ELSE R[i] + f.recs[R[i]].size
           Read(i) == {R[j] : j \in 1 .. i}
           S == {i \in Nat : i <= n => Gathering(f, Read(i), End(i), db[i])}
<1>8. \A i \in 0 .. n : End(i) \in Nat /\ End(i) <= MaxSize + 1
  <2> TAKE i \in 0 .. n
  <2>1. CASE i = 0 BY <2>1, DatabaseAssumption DEF Base
  <2>2. CASE i # 0
    <3>1. R[i] \in DOMAIN f.recs BY <1>5, <2>2
    <3>2. R[i] \in Base .. MaxSize /\ f.recs[R[i]].size \in 1 .. MaxSize /\ R[i] + f.recs[R[i]].size <= MaxSize + 1
      BY <1>0, <3>1, ImageIs
    <3> QED BY <2>2, <3>2, DatabaseAssumption DEF Base
  <2> QED BY <2>1, <2>2
<1>9. 0 \in S
  <2>1. db[0] = NewDatabase BY <1>7
  <2>2. NewDatabase.file = NewFile("closed") /\ NewDatabase.end = Base /\ NewDatabase.pool = {} BY DEF NewDatabase
  <2>3. Steady(NewDatabase, None)
    <3>1. \A t \in {0} : One(None)[t] = None BY OneBecomes
    <3>2. PICK g, T, ops : g = NewFile("closed") /\ T = {0} /\ ops = One(None) OBVIOUS
    <3>3. Orderly(T, g, Base, ops) /\ AllFree(T, g, {}, ops) BY <3>1, <3>2, OrderlyNew
    <3> QED BY <3>2, <3>3, SteadyIs DEF NewDatabase
  <2>4. Gathered(f, Read(0), NewFile("closed"))
    <3>1. \A k \in Key : Lookup(NewFile("closed"), k) = None BY NewFileIs
    <3>2. Read(0) = {} OBVIOUS
    <3> QED BY <3>1, <3>2 DEF Gathered
  <2>5. NewFile("closed").meta = "closed" BY DEF NewFile
  <2>6. Gathering(f, Read(0), End(0), NewDatabase)
    <3>1. End(0) = Base /\ Base \in Nat /\ Base <= Base BY DEF Base
    <3> QED BY <2>2, <2>3, <2>4, <2>5, <3>1 DEF Gathering
  <2> QED BY <2>1, <2>6
<1>10. \A i \in Nat : i \in S => i + 1 \in S
  <2> TAKE i \in Nat
  <2> HAVE i \in S
  <2> SUFFICES ASSUME i + 1 <= n PROVE Gathering(f, Read(i + 1), End(i + 1), db[i + 1]) OBVIOUS
  <2>1. Gathering(f, Read(i), End(i), db[i]) OBVIOUS
  <2>2. PICK O, e, d, o, d2 : O = Read(i) /\ e = End(i) /\ d = db[i] /\ o = R[i + 1] /\ d2 = db[i + 1] OBVIOUS
  <2>3. i + 1 \in 1 .. n /\ i + 1 # 0 /\ i + 1 - 1 = i /\ i \in 0 .. n /\ i + 1 \in 0 .. n OBVIOUS
  <2>4. o \in DOMAIN f.recs BY <1>5, <2>2, <2>3
  <2>5. d2 = Replay(f, d, o) BY <1>7, <2>2, <2>3
  <2>6. e \in Nat BY <1>8, <2>2, <2>3
  <2>7. e <= o
    <3>1. CASE i = 0
      <4>1. Base <= o BY <1>2, <1>4, <2>2, <2>3 DEF IsReplay
      <4> QED BY <2>2, <3>1, <4>1
    <3>2. CASE i # 0
      <4>1. i \in 1 .. n /\ i < i + 1 BY <2>3, <3>2
      <4>2. R[i] + f.recs[R[i]].size <= R[i + 1] BY <1>2, <1>4, <2>3, <4>1 DEF IsReplay
      <4> QED BY <2>2, <3>2, <4>2
    <3> QED BY <3>1, <3>2
  <2>8. Gathering(f, O \union {o}, o + f.recs[o].size, d2)
    <3>1. Gathering(f, O, e, d) BY <2>1, <2>2
    <3> QED BY <3>1, <2>4, <2>5, <2>6, <2>7, ReplayIs
  <2>9. O \union {o} = Read(i + 1)
    <3>1. \A j \in 1 .. i + 1 : j \in 1 .. i \/ j = i + 1 OBVIOUS
    <3> QED BY <2>2, <3>1
  <2>10. o + f.recs[o].size = End(i + 1) BY <2>2, <2>3
  <2> QED BY <2>2, <2>8, <2>9, <2>10
<1>11. n \in S
  <2> HIDE DEF S
  <2>1. Nat \subseteq S BY <1>9, <1>10, Upwards
  <2> QED BY <2>1
<1>12. Gathering(f, Read(n), End(n), db[n]) BY <1>11
<1>13. Read(n) = Range(R) BY <1>4 DEF Range
<1>14. End(n) \in Nat /\ End(n) <= MaxSize + 1 BY <1>8
<1>15. Range(R) \subseteq DOMAIN f.recs BY <1>4, <1>5 DEF Range
<1> QED BY <1>1, <1>4, <1>6, <1>12, <1>13, <1>14, <1>15

(* A file with no Set in it is in order whoever the threads are. *)
LEMMA OrderlyIdle ==
    ASSUME NEW T, NEW ops, \A t \in T : ops[t] = None, NEW T2, NEW ops2, \A t \in T2 : ops2[t] = None,
           NEW f, NEW e
    PROVE  /\ Orderly(T, f, e, ops) => Orderly(T2, f, e, ops2)
           /\ \A blocks : AllFree(T, f, blocks, ops) => AllFree(T2, f, blocks, ops2)
<1>1. Extents(T, f, ops) = Places(f) /\ Extents(T2, f, ops2) = Places(f) BY DEF Extents
<1>2. Orderly(T, f, e, ops) => Orderly(T2, f, e, ops2)
  <2> HAVE Orderly(T, f, e, ops)
  <2>1. IsFile(f) /\ Live_Fit(f) /\ NoneTorn(f) /\ AllChained(f) /\ Tiled(Extents(T2, f, ops2), e)
    BY <1>1 DEF Orderly
  <2>2. \A o \in DOMAIN f.recs : Live(f, o) => InChain(f, f.recs[o].key, o) BY DEF Orderly
  <2> QED BY <2>1, <2>2 DEF Orderly
<1>3. \A blocks : AllFree(T, f, blocks, ops) => AllFree(T2, f, blocks, ops2) BY DEF AllFree
<1> QED BY <1>2, <1>3

(* Nothing of this is about the metadata. *)
SameRecs(f, g) == g.bucket = f.bucket /\ g.recs = f.recs

LEMMA SameRecsOrderly ==
    ASSUME NEW f, NEW g, IsFile(g), SameRecs(f, g), NEW T, NEW e, NEW ops, Orderly(T, f, e, ops)
    PROVE  Orderly(T, g, e, ops)
<1>1. /\ IsFile(f) /\ Live_Fit(f) /\ NoneTorn(f) /\ AllChained(f) /\ Tiled(Extents(T, f, ops), e)
  BY DEF Orderly
<1>2. Live_Fit(g) /\ NoneTorn(g) BY <1>1 DEF Live_Fit, NoneTorn, Live, SameRecs
<1>3. ASSUME NEW b \in Bucket
      PROVE  Chain(g, b) = Chain(f, b) /\ SameOn(f, g, b, Chain(f, b)) /\ Chained(g, b, Chain(g, b))
  <2>1. PICK c : c = Chain(f, b) OBVIOUS
  <2>2. Chained(f, b, c) BY <1>1, <2>1 DEF AllChained
  <2>3. \A i \in DOMAIN c : c[i] \in DOMAIN f.recs BY <2>2 DEF Chained, Live
  <2>4. SameOn(f, g, b, c) BY <2>3 DEF SameOn, SameRecs
  <2>5. Chained(g, b, c) BY <1>1, <2>2, <2>4, SameChain
  <2>6. Chain(g, b) = c BY <2>5, ChainIs
  <2> QED BY <2>1, <2>4, <2>5, <2>6
<1>4. AllChained(g) BY <1>3 DEF AllChained
<1>5. Extents(T, g, ops) = Extents(T, f, ops) BY DEF Extents, Places, SameRecs
<1>6. ASSUME NEW t \in T, ops[t] # None PROVE Underway(g, ops[t])
  <2>1. PICK s : s = ops[t] OBVIOUS
  <2>2. Underway(f, s) BY <1>6, <2>1 DEF Orderly
  <2>3. BucketOf[s.key] \in Bucket BY <2>2, DatabaseAssumption DEF Underway, OpenSet
  <2>4. PICK c : c = Chain(f, BucketOf[s.key]) OBVIOUS
  <2>5. Chained(f, BucketOf[s.key], c) /\ SameOn(f, g, BucketOf[s.key], c) BY <1>1, <1>3, <2>3, <2>4 DEF AllChained
  <2>6. SameAt(f, g, Owned(s)) BY DEF SameAt, SameRecs
  <2> QED BY <1>1, <2>1, <2>2, <2>5, <2>6, UnderwayKept
<1>7. ASSUME NEW o \in DOMAIN g.recs, Live(g, o)
      PROVE  \/ InChain(g, g.recs[o].key, o)
             \/ \E t \in T : ops[t] # None /\ (\/ ops[t].pc = "link" /\ o = ops[t].dest
                                               \/ ops[t].pc = "void" /\ o = ops[t].cur)
  <2>1. o \in DOMAIN f.recs /\ Live(f, o) /\ f.recs[o] = g.recs[o] BY <1>7 DEF Live, SameRecs
  <2>2. BucketOf[f.recs[o].key] \in Bucket BY <1>1, <2>1, DatabaseAssumption DEF Live_Fit
  <2>3. InChain(f, f.recs[o].key, o) => InChain(g, g.recs[o].key, o) BY <1>3, <2>1, <2>2 DEF InChain
  <2> QED BY <2>1, <2>3 DEF Orderly
<1>8. \A t, u \in T : t # u /\ ops[t] # None /\ ops[u] # None =>
         /\ BucketOf[ops[t].key] # BucketOf[ops[u].key]
         /\ Owned(ops[t]) \intersect Owned(ops[u]) = {}
  BY DEF Orderly
<1> QED BY <1>1, <1>2, <1>4, <1>5, <1>6, <1>7, <1>8 DEF Orderly

LEMMA SameRecsGets ==
    ASSUME NEW f, NEW g, IsFile(f), AllChained(f), IsFile(g), SameRecs(f, g), NEW k \in Key
    PROVE  Find(g, k) = Find(f, k) /\ Lookup(g, k) = Lookup(f, k)
<1>1. PICK c : c = Chain(f, BucketOf[k]) OBVIOUS
<1>2. BucketOf[k] \in Bucket BY DatabaseAssumption
<1>3. Chained(f, BucketOf[k], c) BY <1>1, <1>2 DEF AllChained
<1>4. SameOn(f, g, BucketOf[k], c) BY <1>3 DEF SameOn, SameRecs, Chained, Live
<1> QED BY <1>3, <1>4, SameFound

(* A restored file is closed and in order, its pool is free, and a Get finds *)
(* what the last readable record of a key has.                              *)
LEMMA RestoreIs ==
    ASSUME NEW f, Image(f), NEW g, g = RestoreDatabase(f)
    PROVE  /\ g.meta = "closed" /\ Settled(g, g.synced) /\ AllFree(Thread, g, g.saved, NoSets)
           /\ Gathered(f, Range(Replayed(f)), g)
<1>1. PICK db : db = Rebuilt(f)[Len(Replayed(f))] OBVIOUS
<1>2. PICK O : O = Range(Replayed(f)) OBVIOUS
<1>3. PICK e \in Nat : e <= MaxSize + 1 /\ Gathering(f, O, e, db) BY <1>1, <1>2, RebuiltGathers
<1>4. PICK h, end1, blocks : h = db.file /\ end1 = db.end /\ blocks = db.pool OBVIOUS
<1>5. PICK T, ops : T = {0} /\ ops = One(None) OBVIOUS
<1>6. Orderly(T, h, end1, ops) /\ AllFree(T, h, blocks, ops) /\ h.meta = "closed" /\ Gathered(f, O, h)
  BY <1>3, <1>4, <1>5 DEF Gathering, Steady
<1>7. IsFile(h) /\ AllChained(h) /\ end1 \in Base .. MaxSize + 1 BY <1>6 DEF Orderly, Tiled
<1>8. g = [h EXCEPT !.synced = end1, !.saved = blocks] BY <1>1, <1>4 DEF RestoreDatabase
<1>9. g = [meta |-> h.meta, synced |-> end1, saved |-> blocks, bucket |-> h.bucket, recs |-> h.recs]
  BY <1>7, <1>8 DEF IsFile
<1>10. g.meta = "closed" /\ g.synced = end1 /\ g.saved = blocks /\ SameRecs(h, g) BY <1>6, <1>9 DEF SameRecs
<1>11. blocks \subseteq Block BY <1>6 DEF AllFree
<1>12. IsFile(g)
  <2>1. g = [meta |-> g.meta, synced |-> g.synced, saved |-> g.saved, bucket |-> g.bucket, recs |-> g.recs] BY <1>9
  <2>2. g.bucket = h.bucket /\ g.recs = h.recs BY <1>10 DEF SameRecs
  <2> QED BY <1>7, <1>10, <1>11, <2>1, <2>2 DEF IsFile
<1>13. Orderly(T, g, end1, ops) BY <1>6, <1>10, <1>12, SameRecsOrderly
<1>14. AllFree(T, g, blocks, ops) BY <1>6, <1>10 DEF AllFree, SameRecs
<1>15. (\A t \in T : ops[t] = None) /\ \A t \in Thread : NoSets[t] = None BY <1>5, OneBecomes DEF NoSets
<1>16. Settled(g, end1) /\ AllFree(Thread, g, blocks, NoSets) BY <1>13, <1>14, <1>15, OrderlyIdle DEF Settled
<1>17. \A k \in Key : Lookup(g, k) = Lookup(h, k) BY <1>7, <1>10, <1>12, SameRecsGets
<1>18. Gathered(f, O, g) BY <1>6, <1>17 DEF Gathered
<1> QED BY <1>2, <1>10, <1>16, <1>18

-----------------------------------------------------------------------------
(* What Open checks. *)

(* What is asked of a record that can be read. *)
RecordChecked(f, o) ==
    /\ f.recs[o].type = "live" => o \in Range(Chain(f, BucketOf[f.recs[o].key]))
    /\ f.recs[o].type = "live" /\ f.recs[o].child # 0 =>
           /\ Readable(f, f.recs[o].child)
           /\ f.recs[f.recs[o].child].type = "live"
           /\ BucketOf[f.recs[f.recs[o].child].key] = BucketOf[f.recs[o].key]

CheckAt(f, g, o) ==
    IF Readable(f, o) THEN RecordChecked(f, o) /\ g[o + f.recs[o].size]
    ELSE \A p \in DOMAIN f.recs : p < o

LEMMA CheckedIs ==
    ASSUME NEW f, IsFile(f), Apart(Places(f))
    PROVE  \A o \in Base .. 3 * MaxSize : Checked(f)[o] = CheckAt(f, Checked(f), o)
<1> DEFINE S == {n \in Nat : \E g : g = [o \in n .. 3 * MaxSize |-> CheckAt(f, g, o)]}
<1>0. 3 * MaxSize \in Nat /\ Base \in Nat /\ MaxSize + 1 <= 3 * MaxSize BY DatabaseAssumption DEF Base
<1>1. ASSUME NEW n \in Base .. 3 * MaxSize, \A m \in n + 1 .. 3 * MaxSize : m \in S
      PROVE  n \in S
  <2>1. PICK g : \A o \in n + 1 .. 3 * MaxSize : g[o] = CheckAt(f, g, o)
    <3>1. CASE n + 1 \in n + 1 .. 3 * MaxSize
      <4>1. n + 1 \in S BY <1>1, <3>1
      <4>2. PICK g : g = [o \in n + 1 .. 3 * MaxSize |-> CheckAt(f, g, o)] BY <4>1
      <4> QED BY <4>2
    <3>2. CASE n + 1 \notin n + 1 .. 3 * MaxSize
      <4>1. n + 1 .. 3 * MaxSize = {} BY <1>0, <3>2 DEF Base
      <4> QED BY <4>1
    <3> QED BY <3>1, <3>2
  <2>2. PICK h : h = [o \in n .. 3 * MaxSize |-> IF o = n THEN CheckAt(f, g, n) ELSE g[o]] OBVIOUS
  <2>3. \A p \in n + 1 .. 3 * MaxSize : g[p] = h[p] BY <1>0, <2>2 DEF Base
  <2>4. \A o \in n .. 3 * MaxSize : h[o] = CheckAt(f, h, o)
    <3> TAKE o \in n .. 3 * MaxSize
    <3>1. o \in Nat BY <1>0
    <3>2. CheckAt(f, g, o) = CheckAt(f, h, o)
      <4>1. CASE Readable(f, o)
        <5>1. f.recs[o].size \in 1 .. MaxSize /\ o + f.recs[o].size <= MaxSize + 1
          BY <4>1, ImageIs DEF Readable
        <5>2. o + f.recs[o].size \in n + 1 .. 3 * MaxSize BY <1>0, <3>1, <5>1, DatabaseAssumption
        <5>3. g[o + f.recs[o].size] = h[o + f.recs[o].size] BY <2>3, <5>2
        <5> QED BY <4>1, <5>3 DEF CheckAt
      <4>2. CASE ~Readable(f, o) BY <4>2 DEF CheckAt
      <4> QED BY <4>1, <4>2
    <3>3. h[o] = CheckAt(f, g, o)
      <4>1. CASE o = n BY <2>2, <4>1
      <4>2. CASE o # n
        <5>1. o \in n + 1 .. 3 * MaxSize BY <1>0, <4>2 DEF Base
        <5> QED BY <2>1, <2>2, <5>1, <4>2
      <4> QED BY <4>1, <4>2
    <3> QED BY <3>2, <3>3
  <2>5. h = [o \in n .. 3 * MaxSize |-> CheckAt(f, h, o)] BY <2>2, <2>4
  <2>6. n \in Nat BY <1>0
  <2> QED BY <2>5, <2>6
<1>2. Base \in S
  <2>1. Base .. 3 * MaxSize \subseteq S
    <3> HIDE DEF S
    <3> QED BY <1>0, <1>1, Downwards, ZenonT(60)
  <2>2. Base \in Base .. 3 * MaxSize BY DatabaseAssumption DEF Base
  <2> HIDE DEF S
  <2> QED BY <2>1, <2>2
<1>3. \E g : g = [o \in Base .. 3 * MaxSize |-> CheckAt(f, g, o)] BY <1>2
<1>4. Checked(f) = CHOOSE g : g = [o \in Base .. 3 * MaxSize |-> CheckAt(f, g, o)]
  BY DEF Checked, CheckAt, RecordChecked
<1>5. Checked(f) = [o \in Base .. 3 * MaxSize |-> CheckAt(f, Checked(f), o)]
  BY <1>3, <1>4
<1> QED BY <1>5

(* What has been checked from n on: every record there can be read, is       *)
(* sound, and has another or nothing behind it.                             *)
AllChecked(f, n) ==
    /\ \A p \in DOMAIN f.recs : n <= p =>
         /\ Readable(f, p) /\ RecordChecked(f, p)
         /\ \/ p + f.recs[p].size \in DOMAIN f.recs
            \/ \A q \in DOMAIN f.recs : q < p + f.recs[p].size
    /\ n \in DOMAIN f.recs \/ \A p \in DOMAIN f.recs : p < n

LEMMA CheckedAll ==
    ASSUME NEW f, IsFile(f), Apart(Places(f))
    PROVE  \A n \in Base .. 3 * MaxSize : Checked(f)[n] => AllChecked(f, n)
<1> DEFINE S == {n \in Nat : Checked(f)[n] => AllChecked(f, n)}
<1>0. 3 * MaxSize \in Nat /\ Base \in Nat /\ MaxSize + 1 <= 3 * MaxSize BY DatabaseAssumption DEF Base
<1>1. ASSUME NEW n \in Base .. 3 * MaxSize, \A m \in n + 1 .. 3 * MaxSize : m \in S
      PROVE  n \in S
  <2>0. n \in Nat BY <1>0
  <2> SUFFICES ASSUME Checked(f)[n] PROVE AllChecked(f, n) BY <2>0
  <2>1. CheckAt(f, Checked(f), n) BY CheckedIs
  <2>2. \A p \in DOMAIN f.recs : p \in Nat BY <1>0 DEF IsFile
  <2>3. CASE Readable(f, n)
    <3>1. n \in DOMAIN f.recs BY <2>3 DEF Readable
    <3>2. PICK q : q = n + f.recs[n].size OBVIOUS
    <3>3. RecordChecked(f, n) /\ Checked(f)[q] BY <2>1, <2>3, <3>2 DEF CheckAt
    <3>4. f.recs[n].size \in 1 .. MaxSize /\ q <= MaxSize + 1 /\ \A p \in DOMAIN f.recs : n < p => q <= p
      BY <3>1, <3>2, ImageIs
    <3>5. q \in n + 1 .. 3 * MaxSize BY <1>0, <2>0, <3>2, <3>4, DatabaseAssumption
    <3>6. AllChecked(f, q) BY <1>1, <3>3, <3>5
    <3>7. ASSUME NEW p \in DOMAIN f.recs, n <= p
          PROVE  /\ Readable(f, p) /\ RecordChecked(f, p)
                 /\ \/ p + f.recs[p].size \in DOMAIN f.recs
                    \/ \A r \in DOMAIN f.recs : r < p + f.recs[p].size
      <4>1. CASE p = n BY <2>3, <3>2, <3>3, <3>6, <4>1 DEF AllChecked
      <4>2. CASE p # n
        <5>1. q <= p BY <2>0, <2>2, <3>4, <3>7, <4>2
        <5> QED BY <3>6, <5>1 DEF AllChecked
      <4> QED BY <4>1, <4>2
    <3> QED BY <3>1, <3>7 DEF AllChecked
  <2>4. CASE ~Readable(f, n)
    <3>1. \A p \in DOMAIN f.recs : p < n BY <2>1, <2>4 DEF CheckAt
    <3>2. \A p \in DOMAIN f.recs : ~(n <= p) BY <2>0, <2>2, <3>1
    <3> QED BY <3>1, <3>2 DEF AllChecked
  <2> QED BY <2>3, <2>4
<1>2. Base .. 3 * MaxSize \subseteq S
  <2> HIDE DEF S
  <2> QED BY <1>0, <1>1, Downwards, ZenonT(60)
<1> QED BY <1>2

LEMMA ApartWithin ==
    ASSUME NEW A, NEW B, Apart(B), A \subseteq B
    PROVE  Apart(A)
BY DEF Apart

LEMMA OrderlyImage ==
    ASSUME NEW T, NEW f, NEW e, NEW ops, Orderly(T, f, e, ops)
    PROVE  Image(f)
<1>1. /\ IsFile(f) /\ Live_Fit(f) /\ AllChained(f) /\ Tiled(Extents(T, f, ops), e)
  BY DEF Orderly
<1>2. Apart(Extents(T, f, ops)) BY <1>1 DEF Tiled
<1>3. Places(f) \subseteq Extents(T, f, ops) BY DEF Extents
<1>4. Apart(Places(f)) BY <1>2, <1>3, ApartWithin
<1> QED BY <1>1, <1>4 DEF Image

(* A file that is found sound is in order, and ends where its records do. *)
LEMMA ShortcutSettled ==
    ASSUME NEW f, Image(f), Shortcut(f)
    PROVE  Settled(f, EndOf(f))
<1>1. IsFile(f) /\ Live_Fit(f) /\ Apart(Places(f)) BY DEF Image
<1>2. AllChecked(f, Base)
  <2>1. Checked(f)[Base] BY DEF Shortcut, ValidateRecords
  <2>2. Base \in Base .. 3 * MaxSize BY DatabaseAssumption DEF Base
  <2> QED BY <1>1, <2>1, <2>2, CheckedAll
<1>3. \A p \in DOMAIN f.recs : p \in Nat /\ Base <= p BY <1>1, DatabaseAssumption DEF IsFile, Base
<1>4. ASSUME NEW p \in DOMAIN f.recs
      PROVE  /\ Readable(f, p) /\ RecordChecked(f, p)
             /\ \/ p + f.recs[p].size \in DOMAIN f.recs
                \/ \A q \in DOMAIN f.recs : q < p + f.recs[p].size
  BY <1>2, <1>3 DEF AllChecked
<1>5. NoneTorn(f) /\ AllChained(f) BY <1>4 DEF NoneTorn, Readable, Image
<1>6. /\ EndOf(f) \in Base .. MaxSize + 1
      /\ \A o \in DOMAIN f.recs : o + f.recs[o].size <= EndOf(f)
      /\ EndOf(f) = Base \/ \E o \in DOMAIN f.recs : EndOf(f) = o + f.recs[o].size
  BY <1>1, EndIs
<1>7. \A x \in Places(f) : x.offset \in DOMAIN f.recs /\ x.size = f.recs[x.offset].size BY DEF Places
<1>8. \A o \in DOMAIN f.recs : \E y \in Places(f) : y.offset = o
  <2> TAKE o \in DOMAIN f.recs
  <2>1. PICK y : y = [offset |-> o, size |-> f.recs[o].size] OBVIOUS
  <2>2. y \in Places(f) /\ y.offset = o BY <2>1 DEF Places
  <2> QED BY <2>2
<1>9. \A o \in DOMAIN f.recs :
        o \in Nat /\ f.recs[o].size \in Nat /\ \A p \in DOMAIN f.recs : o < p => o + f.recs[o].size <= p
  BY <1>1, <1>3, ImageIs, DatabaseAssumption
<1>10. EndOf(f) = Base \/ \E x \in Places(f) : x.offset = Base
  <2> SUFFICES ASSUME EndOf(f) # Base PROVE \E x \in Places(f) : x.offset = Base OBVIOUS
  <2>1. PICK o \in DOMAIN f.recs : TRUE BY <1>6
  <2>2. ~(o < Base) BY <1>3, <2>1, DatabaseAssumption DEF Base
  <2>3. Base \in DOMAIN f.recs BY <1>2, <2>1, <2>2 DEF AllChecked
  <2> QED BY <1>8, <2>3
<1>11. ASSUME NEW x \in Places(f)
       PROVE  /\ x.offset + x.size <= EndOf(f)
              /\ x.offset + x.size = EndOf(f) \/ \E y \in Places(f) : y.offset = x.offset + x.size
  <2>1. PICK o \in DOMAIN f.recs : o = x.offset /\ x.size = f.recs[o].size BY <1>7
  <2>2. CASE o + f.recs[o].size \in DOMAIN f.recs BY <1>6, <1>8, <2>1, <2>2
  <2>3. CASE \A q \in DOMAIN f.recs : q < o + f.recs[o].size
    <3>1. \A q \in DOMAIN f.recs : q + f.recs[q].size <= o + f.recs[o].size
      <4> TAKE q \in DOMAIN f.recs
      <4>1. ~(o < q)
        <5>1. q < o + f.recs[o].size BY <2>3
        <5>2. o < q => o + f.recs[o].size <= q BY <1>9
        <5> QED BY <1>9, <5>1, <5>2
      <4>2. q < o \/ q = o BY <1>9, <4>1
      <4>3. q < o => q + f.recs[q].size <= o BY <1>9
      <4> QED BY <1>9, <4>2, <4>3
    <3>2. EndOf(f) = o + f.recs[o].size
      <4>1. EndOf(f) # Base
        <5>1. f.recs[o].size \in 1 .. MaxSize /\ o \in Base .. MaxSize BY <1>1, ImageIs
        <5>2. o + f.recs[o].size <= EndOf(f) BY <1>6
        <5> QED BY <5>1, <5>2, <1>6, DatabaseAssumption DEF Base
      <4>2. PICK q \in DOMAIN f.recs : EndOf(f) = q + f.recs[q].size BY <1>6, <4>1
      <4>3. EndOf(f) <= o + f.recs[o].size /\ o + f.recs[o].size <= EndOf(f) BY <1>6, <3>1, <4>2
      <4> QED BY <1>9, <4>2, <4>3
    <3> QED BY <2>1, <3>2, <1>9
  <2> QED BY <1>4, <2>2, <2>3
<1>12. Tiled(Places(f), EndOf(f)) BY <1>1, <1>6, <1>10, <1>11 DEF Tiled
<1>13. \A t \in Thread : NoSets[t] = None BY DEF NoSets
<1>14. Extents(Thread, f, NoSets) = Places(f) BY <1>13 DEF Extents
<1>15. \A o \in DOMAIN f.recs : Live(f, o) => InChain(f, f.recs[o].key, o)
  BY <1>4 DEF RecordChecked, InChain, Live
<1> QED BY <1>1, <1>5, <1>12, <1>13, <1>14, <1>15 DEF Settled, Orderly

(* The places of a file in order. *)
LEMMA OrderlyPlaces ==
    ASSUME NEW T, NEW f, NEW e, NEW ops, Orderly(T, f, e, ops), \A t \in T : ops[t] = None
    PROVE  /\ e \in Base .. MaxSize + 1
           /\ e = Base \/ Base \in DOMAIN f.recs
           /\ \A o \in DOMAIN f.recs : /\ o + f.recs[o].size <= e
                                       /\ o + f.recs[o].size = e \/ o + f.recs[o].size \in DOMAIN f.recs
<1>1. Extents(T, f, ops) = Places(f) BY DEF Extents
<1>2. Tiled(Places(f), e) BY <1>1 DEF Orderly
<1>3. \A x \in Places(f) : x.offset \in DOMAIN f.recs /\ x.size = f.recs[x.offset].size BY DEF Places
<1>4. ASSUME NEW o \in DOMAIN f.recs
      PROVE  /\ o + f.recs[o].size <= e
             /\ o + f.recs[o].size = e \/ o + f.recs[o].size \in DOMAIN f.recs
  <2>1. PICK x : x = [offset |-> o, size |-> f.recs[o].size] OBVIOUS
  <2>2. x \in Places(f) /\ x.offset = o /\ x.size = f.recs[o].size BY <2>1 DEF Places
  <2>3. o + f.recs[o].size <= e BY <1>2, <2>2 DEF Tiled
  <2>4. o + f.recs[o].size = e \/ \E y \in Places(f) : y.offset = o + f.recs[o].size
    BY <1>2, <2>2 DEF Tiled
  <2> QED BY <1>3, <2>3, <2>4
<1> QED BY <1>2, <1>3, <1>4 DEF Tiled

(* A file in order is found sound. *)
LEMMA OrderlyShortcut ==
    ASSUME NEW T, NEW f, NEW e, NEW ops, Orderly(T, f, e, ops), \A t \in T : ops[t] = None, f.meta = "open"
    PROVE  Shortcut(f)
<1>1. IsFile(f) /\ Live_Fit(f) /\ NoneTorn(f) /\ AllChained(f) BY DEF Orderly
<1>2. Apart(Places(f)) BY OrderlyImage DEF Image
<1>3. ValidateHashBuckets(f)
  <2> SUFFICES ASSUME NEW b \in Bucket, f.bucket[b] # 0
               PROVE  /\ Readable(f, f.bucket[b])
                      /\ f.recs[f.bucket[b]].type = "live"
                      /\ BucketOf[f.recs[f.bucket[b]].key] = b
    BY DEF ValidateHashBuckets
  <2>1. PICK c : c = Chain(f, b) OBVIOUS
  <2>2. Chained(f, b, c) BY <1>1, <2>1 DEF AllChained
  <2>3. c # <<>> /\ f.bucket[b] = c[1] BY <2>2 DEF Chained
  <2>4. c \in Seq(DOMAIN f.recs) BY <2>2 DEF Chained
  <2>5. 1 \in DOMAIN c BY <2>3, <2>4, EmptySeq, LenProperties
  <2>6. Live(f, c[1]) /\ BucketOf[f.recs[c[1]].key] = b BY <2>2, <2>5 DEF Chained
  <2> QED BY <2>3, <2>6 DEF Live, Readable
<1>4. \A o \in DOMAIN f.recs : RecordChecked(f, o)
  <2> TAKE o \in DOMAIN f.recs
  <2> SUFFICES ASSUME f.recs[o].type = "live" PROVE RecordChecked(f, o) BY DEF RecordChecked
  <2>1. Live(f, o) /\ f.recs[o].key \in Key BY <1>1 DEF Live, Live_Fit
  <2>2. PICK b \in Bucket : b = BucketOf[f.recs[o].key] BY <2>1, DatabaseAssumption
  <2>3. InChain(f, f.recs[o].key, o) BY <2>1 DEF Orderly
  <2>4. PICK c : c = Chain(f, b) OBVIOUS
  <2>5. o \in Range(c) /\ Chained(f, b, c) BY <1>1, <2>2, <2>3, <2>4 DEF InChain, AllChained
  <2>6. PICK i \in DOMAIN c : o = c[i] BY <2>5 DEF Range
  <2>7. f.recs[o].child = IF i = Len(c) THEN 0 ELSE c[i + 1] BY <2>5, <2>6 DEF Chained
  <2>8. ASSUME f.recs[o].child # 0
        PROVE  /\ Readable(f, f.recs[o].child)
               /\ f.recs[f.recs[o].child].type = "live"
               /\ BucketOf[f.recs[f.recs[o].child].key] = b
    <3>1. i # Len(c) /\ f.recs[o].child = c[i + 1] BY <2>7, <2>8
    <3>2. c \in Seq(DOMAIN f.recs) BY <2>5 DEF Chained
    <3>3. DOMAIN c = 1 .. Len(c) /\ Len(c) \in Nat BY <3>2, LenProperties
    <3>4. i + 1 \in DOMAIN c BY <2>6, <3>1, <3>3
    <3>5. Live(f, c[i + 1]) /\ BucketOf[f.recs[c[i + 1]].key] = b BY <2>5, <3>4 DEF Chained
    <3> QED BY <3>1, <3>5 DEF Live, Readable
  <2> QED BY <2>2, <2>4, <2>5, <2>8 DEF RecordChecked
<1>5. /\ e \in Base .. MaxSize + 1
      /\ e = Base \/ Base \in DOMAIN f.recs
      /\ \A o \in DOMAIN f.recs : /\ o + f.recs[o].size <= e
                                  /\ o + f.recs[o].size = e \/ o + f.recs[o].size \in DOMAIN f.recs
  BY OrderlyPlaces
<1>6. \A o \in DOMAIN f.recs : o \in Nat /\ f.recs[o].size \in Nat \ {0}
  BY <1>1, <1>2, ImageIs, DatabaseAssumption DEF Base
<1>7. \A o \in DOMAIN f.recs : o < e
  <2> TAKE o \in DOMAIN f.recs
  <2>1. o + f.recs[o].size <= e BY <1>5
  <2> QED BY <1>5, <1>6, <2>1, DatabaseAssumption DEF Base
<1> DEFINE S == {n \in Nat : (n \in DOMAIN f.recs \/ n = e) => Checked(f)[n]}
<1>8. ASSUME NEW n \in Base .. e, \A m \in n + 1 .. e : m \in S
      PROVE  n \in S
  <2>0. n \in Nat /\ e \in Nat BY <1>5, DatabaseAssumption DEF Base
  <2> SUFFICES ASSUME n \in DOMAIN f.recs \/ n = e PROVE Checked(f)[n] BY <2>0
  <2>1. n \in Base .. 3 * MaxSize BY <1>5, DatabaseAssumption DEF Base
  <2>2. Checked(f)[n] = CheckAt(f, Checked(f), n) BY <1>1, <1>2, <2>1, CheckedIs
  <2>3. CASE n \in DOMAIN f.recs
    <3>1. Readable(f, n) BY <1>1, <2>3 DEF Readable, NoneTorn
    <3>2. PICK q : q = n + f.recs[n].size OBVIOUS
    <3>3. q <= e /\ (q = e \/ q \in DOMAIN f.recs) BY <1>5, <2>3, <3>2
    <3>4. q \in n + 1 .. e BY <1>6, <2>0, <2>3, <3>2, <3>3
    <3>5. Checked(f)[q] BY <1>8, <3>3, <3>4
    <3> QED BY <1>4, <2>2, <2>3, <3>1, <3>2, <3>5 DEF CheckAt
  <2>4. CASE n \notin DOMAIN f.recs
    <3>1. ~Readable(f, n) BY <2>4 DEF Readable
    <3> QED BY <1>7, <2>2, <2>4, <3>1 DEF CheckAt
  <2> QED BY <2>3, <2>4
<1>9. Base .. e \subseteq S
  <2>1. Base \in Nat /\ e \in Nat BY <1>5, DatabaseAssumption DEF Base
  <2> HIDE DEF S
  <2> QED BY <1>8, <2>1, Downwards
<1>10. Checked(f)[Base]
  <2>1. Base \in Base .. e BY <1>5, DatabaseAssumption DEF Base
  <2>2. Base \in S
    <3> HIDE DEF S
    <3> QED BY <1>9, <2>1
  <2> QED BY <1>5, <2>2
<1> QED BY <1>3, <1>10 DEF Shortcut, ValidateRecords

-----------------------------------------------------------------------------
(* Steps of the process. *)

(* g is f with other metadata. *)
Header(f, g, meta, synced, saved) ==
    IsFile(g) /\ SameRecs(f, g) /\ g.meta = meta /\ g.synced = synced /\ g.saved = saved

LEMMA HeaderIs ==
    ASSUME NEW f, IsFile(f), NEW meta \in {"absent", "bare", "closed", "open", "torn"},
           NEW synced \in Base .. MaxSize + 1, NEW saved \in SUBSET Block
    PROVE  /\ Header(f, [f EXCEPT !.meta = meta], meta, f.synced, f.saved)
           /\ Header(f, [f EXCEPT !.meta = meta, !.synced = synced], meta, synced, f.saved)
           /\ Header(f, [f EXCEPT !.saved = saved], f.meta, f.synced, saved)
<1>1. f = [meta |-> f.meta, synced |-> f.synced, saved |-> f.saved, bucket |-> f.bucket, recs |-> f.recs]
  BY DEF IsFile
<1>2. ASSUME NEW g, NEW m \in {"absent", "bare", "closed", "open", "torn"},
             NEW e \in Base .. MaxSize + 1, NEW b \in SUBSET Block,
             g = [meta |-> m, synced |-> e, saved |-> b, bucket |-> f.bucket, recs |-> f.recs]
      PROVE  Header(f, g, m, e, b)
  <2>1. g.meta = m /\ g.synced = e /\ g.saved = b /\ g.bucket = f.bucket /\ g.recs = f.recs BY <1>2
  <2>2. g = [meta |-> g.meta, synced |-> g.synced, saved |-> g.saved, bucket |-> g.bucket, recs |-> g.recs]
    BY <1>2, <2>1
  <2>3. /\ f.bucket \in [Bucket -> 0 .. MaxSize]
        /\ DOMAIN f.recs \subseteq Base .. MaxSize /\ f.recs \in [DOMAIN f.recs -> Record]
    BY DEF IsFile
  <2>4. IsFile(g) BY <1>2, <2>1, <2>2, <2>3 DEF IsFile
  <2> QED BY <2>1, <2>4 DEF Header, SameRecs
<1>3. f.meta \in {"absent", "bare", "closed", "open", "torn"} /\ f.synced \in Base .. MaxSize + 1
      /\ f.saved \in SUBSET Block
  BY DEF IsFile
<1>4. PICK g : g = [f EXCEPT !.meta = meta] OBVIOUS
<1>5. g = [meta |-> meta, synced |-> f.synced, saved |-> f.saved, bucket |-> f.bucket, recs |-> f.recs]
  BY <1>1, <1>4
<1>6. PICK h : h = [f EXCEPT !.meta = meta, !.synced = synced] OBVIOUS
<1>7. h = [meta |-> meta, synced |-> synced, saved |-> f.saved, bucket |-> f.bucket, recs |-> f.recs]
  BY <1>1, <1>6
<1>8. PICK j : j = [f EXCEPT !.saved = saved] OBVIOUS
<1>9. j = [meta |-> f.meta, synced |-> f.synced, saved |-> saved, bucket |-> f.bucket, recs |-> f.recs]
  BY <1>1, <1>8
<1>10. Header(f, g, meta, f.synced, f.saved) BY <1>2, <1>3, <1>5
<1>11. Header(f, h, meta, synced, f.saved) BY <1>2, <1>3, <1>7
<1>12. Header(f, j, f.meta, f.synced, saved) BY <1>2, <1>3, <1>9
<1> QED BY <1>4, <1>6, <1>8, <1>10, <1>11, <1>12

LEMMA HeaderMeta ==
    ASSUME NEW f, IsFile(f), NEW meta \in {"absent", "bare", "closed", "open", "torn"}
    PROVE  Header(f, [f EXCEPT !.meta = meta], meta, f.synced, f.saved)
<1>1. PICK synced \in Base .. MaxSize + 1 : TRUE BY DatabaseAssumption DEF Base
<1>2. PICK saved \in SUBSET Block : TRUE OBVIOUS
<1> QED BY HeaderIs

LEMMA HeaderKeeps ==
    ASSUME NEW f, NEW g, NEW meta, NEW synced, NEW saved, Header(f, g, meta, synced, saved),
           NEW T, NEW ops
    PROVE  /\ \A e : Orderly(T, f, e, ops) => Orderly(T, g, e, ops) /\ Image(g)
           /\ \A blocks : AllFree(T, f, blocks, ops) => AllFree(T, g, blocks, ops)
<1>1. IsFile(g) /\ SameRecs(f, g) BY DEF Header
<1>2. ASSUME NEW e, Orderly(T, f, e, ops) PROVE Orderly(T, g, e, ops) /\ Image(g)
  <2>1. Orderly(T, g, e, ops) BY <1>1, <1>2, SameRecsOrderly
  <2> QED BY <2>1, OrderlyImage
<1>3. \A blocks : AllFree(T, f, blocks, ops) => AllFree(T, g, blocks, ops) BY <1>1 DEF AllFree, SameRecs
<1> QED BY <1>2, <1>3

(* What a crash leaves of a file. *)
Crashed(f, ops, torn, meta) == [f EXCEPT !.recs = Over(Cut(f, ops, torn), @), !.meta = meta]

(* The records at O are torn, and take places of the file as it was. *)
TornAt(T, f, ops, O, g) ==
    /\ DOMAIN g.recs = DOMAIN f.recs \union O
    /\ \A o \in DOMAIN f.recs \ O : g.recs[o] = f.recs[o]
    /\ \A o \in O : /\ g.recs[o].type = "torn"
                    /\ [offset |-> o, size |-> g.recs[o].size] \in Extents(T, f, ops)

(* The Sets of T that have torn their records, and the places of these. *)
Tearing(T, ops, torn) == torn \in SUBSET {t \in T : ops[t] # None /\ ops[t].pc \in {"write", "void"}}
CutAt(ops, torn) == {Place(ops[t]) : t \in torn}

LEMMA CutIs ==
    ASSUME NEW T, NEW f, NEW e, NEW ops, Orderly(T, f, e, ops),
           NEW torn, Tearing(T, ops, torn), NEW o \in CutAt(ops, torn)
    PROVE  \E n \in 1 .. MaxSize : /\ Cut(f, ops, torn)[o] = Torn(n)
                                   /\ [offset |-> o, size |-> n] \in Extents(T, f, ops)
<1>0. \E t \in torn : Place(ops[t]) = o BY DEF CutAt
<1>1. PICK t \in torn : t = CHOOSE u \in torn : Place(ops[u]) = o BY <1>0
<1>2. Place(ops[t]) = o BY <1>0, <1>1
<1>3. t \in T /\ ops[t] # None /\ ops[t].pc \in {"write", "void"} BY DEF Tearing
<1>4. PICK n : n = IF ops[t].pc = "void" THEN f.recs[o].size ELSE ops[t].size OBVIOUS
<1>5. Cut(f, ops, torn)[o] = Torn(n) BY <1>1, <1>4 DEF Cut, CutAt
<1>6. Underway(f, ops[t]) BY <1>3 DEF Orderly
<1>7. [offset |-> o, size |-> n] \in Extents(T, f, ops)
  <2>1. CASE ops[t].pc = "void"
    <3>1. o = ops[t].cur /\ n = f.recs[o].size BY <1>2, <1>4, <2>1 DEF Place
    <3>2. o \in DOMAIN f.recs BY <1>6, <2>1, <3>1 DEF Underway
    <3> QED BY <3>1, <3>2 DEF Extents, Places
  <2>2. CASE ops[t].pc = "write"
    <3>1. o = ops[t].dest /\ n = ops[t].size BY <1>2, <1>4, <2>2 DEF Place
    <3> QED BY <1>3, <2>2, <3>1 DEF Extents
  <2> QED BY <1>3, <2>1, <2>2
<1>8. n \in 1 .. MaxSize
  <2>1. PICK x : x = [offset |-> o, size |-> n] OBVIOUS
  <2>2. x \in Block BY <1>7, <2>1 DEF Orderly, Tiled, Apart
  <2> QED BY <2>1, <2>2 DEF Block
<1> QED BY <1>5, <1>7, <1>8

LEMMA CrashedIs ==
    ASSUME NEW T, NEW f, NEW e, NEW ops, Orderly(T, f, e, ops),
           NEW torn, Tearing(T, ops, torn),
           NEW meta \in {"absent", "bare", "closed", "open", "torn"},
           NEW g, g = Crashed(f, ops, torn, meta), NEW O, O = CutAt(ops, torn)
    PROVE  /\ Image(g) /\ g.meta = meta /\ g.synced = f.synced /\ g.saved = f.saved
           /\ TornAt(T, f, ops, O, g)
           /\ torn = {} => SameRecs(f, g)
<1>1. /\ IsFile(f) /\ Live_Fit(f) /\ AllChained(f) /\ Tiled(Extents(T, f, ops), e)
  BY DEF Orderly
<1>2. PICK cut : cut = Cut(f, ops, torn) OBVIOUS
<1>3. DOMAIN cut = O BY <1>2 DEF Cut, CutAt
<1>4. PICK r : r = Over(cut, f.recs) OBVIOUS
<1>5. /\ DOMAIN r = DOMAIN f.recs \union O
      /\ r = [o \in DOMAIN f.recs \union O |-> r[o]]
      /\ \A o \in DOMAIN f.recs \ O : r[o] = f.recs[o]
      /\ \A o \in O : r[o] = cut[o]
  BY <1>3, <1>4 DEF Over
<1>6. g = [meta |-> meta, synced |-> f.synced, saved |-> f.saved, bucket |-> f.bucket, recs |-> r]
  <2>1. f = [meta |-> f.meta, synced |-> f.synced, saved |-> f.saved, bucket |-> f.bucket, recs |-> f.recs]
    BY <1>1 DEF IsFile
  <2>2. g = [f EXCEPT !.recs = r, !.meta = meta] BY <1>2, <1>4, <2>1 DEF Crashed
  <2> QED BY <2>1, <2>2
<1>7. g.meta = meta /\ g.synced = f.synced /\ g.saved = f.saved /\ g.bucket = f.bucket /\ g.recs = r BY <1>6
<1>8. \A o \in O : \E n \in 1 .. MaxSize : r[o] = Torn(n) /\ [offset |-> o, size |-> n] \in Extents(T, f, ops)
  BY <1>2, <1>5, CutIs, SMTT(30)
<1>9. \A o \in O : /\ r[o].type = "torn" /\ r[o] \in Record
                   /\ [offset |-> o, size |-> r[o].size] \in Extents(T, f, ops)
  <2> TAKE o \in O
  <2>1. PICK n \in 1 .. MaxSize : r[o] = Torn(n) /\ [offset |-> o, size |-> n] \in Extents(T, f, ops) BY <1>8
  <2>2. Torn(n).type = "torn" /\ Torn(n).size = n BY DEF Torn
  <2>3. Torn(n) \in Record BY DatabaseAssumption DEF Torn, Record
  <2> QED BY <2>1, <2>2, <2>3
<1>10. TornAt(T, f, ops, O, g) BY <1>5, <1>7, <1>9 DEF TornAt
<1>11. Apart(Extents(T, f, ops)) /\ Places(f) \subseteq Extents(T, f, ops) BY <1>1 DEF Tiled, Extents
<1>12. Places(g) \subseteq Extents(T, f, ops)
  <2>1. ASSUME NEW o \in DOMAIN g.recs PROVE [offset |-> o, size |-> g.recs[o].size] \in Extents(T, f, ops)
    <3>1. CASE o \in O BY <1>7, <1>9, <3>1
    <3>2. CASE o \notin O
      <4>1. o \in DOMAIN f.recs /\ g.recs[o] = f.recs[o] BY <1>5, <1>7, <3>2
      <4>2. [offset |-> o, size |-> f.recs[o].size] \in Places(f) BY <4>1 DEF Places
      <4> QED BY <1>11, <4>1, <4>2
    <3> QED BY <3>1, <3>2
  <2> QED BY <2>1 DEF Places
<1>13. Apart(Places(g)) BY <1>11, <1>12, ApartWithin
<1>14. O \subseteq Base .. MaxSize
  <2> SUFFICES ASSUME NEW o \in O PROVE o \in Base .. MaxSize OBVIOUS
  <2>1. PICK x : x = [offset |-> o, size |-> r[o].size] OBVIOUS
  <2>2. x \in Block BY <1>9, <1>11, <2>1 DEF Apart
  <2> QED BY <2>1, <2>2 DEF Block
<1>15. IsFile(g)
  <2>1. f.recs \in [DOMAIN f.recs -> Record] /\ DOMAIN f.recs \subseteq Base .. MaxSize BY <1>1 DEF IsFile
  <2>2. \A o \in DOMAIN r : r[o] \in Record
    <3> TAKE o \in DOMAIN r
    <3>1. CASE o \in O BY <1>9, <3>1
    <3>2. CASE o \notin O BY <1>5, <2>1, <3>2
    <3> QED BY <3>1, <3>2
  <2>3. r \in [DOMAIN r -> Record] BY <1>5, <2>2
  <2>4. DOMAIN r \subseteq Base .. MaxSize BY <1>5, <1>14, <2>1
  <2>5. g = [meta |-> g.meta, synced |-> g.synced, saved |-> g.saved, bucket |-> g.bucket, recs |-> g.recs]
    BY <1>6, <1>7
  <2>6. f.synced \in Base .. MaxSize + 1 /\ f.saved \subseteq Block /\ f.bucket \in [Bucket -> 0 .. MaxSize]
    BY <1>1 DEF IsFile
  <2> QED BY <1>7, <2>3, <2>4, <2>5, <2>6 DEF IsFile
<1>16. Live_Fit(g)
  <2> SUFFICES ASSUME NEW o \in DOMAIN g.recs, Live(g, o)
               PROVE  g.recs[o].key \in Key /\ g.recs[o].val \in Value /\ Size[g.recs[o].val] <= g.recs[o].size
    BY DEF Live_Fit
  <2>1. o \notin O BY <1>7, <1>9 DEF Live
  <2>2. o \in DOMAIN f.recs /\ g.recs[o] = f.recs[o] BY <1>5, <1>7, <2>1
  <2> QED BY <1>1, <2>2 DEF Live_Fit, Live
<1>17. torn = {} => SameRecs(f, g)
  <2> HAVE torn = {}
  <2>1. O = {} BY DEF CutAt
  <2>2. r = [o \in DOMAIN f.recs |-> f.recs[o]] BY <1>5, <2>1
  <2>3. f.recs = [o \in DOMAIN f.recs |-> f.recs[o]] BY <1>1 DEF IsFile
  <2> QED BY <1>7, <2>2, <2>3 DEF SameRecs
<1>18. NoneTorn(g) => AllChained(g)
  <2> HAVE NoneTorn(g)
  <2>1. O = {} BY <1>5, <1>7, <1>9 DEF NoneTorn
  <2>2. torn = {} BY <2>1 DEF CutAt
  <2>3. Orderly(T, g, e, ops) BY <1>15, <1>17, <2>2, SameRecsOrderly
  <2> QED BY <2>3 DEF Orderly
<1> QED BY <1>7, <1>10, <1>13, <1>15, <1>16, <1>17, <1>18 DEF Image

-----------------------------------------------------------------------------
(* Every step keeps the invariant. *)

(* A session goes on. *)
LEMMA SessionKept ==
    ASSUME Kept, phase = "open", phase' = "open", cutClose' = cutClose, file'.meta = "open",
           Orderly(Thread, file', end', op'), AllFree(Thread, file', pool', op'),
           \E s : \E t \in Thread : op' = [op EXCEPT ![t] = s]
    PROVE  Kept'
<1>1. op \in [Thread -> OpenSet \union {None}] /\ cutClose \in BOOLEAN BY DEF Kept
<1>2. op' \in [Thread -> OpenSet \union {None}]
  <2>1. \A t \in Thread : op'[t] # None => op'[t] \in OpenSet BY DEF Orderly, Underway
  <2>2. PICK s, t : t \in Thread /\ op' = [op EXCEPT ![t] = s] OBVIOUS
  <2>3. op' = [u \in Thread |-> op'[u]] BY <1>1, <2>2
  <2> QED BY <2>1, <2>3
<1>3. Image(file') BY OrderlyImage
<1>4. end' \in Base .. MaxSize + 1 BY DEF Orderly, Tiled
<1>5. pool' \subseteq Block BY DEF AllFree
<1> QED BY <1>1, <1>2, <1>3, <1>4, <1>5 DEF Kept, PhaseInv

LEMMA BusyIs ==
    ASSUME Kept, NEW t \in Busy
    PROVE  /\ t \in Thread /\ op[t] # None /\ phase = "open" /\ file.meta = "open" /\ DOMAIN op = Thread
           /\ Orderly(Thread, file, end, op) /\ AllFree(Thread, file, pool, op)
           /\ Underway(file, op[t]) /\ op[t] \in OpenSet
           /\ IsFile(file) /\ Live_Fit(file) /\ AllChained(file)
<1>1. t \in Thread /\ op[t] # None BY DEF Busy
<1>2. phase = "open" BY <1>1 DEF Kept, NoSets
<1>3. Orderly(Thread, file, end, op) /\ file.meta = "open" BY <1>2 DEF Kept, PhaseInv
<1>4. AllFree(Thread, file, pool, op) /\ DOMAIN op = Thread BY DEF Kept
<1>5. Underway(file, op[t]) BY <1>1, <1>3 DEF Orderly
<1>6. op[t] \in OpenSet BY <1>5 DEF Underway
<1>7. IsFile(file) /\ Live_Fit(file) /\ AllChained(file) BY <1>3 DEF Orderly
<1> QED BY <1>1, <1>2, <1>3, <1>4, <1>5, <1>6, <1>7

LEMMA DoesKept ==
    ASSUME Kept, NEW t \in Busy, NEW s, Does(file, op[t], file', s), Goes(t, s),
           UNCHANGED <<end, pool>>, file'.meta = file.meta
    PROVE  Kept'
<1>1. /\ t \in Thread /\ op[t] # None /\ phase = "open" /\ file.meta = "open" /\ DOMAIN op = Thread
      /\ Orderly(Thread, file, end, op) /\ AllFree(Thread, file, pool, op)
  BY BusyIs
<1>2. op' = [op EXCEPT ![t] = s] /\ phase' = "open" /\ cutClose' = cutClose /\ end' = end /\ pool' = pool
  BY <1>1 DEF Goes
<1>3. Becomes(Thread, op, t, s, op') BY <1>1, <1>2 DEF Becomes
<1>4. /\ Orderly(Thread, file', end, op')
      /\ \A blocks : AllFree(Thread, file, blocks, op) => AllFree(Thread, file', blocks, op')
  BY <1>1, <1>3, DoesStep
<1>5. Orderly(Thread, file', end', op') /\ AllFree(Thread, file', pool', op') BY <1>1, <1>2, <1>4
<1>6. \E r : \E u \in Thread : op' = [op EXCEPT ![u] = r] BY <1>1, <1>2
<1> QED BY <1>1, <1>2, <1>5, <1>6, SessionKept

(* What each step of a thread does. *)
LEMMA WriteNewDoes ==
    ASSUME Kept, NEW t \in Busy, WriteNew(t)
    PROVE  /\ Does(file, op[t], file', AfterWrite(op[t])) /\ file'.meta = file.meta
           /\ IF op[t].dest = op[t].cur THEN AfterWrite(op[t]) = None /\ Gets(file, file', op[t].key, op[t].val)
              ELSE /\ AfterWrite(op[t]) = [op[t] EXCEPT !.pc = "link"]
                   /\ SameGets(file, file') /\ Underway(file', AfterWrite(op[t]))
<1>1. PICK s, f, g, s2 : s = op[t] /\ f = file /\ g = file' /\ s2 = AfterWrite(s) OBVIOUS
<1>2. IsFile(f) /\ Live_Fit(f) /\ AllChained(f) /\ Underway(f, s) BY <1>1, BusyIs
<1>3. s.pc = "write" /\ g = Written(f, s) BY <1>1 DEF WriteNew
<1>4. g.meta = f.meta BY <1>2, <1>3, SameMeta
<1>5. CASE s.dest = s.cur
  <2>1. s2 = None BY <1>1, <1>5 DEF AfterWrite
  <2>2. Does(f, s, g, None) /\ Gets(f, g, s.key, s.val) BY <1>2, <1>3, <1>5, WriteOver
  <2> QED BY <1>1, <1>4, <1>5, <2>1, <2>2
<1>6. CASE s.dest # s.cur
  <2>1. s2 = [s EXCEPT !.pc = "link"] BY <1>1, <1>6 DEF AfterWrite
  <2>2. Does(f, s, g, s2) /\ SameGets(f, g) /\ Underway(g, s2) BY <1>2, <1>3, <1>6, <2>1, WriteFresh
  <2> QED BY <1>1, <1>4, <1>6, <2>1, <2>2
<1> QED BY <1>5, <1>6

LEMMA LinkNewDoes ==
    ASSUME Kept, NEW t \in Busy, LinkNew(t)
    PROVE  /\ Does(file, op[t], file', AfterLink(op[t])) /\ file'.meta = file.meta
           /\ Gets(file, file', op[t].key, op[t].val)
           /\ IF op[t].cur = 0 THEN AfterLink(op[t]) = None
              ELSE AfterLink(op[t]) = [op[t] EXCEPT !.pc = "void"] /\ Underway(file', AfterLink(op[t]))
<1>1. PICK s, f, g, s2 : s = op[t] /\ f = file /\ g = file' /\ s2 = AfterLink(s) OBVIOUS
<1>2. IsFile(f) /\ Live_Fit(f) /\ AllChained(f) /\ Underway(f, s) BY <1>1, BusyIs
<1>3. s.pc = "link" /\ g = Linked(f, s) BY <1>1 DEF LinkNew
<1>4. g.meta = f.meta BY <1>2, <1>3, SameMeta
<1>5. CASE s.cur = 0
  <2>1. s2 = None BY <1>1, <1>5 DEF AfterLink
  <2>2. Does(f, s, g, None) /\ Gets(f, g, s.key, s.val) BY <1>2, <1>3, <1>5, LinkFirst
  <2> QED BY <1>1, <1>4, <1>5, <2>1, <2>2
<1>6. CASE s.cur # 0
  <2>1. s2 = [s EXCEPT !.pc = "void"] BY <1>1, <1>6 DEF AfterLink
  <2>2. Does(f, s, g, s2) /\ Gets(f, g, s.key, s.val) /\ Underway(g, s2) BY <1>2, <1>3, <1>6, <2>1, LinkOver
  <2> QED BY <1>1, <1>4, <1>6, <2>1, <2>2
<1> QED BY <1>5, <1>6

LEMMA VoidOldDoes ==
    ASSUME Kept, NEW t \in Busy, VoidOld(t)
    PROVE  /\ Does(file, op[t], file', [op[t] EXCEPT !.pc = "free"]) /\ file'.meta = file.meta
           /\ SameGets(file, file') /\ Underway(file', [op[t] EXCEPT !.pc = "free"])
<1>1. PICK s, f, g, s2 : s = op[t] /\ f = file /\ g = file' /\ s2 = [s EXCEPT !.pc = "free"] OBVIOUS
<1>2. IsFile(f) /\ Live_Fit(f) /\ AllChained(f) /\ Underway(f, s) BY <1>1, BusyIs
<1>3. s.pc = "void" /\ g = Voided(f, s) BY <1>1 DEF VoidOld
<1>4. g.meta = f.meta BY <1>2, <1>3, SameMeta
<1>5. Does(f, s, g, s2) /\ SameGets(f, g) /\ Underway(g, s2) BY <1>1, <1>2, <1>3, VoidOver
<1> QED BY <1>1, <1>4, <1>5

(* What a Set finds when it begins. *)
LEMMA BeginSetDoes ==
    ASSUME Kept, PoolSound, NEW t \in Thread, NEW k \in Key, NEW v \in Value, BeginSet(t, k, v)
    PROVE  /\ phase = "open" /\ file.meta = "open" /\ op[t] = None /\ op' = [op EXCEPT ![t] = Started(file, k, v)]
           /\ Orderly(Thread, file, end, op) /\ Orderly(Thread, file, end, op')
           /\ AllFree(Thread, file, pool, op')
<1>1. /\ phase = "open" /\ op[t] = None /\ PoolSound
      /\ \A u \in Busy : BucketOf[op[u].key] # BucketOf[k]
      /\ op' = [op EXCEPT ![t] = Started(file, k, v)]
  BY DEF BeginSet, Goes
<1>2. Orderly(Thread, file, end, op) /\ file.meta = "open" BY <1>1 DEF Kept, PhaseInv
<1>3. DOMAIN op = Thread BY DEF Kept
<1>4. PICK s : s = Started(file, k, v) OBVIOUS
<1>5. \A u \in Thread : op[u] # None => BucketOf[op[u].key] # BucketOf[k] BY <1>1 DEF Busy
<1>6. Orderly(Thread, file, end, op') BY <1>1, <1>2, <1>3, <1>4, <1>5, BeginStep
<1>7. Owned(s) = {}
  <2>1. IsFile(file) /\ Live_Fit(file) /\ AllChained(file) BY <1>2 DEF Orderly
  <2> QED BY <1>4, <2>1, StartedIs
<1>8. \A u \in Thread : op'[u] = IF u = t THEN s ELSE op[u] BY <1>1, <1>3, <1>4
<1>9. AllFree(Thread, file, pool, op')
  <2> SUFFICES ASSUME NEW b \in pool
               PROVE  /\ b \in Block
                      /\ b.offset \in DOMAIN file.recs /\ file.recs[b.offset] = Void(b.size)
                      /\ \A u \in Thread : op'[u] # None => b.offset \notin Owned(op'[u])
    BY DEF AllFree
  <2>1. b \in Block BY DEF Kept
  <2>2. b.offset \in DOMAIN file.recs /\ file.recs[b.offset] = Void(b.size) BY <1>1 DEF PoolSound
  <2>3. \A u \in Thread : op[u] # None => b.offset \notin Owned(op[u])
    <3>1. CASE Busy = {} BY <3>1 DEF Busy
    <3>2. CASE AllFree(Thread, file, pool, op) BY <3>2 DEF AllFree
    <3> QED BY <3>1, <3>2 DEF Kept
  <2> QED BY <1>7, <1>8, <2>1, <2>2, <2>3
<1> QED BY <1>1, <1>2, <1>6, <1>9

LEMMA BeginSetKept ==
    ASSUME Kept, PoolSound, NEW t \in Thread, NEW k \in Key, NEW v \in Value, BeginSet(t, k, v)
    PROVE  Kept'
<1>1. /\ phase = "open" /\ file.meta = "open" /\ op' = [op EXCEPT ![t] = Started(file, k, v)]
      /\ Orderly(Thread, file, end, op')
      /\ AllFree(Thread, file, pool, op')
  BY BeginSetDoes
<1>2. file' = file /\ end' = end /\ pool' = pool /\ phase' = phase /\ cutClose' = cutClose
  BY DEF BeginSet, Goes
<1>3. Orderly(Thread, file', end', op') /\ AllFree(Thread, file', pool', op') BY <1>1, <1>2
<1>4. \E s : \E u \in Thread : op' = [op EXCEPT ![u] = s] BY <1>1
<1> QED BY <1>1, <1>2, <1>3, <1>4, SessionKept

LEMMA PlaceRecordDoes ==
    ASSUME Kept, NEW t \in Thread, PlaceRecord(t)
    PROVE  \E s : /\ t \in Busy /\ op' = [op EXCEPT ![t] = s] /\ HasPlace(op[t], s) /\ Underway(file, s)
                  /\ Orderly(Thread, file, end', op') /\ AllFree(Thread, file, pool', op')
<1>1. t \in Busy /\ op[t].pc = "place" BY DEF PlaceRecord
<1>2. /\ op[t] # None /\ DOMAIN op = Thread
      /\ Orderly(Thread, file, end, op) /\ AllFree(Thread, file, pool, op)
  BY <1>1, BusyIs
<1>3. PICK db : db = [file |-> file, end |-> end, pool |-> pool] OBVIOUS
<1>4. PICK p : p = Placed(db, op[t]) OBVIOUS
<1>5. PICK f, e, blocks, ops, T : f = file /\ e = end /\ blocks = pool /\ ops = op /\ T = Thread OBVIOUS
<1>6. PICK e2, blocks2, ops2, s2 : e2 = end' /\ blocks2 = pool' /\ ops2 = op' /\ s2 = p.s OBVIOUS
<1>7. p.db.end <= MaxSize + 1 /\ end' = p.db.end /\ pool' = p.db.pool /\ op' = [op EXCEPT ![t] = p.s]
  BY <1>3, <1>4 DEF PlaceRecord, Goes
<1>8. Parts(db, f, e, blocks) BY <1>3, <1>5 DEF Parts
<1>9. Placing(db, ops[t], p, e2, blocks2, s2) BY <1>1, <1>2, <1>4, <1>5, <1>6, <1>7 DEF Placing
<1>10. Becomes(T, ops, t, s2, ops2) BY <1>2, <1>5, <1>6, <1>7 DEF Becomes
<1>11. Orderly(T, f, e, ops) BY <1>2, <1>5
<1>12. AllFree(T, f, blocks, ops) BY <1>2, <1>5
<1>13. Orderly(T, f, e2, ops2) /\ AllFree(T, f, blocks2, ops2) /\ HasPlace(ops[t], s2) /\ Underway(f, s2)
  BY ONLY <1>8, <1>9, <1>10, <1>11, <1>12, PlaceStep, ZenonT(60)
<1> QED BY <1>1, <1>5, <1>6, <1>7, <1>13

LEMMA PlaceRecordKept ==
    ASSUME Kept, NEW t \in Thread, PlaceRecord(t)
    PROVE  Kept'
<1>1. PICK s : /\ t \in Busy /\ op' = [op EXCEPT ![t] = s]
               /\ Orderly(Thread, file, end', op') /\ AllFree(Thread, file, pool', op')
  BY PlaceRecordDoes
<1>2. phase = "open" /\ file.meta = "open" BY <1>1, BusyIs
<1>3. file' = file /\ phase' = phase /\ cutClose' = cutClose BY DEF PlaceRecord, Goes
<1>4. Orderly(Thread, file', end', op') /\ AllFree(Thread, file', pool', op') BY <1>1, <1>3
<1>5. \E r : \E u \in Thread : op' = [op EXCEPT ![u] = r] BY <1>1
<1> QED BY <1>2, <1>3, <1>4, <1>5, SessionKept

LEMMA WriteNewKept ==
    ASSUME Kept, NEW t \in Thread, WriteNew(t)
    PROVE  Kept'
<1>1. t \in Busy /\ Goes(t, AfterWrite(op[t])) /\ UNCHANGED <<end, pool>> BY DEF WriteNew
<1>2. Does(file, op[t], file', AfterWrite(op[t])) /\ file'.meta = file.meta BY <1>1, WriteNewDoes
<1> QED BY <1>1, <1>2, DoesKept

LEMMA LinkNewKept ==
    ASSUME Kept, NEW t \in Thread, LinkNew(t)
    PROVE  Kept'
<1>1. t \in Busy /\ Goes(t, AfterLink(op[t])) /\ UNCHANGED <<end, pool>> BY DEF LinkNew
<1>2. Does(file, op[t], file', AfterLink(op[t])) /\ file'.meta = file.meta BY <1>1, LinkNewDoes
<1> QED BY <1>1, <1>2, DoesKept

LEMMA VoidOldKept ==
    ASSUME Kept, NEW t \in Thread, VoidOld(t)
    PROVE  Kept'
<1>1. t \in Busy /\ Goes(t, [op[t] EXCEPT !.pc = "free"]) /\ UNCHANGED <<end, pool>> BY DEF VoidOld
<1>2. Does(file, op[t], file', [op[t] EXCEPT !.pc = "free"]) /\ file'.meta = file.meta BY <1>1, VoidOldDoes
<1>3. PICK s : s = [op[t] EXCEPT !.pc = "free"] OBVIOUS
<1>4. Does(file, op[t], file', s) /\ Goes(t, s) BY <1>1, <1>2, <1>3
<1> QED BY <1>1, <1>2, <1>4, DoesKept

LEMMA FreeOldKept ==
    ASSUME Kept, NEW t \in Thread, FreeOld(t)
    PROVE  Kept'
<1>1. /\ t \in Busy /\ op[t].pc = "free" /\ pool' = Freed(file, pool, op[t]) /\ op' = [op EXCEPT ![t] = None]
      /\ file' = file /\ end' = end /\ phase' = phase /\ cutClose' = cutClose
  BY DEF FreeOld, Goes
<1>2. /\ op[t] # None /\ phase = "open" /\ file.meta = "open" /\ DOMAIN op = Thread
      /\ Orderly(Thread, file, end, op) /\ AllFree(Thread, file, pool, op)
  BY <1>1, BusyIs
<1>3. Becomes(Thread, op, t, None, op') BY <1>1, <1>2 DEF Becomes
<1>4. Orderly(Thread, file, end, op') /\ AllFree(Thread, file, Freed(file, pool, op[t]), op')
  BY <1>1, <1>2, <1>3, FreeStep
<1>5. Orderly(Thread, file', end', op') /\ AllFree(Thread, file', pool', op') BY <1>1, <1>4
<1>6. \E r : \E u \in Thread : op' = [op EXCEPT ![u] = r] BY <1>1
<1> QED BY <1>1, <1>2, <1>5, <1>6, SessionKept

(* Where no thread is in a call. *)
LEMMA QuietIs ==
    ASSUME Kept
    PROVE  /\ phase # "open" \/ Busy = {} => op = NoSets
           /\ op = NoSets => Busy = {}
           /\ \A t \in Thread : NoSets[t] = None
<1>1. op \in [Thread -> OpenSet \union {None}] BY DEF Kept
<1>2. Busy = {} => op = NoSets BY <1>1 DEF Busy, NoSets
<1> QED BY <1>2 DEF Kept, Busy, NoSets

LEMMA NewFileKept ==
    ASSUME NEW meta \in {"absent", "bare", "closed"}
    PROVE  /\ Image(NewFile(meta)) /\ Settled(NewFile(meta), Base)
           /\ NewFile(meta).meta = meta /\ NewFile(meta).synced = Base /\ NewFile(meta).saved = {}
           /\ AllFree(Thread, NewFile(meta), {}, NoSets)
<1>1. \A t \in Thread : NoSets[t] = None BY DEF NoSets
<1>2. meta \in {"absent", "bare", "closed", "open", "torn"} OBVIOUS
<1>3. PICK ops : ops = NoSets OBVIOUS
<1>4. Orderly(Thread, NewFile(meta), Base, ops) /\ AllFree(Thread, NewFile(meta), {}, ops)
  BY <1>1, <1>2, <1>3, OrderlyNew
<1>5. Image(NewFile(meta)) BY <1>4, OrderlyImage
<1> QED BY <1>3, <1>4, <1>5 DEF Settled, NewFile

(* Outside of a session the process has no pool and no Set. *)
Idle == pool = {} /\ end = Base /\ op = NoSets /\ Busy = {}

LEMMA IdleIs ==
    ASSUME Kept, phase \notin {"open", "save"}
    PROVE  Idle
BY QuietIs DEF Kept, Idle

LEMMA IdleKept ==
    ASSUME Idle', phase' \in {"down", "create", "mark", "load", "rename"}, Image(file'), cutClose' \in BOOLEAN, PhaseInv'
    PROVE  Kept'
<1>1. Base \in Base .. MaxSize + 1 BY DatabaseAssumption DEF Base
<1>2. AllFree(Thread, file, {}, op)' BY DEF AllFree
<1>3. NoSets \in [Thread -> OpenSet \union {None}] BY DEF NoSets
<1> QED BY <1>1, <1>2, <1>3 DEF Kept, Idle

LEMMA CreateFileKept ==
    ASSUME Kept, CreateFile
    PROVE  Kept'
<1>1. /\ phase = "down" /\ file' = NewFile("bare") /\ phase' = "create"
      /\ end' = end /\ pool' = pool /\ op' = op /\ cutClose' = cutClose
  BY DEF CreateFile, To
<1>2. Idle BY <1>1, IdleIs
<1>3. Idle' BY <1>1, <1>2 DEF Idle, Busy
<1>4. Image(file') BY <1>1, NewFileKept
<1>5. PhaseInv' BY <1>1 DEF PhaseInv
<1>6. cutClose' \in BOOLEAN BY <1>1 DEF Kept
<1> QED BY <1>1, <1>3, <1>4, <1>5, <1>6, IdleKept

LEMMA CreateMetadataKept ==
    ASSUME Kept, CreateMetadata
    PROVE  Kept'
<1>1. /\ phase = "create" /\ file' = NewFile("closed") /\ phase' = "mark"
      /\ end' = end /\ pool' = pool /\ op' = op /\ cutClose' = cutClose
  BY DEF CreateMetadata, To
<1>2. Idle BY <1>1, IdleIs
<1>3. Idle' BY <1>1, <1>2 DEF Idle, Busy
<1>4. /\ Image(file') /\ Settled(file', Base) /\ file'.meta = "closed" /\ file'.synced = Base /\ file'.saved = {}
      /\ AllFree(Thread, file', {}, NoSets)
  BY <1>1, NewFileKept
<1>5. PhaseInv' BY <1>1, <1>4 DEF PhaseInv, PoolFree
<1>6. cutClose' \in BOOLEAN BY <1>1 DEF Kept
<1> QED BY <1>1, <1>3, <1>4, <1>5, <1>6, IdleKept

LEMMA OpenClosedKept ==
    ASSUME Kept, OpenClosed
    PROVE  Kept'
<1>1. /\ phase = "down" /\ file.meta = "closed" /\ file' = file /\ phase' = "mark"
      /\ end' = end /\ pool' = pool /\ op' = op /\ cutClose' = cutClose
  BY DEF OpenClosed, To
<1>2. Idle BY <1>1, IdleIs
<1>3. Idle' BY <1>1, <1>2 DEF Idle, Busy
<1>4. Image(file') BY <1>1 DEF Kept
<1>5. Settled(file, file.synced) /\ PoolFree(file, file.saved) BY <1>1 DEF Kept, PhaseInv
<1>6. PhaseInv' BY <1>1, <1>5 DEF PhaseInv, PoolFree
<1>7. cutClose' \in BOOLEAN BY <1>1 DEF Kept
<1> QED BY <1>1, <1>3, <1>4, <1>6, <1>7, IdleKept

LEMMA MarkOpenKept ==
    ASSUME Kept, MarkOpen
    PROVE  Kept'
<1>1. /\ phase = "mark" /\ file' = [file EXCEPT !.meta = "open"] /\ phase' = "load"
      /\ end' = end /\ pool' = pool /\ op' = op /\ cutClose' = cutClose
  BY DEF MarkOpen, To
<1>2. Idle BY <1>1, IdleIs
<1>3. Idle' BY <1>1, <1>2 DEF Idle, Busy
<1>4. Settled(file, file.synced) /\ PoolFree(file, file.saved) BY <1>1 DEF Kept, PhaseInv
<1>5. IsFile(file) BY <1>4 DEF Settled, Orderly
<1>6. Header(file, file', "open", file.synced, file.saved)
  <2>1. PICK meta \in {"absent", "bare", "closed", "open", "torn"} : meta = "open" OBVIOUS
  <2> QED BY <1>1, <1>5, <2>1, HeaderMeta
<1>7. file'.meta = "open" /\ file'.synced = file.synced /\ file'.saved = file.saved BY <1>6 DEF Header
<1>8. PICK ops : ops = NoSets OBVIOUS
<1>9. Orderly(Thread, file, file.synced, ops) BY <1>4, <1>8 DEF Settled
<1>10. Orderly(Thread, file', file.synced, ops) /\ Image(file') BY <1>6, <1>9, HeaderKeeps
<1>11. \A blocks : AllFree(Thread, file, blocks, ops) => AllFree(Thread, file', blocks, ops) BY <1>6, HeaderKeeps
<1>12. PhaseInv' BY <1>1, <1>4, <1>7, <1>8, <1>10, <1>11 DEF PhaseInv, PoolFree, Settled
<1>13. cutClose' \in BOOLEAN BY <1>1 DEF Kept
<1> QED BY <1>1, <1>3, <1>10, <1>12, <1>13, IdleKept

LEMMA LoadPoolKept ==
    ASSUME Kept, LoadPool
    PROVE  Kept'
<1>1. /\ phase = "load" /\ pool' = file.saved /\ end' = file.synced /\ phase' = "open"
      /\ file' = file /\ op' = op /\ cutClose' = cutClose
  BY DEF LoadPool, To
<1>2. Idle BY <1>1, IdleIs
<1>3. op' = NoSets /\ Busy' = {} BY <1>1, <1>2 DEF Idle, Busy
<1>4. file.meta = "open" /\ Settled(file, file.synced) /\ PoolFree(file, file.saved) BY <1>1 DEF Kept, PhaseInv
<1>5. Image(file) /\ cutClose \in BOOLEAN BY DEF Kept
<1>6. file.saved \subseteq Block /\ file.synced \in Base .. MaxSize + 1 BY <1>5 DEF Image, IsFile
<1>7. Orderly(Thread, file', end', op') BY <1>1, <1>3, <1>4 DEF Settled
<1>8. (Busy' = {} /\ cutClose') \/ AllFree(Thread, file', pool', op') BY <1>1, <1>3, <1>4 DEF PoolFree
<1>9. op' \in [Thread -> OpenSet \union {None}] BY <1>1 DEF Kept
<1> QED BY <1>1, <1>3, <1>4, <1>5, <1>6, <1>7, <1>8, <1>9 DEF Kept, PhaseInv

LEMMA OpenSoundKept ==
    ASSUME Kept, OpenSound
    PROVE  Kept'
<1>1. /\ phase = "down" /\ Shortcut(file) /\ pool' = {} /\ end' = EndOf(file) /\ phase' = "open"
      /\ file' = file /\ op' = op /\ cutClose' = FALSE
  BY DEF OpenSound, To
<1>2. Idle BY <1>1, IdleIs
<1>3. op' = NoSets /\ Busy' = {} BY <1>1, <1>2 DEF Idle, Busy
<1>4. Image(file) BY DEF Kept
<1>5. Settled(file, EndOf(file)) /\ file.meta = "open" BY <1>1, <1>4, ShortcutSettled DEF Shortcut
<1>6. EndOf(file) \in Base .. MaxSize + 1 BY <1>5 DEF Settled, Orderly, Tiled
<1>7. Orderly(Thread, file', end', op') BY <1>1, <1>3, <1>5 DEF Settled
<1>8. AllFree(Thread, file', pool', op') BY <1>1 DEF AllFree
<1>9. op' \in [Thread -> OpenSet \union {None}] BY <1>1 DEF Kept
<1>10. pool' \subseteq Block /\ end' \in Base .. MaxSize + 1 BY <1>1, <1>6
<1> QED BY <1>1, <1>3, <1>4, <1>5, <1>7, <1>8, <1>9, <1>10 DEF Kept, PhaseInv

LEMMA RestoreKept ==
    ASSUME Kept, Restore
    PROVE  Kept'
<1>1. /\ phase = "down" /\ file.meta \in {"open", "torn"} /\ ~Shortcut(file)
      /\ tmp' = RestoreDatabase(file) /\ phase' = "rename"
      /\ file' = file /\ end' = end /\ pool' = pool /\ op' = op /\ cutClose' = cutClose
  BY DEF Restore, To
<1>2. Idle BY <1>1, IdleIs
<1>3. Idle' BY <1>1, <1>2 DEF Idle, Busy
<1>4. Image(file) BY DEF Kept
<1>5. tmp'.meta = "closed" /\ Settled(tmp', tmp'.synced) /\ AllFree(Thread, tmp', tmp'.saved, NoSets)
  BY <1>1, <1>4, RestoreIs
<1>6. /\ phase' = "rename" /\ file'.meta \in {"open", "torn"} /\ ~Shortcut(file') /\ tmp' = RestoreDatabase(file')
  BY <1>1
<1>7. PhaseInv' BY <1>5, <1>6 DEF PhaseInv
<1>8. cutClose' \in BOOLEAN BY <1>1 DEF Kept
<1> QED BY <1>1, <1>3, <1>4, <1>7, <1>8, IdleKept

LEMMA RenameKept ==
    ASSUME Kept, Rename
    PROVE  Kept'
<1>1. /\ phase = "rename" /\ file' = tmp /\ phase' = "mark" /\ cutClose' = FALSE
      /\ end' = end /\ pool' = pool /\ op' = op
  BY DEF Rename, To
<1>2. Idle BY <1>1, IdleIs
<1>3. Idle' BY <1>1, <1>2 DEF Idle, Busy
<1>4. tmp.meta = "closed" /\ Settled(tmp, tmp.synced) /\ AllFree(Thread, tmp, tmp.saved, NoSets)
  BY <1>1 DEF Kept, PhaseInv
<1>5. Image(file')
  <2>1. PICK ops : ops = NoSets OBVIOUS
  <2>2. Orderly(Thread, tmp, tmp.synced, ops) BY <1>4, <2>1 DEF Settled
  <2> QED BY <1>1, <2>2, OrderlyImage
<1>6. PhaseInv' BY <1>1, <1>4 DEF PhaseInv, PoolFree
<1> QED BY <1>1, <1>3, <1>5, <1>6, IdleKept

LEMMA CloseMetadataKept ==
    ASSUME Kept, CloseMetadata
    PROVE  Kept'
<1>1. /\ phase = "open" /\ Busy = {} /\ file' = [file EXCEPT !.meta = "closed", !.synced = end] /\ phase' = "save"
      /\ end' = end /\ pool' = pool /\ op' = op /\ cutClose' = cutClose
  BY DEF CloseMetadata, To
<1>2. op = NoSets /\ Orderly(Thread, file, end, op) BY <1>1, QuietIs DEF Kept, PhaseInv
<1>3. IsFile(file) /\ end \in Base .. MaxSize + 1 BY <1>2 DEF Orderly, Tiled
<1>4. Header(file, file', "closed", end, file.saved)
  <2>1. PICK meta \in {"absent", "bare", "closed", "open", "torn"} : meta = "closed" OBVIOUS
  <2>2. PICK saved \in SUBSET Block : TRUE OBVIOUS
  <2> QED BY <1>1, <1>3, <2>1, HeaderIs
<1>5. file'.meta = "closed" /\ file'.synced = end BY <1>4 DEF Header
<1>6. PICK ops : ops = NoSets OBVIOUS
<1>7. Orderly(Thread, file', end, ops) /\ Image(file') BY <1>2, <1>4, <1>6, HeaderKeeps
<1>8. \A blocks : AllFree(Thread, file, blocks, ops) => AllFree(Thread, file', blocks, ops) BY <1>4, HeaderKeeps
<1>9. PhaseInv' BY <1>1, <1>5, <1>6, <1>7 DEF PhaseInv, Settled
<1>10. (Busy = {} /\ cutClose) \/ AllFree(Thread, file, pool, op) BY DEF Kept
<1>11. (Busy' = {} /\ cutClose') \/ AllFree(Thread, file', pool', op')
  <2>1. Busy' = Busy BY <1>1 DEF Busy
  <2>2. AllFree(Thread, file, pool, op) => AllFree(Thread, file', pool', op') BY <1>1, <1>2, <1>6, <1>8
  <2> QED BY <1>1, <1>10, <2>1, <2>2
<1>12. /\ cutClose' \in BOOLEAN /\ pool' \subseteq Block /\ end' \in Base .. MaxSize + 1
       /\ op' \in [Thread -> OpenSet \union {None}]
  BY <1>1 DEF Kept
<1> QED BY <1>1, <1>2, <1>7, <1>9, <1>11, <1>12 DEF Kept

LEMMA ClosePoolKept ==
    ASSUME Kept, ClosePool
    PROVE  Kept'
<1>1. /\ phase = "save" /\ file' = [file EXCEPT !.saved = pool] /\ phase' = "down"
      /\ end' = Base /\ pool' = {} /\ op' = op /\ cutClose' = cutClose
  BY DEF ClosePool, To
<1>2. file.meta = "closed" /\ file.synced = end /\ Settled(file, end) /\ op = NoSets BY <1>1 DEF Kept, PhaseInv
<1>3. Idle' BY <1>1, <1>2 DEF Idle, Busy, NoSets
<1>4. IsFile(file) /\ pool \in SUBSET Block BY <1>2 DEF Settled, Orderly, Kept
<1>5. Header(file, file', file.meta, file.synced, pool)
  <2>1. PICK meta \in {"absent", "bare", "closed", "open", "torn"} : meta = "closed" OBVIOUS
  <2>2. PICK synced \in Base .. MaxSize + 1 : TRUE BY DatabaseAssumption DEF Base
  <2> QED BY <1>1, <1>4, HeaderIs
<1>6. file'.meta = "closed" /\ file'.synced = end /\ file'.saved = pool BY <1>2, <1>5 DEF Header
<1>7. PICK ops : ops = NoSets OBVIOUS
<1>8. Orderly(Thread, file, end, ops) BY <1>2, <1>7 DEF Settled
<1>9. Orderly(Thread, file', end, ops) /\ Image(file') BY <1>5, <1>8, HeaderKeeps
<1>10. \A blocks : AllFree(Thread, file, blocks, ops) => AllFree(Thread, file', blocks, ops) BY <1>5, HeaderKeeps
<1>11. cutClose \/ AllFree(Thread, file, pool, ops) BY <1>2, <1>7 DEF Kept
<1>12. PhaseInv' BY <1>1, <1>6, <1>7, <1>9, <1>10, <1>11 DEF PhaseInv, PoolFree, Settled
<1>13. cutClose' \in BOOLEAN BY <1>1 DEF Kept
<1> QED BY <1>1, <1>3, <1>9, <1>12, <1>13, IdleKept

LEMMA HeaderImage ==
    ASSUME NEW f, NEW g, NEW meta, NEW synced, NEW saved, Header(f, g, meta, synced, saved), Image(f)
    PROVE  Image(g)
<1>1. IsFile(f) /\ Live_Fit(f) /\ Apart(Places(f)) BY DEF Image
<1>2. IsFile(g) /\ SameRecs(f, g) BY DEF Header
<1>3. Live_Fit(g) BY <1>1, <1>2 DEF Live_Fit, Live, SameRecs
<1>4. Apart(Places(g)) BY <1>1, <1>2 DEF Places, SameRecs
<1>5. NoneTorn(g) => AllChained(g)
  <2> HAVE NoneTorn(g)
  <2>1. AllChained(f) BY <1>2 DEF NoneTorn, SameRecs, Image
  <2> SUFFICES ASSUME NEW b \in Bucket PROVE Chained(g, b, Chain(g, b)) BY DEF AllChained
  <2>2. PICK c : c = Chain(f, b) OBVIOUS
  <2>3. Chained(f, b, c) BY <2>1, <2>2 DEF AllChained
  <2>4. \A i \in DOMAIN c : c[i] \in DOMAIN f.recs BY <2>3 DEF Chained, Live
  <2>5. SameOn(f, g, b, c) BY <1>2, <2>4 DEF SameOn, SameRecs
  <2>6. Chained(g, b, c) BY <1>1, <2>3, <2>5, SameChain
  <2>7. Chain(g, b) = c BY <1>2, <2>6, ChainIs
  <2> QED BY <2>6, <2>7
<1> QED BY <1>2, <1>3, <1>4, <1>5 DEF Image

LEMMA CrashedQuiet ==
    ASSUME NEW f, IsFile(f), NEW ops, NEW meta \in {"absent", "bare", "closed", "open", "torn"}
    PROVE  Header(f, Crashed(f, ops, {}, meta), meta, f.synced, f.saved)
<1>1. PICK cut : cut = Cut(f, ops, {}) OBVIOUS
<1>2. DOMAIN cut = {} BY <1>1 DEF Cut
<1>3. Over(cut, f.recs) = [o \in DOMAIN f.recs |-> f.recs[o]] BY <1>2 DEF Over
<1>4. f.recs = [o \in DOMAIN f.recs |-> f.recs[o]] BY DEF IsFile
<1>5. Over(cut, f.recs) = f.recs BY <1>3, <1>4
<1>6. f = [meta |-> f.meta, synced |-> f.synced, saved |-> f.saved, bucket |-> f.bucket, recs |-> f.recs]
  BY DEF IsFile
<1>7. Crashed(f, ops, {}, meta) = [f EXCEPT !.recs = f.recs, !.meta = meta] BY <1>1, <1>5, <1>6 DEF Crashed
<1>8. [f EXCEPT !.recs = f.recs, !.meta = meta] = [f EXCEPT !.meta = meta] BY <1>6
<1> QED BY <1>7, <1>8, HeaderMeta, ZenonT(60)

(* What a crash does. *)
CrashOf(torn, meta) ==
    /\ Tearing(Thread, op, torn)
    /\ meta \in {"absent", "bare", "closed", "open", "torn"}
    /\ \/ meta = file.meta
       \/ meta = "torn" /\ (phase \in {"create", "mark"} \/ (phase = "open" /\ Busy = {}))
    /\ file' = Crashed(file, op, torn, meta)

LEMMA CrashIs ==
    ASSUME Kept, Crash
    PROVE  /\ \E torn, meta : CrashOf(torn, meta)
           /\ phase # "down" /\ phase' = "down" /\ cutClose' = (cutClose \/ phase = "save")
           /\ pool' = {} /\ end' = Base /\ tmp' = None /\ op' = NoSets /\ Idle'
<1>1. file.meta \in {"absent", "bare", "closed", "open", "torn"} BY DEF Kept, Image, IsFile
<1>2. \E torn \in SUBSET {t \in Busy : op[t].pc \in {"write", "void"}},
         meta \in {file.meta} \union (IF phase \in {"create", "mark"} \/ (phase = "open" /\ Busy = {}) THEN {"torn"} ELSE {}) :
            file' = [file EXCEPT !.recs = Over(Cut(file, op, torn), @), !.meta = meta]
  BY DEF Crash
<1>3. \E torn, meta : CrashOf(torn, meta)
  <2>1. PICK torn \in SUBSET {t \in Busy : op[t].pc \in {"write", "void"}},
             meta \in {file.meta} \union (IF phase \in {"create", "mark"} \/ (phase = "open" /\ Busy = {}) THEN {"torn"} ELSE {}) :
                file' = [file EXCEPT !.recs = Over(Cut(file, op, torn), @), !.meta = meta]
    BY <1>2
  <2>2. Tearing(Thread, op, torn) BY <2>1 DEF Busy, Tearing
  <2>3. \/ meta = file.meta
        \/ meta = "torn" /\ (phase \in {"create", "mark"} \/ (phase = "open" /\ Busy = {}))
    BY <2>1
  <2>4. meta \in {"absent", "bare", "closed", "open", "torn"} BY <1>1, <2>3
  <2>5. file' = Crashed(file, op, torn, meta) BY <2>1 DEF Crashed
  <2>6. CrashOf(torn, meta) BY <2>2, <2>3, <2>4, <2>5 DEF CrashOf
  <2> QED BY <2>6
<1>4. /\ phase # "down" /\ phase' = "down" /\ cutClose' = (cutClose \/ phase = "save")
      /\ pool' = {} /\ end' = Base /\ tmp' = None /\ op' = NoSets
  BY DEF Crash, To, NoSets
<1>5. Idle' BY <1>4 DEF Idle, Busy, NoSets
<1> QED BY <1>3, <1>4, <1>5

(* A crash outside of a call leaves the records alone. *)
LEMMA CrashQuiet ==
    ASSUME Kept, op = NoSets, NEW torn, NEW meta, CrashOf(torn, meta)
    PROVE  torn = {} /\ Header(file, file', meta, file.synced, file.saved)
<1>1. torn = {} BY DEF CrashOf, NoSets, Tearing
<1>2. IsFile(file) BY DEF Kept, Image
<1>3. file' = Crashed(file, op, {}, meta) /\ meta \in {"absent", "bare", "closed", "open", "torn"}
  BY <1>1 DEF CrashOf
<1>4. Header(file, Crashed(file, op, {}, meta), meta, file.synced, file.saved) BY <1>2, <1>3, CrashedQuiet
<1> QED BY <1>1, <1>3, <1>4

LEMMA CrashKept ==
    ASSUME Kept, Crash
    PROVE  Kept'
<1>1. /\ phase # "down" /\ phase' = "down" /\ cutClose' = (cutClose \/ phase = "save") /\ Idle'
  BY CrashIs
<1>2. PICK torn, meta : CrashOf(torn, meta) BY CrashIs
<1>3. cutClose' \in BOOLEAN BY <1>1 DEF Kept
<1>4. CASE op = NoSets
  <2>1. Header(file, file', meta, file.synced, file.saved) BY <1>2, <1>4, CrashQuiet
  <2>2. Image(file) BY DEF Kept
  <2>3. Image(file') BY <2>1, <2>2, HeaderImage
  <2>4. file'.meta = meta /\ file'.synced = file.synced /\ file'.saved = file.saved BY <2>1 DEF Header
  <2>5. meta \in {"absent", "bare"} => file' = NewFile(meta)
    <3> HAVE meta \in {"absent", "bare"}
    <3>1. meta = file.meta BY <1>2 DEF CrashOf
    <3>2. phase = "create" /\ file = NewFile("bare") BY <1>1, <3>1 DEF Kept, PhaseInv
    <3>3. meta = "bare" BY <3>1, <3>2 DEF NewFile
    <3>4. file' = file
      <4>1. /\ file = [meta |-> file.meta, synced |-> file.synced, saved |-> file.saved,
                       bucket |-> file.bucket, recs |-> file.recs]
            /\ file' = [meta |-> file'.meta, synced |-> file'.synced, saved |-> file'.saved,
                        bucket |-> file'.bucket, recs |-> file'.recs]
        BY <2>2, <2>3 DEF Image, IsFile
      <4>2. file'.bucket = file.bucket /\ file'.recs = file.recs BY <2>1 DEF Header, SameRecs
      <4> QED BY <2>4, <3>1, <4>1, <4>2
    <3> QED BY <3>2, <3>3, <3>4
  <2>6. meta = "closed" => Settled(file', file'.synced) /\ (cutClose' \/ AllFree(Thread, file', file'.saved, NoSets))
    <3> HAVE meta = "closed"
    <3>1. meta = file.meta BY <1>2 DEF CrashOf
    <3>2. phase \in {"mark", "save"}
      <4>1. phase \in {"create", "mark", "load", "rename", "open", "save"} BY <1>1 DEF Kept
      <4>2. phase = "create" => file.meta = "bare" BY DEF Kept, PhaseInv, NewFile
      <4> QED BY <3>1, <4>1, <4>2 DEF Kept, PhaseInv
    <3>3. Settled(file, file.synced) /\ (phase = "mark" => PoolFree(file, file.saved))
      BY <3>2 DEF Kept, PhaseInv
    <3>4. PICK ops : ops = NoSets OBVIOUS
    <3>5. Orderly(Thread, file, file.synced, ops) BY <3>3, <3>4 DEF Settled
    <3>6. Orderly(Thread, file', file.synced, ops) BY <2>1, <3>5, HeaderKeeps
    <3>7. \A blocks : AllFree(Thread, file, blocks, ops) => AllFree(Thread, file', blocks, ops)
      BY <2>1, HeaderKeeps
    <3>8. cutClose' \/ AllFree(Thread, file', file'.saved, NoSets)
      BY <1>1, <2>4, <3>2, <3>3, <3>4, <3>7 DEF PoolFree
    <3> QED BY <2>4, <3>4, <3>6, <3>8 DEF Settled
  <2>7. PhaseInv' BY <1>1, <2>4, <2>5, <2>6 DEF PhaseInv, PoolFree
  <2> QED BY <1>1, <1>3, <2>3, <2>7, IdleKept
<1>5. CASE op # NoSets
  <2>1. phase = "open" BY <1>5 DEF Kept
  <2>2. Orderly(Thread, file, end, op) /\ file.meta = "open" BY <2>1 DEF Kept, PhaseInv
  <2>3. PICK f, ops, O, g : f = file /\ ops = op /\ O = CutAt(op, torn) /\ g = file' OBVIOUS
  <2>4. Image(g) /\ g.meta = meta
    <3>1. Tearing(Thread, ops, torn) BY <1>2, <2>3 DEF CrashOf
    <3>2. meta \in {"absent", "bare", "closed", "open", "torn"} BY <1>2 DEF CrashOf
    <3>3. g = Crashed(f, ops, torn, meta) BY <1>2, <2>3 DEF CrashOf
    <3>4. Orderly(Thread, f, end, ops) BY <2>2, <2>3
    <3>5. O = CutAt(ops, torn) BY <2>3
    <3> QED BY ONLY <3>1, <3>2, <3>3, <3>4, <3>5, CrashedIs
  <2>5. meta \in {"open", "torn"} BY <1>2, <2>2 DEF CrashOf
  <2>6. PhaseInv' BY <1>1, <2>3, <2>4, <2>5 DEF PhaseInv
  <2> QED BY <1>1, <1>3, <2>3, <2>4, <2>6, IdleKept
<1> QED BY <1>4, <1>5

LEMMA KeptInit ==
    ASSUME Init
    PROVE  Kept
<1>1. /\ file = NewFile("absent") /\ phase = "down" /\ end = Base /\ pool = {} /\ op = NoSets /\ cutClose = FALSE
  BY DEF Init, NoSets
<1>2. Image(file) /\ file.meta = "absent" BY <1>1, NewFileKept
<1>3. PhaseInv BY <1>1, <1>2 DEF PhaseInv
<1>4. Base \in Base .. MaxSize + 1 BY DatabaseAssumption DEF Base
<1>5. AllFree(Thread, file, {}, op) BY DEF AllFree
<1>6. NoSets \in [Thread -> OpenSet \union {None}] BY DEF NoSets
<1> QED BY <1>1, <1>2, <1>3, <1>4, <1>5, <1>6 DEF Kept

(* As long as no Set has begun with a stale pool. *)
LEMMA KeptStep ==
    ASSUME Kept, [Next]_vars, ~broken'
    PROVE  Kept'
<1>1. CASE UNCHANGED vars
  <2>1. /\ file' = file /\ tmp' = tmp /\ phase' = phase /\ end' = end /\ pool' = pool /\ op' = op
        /\ cutClose' = cutClose
    BY <1>1 DEF vars
  <2>2. Busy' = Busy BY <2>1 DEF Busy
  <2>3. PhaseInv' BY <2>1 DEF Kept, PhaseInv, PoolFree
  <2> QED BY <2>1, <2>2, <2>3 DEF Kept
<1> SUFFICES ASSUME Step, Begins => PoolSound PROVE Kept' BY <1>1 DEF Next
<1>2. CASE CreateFile BY <1>2, CreateFileKept
<1>3. CASE CreateMetadata BY <1>3, CreateMetadataKept
<1>4. CASE OpenClosed BY <1>4, OpenClosedKept
<1>5. CASE MarkOpen BY <1>5, MarkOpenKept
<1>6. CASE LoadPool BY <1>6, LoadPoolKept
<1>7. CASE OpenSound BY <1>7, OpenSoundKept
<1>8. CASE Restore BY <1>8, RestoreKept
<1>9. CASE Rename BY <1>9, RenameKept
<1>10. CASE \E t \in Thread, k \in Key, v \in Value : BeginSet(t, k, v)
  <2>1. PoolSound BY <1>10 DEF Begins
  <2> QED BY <1>10, <2>1, BeginSetKept
<1>11. ASSUME NEW t \in Thread, PlaceRecord(t) \/ WriteNew(t) \/ LinkNew(t) \/ VoidOld(t) \/ FreeOld(t)
       PROVE  Kept'
  <2>1. CASE PlaceRecord(t) BY <2>1, PlaceRecordKept
  <2>2. CASE WriteNew(t) BY <2>2, WriteNewKept
  <2>3. CASE LinkNew(t) BY <2>3, LinkNewKept
  <2>4. CASE VoidOld(t) BY <2>4, VoidOldKept
  <2>5. CASE FreeOld(t) BY <2>5, FreeOldKept
  <2> QED BY <1>11, <2>1, <2>2, <2>3, <2>4, <2>5
<1>12. CASE CloseMetadata BY <1>12, CloseMetadataKept
<1>13. CASE ClosePool BY <1>13, ClosePoolKept
<1>14. CASE Crash BY <1>14, CrashKept
<1> QED BY <1>2, <1>3, <1>4, <1>5, <1>6, <1>7, <1>8, <1>9, <1>10, <1>11, <1>12, <1>13, <1>14 DEF Step, Open

(* A block in the pool of an image that is kept may be in use only when the  *)
(* pool is stale.                                                           *)
LEMMA KeptPool ==
    ASSUME Kept
    PROVE  cutClose \/ PoolSound
<1>1. AllFree(Thread, file, pool, op) => PoolSound BY DEF AllFree, PoolSound
<1> QED BY <1>1 DEF Kept

LEMMA SpoiledStep ==
    ASSUME IInv, [Next]_vars, broken'
    PROVE  Spoiled'
<1>1. CASE UNCHANGED vars BY <1>1 DEF vars, IInv, Spoiled
<1>2. CASE broken /\ Step
  <2>1. cutClose /\ phase \in {"open", "save", "down"} BY <1>2 DEF IInv, Spoiled
  <2>2. ~(Open \/ CreateMetadata \/ MarkOpen \/ LoadPool \/ Rename)
    BY <1>2, <2>1 DEF Open, CreateMetadata, MarkOpen, LoadPool, Rename
  <2>3. ASSUME NEW t \in Thread, PlaceRecord(t) \/ WriteNew(t) \/ LinkNew(t) \/ VoidOld(t) \/ FreeOld(t)
        PROVE  UNCHANGED <<phase, cutClose>>
    BY <2>3 DEF PlaceRecord, WriteNew, LinkNew, VoidOld, FreeOld, Goes
  <2>4. \A t \in Thread, k \in Key, v \in Value : BeginSet(t, k, v) => UNCHANGED <<phase, cutClose>>
    BY DEF BeginSet, Goes
  <2>5. CloseMetadata \/ ClosePool \/ Crash => cutClose' /\ phase' \in {"save", "down"}
    BY <2>1 DEF CloseMetadata, ClosePool, Crash, To
  <2> QED BY <1>2, <2>1, <2>2, <2>3, <2>4, <2>5 DEF Step, Spoiled
<1>3. CASE ~broken /\ Next
  <2>1. Kept /\ ~PoolSound /\ Begins BY <1>3 DEF IInv, Next
  <2>2. cutClose BY <2>1, KeptPool
  <2>3. phase' = "open" /\ cutClose' = cutClose BY <2>1 DEF Begins, BeginSet, Goes
  <2> QED BY <2>2, <2>3 DEF Spoiled
<1> QED BY <1>1, <1>2, <1>3 DEF Next

(* Whatever the threads do and wherever the process is killed: the file is   *)
(* an image that Open can make sense of, in a session every live record is   *)
(* in its chain but for the ones that a Set has yet to link or to void, and  *)
(* content is what a Get returns, up to the first Set with a stale pool,     *)
(* which needs a Close that was cut between its two writes.                 *)
THEOREM KeptAlways == Spec => []IInv
<1>1. Init => IInv BY KeptInit DEF IInv, Init
<1>2. IInv /\ [Next]_vars => IInv'
  <2> SUFFICES ASSUME IInv, [Next]_vars PROVE IInv' OBVIOUS
  <2>1. broken' \in BOOLEAN /\ (~broken' => ~broken) BY DEF IInv, Next, vars
  <2>2. broken' => Spoiled' BY SpoiledStep
  <2>3. ~broken' => Kept' BY <2>1, KeptStep DEF IInv
  <2>4. ~broken' => content' = Visible(phase', file', tmp', op')
    <3>1. CASE Next BY <3>1 DEF Next
    <3>2. CASE UNCHANGED vars BY <2>1, <3>2 DEF vars, IInv
    <3> QED BY <3>1, <3>2
  <2> QED BY <2>1, <2>2, <2>3, <2>4 DEF IInv
<1> QED BY <1>1, <1>2, PTL DEF Spec

LEMMA KeptTyped ==
    ASSUME Kept
    PROVE  TypeOK
<1>1. IsFile(file) BY DEF Kept, Image
<1>2. \A t \in Thread : op[t] # None => op[t] \in OpenSet BY DEF Kept
<1>3. \A t \in Thread : op[t] # None =>
            /\ op[t].pc \in {"place", "write", "link", "void", "free"}
            /\ op[t].dest \in 0 .. MaxSize /\ op[t].size \in 1 .. MaxSize
  BY <1>2 DEF OpenSet
<1> QED BY <1>1, <1>3 DEF Kept, TypeOK, IsFile

(* Chains without a live record too many are sound. *)
LEMMA ChainedSound ==
    ASSUME NEW f, IsFile(f), AllChained(f)
    PROVE  Sound(f)
<1>1. ASSUME NEW b \in Bucket
      PROVE  /\ IsInjective(Chain(f, b))
             /\ \A o \in Linking(f)[b] : /\ o \in DOMAIN f.recs /\ f.recs[o].type = "live"
                                         /\ BucketOf[f.recs[o].key] = b
             /\ \A o, p \in Linking(f)[b] : f.recs[o].key = f.recs[p].key => o = p
  <2>1. PICK c : c = Chain(f, b) OBVIOUS
  <2>2. Chained(f, b, c) BY <2>1 DEF AllChained
  <2>3. Linking(f)[b] = Range(c) BY <2>1 DEF Linking
  <2>4. \A o \in Range(c) : \E i \in DOMAIN c : o = c[i] BY DEF Range
  <2>5. \A i \in DOMAIN c : Live(f, c[i]) /\ BucketOf[f.recs[c[i]].key] = b BY <2>2 DEF Chained
  <2>6. \A i, j \in DOMAIN c : f.recs[c[i]].key = f.recs[c[j]].key => i = j BY <2>2 DEF Chained
  <2>7. IsInjective(c) BY <2>2 DEF Chained
  <2>8. \A o \in Range(c) : /\ o \in DOMAIN f.recs /\ f.recs[o].type = "live"
                            /\ BucketOf[f.recs[o].key] = b
    BY <2>4, <2>5 DEF Live
  <2>9. \A o, p \in Range(c) : f.recs[o].key = f.recs[p].key => o = p BY <2>4, <2>6
  <2> QED BY <2>1, <2>3, <2>7, <2>8, <2>9
<1>2. \A b, c \in Bucket : b # c => Linking(f)[b] \intersect Linking(f)[c] = {} BY <1>1
<1> QED BY <1>1, <1>2 DEF Sound

(* Where a Set writes, or has written, its record. *)
LEMMA DestOwn ==
    ASSUME NEW f, IsFile(f), AllChained(f), NEW s, Underway(f, s), s.dest # 0
    PROVE  Own(f, s, s.dest)
<1>1. s \in OpenSet /\ s.key \in Key BY DEF Underway, OpenSet
<1>2. s.pc \in {"write", "link", "void", "free"} BY <1>1 DEF OpenSet, Underway
<1>3. CASE s.pc \in {"write", "link"} /\ s.dest # s.cur BY <1>3 DEF Own, Owned
<1>4. PICK k \in Key : k = s.key BY <1>1
<1>5. PICK c : c = Chain(f, BucketOf[k]) OBVIOUS
<1>6. Chained(f, BucketOf[k], c) BY <1>5, DatabaseAssumption DEF AllChained
<1>7. CASE ~(s.pc \in {"write", "link"} /\ s.dest # s.cur)
  <2>1. Find(f, k).cur = s.dest
    <3>1. CASE s.pc \in {"write", "link"}
      <4>1. Find(f, s.key) = [cur |-> s.cur, par |-> s.par] BY <3>1 DEF Underway
      <4> QED BY <1>4, <1>7, <3>1, <4>1
    <3>2. CASE s.pc \in {"void", "free"} BY <1>4, <3>2 DEF Underway
    <3> QED BY <1>2, <3>1, <3>2
  <2>2. PICK i \in DOMAIN c : Find(f, k) = [cur |-> c[i], par |-> IF i = 1 THEN 0 ELSE c[i - 1]]
    BY <1>6, <2>1, FoundAt
  <2>3. c[i] = s.dest BY <2>1, <2>2
  <2>4. InChain(f, k, s.dest) BY <1>5, <2>3 DEF InChain, Range
  <2> QED BY <1>4, <2>4 DEF Own
<1> QED BY <1>3, <1>7

LEMMA TakenIs ==
    ASSUME NEW o \in Taken
    PROVE  \E t \in Busy : o \in Owned(op[t])
<1>1. CASE \E t \in Busy : op[t].pc \in {"write", "link"} /\ op[t].dest # op[t].cur /\ o = op[t].dest
  BY <1>1 DEF Owned
<1>2. CASE \E t \in Busy : op[t].pc \in {"void", "free"} /\ o = op[t].cur
  BY <1>2 DEF Owned
<1> QED BY <1>1, <1>2 DEF Taken

LEMMA KeptSound ==
    ASSUME Kept
    PROVE  ChainsSound
<1>1. TypeOK BY KeptTyped
<1>2. ASSUME phase \in {"open", "save"}
      PROVE  /\ Sound(file)
             /\ (UNION Range(Linking(file))) \intersect Taken = {}
             /\ {b.offset : b \in pool} \intersect Taken = {}
             /\ \A t, u \in Busy : t # u /\ op[t].dest # 0 => op[t].dest # op[u].dest
  <2>1. Orderly(Thread, file, end, op) BY <1>2 DEF Kept, PhaseInv, Settled
  <2>2. IsFile(file) /\ AllChained(file) BY <2>1 DEF Orderly
  <2>3. Sound(file) BY <2>2, ChainedSound
  <2>4. \A t \in Busy : t \in Thread /\ op[t] # None BY DEF Busy
  <2>5. \A t \in Busy : Underway(file, op[t]) BY <2>1, <2>4 DEF Orderly
  <2>6. ASSUME NEW b \in Bucket, NEW o \in Linking(file)[b], o \in Taken PROVE FALSE
    <3>1. PICK t \in Busy : o \in Owned(op[t]) BY <2>6, TakenIs
    <3>2. PICK s : s = op[t] OBVIOUS
    <3>3. Own(file, s, o) /\ Underway(file, s) BY <2>5, <3>1, <3>2 DEF Own
    <3>4. PICK i \in DOMAIN Chain(file, b) : o = Chain(file, b)[i] BY DEF Linking, Range
    <3>5. Live(file, o) /\ BucketOf[file.recs[o].key] = b BY <2>2, <3>4, ChainLive
    <3>6. file.recs[o].key = s.key BY <3>1, <3>2, <3>3, <3>5, OwnedLive
    <3>7. InChain(file, s.key, o) BY <3>4, <3>5, <3>6 DEF InChain, Range
    <3>8. ~InChain(file, s.key, o)
      <4>1. CASE s.pc = "write" /\ s.dest # s.cur /\ o = s.dest
        BY <3>3, <3>5, <4>1 DEF Underway, Live, Void
      <4>2. CASE s.pc = "link" /\ o = s.dest BY <3>3, <4>2 DEF Underway
      <4>3. CASE s.pc = "void" /\ o = s.cur BY <3>3, <4>3 DEF Underway
      <4>4. CASE s.pc = "free" /\ o = s.cur BY <3>3, <3>5, <4>4 DEF Underway, Live, Void
      <4> QED BY <3>1, <3>2, <4>1, <4>2, <4>3, <4>4 DEF Owned
    <3> QED BY <3>7, <3>8
  <2>7. (UNION Range(Linking(file))) \intersect Taken = {}
    <3>1. \A x \in Range(Linking(file)) : \E b \in Bucket : x = Linking(file)[b] BY DEF Range, Linking
    <3> QED BY <2>6, <3>1
  <2>8. {b.offset : b \in pool} \intersect Taken = {}
    <3> SUFFICES ASSUME NEW b \in pool, b.offset \in Taken PROVE FALSE OBVIOUS
    <3>1. PICK t \in Busy : b.offset \in Owned(op[t]) BY TakenIs
    <3>2. AllFree(Thread, file, pool, op) BY <3>1 DEF Kept
    <3> QED BY <2>4, <3>1, <3>2 DEF AllFree
  <2>9. ASSUME NEW t \in Busy, NEW u \in Busy, t # u, op[t].dest # 0, op[t].dest = op[u].dest
        PROVE  FALSE
    <3>1. PICK o, f, e, ops, T : o = op[t].dest /\ f = file /\ e = end /\ ops = op /\ T = Thread OBVIOUS
    <3>2. Own(f, ops[t], o) /\ Own(f, ops[u], o) BY <2>2, <2>5, <2>9, <3>1, DestOwn
    <3>3. /\ Orderly(T, f, e, ops) /\ t \in T /\ u \in T /\ ops[t] # None /\ ops[u] # None
          /\ Underway(f, ops[u])
      BY <2>1, <2>4, <2>5, <3>1
    <3>4. /\ \A d \in Bucket \ {BucketOf[ops[t].key]} : \A i \in DOMAIN Chain(f, d) : Chain(f, d)[i] # o
          /\ \A r \in T \ {t} : ops[r] # None => o \notin Owned(ops[r])
      BY <3>2, <3>3, Mine
    <3>5. BucketOf[ops[t].key] # BucketOf[ops[u].key] BY <2>9, <3>3 DEF Orderly
    <3>6. BucketOf[ops[u].key] \in Bucket BY <3>3, DatabaseAssumption DEF Underway, OpenSet
    <3>7. ~InChain(f, ops[u].key, o) BY <3>4, <3>5, <3>6 DEF InChain, Range
    <3>8. o \notin Owned(ops[u]) BY <2>9, <3>3, <3>4
    <3> QED BY <3>2, <3>7, <3>8 DEF Own
  <2> QED BY <2>3, <2>7, <2>8, <2>9
<1>3. phase = "rename" => Sound(tmp)
  <2> HAVE phase = "rename"
  <2>1. IsFile(tmp) /\ AllChained(tmp) BY DEF Kept, PhaseInv, Settled, Orderly
  <2> QED BY <2>1, ChainedSound
<1> QED BY <1>1, <1>2, <1>3 DEF ChainsSound

LEMMA KeptFree ==
    ASSUME IInv
    PROVE  FreeBlocksFree
BY KeptPool DEF IInv, Spoiled, FreeBlocksFree

LEMMA KeptQuiet ==
    ASSUME Kept
    PROVE  QuietImageSound
<1> SUFFICES ASSUME phase = "open", Busy = {} PROVE Shortcut(file) BY DEF QuietImageSound
<1>1. Orderly(Thread, file, end, op) /\ file.meta = "open" BY DEF Kept, PhaseInv
<1>2. \A t \in Thread : op[t] = None BY DEF Busy
<1>3. PICK ops : ops = op OBVIOUS
<1>4. Orderly(Thread, file, end, ops) /\ \A t \in Thread : ops[t] = None BY <1>1, <1>2, <1>3
<1> QED BY <1>1, <1>4, OrderlyShortcut

(* A Get in a bucket that no thread has locked finds sound chains, and no    *)
(* two threads, no chain and no free block share a place in the file, for    *)
(* any number of threads, keys and buckets, up to the first Set that has a   *)
(* stale pool to take from.                                                 *)
THEOREM ChainsAlwaysSound == Spec => []ChainsSound
<1>1. IInv => ChainsSound BY KeptSound DEF IInv, ChainsSound
<1> QED BY <1>1, KeptAlways, PTL

(* A block in the pool of free blocks is free, after every sequence of       *)
(* sessions and crashes, unless a Close was cut between its two writes; and  *)
(* without that no Set begins with a pool that has another.                  *)
THEOREM PoolAlwaysFree == Spec => []FreeBlocksFree
BY KeptAlways, KeptFree, PTL

(* A process that is killed between two Sets leaves a file that Open finds   *)
(* sound, if no Set has begun with a stale pool.                            *)
THEOREM QuietImages == Spec => []QuietImageSound
<1>1. IInv => QuietImageSound BY KeptQuiet DEF IInv, QuietImageSound
<1> QED BY <1>1, KeptAlways, PTL

-----------------------------------------------------------------------------
(* What a crash loses. *)

(* A live record that a thread was writing over or voiding is of its key. *)
LEMMA CutLive ==
    ASSUME NEW f, IsFile(f), Live_Fit(f), AllChained(f), NEW s, Underway(f, s), s.pc \in {"write", "void"},
           NEW o, o = Place(s), Live(f, o)
    PROVE  f.recs[o].key = s.key
<1>1. CASE s.pc = "void"
  <2>1. o = s.cur BY <1>1 DEF Place
  <2> QED BY <1>1, <2>1 DEF Underway
<1>2. CASE s.pc = "write" /\ s.dest # s.cur
  <2>1. o = s.dest BY <1>2 DEF Place
  <2> QED BY <1>2, <2>1 DEF Underway, Live, Void
<1>3. CASE s.pc = "write" /\ s.dest = s.cur
  <2>1. o = s.cur /\ s.cur # 0 BY <1>3 DEF Place, Underway
  <2>2. PICK k \in Key : k = s.key BY DEF Underway, OpenSet
  <2>3. Find(f, k) = [cur |-> s.cur, par |-> s.par] BY <1>3, <2>2 DEF Underway
  <2>4. Find(f, k).cur = o /\ o # 0 BY <2>1, <2>3
  <2> QED BY <2>2, <2>4, FoundRecord
<1> QED BY <1>1, <1>2, <1>3

(* Nothing that a crash may have torn is in front of o, or at it. *)
NothingTorn(T, ops, torn, o) ==
    \A t \in T : ops[t] # None /\ ops[t].pc \in {"write", "void"} =>
        ~(Place(ops[t]) < o) /\ (t \in torn => Place(ops[t]) # o)

LEMMA CrashReads ==
    ASSUME NEW T, NEW f, NEW e, NEW ops, Orderly(T, f, e, ops), NEW torn, Tearing(T, ops, torn),
           NEW meta \in {"absent", "bare", "closed", "open", "torn"},
           NEW g, g = Crashed(f, ops, torn, meta), NEW o \in DOMAIN f.recs, NothingTorn(T, ops, torn, o)
    PROVE  o \in DOMAIN g.recs /\ g.recs[o] = f.recs[o] /\ o \in Range(Replayed(g))
<1>1. IsFile(f) /\ NoneTorn(f) /\ Tiled(Extents(T, f, ops), e) BY DEF Orderly
<1>2. PICK O : O = CutAt(ops, torn) OBVIOUS
<1>3. Image(g) /\ TornAt(T, f, ops, O, g) BY <1>2, CrashedIs
<1>4. \A p \in O : \E t \in torn : p = Place(ops[t]) BY <1>2 DEF CutAt
<1>5. \A t \in torn : t \in T /\ ops[t] # None /\ ops[t].pc \in {"write", "void"} BY DEF Tearing
<1>6. \A p \in O : ~(p < o) /\ p # o BY <1>4, <1>5 DEF NothingTorn
<1>7. o \in DOMAIN g.recs /\ g.recs[o] = f.recs[o] BY <1>3, <1>6 DEF TornAt
<1> DEFINE B == {x.offset : x \in Extents(T, f, ops)}
<1>8. Apart(Extents(T, f, ops)) BY <1>1 DEF Tiled
<1>9. \A x \in Extents(T, f, ops) : x.offset \in Base .. MaxSize /\ x.size \in 1 .. MaxSize
  BY <1>8 DEF Apart, Block
<1>10. B \in SUBSET Nat BY <1>9, DatabaseAssumption DEF Base
<1>11. PICK y : y \in Extents(T, f, ops) /\ y.offset = o
  <2>1. PICK y : y = [offset |-> o, size |-> f.recs[o].size] OBVIOUS
  <2>2. y \in Extents(T, f, ops) BY <2>1, InExtents
  <2> QED BY <2>1, <2>2
<1>12. o \in B /\ o >= Base /\ o \in Nat BY <1>9, <1>10, <1>11, DatabaseAssumption DEF Base
<1>13. y.offset + y.size <= e BY <1>1, <1>11 DEF Tiled
<1>14. o < e BY <1>1, <1>9, <1>11, <1>12, <1>13, DatabaseAssumption DEF Tiled, Base
<1>15. Base \in B
  <2>1. e # Base BY <1>12, <1>14 DEF Base
  <2> QED BY <1>1, <2>1 DEF Tiled
<1>16. ASSUME NEW x \in Extents(T, f, ops), x.offset <= o
       PROVE  /\ x.offset \in DOMAIN f.recs /\ x.offset \in DOMAIN g.recs
              /\ g.recs[x.offset] = f.recs[x.offset] /\ g.recs[x.offset].type # "torn"
              /\ x.size = f.recs[x.offset].size
  <2>1. x.offset \in DOMAIN f.recs /\ x.size = f.recs[x.offset].size
    <3>1. CASE \E p \in DOMAIN f.recs : x = [offset |-> p, size |-> f.recs[p].size] BY <3>1
    <3>2. ASSUME NEW u \in T, ops[u] # None, ops[u].pc = "write", x = [offset |-> ops[u].dest, size |-> ops[u].size]
          PROVE  x.offset \in DOMAIN f.recs /\ x.size = f.recs[x.offset].size
      <4>1. x.offset = Place(ops[u]) BY <3>2 DEF Place
      <4>2. ~(x.offset < o) BY <3>2, <4>1 DEF NothingTorn
      <4>3. x.offset = o BY <1>9, <1>12, <1>16, <4>2, DatabaseAssumption DEF Base
      <4>4. PICK z : z = [offset |-> o, size |-> f.recs[o].size] OBVIOUS
      <4>5. z \in Extents(T, f, ops) BY <4>4, InExtents
      <4>6. z.offset = x.offset BY <4>3, <4>4
      <4>7. x = z BY <1>8, <4>5, <4>6 DEF Apart
      <4> QED BY <4>3, <4>4, <4>7
    <3> QED BY <3>1, <3>2, InExtents
  <2>2. x.offset \in Nat BY <1>9, DatabaseAssumption DEF Base
  <2>3. x.offset \notin O BY <1>6, <1>12, <1>16, <2>2
  <2>4. x.offset \in DOMAIN g.recs /\ g.recs[x.offset] = f.recs[x.offset] BY <1>3, <2>1, <2>3 DEF TornAt
  <2> QED BY <1>1, <2>1, <2>4 DEF NoneTorn
<1>17. \A p \in B : p <= o => Readable(g, p) BY <1>16 DEF Readable
<1>18. ASSUME NEW p \in B, p < o
       PROVE  p + g.recs[p].size \in B /\ p + g.recs[p].size <= o
  <2>1. PICK x \in Extents(T, f, ops) : p = x.offset OBVIOUS
  <2>2. p \in Nat /\ x.offset <= o BY <1>10, <1>12, <1>18, <2>1
  <2>3. g.recs[p].size = x.size BY <1>16, <2>1, <2>2
  <2>4. x.offset + x.size <= o BY <1>8, <1>11, <1>18, <2>1 DEF Apart
  <2>5. x.offset + x.size = e \/ \E z \in Extents(T, f, ops) : z.offset = x.offset + x.size BY <1>1 DEF Tiled
  <2>6. x.offset + x.size # e BY <1>1, <1>9, <1>12, <1>14, <2>4, DatabaseAssumption DEF Tiled, Base
  <2> QED BY <2>1, <2>3, <2>4, <2>5, <2>6
<1>19. o \in Range(Replayed(g))
  <2>1. IsFile(g) /\ Apart(Places(g)) BY <1>3 DEF Image
  <2> HIDE DEF B
  <2> QED BY <1>10, <1>12, <1>15, <1>17, <1>18, <2>1, ReadsTo
<1> QED BY <1>7, <1>19

(* What a Get returns after the next Open: the value of a record that is in  *)
(* the image, and None only if no record that can be read is of the key.     *)
LEMMA OpenedIs ==
    ASSUME NEW f, Image(f), f.meta \in {"open", "torn"}, NEW k \in Key, NEW v, v = Lookup(Opened(f), k)
    PROVE  \/ v = None /\ \A o \in Range(Replayed(f)) : ~Sets(f, o, k)
           \/ \E o \in DOMAIN f.recs : Sets(f, o, k) /\ v = f.recs[o].val
<1>1. PICK O : O = Range(Replayed(f)) OBVIOUS
<1>2. O \subseteq DOMAIN f.recs BY <1>1, RebuiltGathers
<1>3. CASE Shortcut(f)
  <2>1. Opened(f) = f BY <1>3 DEF Opened
  <2>2. Settled(f, EndOf(f)) BY <1>3, ShortcutSettled
  <2>3. PICK ops : ops = NoSets OBVIOUS
  <2>4. Orderly(Thread, f, EndOf(f), ops) BY <2>2, <2>3 DEF Settled
  <2>5. IsFile(f) /\ Live_Fit(f) /\ AllChained(f) BY <2>4 DEF Orderly
  <2>6. PICK p : p = Find(f, k).cur OBVIOUS
  <2>7. CASE p # 0
    <3>1. Live(f, p) /\ f.recs[p].key = k /\ Lookup(f, k) = f.recs[p].val BY <2>5, <2>6, <2>7, FoundRecord
    <3> QED BY <2>1, <3>1 DEF Live, Sets
  <2>8. CASE p = 0
    <3>0. Find(f, k).cur = 0 BY <2>6, <2>8
    <3>1. v = None
      <4>1. Lookup(f, k) = None BY <2>5, <3>0, FoundRecord
      <4> QED BY <2>1, <4>1
    <3>2. ASSUME NEW o \in O, Sets(f, o, k) PROVE FALSE
      <4>1. Live(f, o) /\ f.recs[o].key = k BY <1>2, <3>2 DEF Live, Sets
      <4>2. \A t \in Thread : ops[t] = None BY <2>3 DEF NoSets
      <4>3. PICK c : c = Chain(f, BucketOf[k]) OBVIOUS
      <4>4. PICK i \in DOMAIN c : c[i] = o
        <5>1. \E i \in DOMAIN Chain(f, BucketOf[f.recs[o].key]) : Chain(f, BucketOf[f.recs[o].key])[i] = o
          BY <2>4, <4>1, <4>2, LiveWhere
        <5> QED BY <4>1, <4>3, <5>1
      <4>5. Chained(f, BucketOf[k], c) BY <2>5, <4>3, DatabaseAssumption DEF AllChained
      <4>6. Find(f, k).cur = o BY <2>5, <4>1, <4>4, <4>5, GetOf
      <4>7. o # 0 BY <2>5, <4>1, DatabaseAssumption DEF IsFile, Live, Base
      <4> QED BY <2>6, <2>8, <4>6, <4>7
    <3> QED BY <1>1, <3>1, <3>2
  <2> QED BY <2>7, <2>8
<1>4. CASE ~Shortcut(f)
  <2>1. Opened(f) = RestoreDatabase(f) BY <1>4 DEF Opened
  <2>2. PICK g : g = RestoreDatabase(f) OBVIOUS
  <2>3. Gathered(f, O, g) BY <1>1, <2>2, RestoreIs
  <2>4. v = Lookup(g, k) BY <2>1, <2>2
  <2> QED BY <1>1, <1>2, <2>3, <2>4 DEF Gathered
<1> QED BY <1>3, <1>4

(* What a Get returns when no thread is in a Set. *)
LEMMA VisibleIdle ==
    ASSUME NEW ph, NEW f, NEW t, NEW ops, ops = NoSets, NEW k \in Key
    PROVE  Visible(ph, f, t, ops)[k] =
             Lookup(IF ph = "down" THEN Opened(f) ELSE IF ph = "rename" THEN t ELSE f, k)
<1> DEFINE sets == {ops[u] : u \in Thread} \ {None}
<1>1. sets = {} BY DEF NoSets
<1>2. ~\E s \in sets : s.key = k BY <1>1
<1> QED BY <1>2 DEF Visible

LEMMA LostStep ==
    ASSUME Kept, Next, phase = "open", phase' = "down",
           NEW k \in Key, NEW o, o = Find(file, k).cur, o # 0, content'[k] = None
    PROVE  \E t \in Busy : op[t].key = k \/ (op[t].pc \in {"write", "void"} /\ Place(op[t]) < o)
<1>1. Crash
  <2>1. Step BY DEF Next
  <2>2. ASSUME NEW t \in Thread, PlaceRecord(t) \/ WriteNew(t) \/ LinkNew(t) \/ VoidOld(t) \/ FreeOld(t)
        PROVE  phase' = phase
    BY <2>2 DEF PlaceRecord, WriteNew, LinkNew, VoidOld, FreeOld, Goes
  <2>3. \A t \in Thread, j \in Key, v \in Value : BeginSet(t, j, v) => phase' = phase BY DEF BeginSet, Goes
  <2>4. ~(CreateFile \/ CreateMetadata \/ OpenClosed \/ MarkOpen \/ LoadPool \/ OpenSound \/ Restore \/ Rename)
    BY DEF CreateFile, CreateMetadata, OpenClosed, MarkOpen, LoadPool, OpenSound, Restore, Rename, To
  <2>5. ~CloseMetadata /\ ~ClosePool BY DEF CloseMetadata, ClosePool, To
  <2> QED BY <2>1, <2>2, <2>3, <2>4, <2>5 DEF Step, Open
<1>2. PICK torn, meta : CrashOf(torn, meta) BY <1>1, CrashIs
<1>3. op' = NoSets BY <1>1, CrashIs
<1>4. Orderly(Thread, file, end, op) /\ file.meta = "open" BY DEF Kept, PhaseInv
<1>5. meta \in {"open", "torn"} BY <1>2, <1>4 DEF CrashOf
<1>6. PICK f, ops, g, e : f = file /\ ops = op /\ g = file' /\ e = end OBVIOUS
<1>7. PICK O : O = CutAt(ops, torn) OBVIOUS
<1>8. /\ Tearing(Thread, ops, torn) /\ g = Crashed(f, ops, torn, meta) /\ Orderly(Thread, f, e, ops)
      /\ meta \in {"absent", "bare", "closed", "open", "torn"}
  BY <1>2, <1>4, <1>6 DEF CrashOf
<1>9. Image(g) /\ g.meta = meta BY ONLY <1>7, <1>8, CrashedIs
<1>10. IsFile(f) /\ Live_Fit(f) /\ AllChained(f) BY <1>8 DEF Orderly
<1>11. Live(f, o) /\ f.recs[o].key = k BY <1>6, <1>10, FoundRecord
<1> SUFFICES ASSUME \A t \in Busy : op[t].key # k /\ ~(op[t].pc \in {"write", "void"} /\ Place(op[t]) < o)
             PROVE  FALSE
  OBVIOUS
<1>12. NothingTorn(Thread, ops, torn, o)
  <2> SUFFICES ASSUME NEW t \in Thread, ops[t] # None, ops[t].pc \in {"write", "void"}
               PROVE  ~(Place(ops[t]) < o) /\ Place(ops[t]) # o
    BY DEF NothingTorn
  <2>1. t \in Busy BY <1>6 DEF Busy
  <2>2. ~(Place(ops[t]) < o) /\ ops[t].key # k BY <1>6, <2>1
  <2>3. PICK s : s = ops[t] OBVIOUS
  <2>4. Underway(f, s) BY <1>8, <2>3 DEF Orderly
  <2>5. s.pc \in {"write", "void"} BY <2>3
  <2>6. o = Place(s) => f.recs[o].key = s.key BY <1>10, <1>11, <2>4, <2>5, CutLive
  <2> QED BY <1>11, <2>2, <2>3, <2>6
<1>13. o \in DOMAIN f.recs BY <1>11 DEF Live
<1>14. o \in DOMAIN g.recs /\ g.recs[o] = f.recs[o] /\ o \in Range(Replayed(g))
  BY ONLY <1>8, <1>12, <1>13, CrashReads
<1>15. Sets(g, o, k) BY <1>11, <1>14 DEF Sets, Live
<1>16. PICK v : v = Lookup(Opened(g), k) OBVIOUS
<1>17. v = None
  <2>1. content' = Visible("down", g, tmp', NoSets) BY <1>3, <1>6 DEF Next
  <2>2. PICK t, none : t = tmp' /\ none = NoSets OBVIOUS
  <2>3. Visible("down", g, t, none)[k] = Lookup(Opened(g), k) BY <2>2, VisibleIdle
  <2> QED BY <1>16, <2>1, <2>2, <2>3
<1>18. PICK p \in DOMAIN g.recs : Sets(g, p, k) /\ v = g.recs[p].val
  BY <1>5, <1>9, <1>14, <1>15, <1>16, OpenedIs
<1>19. g.recs[p].val \in Value BY <1>9, <1>18 DEF Image, Live_Fit, Live, Sets
<1> QED BY <1>17, <1>18, <1>19, DatabaseAssumption

(* A crash loses a key that was being set, or one whose record lies behind   *)
(* a record that was being written, and no other, if no Set has begun with a *)
(* stale pool.                                                              *)
THEOREM OnlyBehindIsLost == Spec => LostOnlyBehind
<1>1. IInv /\ [Next]_vars =>
        [phase = "open" /\ phase' = "down" /\ ~broken =>
           \A k \in Key :
             LET o == Find(file, k).cur
             IN  o # 0 /\ content'[k] = None =>
                   \E t \in Busy : op[t].key = k \/ (op[t].pc \in {"write", "void"} /\ Place(op[t]) < o)]_vars
  <2> SUFFICES ASSUME Kept, Next, phase = "open", phase' = "down",
                      NEW k \in Key, Find(file, k).cur # 0, content'[k] = None
               PROVE  \E t \in Busy : op[t].key = k \/ (op[t].pc \in {"write", "void"} /\ Place(op[t]) < Find(file, k).cur)
    BY DEF IInv
  <2>1. PICK o : o = Find(file, k).cur OBVIOUS
  <2> QED BY <2>1, LostStep
<1> QED BY <1>1, KeptAlways, PTL DEF LostOnlyBehind, Spec

-----------------------------------------------------------------------------
(* The database implements the promise. *)

LEMMA HeaderSame ==
    ASSUME NEW f, IsFile(f), NEW g, NEW meta, NEW synced, NEW saved, Header(f, g, meta, synced, saved),
           meta = f.meta, synced = f.synced, saved = f.saved
    PROVE  g = f
<1>1. /\ f = [meta |-> f.meta, synced |-> f.synced, saved |-> f.saved, bucket |-> f.bucket, recs |-> f.recs]
      /\ g = [meta |-> g.meta, synced |-> g.synced, saved |-> g.saved, bucket |-> g.bucket, recs |-> g.recs]
  BY DEF Header, IsFile
<1>2. g.meta = f.meta /\ g.synced = f.synced /\ g.saved = f.saved /\ g.bucket = f.bucket /\ g.recs = f.recs
  BY DEF Header, SameRecs
<1> QED BY <1>1, <1>2

(* A record of a file in order that is live is the one that Get returns. *)
LEMMA SettledGet ==
    ASSUME NEW T, NEW f, NEW e, NEW ops, Orderly(T, f, e, ops), NEW o, Live(f, o), NEW k \in Key, f.recs[o].key = k
    PROVE  \/ Lookup(f, k) = f.recs[o].val
           \/ \E u \in T : /\ ops[u] # None /\ ops[u].key = k
                           /\ \/ ops[u].pc = "link" /\ o = ops[u].dest
                              \/ ops[u].pc = "void" /\ o = ops[u].cur
<1>1. IsFile(f) /\ AllChained(f) BY DEF Orderly
<1>2. PICK c : c = Chain(f, BucketOf[k]) OBVIOUS
<1>3. Chained(f, BucketOf[k], c) BY <1>1, <1>2, DatabaseAssumption DEF AllChained
<1>4. CASE \E i \in DOMAIN c : c[i] = o
  <2>1. PICK i \in DOMAIN c : c[i] = o BY <1>4
  <2> QED BY <1>1, <1>3, <2>1, GetOf
<1>5. CASE ~\E i \in DOMAIN c : c[i] = o
  <2>1. ~\E i \in DOMAIN Chain(f, BucketOf[f.recs[o].key]) : Chain(f, BucketOf[f.recs[o].key])[i] = o
    BY <1>2, <1>5
  <2> QED BY <2>1, LiveWhere
<1> QED BY <1>4, <1>5

(* Open changes nothing in a file with no Set in it, sound or restored. *)
LEMMA SettledOpened ==
    ASSUME NEW f, NEW e, Settled(f, e), f.meta \in {"closed", "open", "torn"}, NEW k \in Key
    PROVE  Lookup(Opened(f), k) = Lookup(f, k)
<1>1. CASE f.meta = "closed" BY <1>1 DEF Opened
<1>2. PICK ops : ops = NoSets OBVIOUS
<1>3. Orderly(Thread, f, e, ops) /\ \A t \in Thread : ops[t] = None BY <1>2 DEF Settled, NoSets
<1>4. IsFile(f) /\ Live_Fit(f) /\ AllChained(f) BY <1>3 DEF Orderly
<1>5. Image(f) BY <1>3, OrderlyImage
<1>6. CASE f.meta \in {"open", "torn"}
  <2>1. PICK v : v = Lookup(Opened(f), k) OBVIOUS
  <2>2. CASE \E o \in DOMAIN f.recs : Sets(f, o, k) /\ v = f.recs[o].val
    <3>1. PICK o \in DOMAIN f.recs : Sets(f, o, k) /\ v = f.recs[o].val BY <2>2
    <3>2. Live(f, o) /\ f.recs[o].key = k BY <3>1 DEF Sets, Live
    <3>3. Lookup(f, k) = f.recs[o].val BY <1>3, <3>2, SettledGet
    <3> QED BY <2>1, <3>1, <3>3
  <2>3. CASE v = None /\ \A o \in Range(Replayed(f)) : ~Sets(f, o, k)
    <3>1. PICK o : o = Find(f, k).cur OBVIOUS
    <3>2. CASE o = 0
      <4>1. Find(f, k).cur = 0 BY <3>1, <3>2
      <4>2. Lookup(f, k) = None BY <1>4, <4>1, FoundRecord
      <4> QED BY <2>1, <2>3, <4>2
    <3>3. CASE o # 0
      <4>1. Live(f, o) /\ f.recs[o].key = k BY <1>4, <3>1, <3>3, FoundRecord
      <4>2. PICK torn, meta, g : torn = {} /\ meta = f.meta /\ g = Crashed(f, ops, torn, meta) OBVIOUS
      <4>3. Header(f, g, meta, f.synced, f.saved) BY <1>4, <1>6, <4>2, CrashedQuiet
      <4>4. g = f BY <1>4, <4>2, <4>3, HeaderSame
      <4>5. Tearing(Thread, ops, torn) BY <4>2 DEF Tearing
      <4>6. NothingTorn(Thread, ops, torn, o) BY <1>3 DEF NothingTorn
      <4>7. o \in DOMAIN f.recs /\ meta \in {"absent", "bare", "closed", "open", "torn"}
        BY <1>6, <4>1, <4>2 DEF Live
      <4>8. g = Crashed(f, ops, torn, meta) BY <4>2
      <4>9. Orderly(Thread, f, e, ops) BY <1>3
      <4>10. o \in Range(Replayed(g)) BY ONLY <4>5, <4>6, <4>7, <4>8, <4>9, CrashReads
      <4> QED BY <2>3, <4>1, <4>4, <4>10 DEF Sets, Live
    <3> QED BY <3>2, <3>3
  <2> QED BY <1>5, <1>6, <2>1, <2>2, <2>3, OpenedIs
<1> QED BY <1>1, <1>6

(* What a Get returns in a session: the value from before in a Set of the    *)
(* key, and what the file has otherwise.                                    *)
LEMMA VisibleIs ==
    ASSUME NEW f, NEW e, NEW ops, Orderly(Thread, f, e, ops), NEW t, NEW C, C = Visible("open", f, t, ops), NEW k \in Key
    PROVE  /\ \A u \in Thread : ops[u] # None /\ ops[u].key = k => C[k] = ops[u].was
           /\ (\A u \in Thread : ops[u] # None => ops[u].key # k) => C[k] = Lookup(f, k)
<1> DEFINE sets == {ops[u] : u \in Thread} \ {None}
<1>1. C[k] = IF \E s \in sets : s.key = k THEN (CHOOSE s \in sets : s.key = k).was ELSE Lookup(f, k)
  BY DEF Visible
<1>2. ASSUME NEW u \in Thread, ops[u] # None, ops[u].key = k PROVE C[k] = ops[u].was
  <2>1. ops[u] \in sets BY <1>2
  <2>2. \A s \in sets : s.key = k => s = ops[u]
    <3> SUFFICES ASSUME NEW w \in Thread, ops[w] # None, ops[w].key = k PROVE ops[w] = ops[u] OBVIOUS
    <3> QED BY <1>2 DEF Orderly
  <2> HIDE DEF sets
  <2> QED BY <1>1, <1>2, <2>1, <2>2
<1>3. ASSUME \A u \in Thread : ops[u] # None => ops[u].key # k PROVE C[k] = Lookup(f, k)
  <2>1. ~\E s \in sets : s.key = k BY <1>3
  <2> QED BY <1>1, <2>1
<1> QED BY <1>2, <1>3

LEMMA VisibleAll ==
    ASSUME NEW ph, NEW f, NEW t, NEW ops
    PROVE  Visible(ph, f, t, ops) = [k \in Key |-> Visible(ph, f, t, ops)[k]]
BY DEF Visible

(* The Sets that are pending, as the promise sees them. *)
Pend(ops) == [t \in Thread |-> IF ops[t] = None THEN None ELSE [key |-> ops[t].key, val |-> ops[t].val]]

LEMMA PendIs ==
    ASSUME NEW ops, NEW t \in Thread, ops[t] \in OpenSet
    PROVE  Pend(ops)[t] = [key |-> ops[t].key, val |-> ops[t].val] /\ Pend(ops)[t] # None
<1>1. ops[t] # None BY NoneAssumption
<1>2. Pend(ops)[t] = [key |-> ops[t].key, val |-> ops[t].val] BY <1>1 DEF Pend
<1>3. [key |-> ops[t].key, val |-> ops[t].val] \in [key : Key, val : Value] BY DEF OpenSet
<1> QED BY <1>2, <1>3, NoneAssumption

LEMMA PendAfter ==
    ASSUME NEW ops, NEW t, NEW s, NEW ops2, Becomes(Thread, ops, t, s, ops2), t \in Thread
    PROVE  Pend(ops2) = [Pend(ops) EXCEPT ![t] = IF s = None THEN None ELSE [key |-> s.key, val |-> s.val]]
BY DEF Becomes, Pend

LEMMA BeginMaps ==
    ASSUME NEW t \in Thread, NEW s, NEW k, NEW v, op[t] = None, s # None, s.key = k, s.val = v,
           Becomes(Thread, op, t, s, op'), content' = content
    PROVE  Store!Begin(t, k, v)
<1>1. PICK ops, ops2 : ops = op /\ ops2 = op' OBVIOUS
<1>2. Pend(ops)[t] = None BY <1>1 DEF Pend
<1>3. Pend(ops2) = [Pend(ops) EXCEPT ![t] = IF s = None THEN None ELSE [key |-> s.key, val |-> s.val]]
  BY <1>1, PendAfter
<1>4. Pend(ops2) = [Pend(ops) EXCEPT ![t] = [key |-> k, val |-> v]] BY <1>3
<1> QED BY <1>1, <1>2, <1>4 DEF Pend, Store!Begin

LEMMA EndMaps ==
    ASSUME NEW t \in Thread, op[t] \in OpenSet, Becomes(Thread, op, t, None, op'),
           content' = [content EXCEPT ![op[t].key] = op[t].val]
    PROVE  Store!End(t)
<1>1. PICK ops, ops2 : ops = op /\ ops2 = op' OBVIOUS
<1>2. Pend(ops)[t] = [key |-> ops[t].key, val |-> ops[t].val] /\ Pend(ops)[t] # None BY <1>1, PendIs
<1>3. Pend(ops)[t].key = op[t].key /\ Pend(ops)[t].val = op[t].val BY <1>1, <1>2
<1>4. PICK s : s = None OBVIOUS
<1>5. Becomes(Thread, ops, t, s, ops2) BY <1>1, <1>4
<1>6. Pend(ops2) = [Pend(ops) EXCEPT ![t] = IF s = None THEN None ELSE [key |-> s.key, val |-> s.val]]
  BY <1>5, PendAfter
<1>7. Pend(ops2) = [Pend(ops) EXCEPT ![t] = None] BY <1>4, <1>6
<1>8. content' = [content EXCEPT ![Pend(ops)[t].key] = Pend(ops)[t].val] BY <1>3
<1> QED BY <1>1, <1>2, <1>7, <1>8 DEF Pend, Store!End

LEMMA StutterMaps ==
    ASSUME content' = content,
           \/ op' = op
           \/ \E t \in Thread : \E s : /\ op[t] # None /\ s # None /\ s.key = op[t].key /\ s.val = op[t].val
                                       /\ Becomes(Thread, op, t, s, op')
    PROVE  UNCHANGED Store!map
<1>1. PICK ops, ops2 : ops = op /\ ops2 = op' OBVIOUS
<1>2. CASE op' = op BY <1>1, <1>2 DEF Store!map
<1>3. ASSUME NEW t \in Thread, NEW s, op[t] # None, s # None, s.key = op[t].key, s.val = op[t].val,
             Becomes(Thread, op, t, s, op')
      PROVE  UNCHANGED Store!map
  <2>1. Pend(ops2) = Pend(ops) BY <1>1, <1>3 DEF Becomes, Pend
  <2> QED BY <1>1, <2>1 DEF Pend, Store!map
<1> QED BY <1>2, <1>3

(* What a kill may do to the store C with the Sets P. *)
KillOf(P, P2, C, D) ==
    LET cut == {t \in Thread : P[t] # None}
    IN  /\ \A k \in Key : \/ D[k] = C[k]
                          \/ \E t \in cut : P[t] = [key |-> k, val |-> D[k]]
                          \/ cut # {} /\ D[k] = None
        /\ P2 = [t \in Thread |-> None]

LEMMA KillMaps ==
    ASSUME op' = NoSets, op \in [Thread -> OpenSet \union {None}],
           \A k \in Key : \/ content'[k] = content[k]
                          \/ \E u \in Thread : op[u] # None /\ op[u].key = k /\ op[u].val = content'[k]
                          \/ content'[k] = None /\ op # NoSets
    PROVE  Store!Kill
<1>1. PICK ops, ops2 : ops = op /\ ops2 = op' OBVIOUS
<1>2. Pend(ops2) = [t \in Thread |-> None] BY <1>1 DEF Pend, NoSets
<1>3. \A u \in Thread : ops[u] # None =>
        Pend(ops)[u] = [key |-> ops[u].key, val |-> ops[u].val] /\ Pend(ops)[u] # None
  BY <1>1, PendIs
<1>4. op # NoSets => \E u \in Thread : ops[u] # None BY <1>1 DEF NoSets
<1>5. ASSUME NEW k \in Key
      PROVE  \/ content'[k] = content[k]
             \/ \E u \in {w \in Thread : Pend(ops)[w] # None} : Pend(ops)[u] = [key |-> k, val |-> content'[k]]
             \/ {w \in Thread : Pend(ops)[w] # None} # {} /\ content'[k] = None
  <2>1. CASE content'[k] = content[k] BY <2>1
  <2>2. ASSUME NEW u \in Thread, op[u] # None, op[u].key = k, op[u].val = content'[k]
        PROVE  \E w \in {w \in Thread : Pend(ops)[w] # None} : Pend(ops)[w] = [key |-> k, val |-> content'[k]]
    <3>1. Pend(ops)[u] = [key |-> k, val |-> content'[k]] /\ Pend(ops)[u] # None BY <1>1, <1>3, <2>2
    <3> QED BY <3>1
  <2>3. CASE content'[k] = None /\ op # NoSets
    <3>1. PICK u \in Thread : ops[u] # None BY <1>4, <2>3
    <3>2. u \in {w \in Thread : Pend(ops)[w] # None} BY <1>3, <3>1
    <3> QED BY <2>3, <3>2
  <2> QED BY <2>1, <2>2, <2>3
<1>6. /\ Pend(ops) = [t \in Thread |-> IF op[t] = None THEN None ELSE [key |-> op[t].key, val |-> op[t].val]]
      /\ Pend(ops2) = [t \in Thread |-> IF op'[t] = None THEN None ELSE [key |-> op'[t].key, val |-> op'[t].val]]
  BY <1>1 DEF Pend
<1>7. KillOf(Pend(ops), Pend(ops2), content, content') BY <1>2, <1>5 DEF KillOf
<1>8. KillOf([t \in Thread |-> IF op[t] = None THEN None ELSE [key |-> op[t].key, val |-> op[t].val]],
             [t \in Thread |-> IF op'[t] = None THEN None ELSE [key |-> op'[t].key, val |-> op'[t].val]],
             content, content')
  BY ONLY <1>6, <1>7, Zenon
<1> QED BY <1>8 DEF KillOf, Store!Kill

(* A step of one thread in a session changes what a Get of its key returns,  *)
(* and of no other.                                                         *)
LEMMA OthersSame ==
    ASSUME NEW f, NEW e, NEW ops, Orderly(Thread, f, e, ops),
           NEW g, NEW e2, NEW ops2, Orderly(Thread, g, e2, ops2),
           NEW t \in Thread, NEW s, Becomes(Thread, ops, t, s, ops2),
           NEW K, ops[t] # None => ops[t].key = K, s # None => s.key = K,
           NEW j \in Key, j # K, Lookup(g, j) = Lookup(f, j),
           NEW x, NEW y, NEW C, NEW D, C = Visible("open", f, x, ops), D = Visible("open", g, y, ops2)
    PROVE  D[j] = C[j]
<1>1. \A u \in Thread \ {t} : ops2[u] = ops[u] BY DEF Becomes
<1>2. ops2[t] = s BY DEF Becomes
<1>3. CASE \E u \in Thread : ops[u] # None /\ ops[u].key = j
  <2>1. PICK u \in Thread : ops[u] # None /\ ops[u].key = j BY <1>3
  <2>2. u # t BY <2>1
  <2>3. ops2[u] = ops[u] BY <1>1, <2>2
  <2>4. C[j] = ops[u].was BY <2>1, VisibleIs
  <2>5. ops2[u] # None /\ ops2[u].key = j BY <2>1, <2>3
  <2>6. D[j] = ops2[u].was BY <2>5, VisibleIs
  <2> QED BY <2>3, <2>4, <2>6
<1>4. CASE \A u \in Thread : ops[u] # None => ops[u].key # j
  <2>1. C[j] = Lookup(f, j) BY <1>4, VisibleIs
  <2>2. \A u \in Thread : ops2[u] # None => ops2[u].key # j BY <1>1, <1>2, <1>4
  <2>3. D[j] = Lookup(g, j) BY <2>2, VisibleIs
  <2> QED BY <2>1, <2>3
<1> QED BY <1>3, <1>4

(* Nobody else is in a Set of the key of a thread. *)
LEMMA KeyAlone ==
    ASSUME NEW f, NEW e, NEW ops, Orderly(Thread, f, e, ops), NEW t \in Thread, ops[t] # None
    PROVE  \A u \in Thread \ {t} : ops[u] # None => ops[u].key # ops[t].key
BY DEF Orderly

(* The Set goes on: nothing changes. *)
LEMMA GoesOnMaps ==
    ASSUME Kept, NEW t \in Busy, NEW s, s # None, phase = "open",
           s.key = op[t].key, s.val = op[t].val, s.was = op[t].was, op' = [op EXCEPT ![t] = s],
           Orderly(Thread, file', end', op'),
           \A j \in Key : j # op[t].key => Lookup(file', j) = Lookup(file, j),
           content = Visible("open", file, tmp, op), content' = Visible("open", file', tmp', op')
    PROVE  UNCHANGED Store!map
<1>1. /\ t \in Thread /\ op[t] # None /\ DOMAIN op = Thread /\ Orderly(Thread, file, end, op)
      /\ op[t] \in OpenSet
  BY BusyIs
<1>2. PICK f, g, e, e2, ops, ops2, x, y, C, D :
        /\ f = file /\ g = file' /\ e = end /\ e2 = end' /\ ops = op /\ ops2 = op' /\ x = tmp /\ y = tmp'
        /\ C = content /\ D = content'
  OBVIOUS
<1>3. Orderly(Thread, f, e, ops) /\ Orderly(Thread, g, e2, ops2) BY <1>1, <1>2
<1>4. Becomes(Thread, ops, t, s, ops2) BY <1>1, <1>2 DEF Becomes
<1>5. C = Visible("open", f, x, ops) /\ D = Visible("open", g, y, ops2) BY <1>2
<1>6. PICK K : K = ops[t].key OBVIOUS
<1>7. ops[t] # None /\ s.key = K BY <1>1, <1>2, <1>6
<1>8. ASSUME NEW j \in Key PROVE D[j] = C[j]
  <2>1. CASE j = K
    <3>1. C[j] = ops[t].was BY <1>1, <1>3, <1>5, <1>6, <1>7, <2>1, VisibleIs
    <3>2. ops2[t] = s BY <1>4 DEF Becomes
    <3>3. ops2[t] # None /\ ops2[t].key = j BY <1>7, <2>1, <3>2
    <3>4. D[j] = ops2[t].was BY <1>1, <1>3, <1>5, <3>3, VisibleIs
    <3> QED BY <1>2, <3>1, <3>2, <3>4
  <2>2. CASE j # K
    <3>1. Lookup(g, j) = Lookup(f, j) BY <1>2, <1>6, <2>2
    <3>2. t \in Thread /\ (ops[t] # None => ops[t].key = K) /\ (s # None => s.key = K) BY <1>1, <1>6, <1>7
    <3> QED BY ONLY <1>3, <1>4, <1>5, <2>2, <3>1, <3>2, j \in Key, OthersSame, SMTT(30)
  <2> QED BY <2>1, <2>2
<1>9. content' = content
  <2>1. C = [k \in Key |-> C[k]] /\ D = [k \in Key |-> D[k]] BY <1>5, VisibleAll
  <2> QED BY <1>2, <1>8, <2>1
<1>10. Becomes(Thread, op, t, s, op') BY <1>2, <1>4
<1> QED BY <1>1, <1>9, <1>10, StutterMaps

(* The Set returns: its key has its value. *)
LEMMA ReturnsMaps ==
    ASSUME Kept, NEW t \in Busy, phase = "open", op' = [op EXCEPT ![t] = None],
           Orderly(Thread, file', end', op'),
           \A j \in Key : Lookup(file', j) = IF j = op[t].key THEN op[t].val ELSE Lookup(file, j),
           content = Visible("open", file, tmp, op), content' = Visible("open", file', tmp', op')
    PROVE  Store!End(t)
<1>1. /\ t \in Thread /\ op[t] # None /\ DOMAIN op = Thread /\ Orderly(Thread, file, end, op)
      /\ op[t] \in OpenSet
  BY BusyIs
<1>2. PICK f, g, e, e2, ops, ops2, x, y, C, D :
        /\ f = file /\ g = file' /\ e = end /\ e2 = end' /\ ops = op /\ ops2 = op' /\ x = tmp /\ y = tmp'
        /\ C = content /\ D = content'
  OBVIOUS
<1>3. Orderly(Thread, f, e, ops) /\ Orderly(Thread, g, e2, ops2) BY <1>1, <1>2
<1>4. PICK s : s = None OBVIOUS
<1>5. Becomes(Thread, ops, t, s, ops2) BY <1>1, <1>2, <1>4 DEF Becomes
<1>6. C = Visible("open", f, x, ops) /\ D = Visible("open", g, y, ops2) BY <1>2
<1>7. PICK K \in Key : K = ops[t].key BY <1>1, <1>2 DEF OpenSet
<1>8. ASSUME NEW j \in Key PROVE D[j] = IF j = K THEN op[t].val ELSE C[j]
  <2>1. CASE j = K
    <3>1. \A u \in Thread \ {t} : ops[u] # None => ops[u].key # K BY <1>1, <1>2, <1>3, <1>7, KeyAlone
    <3>2. \A u \in Thread : ops2[u] # None => ops2[u].key # j BY <1>4, <1>5, <2>1, <3>1 DEF Becomes
    <3>3. D[j] = Lookup(g, j) BY <1>3, <1>6, <3>2, VisibleIs
    <3> QED BY <1>2, <1>7, <2>1, <3>3
  <2>2. CASE j # K
    <3>1. Lookup(g, j) = Lookup(f, j) BY <1>2, <1>7, <2>2
    <3>2. t \in Thread /\ (ops[t] # None => ops[t].key = K) /\ (s # None => s.key = K) BY <1>1, <1>4, <1>7
    <3>3. D[j] = C[j] BY ONLY <1>3, <1>5, <1>6, <2>2, <3>1, <3>2, j \in Key, OthersSame
    <3> QED BY <2>2, <3>3
  <2> QED BY <2>1, <2>2
<1>9. content' = [content EXCEPT ![op[t].key] = op[t].val]
  <2>1. C = [k \in Key |-> C[k]] /\ D = [k \in Key |-> D[k]] BY <1>6, VisibleAll
  <2>2. D = [C EXCEPT ![K] = op[t].val] BY <1>8, <2>1
  <2> QED BY <1>2, <1>7, <2>2
<1>10. Becomes(Thread, op, t, None, op') BY <1>2, <1>4, <1>5
<1> QED BY <1>1, <1>9, <1>10, EndMaps

(* Before and after a step of a session. *)
InSession ==
    /\ Kept /\ Kept' /\ phase = "open" /\ phase' = "open"
    /\ content = Visible("open", file, tmp, op) /\ content' = Visible("open", file', tmp', op')

LEMMA InSessionIs ==
    ASSUME InSession
    PROVE  /\ Kept /\ Orderly(Thread, file, end, op) /\ Orderly(Thread, file', end', op') /\ DOMAIN op = Thread
           /\ phase = "open"
           /\ content = Visible("open", file, tmp, op) /\ content' = Visible("open", file', tmp', op')
BY DEF InSession, Kept, PhaseInv

LEMMA BeginSetMaps ==
    ASSUME InSession, NEW t \in Thread, NEW k \in Key, NEW v \in Value, BeginSet(t, k, v)
    PROVE  Store!Begin(t, k, v)
<1>1. /\ op[t] = None /\ op' = [op EXCEPT ![t] = Started(file, k, v)] /\ file' = file
      /\ \A u \in Busy : BucketOf[op[u].key] # BucketOf[k]
  BY DEF BeginSet, Goes
<1>2. PICK f, e, e2, ops, ops2, x, y, C, D :
        /\ f = file /\ e = end /\ e2 = end' /\ ops = op /\ ops2 = op' /\ x = tmp /\ y = tmp'
        /\ C = content /\ D = content'
  OBVIOUS
<1>3. Orderly(Thread, f, e, ops) /\ Orderly(Thread, f, e2, ops2) BY <1>1, <1>2, InSessionIs
<1>4. C = Visible("open", f, x, ops) /\ D = Visible("open", f, y, ops2) BY <1>1, <1>2, InSessionIs
<1>5. PICK s : s = Started(f, k, v) OBVIOUS
<1>6. DOMAIN op = Thread BY InSessionIs
<1>7. Becomes(Thread, ops, t, s, ops2) BY <1>1, <1>2, <1>5, <1>6 DEF Becomes
<1>8. IsFile(f) /\ Live_Fit(f) /\ AllChained(f) BY <1>3 DEF Orderly
<1>9. Underway(f, s) /\ s.key = k /\ s.val = v /\ s.pc \in {"place", "write"} BY <1>5, <1>8, StartedIs
<1>10. s # None /\ s.was = Lookup(f, k) BY <1>9, NoneAssumption DEF Underway
<1>11. ASSUME NEW j \in Key PROVE D[j] = C[j]
  <2>1. CASE j = k
    <3>1. ops2[t] = s BY <1>7 DEF Becomes
    <3>2. ops2[t] # None /\ ops2[t].key = j BY <1>9, <1>10, <2>1, <3>1
    <3>3. D[j] = ops2[t].was BY <1>3, <1>4, <3>2, VisibleIs
    <3>4. \A u \in Thread : ops[u] # None => ops[u].key # j BY <1>1, <1>2, <2>1 DEF Busy
    <3>5. C[j] = Lookup(f, j) BY <1>3, <1>4, <3>4, VisibleIs
    <3> QED BY <1>10, <2>1, <3>1, <3>3, <3>5
  <2>2. CASE j # k
    <3>1. (ops[t] # None => ops[t].key = k) /\ (s # None => s.key = k) BY <1>1, <1>2, <1>9
    <3>2. t \in Thread /\ Lookup(f, j) = Lookup(f, j) OBVIOUS
    <3> QED BY ONLY <1>3, <1>4, <1>7, <2>2, <3>1, <3>2, j \in Key, OthersSame
  <2> QED BY <2>1, <2>2
<1>12. content' = content
  <2>1. C = [i \in Key |-> C[i]] /\ D = [i \in Key |-> D[i]] BY <1>4, VisibleAll
  <2> QED BY <1>2, <1>11, <2>1
<1>13. Becomes(Thread, op, t, s, op') BY <1>2, <1>7
<1> QED BY <1>1, <1>9, <1>10, <1>12, <1>13, BeginMaps

LEMMA PlaceRecordMaps ==
    ASSUME InSession, NEW t \in Thread, PlaceRecord(t)
    PROVE  UNCHANGED Store!map
<1>1. PICK s : t \in Busy /\ op' = [op EXCEPT ![t] = s] /\ HasPlace(op[t], s) /\ Underway(file, s)
  BY InSessionIs, PlaceRecordDoes
<1>2. s # None BY <1>1, NoneAssumption DEF Underway
<1>3. s.key = op[t].key /\ s.val = op[t].val /\ s.was = op[t].was BY <1>1 DEF HasPlace
<1>4. file' = file BY DEF PlaceRecord
<1> QED BY <1>1, <1>2, <1>3, <1>4, InSessionIs, GoesOnMaps

(* The part of a Set that is left when one of its steps is done. *)
LEMMA PcIs ==
    ASSUME NEW s \in OpenSet, NEW pc
    PROVE  /\ [s EXCEPT !.pc = pc].key = s.key /\ [s EXCEPT !.pc = pc].val = s.val
           /\ [s EXCEPT !.pc = pc].was = s.was
BY DEF OpenSet

LEMMA WriteNewMaps ==
    ASSUME InSession, NEW t \in Thread, WriteNew(t)
    PROVE  UNCHANGED Store!map \/ Store!End(t)
<1>1. t \in Busy /\ op' = [op EXCEPT ![t] = AfterWrite(op[t])] BY DEF WriteNew, Goes
<1>2. Kept /\ op[t] \in OpenSet BY <1>1, InSessionIs, BusyIs
<1>3. CASE op[t].dest = op[t].cur
  <2>1. AfterWrite(op[t]) = None /\ Gets(file, file', op[t].key, op[t].val) BY <1>1, <1>2, <1>3, WriteNewDoes
  <2>2. \A j \in Key : Lookup(file', j) = IF j = op[t].key THEN op[t].val ELSE Lookup(file, j) BY <2>1 DEF Gets
  <2>3. op' = [op EXCEPT ![t] = None] BY <1>1, <2>1
  <2>4. Store!End(t) BY <1>1, <2>2, <2>3, InSessionIs, ReturnsMaps
  <2> QED BY <2>4
<1>4. CASE op[t].dest # op[t].cur
  <2>1. PICK s : s = AfterWrite(op[t]) OBVIOUS
  <2>2. s = [op[t] EXCEPT !.pc = "link"] /\ SameGets(file, file') /\ Underway(file', s)
    BY <1>1, <1>2, <1>4, <2>1, WriteNewDoes
  <2>3. s # None BY <2>2, NoneAssumption DEF Underway
  <2>4. s.key = op[t].key /\ s.val = op[t].val /\ s.was = op[t].was BY <1>2, <2>2, PcIs
  <2>5. \A j \in Key : j # op[t].key => Lookup(file', j) = Lookup(file, j) BY <2>2 DEF SameGets
  <2>6. op' = [op EXCEPT ![t] = s] BY <1>1, <2>1
  <2>7. UNCHANGED Store!map BY <1>1, <2>3, <2>4, <2>5, <2>6, InSessionIs, GoesOnMaps
  <2> QED BY <2>7
<1> QED BY <1>3, <1>4

LEMMA LinkNewMaps ==
    ASSUME InSession, NEW t \in Thread, LinkNew(t)
    PROVE  UNCHANGED Store!map \/ Store!End(t)
<1>1. t \in Busy /\ op' = [op EXCEPT ![t] = AfterLink(op[t])] BY DEF LinkNew, Goes
<1>2. Kept /\ op[t] \in OpenSet BY <1>1, InSessionIs, BusyIs
<1>3. Gets(file, file', op[t].key, op[t].val) BY <1>1, <1>2, LinkNewDoes
<1>4. \A j \in Key : Lookup(file', j) = IF j = op[t].key THEN op[t].val ELSE Lookup(file, j) BY <1>3 DEF Gets
<1>5. CASE op[t].cur = 0
  <2>1. AfterLink(op[t]) = None BY <1>1, <1>2, <1>5, LinkNewDoes
  <2>2. op' = [op EXCEPT ![t] = None] BY <1>1, <2>1
  <2>3. Store!End(t) BY <1>1, <1>4, <2>2, InSessionIs, ReturnsMaps
  <2> QED BY <2>3
<1>6. CASE op[t].cur # 0
  <2>1. PICK s : s = AfterLink(op[t]) OBVIOUS
  <2>2. s = [op[t] EXCEPT !.pc = "void"] /\ Underway(file', s) BY <1>1, <1>2, <1>6, <2>1, LinkNewDoes
  <2>3. s # None BY <2>2, NoneAssumption DEF Underway
  <2>4. s.key = op[t].key /\ s.val = op[t].val /\ s.was = op[t].was BY <1>2, <2>2, PcIs
  <2>5. \A j \in Key : j # op[t].key => Lookup(file', j) = Lookup(file, j) BY <1>4
  <2>6. op' = [op EXCEPT ![t] = s] BY <1>1, <2>1
  <2>7. UNCHANGED Store!map BY <1>1, <2>3, <2>4, <2>5, <2>6, InSessionIs, GoesOnMaps
  <2> QED BY <2>7
<1> QED BY <1>5, <1>6

LEMMA VoidOldMaps ==
    ASSUME InSession, NEW t \in Thread, VoidOld(t)
    PROVE  UNCHANGED Store!map
<1>1. t \in Busy /\ op' = [op EXCEPT ![t] = [op[t] EXCEPT !.pc = "free"]] BY DEF VoidOld, Goes
<1>2. Kept /\ op[t] \in OpenSet BY <1>1, InSessionIs, BusyIs
<1>3. PICK s : s = [op[t] EXCEPT !.pc = "free"] OBVIOUS
<1>4. SameGets(file, file') /\ Underway(file', s) BY <1>1, <1>2, <1>3, VoidOldDoes
<1>5. s # None BY <1>4, NoneAssumption DEF Underway
<1>6. s.key = op[t].key /\ s.val = op[t].val /\ s.was = op[t].was BY <1>2, <1>3, PcIs
<1>7. \A j \in Key : j # op[t].key => Lookup(file', j) = Lookup(file, j) BY <1>4 DEF SameGets
<1>8. op' = [op EXCEPT ![t] = s] BY <1>1, <1>3
<1> QED BY <1>1, <1>5, <1>6, <1>7, <1>8, InSessionIs, GoesOnMaps

LEMMA FreeOldMaps ==
    ASSUME InSession, NEW t \in Thread, FreeOld(t)
    PROVE  Store!End(t)
<1>1. t \in Busy /\ op[t].pc = "free" /\ op' = [op EXCEPT ![t] = None] /\ file' = file BY DEF FreeOld, Goes
<1>2. Underway(file, op[t]) /\ IsFile(file) /\ Live_Fit(file) /\ AllChained(file) BY <1>1, InSessionIs, BusyIs
<1>3. PICK f, s : f = file /\ s = op[t] OBVIOUS
<1>4. PICK K \in Key : K = s.key BY <1>2, <1>3 DEF Underway, OpenSet
<1>5. Find(f, K).cur = s.dest /\ s.dest # 0 /\ f.recs[s.dest].val = s.val BY <1>1, <1>2, <1>3, <1>4 DEF Underway
<1>6. IsFile(f) /\ Live_Fit(f) /\ AllChained(f) /\ Find(f, K).cur # 0 BY <1>2, <1>3, <1>5
<1>7. Lookup(f, K) = f.recs[Find(f, K).cur].val BY <1>6, FoundRecord
<1>8. \A j \in Key : Lookup(file', j) = IF j = op[t].key THEN op[t].val ELSE Lookup(file, j)
  BY <1>1, <1>3, <1>4, <1>5, <1>7
<1> QED BY <1>1, <1>8, InSessionIs, ReturnsMaps

(* The file that a Get outside of a session is about. *)
Shown(ph, f, t) == IF ph = "down" THEN Opened(f) ELSE IF ph = "rename" THEN t ELSE f

(* No thread is in a Set, before and after. *)
OutOfCalls ==
    /\ Kept /\ op = NoSets /\ op' = NoSets
    /\ content = Visible(phase, file, tmp, op) /\ content' = Visible(phase', file', tmp', op')

LEMMA ShownSame ==
    ASSUME OutOfCalls, \A k \in Key : Lookup(Shown(phase', file', tmp'), k) = Lookup(Shown(phase, file, tmp), k)
    PROVE  content' = content
<1>1. PICK C, D, ph, ph2, f, g, x, y, ops :
        /\ C = content /\ D = content' /\ ph = phase /\ ph2 = phase' /\ f = file /\ g = file'
        /\ x = tmp /\ y = tmp' /\ ops = NoSets
  OBVIOUS
<1>2. C = Visible(ph, f, x, ops) /\ D = Visible(ph2, g, y, ops) BY <1>1 DEF OutOfCalls
<1>3. ASSUME NEW k \in Key PROVE D[k] = C[k]
  <2>1. C[k] = Lookup(Shown(ph, f, x), k) BY <1>1, <1>2, VisibleIdle DEF Shown
  <2>2. D[k] = Lookup(Shown(ph2, g, y), k) BY <1>1, <1>2, VisibleIdle DEF Shown
  <2> QED BY <1>1, <2>1, <2>2
<1>4. C = [i \in Key |-> C[i]] /\ D = [i \in Key |-> D[i]] BY <1>2, VisibleAll
<1> QED BY <1>1, <1>3, <1>4

LEMMA ShownMaps ==
    ASSUME OutOfCalls, \A k \in Key : Lookup(Shown(phase', file', tmp'), k) = Lookup(Shown(phase, file, tmp), k)
    PROVE  UNCHANGED Store!map
<1>1. content' = content BY ShownSame
<1>2. op' = op BY DEF OutOfCalls
<1> QED BY <1>1, <1>2, StutterMaps

(* A file that has only its metadata changed. *)
LEMMA HeaderGets ==
    ASSUME NEW f, NEW e, Settled(f, e), NEW g, NEW meta, NEW synced, NEW saved, Header(f, g, meta, synced, saved)
    PROVE  \A k \in Key : Lookup(g, k) = Lookup(f, k)
<1>1. PICK ops : ops = NoSets OBVIOUS
<1>2. IsFile(f) /\ AllChained(f) BY <1>1 DEF Settled, Orderly
<1>3. IsFile(g) /\ SameRecs(f, g) BY DEF Header
<1> QED BY <1>2, <1>3, SameRecsGets

LEMMA HeaderSettled ==
    ASSUME NEW f, NEW e, Settled(f, e), NEW g, NEW meta, NEW synced, NEW saved, Header(f, g, meta, synced, saved)
    PROVE  Settled(g, e)
<1>1. PICK ops : ops = NoSets OBVIOUS
<1>2. Orderly(Thread, f, e, ops) BY <1>1 DEF Settled
<1>3. Orderly(Thread, g, e, ops) BY <1>2, HeaderKeeps
<1> QED BY <1>1, <1>3 DEF Settled

(* A file without records. *)
LEMMA NewShown ==
    ASSUME NEW meta \in {"absent", "bare", "closed"}, NEW k \in Key
    PROVE  Lookup(NewFile(meta), k) = None /\ Lookup(Opened(NewFile(meta)), k) = None
<1>1. PICK f : f = NewFile(meta) OBVIOUS
<1>2. f.meta = meta BY <1>1 DEF NewFile
<1>3. Opened(f) = f BY <1>1, <1>2 DEF Opened, Shortcut
<1>4. Lookup(f, k) = None BY <1>1, NewFileIs
<1> QED BY <1>1, <1>3, <1>4

LEMMA CreateMaps ==
    ASSUME OutOfCalls, CreateFile \/ CreateMetadata
    PROVE  UNCHANGED Store!map
<1>1. CASE CreateFile
  <2>1. phase = "down" /\ file.meta = "absent" /\ file' = NewFile("bare") /\ phase' = "create"
    BY <1>1 DEF CreateFile, To
  <2>2. file = NewFile("absent") BY <2>1 DEF OutOfCalls, Kept, PhaseInv
  <2>3. \A k \in Key : Lookup(Shown(phase, file, tmp), k) = None BY <2>1, <2>2, NewShown DEF Shown
  <2>4. \A k \in Key : Lookup(Shown(phase', file', tmp'), k) = None BY <2>1, NewShown DEF Shown
  <2> QED BY <2>3, <2>4, ShownMaps
<1>2. CASE CreateMetadata
  <2>1. phase = "create" /\ file' = NewFile("closed") /\ phase' = "mark" BY <1>2 DEF CreateMetadata, To
  <2>2. file = NewFile("bare") BY <2>1 DEF OutOfCalls, Kept, PhaseInv
  <2>3. \A k \in Key : Lookup(Shown(phase, file, tmp), k) = None BY <2>1, <2>2, NewShown DEF Shown
  <2>4. \A k \in Key : Lookup(Shown(phase', file', tmp'), k) = None BY <2>1, NewShown DEF Shown
  <2> QED BY <2>3, <2>4, ShownMaps
<1> QED BY <1>1, <1>2

LEMMA OpenMaps ==
    ASSUME OutOfCalls, OpenClosed \/ MarkOpen \/ LoadPool \/ OpenSound \/ Restore \/ Rename
    PROVE  UNCHANGED Store!map
<1>1. CASE OpenClosed
  <2>1. phase = "down" /\ file.meta = "closed" /\ file' = file /\ phase' = "mark" BY <1>1 DEF OpenClosed, To
  <2>2. Shown(phase, file, tmp) = file /\ Shown(phase', file', tmp') = file BY <2>1 DEF Shown, Opened
  <2> QED BY <2>2, ShownMaps
<1>2. CASE MarkOpen
  <2>1. phase = "mark" /\ file' = [file EXCEPT !.meta = "open"] /\ phase' = "load" BY <1>2 DEF MarkOpen, To
  <2>2. Settled(file, file.synced) /\ IsFile(file) BY <2>1 DEF OutOfCalls, Kept, PhaseInv, Image
  <2>3. PICK meta \in {"absent", "bare", "closed", "open", "torn"} : meta = "open" OBVIOUS
  <2>4. Header(file, file', meta, file.synced, file.saved) BY <2>1, <2>2, <2>3, HeaderMeta
  <2>5. \A k \in Key : Lookup(file', k) = Lookup(file, k) BY <2>2, <2>4, HeaderGets
  <2>6. Shown(phase, file, tmp) = file /\ Shown(phase', file', tmp') = file' BY <2>1 DEF Shown
  <2> QED BY <2>5, <2>6, ShownMaps
<1>3. CASE LoadPool
  <2>1. phase = "load" /\ file' = file /\ phase' = "open" BY <1>3 DEF LoadPool, To
  <2>2. Shown(phase, file, tmp) = file /\ Shown(phase', file', tmp') = file BY <2>1 DEF Shown
  <2> QED BY <2>2, ShownMaps
<1>4. CASE OpenSound
  <2>1. phase = "down" /\ Shortcut(file) /\ file' = file /\ phase' = "open" BY <1>4 DEF OpenSound, To
  <2>2. Shown(phase, file, tmp) = file /\ Shown(phase', file', tmp') = file BY <2>1 DEF Shown, Opened
  <2> QED BY <2>2, ShownMaps
<1>5. CASE Restore
  <2>1. /\ phase = "down" /\ file.meta \in {"open", "torn"} /\ ~Shortcut(file)
        /\ tmp' = RestoreDatabase(file) /\ phase' = "rename"
    BY <1>5 DEF Restore, To
  <2>2. Shown(phase, file, tmp) = RestoreDatabase(file) /\ Shown(phase', file', tmp') = RestoreDatabase(file)
    BY <2>1 DEF Shown, Opened
  <2> QED BY <2>2, ShownMaps
<1>6. CASE Rename
  <2>1. phase = "rename" /\ file' = tmp /\ phase' = "mark" BY <1>6 DEF Rename, To
  <2>2. Shown(phase, file, tmp) = tmp /\ Shown(phase', file', tmp') = tmp BY <2>1 DEF Shown
  <2> QED BY <2>2, ShownMaps
<1> QED BY <1>1, <1>2, <1>3, <1>4, <1>5, <1>6

LEMMA CloseMaps ==
    ASSUME OutOfCalls, CloseMetadata \/ ClosePool
    PROVE  UNCHANGED Store!map
<1>1. CASE CloseMetadata
  <2>1. phase = "open" /\ file' = [file EXCEPT !.meta = "closed", !.synced = end] /\ phase' = "save"
    BY <1>1 DEF CloseMetadata, To
  <2>2. Orderly(Thread, file, end, op) /\ op = NoSets BY <2>1 DEF OutOfCalls, Kept, PhaseInv
  <2>3. Settled(file, end) BY <2>2 DEF Settled
  <2>4. IsFile(file) /\ end \in Base .. MaxSize + 1 BY <2>2 DEF Orderly, Tiled
  <2>5. PICK meta \in {"absent", "bare", "closed", "open", "torn"} : meta = "closed" OBVIOUS
  <2>6. PICK saved \in SUBSET Block : TRUE OBVIOUS
  <2>7. Header(file, file', meta, end, file.saved) BY <2>1, <2>4, <2>5, HeaderIs
  <2>8. \A k \in Key : Lookup(file', k) = Lookup(file, k) BY <2>3, <2>7, HeaderGets
  <2>9. Shown(phase, file, tmp) = file /\ Shown(phase', file', tmp') = file' BY <2>1 DEF Shown
  <2> QED BY <2>8, <2>9, ShownMaps
<1>2. CASE ClosePool
  <2>1. phase = "save" /\ file' = [file EXCEPT !.saved = pool] /\ phase' = "down" BY <1>2 DEF ClosePool, To
  <2>2. /\ file.meta = "closed" /\ Settled(file, end) /\ IsFile(file) /\ pool \in SUBSET Block
    BY <2>1 DEF OutOfCalls, Kept, PhaseInv, Image
  <2>3. PICK meta \in {"absent", "bare", "closed", "open", "torn"} : meta = "closed" OBVIOUS
  <2>4. PICK synced \in Base .. MaxSize + 1 : TRUE BY DatabaseAssumption DEF Base
  <2>5. Header(file, file', file.meta, file.synced, pool) BY <2>1, <2>2, <2>3, <2>4, HeaderIs
  <2>6. \A k \in Key : Lookup(file', k) = Lookup(file, k) BY <2>2, <2>5, HeaderGets
  <2>7. file'.meta = "closed" BY <2>2, <2>5 DEF Header
  <2>8. Shown(phase, file, tmp) = file /\ Shown(phase', file', tmp') = file' BY <2>1, <2>7 DEF Shown, Opened
  <2> QED BY <2>6, <2>8, ShownMaps
<1> QED BY <1>1, <1>2

(* A process that is killed outside of a call loses nothing. *)
LEMMA KilledIdle ==
    ASSUME OutOfCalls, Crash
    PROVE  content' = content
<1>1. phase # "down" /\ phase' = "down" BY DEF Crash, To
<1>2. Kept /\ op = NoSets BY DEF OutOfCalls
<1>3. PICK torn, meta : CrashOf(torn, meta) BY <1>2, CrashIs
<1>4. Header(file, file', meta, file.synced, file.saved) BY <1>2, <1>3, CrashQuiet
<1>5. /\ meta = file.meta \/ (meta = "torn" /\ phase \in {"create", "mark", "open"})
  BY <1>3 DEF CrashOf
<1>6. file'.meta = meta BY <1>4 DEF Header
<1>7. phase \in {"create", "mark", "load", "rename", "open", "save"} BY <1>1, <1>2 DEF Kept
<1>8. ASSUME NEW e, Settled(file, e), phase # "rename", meta \in {"closed", "open", "torn"}
      PROVE  \A k \in Key : Lookup(Shown(phase', file', tmp'), k) = Lookup(Shown(phase, file, tmp), k)
  <2>1. PICK g : g = file' OBVIOUS
  <2>2. Settled(g, e) /\ \A k \in Key : Lookup(g, k) = Lookup(file, k) BY <1>4, <1>8, <2>1, HeaderSettled, HeaderGets
  <2>3. g.meta \in {"closed", "open", "torn"} BY <1>6, <1>8, <2>1
  <2>4. \A k \in Key : Lookup(Opened(g), k) = Lookup(g, k) BY <2>2, <2>3, SettledOpened
  <2>5. Shown(phase, file, tmp) = file /\ Shown(phase', file', tmp') = Opened(g) BY <1>1, <1>8, <2>1 DEF Shown
  <2> QED BY <2>2, <2>4, <2>5
<1>9. CASE phase = "create"
  <2>1. file = NewFile("bare") BY <1>2, <1>9 DEF Kept, PhaseInv
  <2>2. file.meta = "bare" BY <2>1 DEF NewFile
  <2>3. CASE meta = "torn"
    <3>1. PICK ops : ops = NoSets OBVIOUS
    <3>2. \A t \in Thread : ops[t] = None BY <3>1 DEF NoSets
    <3>3. PICK m \in {"absent", "bare", "closed", "open", "torn"} : m = "bare" OBVIOUS
    <3>4. Orderly(Thread, NewFile(m), Base, ops) BY <3>2, OrderlyNew
    <3>5. Settled(file, Base) BY <2>1, <3>1, <3>3, <3>4 DEF Settled
    <3>6. \A k \in Key : Lookup(Shown(phase', file', tmp'), k) = Lookup(Shown(phase, file, tmp), k)
      BY <1>8, <1>9, <2>3, <3>5
    <3> QED BY <3>6, ShownSame
  <2>4. CASE meta = file.meta
    <3>1. IsFile(file) BY <1>2 DEF Kept, Image
    <3>2. file' = NewFile("bare") BY <1>4, <2>1, <2>4, <3>1, HeaderSame
    <3>3. \A k \in Key : Lookup(Shown(phase, file, tmp), k) = None BY <1>9, <2>1, NewShown DEF Shown
    <3>4. \A k \in Key : Lookup(Shown(phase', file', tmp'), k) = None BY <1>1, <3>2, NewShown DEF Shown
    <3> QED BY <3>3, <3>4, ShownSame
  <2> QED BY <1>5, <2>3, <2>4
<1>10. CASE phase = "rename"
  <2>1. file.meta \in {"open", "torn"} /\ ~Shortcut(file) /\ tmp = RestoreDatabase(file)
    BY <1>2, <1>10 DEF Kept, PhaseInv
  <2>2. IsFile(file) BY <1>2 DEF Kept, Image
  <2>3. meta = file.meta BY <1>5, <1>10
  <2>4. file' = file BY <1>4, <2>2, <2>3, HeaderSame
  <2>5. Shown(phase, file, tmp) = tmp /\ Shown(phase', file', tmp') = tmp BY <1>1, <1>10, <2>1, <2>4 DEF Shown, Opened
  <2> QED BY <2>5, ShownSame
<1>11. CASE phase \in {"mark", "load", "open", "save"}
  <2>1. file.meta \in {"closed", "open"} /\ \E e : Settled(file, e)
    <3>1. CASE phase = "open"
      <4>1. file.meta = "open" /\ Orderly(Thread, file, end, op) BY <1>2, <3>1 DEF Kept, PhaseInv
      <4>2. Settled(file, end) BY <1>2, <4>1 DEF Settled
      <4> QED BY <4>1, <4>2
    <3>2. CASE phase # "open" BY <1>2, <1>11, <3>2 DEF Kept, PhaseInv
    <3> QED BY <3>1, <3>2
  <2>2. PICK e : Settled(file, e) BY <2>1
  <2>3. meta \in {"closed", "open", "torn"} BY <1>5, <2>1
  <2>4. \A k \in Key : Lookup(Shown(phase', file', tmp'), k) = Lookup(Shown(phase, file, tmp), k)
    BY <1>8, <1>11, <2>2, <2>3
  <2> QED BY <2>4, ShownSame
<1> QED BY <1>7, <1>9, <1>10, <1>11

(* One that is killed in a call may lose keys, and each other key has its    *)
(* value from before or the one that was being set.                         *)
LEMMA KilledInCall ==
    ASSUME Kept, op # NoSets, Crash, NEW k \in Key,
           content = Visible(phase, file, tmp, op), content' = Visible(phase', file', tmp', op')
    PROVE  \/ content'[k] = content[k]
           \/ \E u \in Thread : op[u] # None /\ op[u].key = k /\ op[u].val = content'[k]
           \/ content'[k] = None
<1>1. phase = "open" BY DEF Kept
<1>2. Orderly(Thread, file, end, op) /\ file.meta = "open" BY <1>1 DEF Kept, PhaseInv
<1>3. phase' = "down" /\ op' = NoSets BY CrashIs
<1>4. PICK torn, meta : CrashOf(torn, meta) BY CrashIs
<1>5. PICK f, g, e, ops, x, y, C, D, none :
        /\ f = file /\ g = file' /\ e = end /\ ops = op /\ x = tmp /\ y = tmp' /\ C = content /\ D = content'
        /\ none = NoSets
  OBVIOUS
<1>6. PICK O : O = CutAt(ops, torn) OBVIOUS
<1>7. /\ Tearing(Thread, ops, torn) /\ g = Crashed(f, ops, torn, meta) /\ Orderly(Thread, f, e, ops)
      /\ meta \in {"absent", "bare", "closed", "open", "torn"}
  BY <1>2, <1>4, <1>5 DEF CrashOf
<1>8. Image(g) /\ g.meta = meta /\ TornAt(Thread, f, ops, O, g) BY ONLY <1>6, <1>7, CrashedIs
<1>9. g.meta \in {"open", "torn"} BY <1>2, <1>4, <1>8 DEF CrashOf
<1>10. C = Visible("open", f, x, ops) /\ D = Visible("down", g, y, none) BY <1>1, <1>3, <1>5
<1>11. D[k] = Lookup(Opened(g), k) BY <1>5, <1>10, VisibleIdle
<1>12. PICK v : v = Lookup(Opened(g), k) OBVIOUS
<1> SUFFICES ASSUME v # None
             PROVE  v = C[k] \/ \E u \in Thread : ops[u] # None /\ ops[u].key = k /\ ops[u].val = v
  BY <1>5, <1>11, <1>12
<1>13. PICK o \in DOMAIN g.recs : Sets(g, o, k) /\ v = g.recs[o].val BY <1>8, <1>9, <1>12, OpenedIs
<1>14. o \in DOMAIN f.recs /\ g.recs[o] = f.recs[o] BY <1>8, <1>13 DEF TornAt, Sets
<1>15. Live(f, o) /\ f.recs[o].key = k /\ f.recs[o].val = v BY <1>13, <1>14 DEF Live, Sets
<1>16. ASSUME NEW u \in Thread, ops[u] # None PROVE Underway(f, ops[u]) BY <1>7, <1>16 DEF Orderly
<1>17. IsFile(f) /\ Live_Fit(f) /\ AllChained(f) BY <1>7 DEF Orderly
<1>18. CASE Lookup(f, k) = v
  <2>1. CASE \A u \in Thread : ops[u] # None => ops[u].key # k
    <3>1. C[k] = Lookup(f, k) BY <1>7, <1>10, <2>1, VisibleIs
    <3> QED BY <1>18, <3>1
  <2>2. CASE \E u \in Thread : ops[u] # None /\ ops[u].key = k
    <3>1. PICK u \in Thread : ops[u] # None /\ ops[u].key = k BY <2>2
    <3>2. PICK s : s = ops[u] OBVIOUS
    <3>3. Underway(f, s) /\ s.key = k BY <1>16, <3>1, <3>2
    <3>4. C[k] = s.was BY <1>7, <1>10, <3>1, <3>2, VisibleIs
    <3>5. CASE s.pc \in {"place", "write", "link"}
      <4>1. s.was = Lookup(f, k) BY <3>3, <3>5 DEF Underway
      <4> QED BY <1>18, <3>4, <4>1
    <3>6. CASE s.pc \in {"void", "free"}
      <4>1. Find(f, k).cur = s.dest /\ s.dest # 0 /\ f.recs[s.dest].val = s.val BY <3>3, <3>6 DEF Underway
      <4>2. Find(f, k).cur # 0 BY <4>1
      <4>3. Lookup(f, k) = f.recs[Find(f, k).cur].val BY <1>17, <4>2, FoundRecord
      <4>4. s.val = v BY <1>18, <4>1, <4>3
      <4> QED BY <3>1, <3>2, <4>4
    <3>7. s.pc \in {"place", "write", "link", "void", "free"} BY <3>3 DEF Underway, OpenSet
    <3> QED BY <3>5, <3>6, <3>7
  <2> QED BY <2>1, <2>2
<1>19. ASSUME NEW u \in Thread, ops[u] # None, ops[u].key = k,
              \/ ops[u].pc = "link" /\ o = ops[u].dest
              \/ ops[u].pc = "void" /\ o = ops[u].cur
       PROVE  v = C[k] \/ \E w \in Thread : ops[w] # None /\ ops[w].key = k /\ ops[w].val = v
  <2>1. PICK s : s = ops[u] OBVIOUS
  <2>2. Underway(f, s) BY <1>16, <1>19, <2>1
  <2>3. CASE s.pc = "link" /\ o = s.dest
    <3>1. f.recs[o] = [size |-> s.size, type |-> "live", key |-> s.key, val |-> s.val, child |-> s.child]
      BY <2>2, <2>3 DEF Underway
    <3>2. s.val = v BY <1>15, <3>1
    <3> QED BY <1>19, <2>1, <3>2
  <2>4. CASE s.pc = "void" /\ o = s.cur
    <3>1. f.recs[o].val = s.was BY <2>2, <2>4 DEF Underway
    <3>2. C[k] = s.was BY <1>7, <1>10, <1>19, <2>1, VisibleIs
    <3> QED BY <1>15, <3>1, <3>2
  <2> QED BY <1>19, <2>1, <2>3, <2>4
<1> QED BY <1>7, <1>15, <1>18, <1>19, SettledGet

LEMMA CrashMaps ==
    ASSUME Kept, Kept', Crash, content = Visible(phase, file, tmp, op), content' = Visible(phase', file', tmp', op')
    PROVE  Store!Kill
<1>1. op' = NoSets BY CrashIs
<1>2. op \in [Thread -> OpenSet \union {None}] BY DEF Kept
<1>3. CASE op = NoSets
  <2>1. OutOfCalls BY <1>1, <1>3 DEF OutOfCalls
  <2>2. content' = content BY <2>1, KilledIdle
  <2> QED BY <1>1, <1>2, <2>2, KillMaps
<1>4. CASE op # NoSets
  <2>1. \A k \in Key : \/ content'[k] = content[k]
                       \/ \E u \in Thread : op[u] # None /\ op[u].key = k /\ op[u].val = content'[k]
                       \/ content'[k] = None
    BY <1>4, KilledInCall
  <2> QED BY <1>1, <1>2, <1>4, <2>1, KillMaps
<1> QED BY <1>3, <1>4

LEMMA InitMaps ==
    ASSUME Init
    PROVE  Store!Init
<1>1. /\ file = NewFile("absent") /\ phase = "down" /\ op = NoSets /\ content = Visible(phase, file, tmp, op)
  BY DEF Init, NoSets
<1>2. PICK f, x, ops, C : f = NewFile("absent") /\ x = tmp /\ ops = NoSets /\ C = content OBVIOUS
<1>3. C = Visible("down", f, x, ops) BY <1>1, <1>2
<1>4. ASSUME NEW k \in Key PROVE C[k] = None
  <2>1. C[k] = Lookup(Opened(f), k) BY <1>2, <1>3, VisibleIdle
  <2> QED BY <1>2, <2>1, NewShown
<1>5. C = [k \in Key |-> C[k]] BY <1>3, VisibleAll
<1>6. content = [k \in Key |-> None] BY <1>2, <1>4, <1>5
<1>7. \A t \in Thread : op[t] = None BY <1>1 DEF NoSets
<1>8. broken = FALSE BY DEF Init
<1> QED BY <1>6, <1>7, <1>8 DEF Store!Init

LEMMA StepMaps ==
    ASSUME Kept, content = Visible(phase, file, tmp, op), [Next]_vars, ~broken'
    PROVE  [Store!Works]_(Store!map)
<1>1. Kept /\ Kept' /\ content = Visible(phase, file, tmp, op) BY KeptStep
<1>2. CASE UNCHANGED vars
  <2>1. content' = content /\ op' = op BY <1>2 DEF vars
  <2>2. UNCHANGED Store!map BY <2>1, StutterMaps
  <2> QED BY <2>2
<1> SUFFICES ASSUME Step, content' = Visible(phase', file', tmp', op') PROVE [Store!Works]_(Store!map)
  BY <1>2 DEF Next
<1>3. phase = "open" /\ phase' = "open" => InSession BY <1>1 DEF InSession
<1>4. op = NoSets /\ op' = NoSets => OutOfCalls BY <1>1 DEF OutOfCalls
<1>5. (phase # "open" => op = NoSets) /\ (phase' # "open" => op' = NoSets) BY <1>1 DEF Kept
<1>6. CASE CreateFile \/ CreateMetadata
  <2>1. phase # "open" /\ op' = op BY <1>6 DEF CreateFile, CreateMetadata
  <2>2. UNCHANGED Store!map BY <1>4, <1>5, <1>6, <2>1, CreateMaps
  <2> QED BY <2>2
<1>7. CASE OpenClosed \/ MarkOpen \/ LoadPool \/ OpenSound \/ Restore \/ Rename
  <2>1. phase # "open" /\ op' = op BY <1>7 DEF OpenClosed, MarkOpen, LoadPool, OpenSound, Restore, Rename
  <2>2. UNCHANGED Store!map BY <1>4, <1>5, <1>7, <2>1, OpenMaps
  <2> QED BY <2>2
<1>8. CASE CloseMetadata \/ ClosePool
  <2>1. op = NoSets /\ op' = NoSets
    <3>1. op' = op BY <1>8 DEF CloseMetadata, ClosePool
    <3>2. phase # "open" \/ Busy = {} BY <1>8 DEF CloseMetadata, ClosePool
    <3> QED BY <1>1, <3>1, <3>2, QuietIs
  <2>2. UNCHANGED Store!map BY <1>4, <1>8, <2>1, CloseMaps
  <2> QED BY <2>2
<1>9. ASSUME NEW t \in Thread, NEW k \in Key, NEW v \in Value, BeginSet(t, k, v)
      PROVE  Store!Works
  <2>1. phase = "open" /\ phase' = "open" BY <1>9 DEF BeginSet, Goes
  <2>2. Store!Begin(t, k, v) BY <1>3, <1>9, <2>1, BeginSetMaps
  <2> QED BY <2>2 DEF Store!Works
<1>10. ASSUME NEW t \in Thread, PlaceRecord(t) \/ WriteNew(t) \/ LinkNew(t) \/ VoidOld(t) \/ FreeOld(t)
       PROVE  [Store!Works]_(Store!map)
  <2>1. phase = "open" /\ phase' = "open"
    <3>1. t \in Busy /\ phase' = phase
      BY <1>10 DEF PlaceRecord, WriteNew, LinkNew, VoidOld, FreeOld, Goes
    <3> QED BY <1>1, <3>1, BusyIs
  <2>2. InSession BY <1>3, <2>1
  <2>3. UNCHANGED Store!map \/ Store!End(t)
    <3>1. CASE PlaceRecord(t) BY <2>2, <3>1, PlaceRecordMaps
    <3>2. CASE WriteNew(t) BY <2>2, <3>2, WriteNewMaps
    <3>3. CASE LinkNew(t) BY <2>2, <3>3, LinkNewMaps
    <3>4. CASE VoidOld(t) BY <2>2, <3>4, VoidOldMaps
    <3>5. CASE FreeOld(t) BY <2>2, <3>5, FreeOldMaps
    <3> QED BY <1>10, <3>1, <3>2, <3>3, <3>4, <3>5
  <2> QED BY <2>3 DEF Store!Works
<1>11. CASE Crash
  <2>1. Store!Kill BY <1>1, <1>11, CrashMaps
  <2> QED BY <2>1 DEF Store!Works
<1> QED BY <1>6, <1>7, <1>8, <1>9, <1>10, <1>11 DEF Step, Open

(* A Set begins with a stale pool: the promise ends. *)
LEMMA BreakMaps ==
    ASSUME Kept, NEW t \in Thread, NEW k \in Key, NEW v \in Value, BeginSet(t, k, v)
    PROVE  Store!Break
<1>1. phase = "open" /\ op[t] = None /\ op' = [op EXCEPT ![t] = Started(file, k, v)] BY DEF BeginSet, Goes
<1>2. IsFile(file) /\ Live_Fit(file) /\ AllChained(file) /\ DOMAIN op = Thread
  BY <1>1 DEF Kept, PhaseInv, Orderly
<1>3. PICK ops, ops2 : ops = op /\ ops2 = op' OBVIOUS
<1>4. Underway(file, Started(file, k, v)) BY <1>2, StartedIs
<1>5. ops2[t] \in OpenSet BY <1>1, <1>2, <1>3, <1>4 DEF Underway
<1>6. Pend(ops2)[t] # None BY <1>5, PendIs
<1>7. Pend(ops)[t] = None BY <1>1, <1>3 DEF Pend
<1> QED BY <1>3, <1>6, <1>7 DEF Pend, Store!Break

LEMMA StepRefines ==
    ASSUME IInv, [Next]_vars
    PROVE  [Store!Next]_(Store!vars)
<1>1. broken \in BOOLEAN /\ broken' \in BOOLEAN /\ (broken => broken') BY DEF IInv, Next, vars
<1>2. CASE broken BY <1>1, <1>2 DEF Store!Next
<1>3. CASE ~broken'
  <2>1. [Store!Works]_(Store!map) BY <1>1, <1>3, StepMaps DEF IInv
  <2>2. broken' = broken BY <1>1, <1>3
  <2>3. CASE Store!Works BY <1>1, <1>3, <2>3 DEF Store!Next
  <2>4. CASE UNCHANGED Store!map BY <2>2, <2>4 DEF Store!map, Store!vars
  <2> QED BY <2>1, <2>3, <2>4
<1>4. CASE ~broken /\ broken'
  <2>1. Begins /\ Kept BY <1>4 DEF IInv, Next, vars
  <2>2. Store!Break BY <2>1, BreakMaps DEF Begins
  <2> QED BY <1>4, <2>2 DEF Store!Next
<1> QED BY <1>1, <1>2, <1>3, <1>4

(* The file with its chains, its pool and its restoration is a map that      *)
(* survives the process, as RegionStore has it: opening, validating,         *)
(* restoring, closing and being killed meanwhile change no key, a Set that   *)
(* returns is there, and a kill within a Set loses at most what the promise  *)
(* allows, without an older value ever coming back.  The promise ends with   *)
(* the first Set that begins while the pool has a block that is in use, and  *)
(* PoolAlwaysFree says when that can be.                                    *)
THEOREM DatabaseIsDurable == Spec => Durable
<1>1. Init => Store!Init BY InitMaps
<1>2. IInv /\ [Next]_vars => [Store!Next]_(Store!vars) BY StepRefines
<1> QED BY <1>1, <1>2, KeptAlways, PTL DEF Spec, Durable, Store!Spec
=============================================================================
