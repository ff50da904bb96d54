------------------------- MODULE CommandServerProofs ------------------------
(* That every command is run once and in order, or dropped with its object,  *)
(* and that the counters of the queues agree with them, for any number of    *)
(* writers, objects and commands and any size of the slices.                 *)
EXTENDS CommandServer, SequenceTheorems, FiniteSetTheorems, TLAPS

-----------------------------------------------------------------------------
(* Lists of commands. *)

(* The positions of a list and the set of its commands. *)
LEMMA ListOfCommands ==
    ASSUME NEW s \in Seq(Command)
    PROVE  /\ Len(s) \in Nat /\ DOMAIN s = 1 .. Len(s)
           /\ ToSet(s) = {s[i] : i \in 1 .. Len(s)}
           /\ \A i \in 1 .. Len(s) : s[i] \in Command /\ s[i] \in ToSet(s)
           /\ ToSet(s) \subseteq Command
           /\ s # <<>> <=> Len(s) > 0
<1>1. Len(s) \in Nat /\ DOMAIN s = 1 .. Len(s) BY LenProperties
<1>2. \A i \in 1 .. Len(s) : s[i] \in Command BY ElementOfSeq
<1>3. s # <<>> <=> Len(s) > 0 BY <1>1, EmptySeq
<1> QED BY <1>1, <1>2, <1>3 DEF ToSet

(* An empty buffer has no commands. *)
LEMMA NoCommands ==
    /\ ToSet(<<>>) = {} /\ Ordered(<<>>) /\ Len(<<>>) = 0 /\ <<>> \in Seq(Command)
    /\ <<>> \in Seq(Entry) /\ CommandsIn(<<>>) = {} /\ InSequence(<<>>)
<1>1. Len(<<>>) = 0 /\ <<>> \in Seq(Command) /\ <<>> \in Seq(Entry) /\ DOMAIN <<>> = {}
  BY EmptySeq
<1> QED BY <1>1 DEF ToSet, Ordered, CommandsIn, InSequence

(* One command more at the end. *)
LEMMA OneMore ==
    ASSUME NEW s \in Seq(Command), NEW c \in Command
    PROVE  /\ Append(s, c) \in Seq(Command)
           /\ ToSet(Append(s, c)) = ToSet(s) \union {c}
           /\ Len(Append(s, c)) = Len(s) + 1
           /\ Ordered(s) /\ Before(ToSet(s), {c}) => Ordered(Append(s, c))
<1> DEFINE t == Append(s, c)
           n == Len(s)
<1>1. /\ t \in Seq(Command) /\ Len(t) = n + 1 /\ n \in Nat
      /\ \A i \in 1 .. n : t[i] = s[i]
      /\ t[n + 1] = c
  BY AppendProperties, LenProperties
<1>2. /\ DOMAIN s = 1 .. n /\ DOMAIN t = 1 .. n + 1 BY <1>1, LenProperties
<1>3. \A i \in 1 .. n + 1 : i \in 1 .. n \/ i = n + 1 BY <1>1
<1>4. (\A i \in 1 .. n : i \in 1 .. n + 1) /\ n + 1 \in 1 .. n + 1 BY <1>1
<1> HIDE DEF t, n
<1>5. ToSet(t) = ToSet(s) \union {c}
  <2>1. ASSUME NEW i \in DOMAIN t PROVE t[i] \in ToSet(s) \union {c}
    <3>1. CASE i \in 1 .. n BY <3>1, <1>1, <1>2 DEF ToSet
    <3>2. CASE i = n + 1 BY <3>2, <1>1
    <3> QED BY <3>1, <3>2, <1>2, <1>3
  <2>2. ASSUME NEW i \in DOMAIN s PROVE s[i] \in ToSet(t)
    <3>1. i \in DOMAIN t /\ t[i] = s[i] BY <1>1, <1>2, <1>4
    <3> QED BY <3>1 DEF ToSet
  <2>3. c \in ToSet(t)
    <3>1. n + 1 \in DOMAIN t /\ t[n + 1] = c BY <1>1, <1>2, <1>4
    <3> QED BY <3>1 DEF ToSet
  <2> QED BY <2>1, <2>2, <2>3 DEF ToSet
<1>6. ASSUME Ordered(s), Before(ToSet(s), {c}) PROVE Ordered(t)
  <2>1. SUFFICES ASSUME NEW i \in 1 .. n + 1, NEW j \in 1 .. n + 1, i < j, t[i].writer = t[j].writer
        PROVE  t[i].number < t[j].number
    BY <1>2 DEF Ordered
  <2>2. i \in 1 .. n BY <2>1, <1>1
  <2>3. t[i] = s[i] /\ s[i] \in ToSet(s) BY <2>2, <1>1, <1>2 DEF ToSet
  <2>4. CASE j \in 1 .. n
    <3>1. t[j] = s[j] BY <2>4, <1>1
    <3> QED BY <2>1, <2>2, <2>3, <2>4, <3>1, <1>2, <1>6 DEF Ordered
  <2>5. CASE j = n + 1
    <3>1. t[j] = c BY <2>5, <1>1
    <3> QED BY <2>1, <2>3, <3>1, <1>6 DEF Before
  <2> QED BY <2>4, <2>5, <1>3
<1> QED BY <1>1, <1>5, <1>6 DEF t, n

(* The first command is gone. *)
LEMMA OneLess ==
    ASSUME NEW s \in Seq(Command), s # <<>>
    PROVE  /\ Head(s) \in Command /\ Head(s) \in ToSet(s) /\ Tail(s) \in Seq(Command)
           /\ ToSet(s) = {Head(s)} \union ToSet(Tail(s))
           /\ Len(Tail(s)) = Len(s) - 1
           /\ Ordered(s) => Ordered(Tail(s)) /\ Before({Head(s)}, ToSet(Tail(s)))
<1> DEFINE t == Tail(s)
           n == Len(s) - 1
<1>1. /\ Head(s) \in Command /\ t \in Seq(Command) /\ Len(t) = Len(s) - 1
      /\ \A i \in 1 .. Len(t) : t[i] = s[i + 1]
  BY HeadTailProperties
<1>2. Len(s) = n + 1 /\ n \in Nat /\ Len(t) = n /\ Head(s) = s[1]
  BY <1>1, ListOfCommands
<1>3. /\ DOMAIN s = 1 .. n + 1 /\ DOMAIN t = 1 .. n BY <1>1, <1>2, LenProperties
<1>4. \A i \in 1 .. n : t[i] = s[i + 1] /\ i + 1 \in 1 .. n + 1 BY <1>1, <1>2
<1>5. \A i \in 1 .. n + 1 : i = 1 \/ \E k \in 1 .. n : i = k + 1
  <2>1. ASSUME NEW i \in 1 .. n + 1, i # 1 PROVE i - 1 \in 1 .. n /\ i = (i - 1) + 1
    BY <2>1, <1>2
  <2> QED BY <2>1
<1>6. 1 \in 1 .. n + 1 BY <1>2
<1> HIDE DEF t, n
<1>7. ToSet(s) = {Head(s)} \union ToSet(t)
  <2>1. ASSUME NEW i \in DOMAIN s PROVE s[i] \in {Head(s)} \union ToSet(t)
    <3>1. CASE i = 1 BY <3>1, <1>2
    <3>2. CASE \E k \in 1 .. n : i = k + 1
      <4>1. PICK k \in 1 .. n : i = k + 1 BY <3>2
      <4>2. s[i] = t[k] /\ k \in DOMAIN t BY <4>1, <1>3, <1>4
      <4> QED BY <4>2 DEF ToSet
    <3> QED BY <3>1, <3>2, <1>3, <1>5
  <2>2. Head(s) \in ToSet(s) BY <1>2, <1>3, <1>6 DEF ToSet
  <2>3. ASSUME NEW i \in DOMAIN t PROVE t[i] \in ToSet(s)
    <3>1. t[i] = s[i + 1] /\ i + 1 \in DOMAIN s BY <1>3, <1>4
    <3> QED BY <3>1 DEF ToSet
  <2> QED BY <2>1, <2>2, <2>3 DEF ToSet
<1>8. ASSUME Ordered(s) PROVE Ordered(t) /\ Before({Head(s)}, ToSet(t))
  <2>1. \A i \in 1 .. n + 1 : \A j \in 1 .. n + 1 :
          i < j /\ s[i].writer = s[j].writer => s[i].number < s[j].number
    BY <1>3, <1>8 DEF Ordered
  <2>2. Ordered(t)
    <3>1. SUFFICES ASSUME NEW i \in 1 .. n, NEW j \in 1 .. n, i < j, t[i].writer = t[j].writer
          PROVE  t[i].number < t[j].number
      BY <1>3 DEF Ordered
    <3>2. PICK k \in 1 .. n + 1 : k = i + 1 /\ t[i] = s[k] BY <1>4
    <3>3. PICK l \in 1 .. n + 1 : l = j + 1 /\ t[j] = s[l] BY <1>4
    <3>4. k < l BY <3>1, <3>2, <3>3, <1>2
    <3> QED BY <3>1, <3>2, <3>3, <3>4, <2>1
  <2>3. Before({Head(s)}, ToSet(t))
    <3>1. SUFFICES ASSUME NEW i \in 1 .. n, Head(s).writer = t[i].writer
          PROVE  Head(s).number < t[i].number
      BY <1>3 DEF Before, ToSet
    <3>2. PICK k \in 1 .. n + 1 : k = i + 1 /\ t[i] = s[k] BY <1>4
    <3>3. 1 < k BY <3>2, <1>2
    <3> QED BY <3>1, <3>2, <3>3, <1>2, <1>6, <2>1
  <2> QED BY <2>2, <2>3
<1>9. Head(s) \in ToSet(s) BY <1>7
<1> QED BY <1>1, <1>7, <1>8, <1>9 DEF t

(* A list in order has as many commands as positions. *)
LEMMA CountedOnce ==
    ASSUME NEW s \in Seq(Command), Ordered(s)
    PROVE  IsFiniteSet(ToSet(s)) /\ Cardinality(ToSet(s)) = Len(s)
<1> DEFINE n == Len(s)
<1>1. n \in Nat /\ DOMAIN s = 1 .. n /\ s \in [1 .. n -> Command] BY LenProperties
<1>2. ToSet(s) = {s[i] : i \in 1 .. n} BY <1>1 DEF ToSet
<1>3. s \in [1 .. n -> ToSet(s)] BY <1>1, <1>2
<1>4. ASSUME NEW i \in 1 .. n, NEW j \in 1 .. n, s[i] = s[j] PROVE i = j
  <2>1. s[i].number \in Nat BY SMTT(30), <1>1 DEF Command
  <2>2. ~ (i < j) /\ ~ (j < i) BY <2>1, <1>1, <1>4 DEF Ordered
  <2> QED BY <2>2
<1>5. \A x \in ToSet(s) : \E i \in 1 .. n : s[i] = x BY <1>2
<1> HIDE DEF n
<1>6. s \in Bijection(1 .. n, ToSet(s))
  BY <1>3, <1>4, <1>5 DEF Bijection, Injection, Surjection, IsInjective
<1>7. ExistsBijection(1 .. n, ToSet(s)) BY <1>6 DEF ExistsBijection
<1>8. IsFiniteSet(1 .. n) /\ Cardinality(1 .. n) = n BY <1>1, FS_Interval
<1> QED BY <1>1, <1>7, <1>8, FS_Bijection DEF n

-----------------------------------------------------------------------------
(* Lists of buffers. *)

(* The buffers of a list. *)
LEMMA ListOfBuffers ==
    ASSUME NEW bs \in Seq(Entry)
    PROVE  /\ Len(bs) \in Nat /\ DOMAIN bs = 1 .. Len(bs)
           /\ \A i \in 1 .. Len(bs) : bs[i] \in Entry /\ bs[i].commands \in Seq(Command)
           /\ CommandsIn(bs) = UNION {ToSet(bs[i].commands) : i \in 1 .. Len(bs)}
           /\ CommandsIn(bs) \subseteq Command
<1>1. Len(bs) \in Nat /\ DOMAIN bs = 1 .. Len(bs) BY LenProperties
<1>2. \A i \in 1 .. Len(bs) : bs[i] \in Entry BY ElementOfSeq
<1>3. \A i \in 1 .. Len(bs) : bs[i].commands \in Seq(Command) BY <1>2 DEF Entry
<1>4. CommandsIn(bs) = UNION {ToSet(bs[i].commands) : i \in 1 .. Len(bs)} BY <1>1 DEF CommandsIn
<1>5. \A i \in 1 .. Len(bs) : ToSet(bs[i].commands) \subseteq Command BY <1>3, ListOfCommands
<1>6. CommandsIn(bs) \subseteq Command BY <1>4, <1>5
<1> QED BY <1>1, <1>2, <1>3, <1>4, <1>6

(* One buffer more at the end. *)
LEMMA OneBufferMore ==
    ASSUME NEW bs \in Seq(Entry), NEW e \in Entry
    PROVE  /\ Append(bs, e) \in Seq(Entry)
           /\ CommandsIn(Append(bs, e)) = CommandsIn(bs) \union ToSet(e.commands)
           /\ InSequence(bs) /\ Ordered(e.commands) /\ Before(CommandsIn(bs), ToSet(e.commands))
                => InSequence(Append(bs, e))
           /\ \A i \in DOMAIN Append(bs, e) :
                Append(bs, e)[i] = e \/ \E k \in DOMAIN bs : Append(bs, e)[i] = bs[k]
<1> DEFINE cs == Append(bs, e)
           n == Len(bs)
<1>1. /\ cs \in Seq(Entry) /\ Len(cs) = n + 1 /\ n \in Nat
      /\ \A i \in 1 .. n : cs[i] = bs[i]
      /\ cs[n + 1] = e
  BY AppendProperties, LenProperties
<1>2. /\ DOMAIN bs = 1 .. n /\ DOMAIN cs = 1 .. n + 1 BY <1>1, LenProperties
<1>3. \A i \in 1 .. n + 1 : i \in 1 .. n \/ i = n + 1 BY <1>1
<1>4. (\A i \in 1 .. n : i \in 1 .. n + 1) /\ n + 1 \in 1 .. n + 1 BY <1>1
<1> HIDE DEF cs, n
<1>5. CommandsIn(cs) = CommandsIn(bs) \union ToSet(e.commands)
  <2>1. ASSUME NEW i \in DOMAIN cs PROVE ToSet(cs[i].commands) \subseteq CommandsIn(bs) \union ToSet(e.commands)
    <3>1. CASE i \in 1 .. n
      <4>1. cs[i] = bs[i] /\ i \in DOMAIN bs BY <3>1, <1>1, <1>2
      <4> QED BY <4>1 DEF CommandsIn
    <3>2. CASE i = n + 1
      <4>1. cs[i] = e BY <3>2, <1>1
      <4> QED BY <4>1
    <3> QED BY <3>1, <3>2, <1>2, <1>3
  <2>2. ASSUME NEW i \in DOMAIN bs PROVE ToSet(bs[i].commands) \subseteq CommandsIn(cs)
    <3>1. i \in DOMAIN cs /\ cs[i] = bs[i] BY <1>1, <1>2, <1>4
    <3> QED BY <3>1 DEF CommandsIn
  <2>3. ToSet(e.commands) \subseteq CommandsIn(cs)
    <3>1. n + 1 \in DOMAIN cs /\ cs[n + 1] = e BY <1>1, <1>2, <1>4
    <3> QED BY <3>1 DEF CommandsIn
  <2>4. CommandsIn(cs) \subseteq CommandsIn(bs) \union ToSet(e.commands)
    BY ONLY <2>1 DEF CommandsIn
  <2>5. CommandsIn(bs) \subseteq CommandsIn(cs)
    <3>1. SUFFICES ASSUME NEW c \in CommandsIn(bs) PROVE c \in CommandsIn(cs) OBVIOUS
    <3>2. PICK i \in DOMAIN bs : c \in ToSet(bs[i].commands) BY <3>1 DEF CommandsIn
    <3> QED BY <3>2, <2>2
  <2> QED BY <2>3, <2>4, <2>5
<1>6. ASSUME InSequence(bs), Ordered(e.commands), Before(CommandsIn(bs), ToSet(e.commands))
      PROVE  InSequence(cs)
  <2>1. ASSUME NEW i \in 1 .. n + 1 PROVE Ordered(cs[i].commands)
    <3>1. CASE i \in 1 .. n
      <4>1. cs[i] = bs[i] BY <3>1, <1>1
      <4> QED BY <4>1, <3>1, <1>2, <1>6 DEF InSequence
    <3>2. CASE i = n + 1 
      <4>1. cs[i] = e BY <3>2, <1>1
      <4> QED BY <4>1, <1>6
    <3> QED BY <3>1, <3>2, <1>3
  <2>2. ASSUME NEW i \in 1 .. n + 1, NEW j \in 1 .. n + 1, i < j
        PROVE  Before(ToSet(cs[i].commands), ToSet(cs[j].commands))
    <3>1. i \in 1 .. n BY <2>2, <1>1
    <3>2. cs[i] = bs[i] BY <3>1, <1>1
    <3>3. CASE j \in 1 .. n
      <4>1. cs[j] = bs[j] BY <3>3, <1>1
      <4> QED BY <4>1, <3>1, <3>2, <3>3, <2>2, <1>2, <1>6 DEF InSequence
    <3>4. CASE j = n + 1
      <4>1. cs[j] = e BY <3>4, <1>1
      <4>2. ToSet(bs[i].commands) \subseteq CommandsIn(bs) BY <3>1, <1>2 DEF CommandsIn
      <4> QED BY <4>1, <4>2, <3>2, <1>6 DEF Before
    <3> QED BY <3>3, <3>4, <1>3
  <2> QED BY <2>1, <2>2, <1>2 DEF InSequence
<1>7. \A i \in DOMAIN cs : cs[i] = e \/ \E k \in DOMAIN bs : cs[i] = bs[k]
  BY <1>1, <1>2, <1>3
<1> QED BY <1>1, <1>5, <1>6, <1>7 DEF cs, n

(* The first buffer is taken. *)
LEMMA OneBufferLess ==
    ASSUME NEW bs \in Seq(Entry), bs # <<>>
    PROVE  /\ Head(bs) \in Entry /\ Tail(bs) \in Seq(Entry)
           /\ CommandsIn(bs) = ToSet(Head(bs).commands) \union CommandsIn(Tail(bs))
           /\ InSequence(bs) => /\ Ordered(Head(bs).commands) /\ InSequence(Tail(bs))
                                /\ Before(ToSet(Head(bs).commands), CommandsIn(Tail(bs)))
           /\ \E k \in DOMAIN bs : Head(bs) = bs[k]
           /\ \A i \in DOMAIN Tail(bs) : \E k \in DOMAIN bs : Tail(bs)[i] = bs[k]
<1> DEFINE cs == Tail(bs)
           h == Head(bs)
           n == Len(bs) - 1
<1>1. /\ h \in Entry /\ cs \in Seq(Entry) /\ Len(cs) = Len(bs) - 1
      /\ \A i \in 1 .. Len(cs) : cs[i] = bs[i + 1]
  BY HeadTailProperties
<1>2. Len(bs) = n + 1 /\ n \in Nat /\ Len(cs) = n /\ h = bs[1]
  <2>1. Len(bs) \in Nat /\ Len(bs) # 0 /\ h = bs[1] BY EmptySeq, LenProperties
  <2> QED BY <2>1, <1>1
<1>3. /\ DOMAIN bs = 1 .. n + 1 /\ DOMAIN cs = 1 .. n BY <1>1, <1>2, LenProperties
<1>4. \A i \in 1 .. n : cs[i] = bs[i + 1] /\ i + 1 \in 1 .. n + 1 BY <1>1, <1>2
<1>5. \A i \in 1 .. n + 1 : i = 1 \/ \E k \in 1 .. n : i = k + 1
  <2>1. ASSUME NEW i \in 1 .. n + 1, i # 1 PROVE i - 1 \in 1 .. n /\ i = (i - 1) + 1
    BY <2>1, <1>2
  <2> QED BY <2>1
<1>6. 1 \in 1 .. n + 1 BY <1>2
<1> HIDE DEF cs, h, n
<1>7. CommandsIn(bs) = ToSet(h.commands) \union CommandsIn(cs)
  <2>1. ASSUME NEW i \in DOMAIN bs PROVE ToSet(bs[i].commands) \subseteq ToSet(h.commands) \union CommandsIn(cs)
    <3>1. CASE i = 1
      <4>1. bs[i] = h BY <3>1, <1>2
      <4> QED BY <4>1
    <3>2. CASE \E k \in 1 .. n : i = k + 1
      <4>1. PICK k \in 1 .. n : i = k + 1 BY <3>2
      <4>2. bs[i] = cs[k] /\ k \in DOMAIN cs BY <4>1, <1>3, <1>4
      <4> QED BY <4>2 DEF CommandsIn
    <3> QED BY <3>1, <3>2, <1>3, <1>5
  <2>2. ToSet(h.commands) \subseteq CommandsIn(bs)
    <3>1. 1 \in DOMAIN bs /\ bs[1] = h BY <1>2, <1>3, <1>6
    <3> QED BY <3>1 DEF CommandsIn
  <2>3. ASSUME NEW i \in DOMAIN cs PROVE ToSet(cs[i].commands) \subseteq CommandsIn(bs)
    <3>1. cs[i] = bs[i + 1] /\ i + 1 \in DOMAIN bs BY <1>3, <1>4
    <3> QED BY <3>1 DEF CommandsIn
  <2>4. CommandsIn(bs) \subseteq ToSet(h.commands) \union CommandsIn(cs)
    BY ONLY <2>1 DEF CommandsIn
  <2>5. CommandsIn(cs) \subseteq CommandsIn(bs)
    <3>1. SUFFICES ASSUME NEW c \in CommandsIn(cs) PROVE c \in CommandsIn(bs) OBVIOUS
    <3>2. PICK i \in DOMAIN cs : c \in ToSet(cs[i].commands) BY <3>1 DEF CommandsIn
    <3> QED BY <3>2, <2>3
  <2> QED BY <2>2, <2>4, <2>5
<1>8. ASSUME InSequence(bs)
      PROVE  Ordered(h.commands) /\ InSequence(cs) /\ Before(ToSet(h.commands), CommandsIn(cs))
  <2>1. \A i \in 1 .. n + 1 : Ordered(bs[i].commands) BY <1>3, <1>8 DEF InSequence
  <2>2. \A i, j \in 1 .. n + 1 : i < j => Before(ToSet(bs[i].commands), ToSet(bs[j].commands))
    BY <1>3, <1>8 DEF InSequence
  <2>3. Ordered(h.commands) BY <2>1, <1>2, <1>6
  <2>4. ASSUME NEW i \in 1 .. n PROVE Ordered(cs[i].commands)
    BY <2>1, <1>4
  <2>5. ASSUME NEW i \in 1 .. n, NEW j \in 1 .. n, i < j
        PROVE  Before(ToSet(cs[i].commands), ToSet(cs[j].commands))
    <3>1. PICK k \in 1 .. n + 1 : k = i + 1 /\ cs[i] = bs[k] BY <1>4
    <3>2. PICK l \in 1 .. n + 1 : l = j + 1 /\ cs[j] = bs[l] BY <1>4
    <3>3. k < l BY <3>1, <3>2, <2>5, <1>2
    <3> QED BY <3>1, <3>2, <3>3, <2>2
  <2>6. InSequence(cs) BY <2>4, <2>5, <1>3 DEF InSequence
  <2>7. ASSUME NEW i \in DOMAIN cs PROVE Before(ToSet(h.commands), ToSet(cs[i].commands))
    <3>1. PICK k \in 1 .. n + 1 : k = i + 1 /\ cs[i] = bs[k] BY <1>3, <1>4
    <3>2. 1 < k BY <3>1, <1>2, <1>3
    <3> QED BY <3>1, <3>2, <2>2, <1>2, <1>6
  <2>8. Before(ToSet(h.commands), CommandsIn(cs))
    <3>1. SUFFICES ASSUME NEW d \in CommandsIn(cs), NEW c \in ToSet(h.commands), c.writer = d.writer
          PROVE  c.number < d.number
      BY DEF Before
    <3>2. PICK i \in DOMAIN cs : d \in ToSet(cs[i].commands) BY <3>1 DEF CommandsIn
    <3> QED BY <3>1, <3>2, <2>7 DEF Before
  <2> QED BY <2>3, <2>6, <2>8
<1>9. \E k \in DOMAIN bs : h = bs[k] BY <1>2, <1>3, <1>6
<1>10. \A i \in DOMAIN cs : \E k \in DOMAIN bs : cs[i] = bs[k] BY <1>3, <1>4
<1> QED BY <1>1, <1>7, <1>8, <1>9, <1>10 DEF cs, h

-----------------------------------------------------------------------------
(* What a step leaves alone. *)

(* What was handed to a queue, and what became of it. *)
Handed(q) == Ran(q) \union Dropped(q) \union Waiting(q)

(* A server that was just created satisfies the invariant. *)
LEMMA InitKeeps == Init => CommandInv
<1> SUFFICES ASSUME Init PROVE CommandInv OBVIOUS
<1> USE NoCommands
<1>1. NoEntry \in Entry BY DEF NoEntry, Entry
<1>2. TypeOK BY <1>1, CommandAssumption DEF Init, TypeOK, Queue
<1>3. ASSUME NEW q \in Queue
      PROVE  /\ done[q] = <<>> /\ current[q].commands = <<>> /\ command_buffers[q] = <<>>
             /\ Ran(q) = {} /\ Dropped(q) = {} /\ Current(q) = {} /\ Queued(q) = {} /\ Waiting(q) = {}
  BY DEF Init, NoEntry, Ran, Dropped, Current, Queued, Waiting
<1>4. \A w \in Writer : command_buffer[w] = <<>> /\ Kept(w) = {} BY DEF Init, Kept
<1>5. \A S : Before({}, S) /\ Before(S, {}) BY DEF Before
<1>6. \A q \in Queue : QueueInOrder(q) BY <1>3, <1>5 DEF QueueInOrder
<1>7. \A w \in Writer : WriterInOrder(w) BY <1>3, <1>4, <1>5 DEF WriterInOrder
<1>8. EveryCommand
  <2>1. \A c \in Command : ~ (c.number <= written[c.writer]) BY DEF Command, Init
  <2>2. dropped = {} BY DEF Init
  <2> QED BY <2>1, <2>2, <1>3, <1>4 DEF EveryCommand
<1>9. RunInOrder BY <1>6, <1>7, <1>8 DEF RunInOrder
<1>10. Cardinality({}) = 0 /\ IsFiniteSet({}) BY FS_EmptySet
<1>11. CommandsCounted
  <2>1. \A q \in Queue : num_commands[q] = 0 /\ processed[q] = 0 BY DEF Init
  <2>2. ASSUME NEW q \in Queue
        PROVE  num_commands[q] = Cardinality(Waiting(q)) + processed[q] + Cardinality(Dropped(q))
    <3>1. Cardinality(Waiting(q)) = 0 /\ Cardinality(Dropped(q)) = 0 BY <1>3, <1>10
    <3> QED BY <3>1, <2>1
  <2> QED BY <2>2 DEF CommandsCounted
<1>12. SlicesHaveCommands BY <1>3 DEF SlicesHaveCommands, Init
<1>13. EntriesInv BY <1>3 DEF EntriesInv, Init
<1>14. DroppedInv BY <1>3, <1>10 DEF DroppedInv, Init
<1>15. IdleInv BY DEF IdleInv, Init
<1> QED BY <1>2, <1>9, <1>11, <1>12, <1>13, <1>14, <1>15 DEF CommandInv, QueuesExact

(* The places of a queue that a step leaves alone. *)
LEMMA QueueLeftAlone ==
    ASSUME NEW q \in Queue,
           done'[q] = done[q], current'[q].commands = current[q].commands, command_buffers'[q] = command_buffers[q],
           Dropped(q)' = Dropped(q), QueueInOrder(q)
    PROVE  /\ Ran(q)' = Ran(q) /\ Current(q)' = Current(q) /\ Queued(q)' = Queued(q) /\ Waiting(q)' = Waiting(q)
           /\ Handed(q)' = Handed(q) /\ QueueInOrder(q)'
<1>1. Ran(q)' = Ran(q) /\ Current(q)' = Current(q) /\ Queued(q)' = Queued(q)
  BY DEF Ran, Current, Queued
<1>2. Waiting(q)' = Waiting(q) BY <1>1 DEF Waiting
<1>3. Handed(q)' = Handed(q) BY <1>1, <1>2 DEF Handed
<1>4. QueueInOrder(q)' BY <1>1, <1>2 DEF QueueInOrder
<1> QED BY <1>1, <1>2, <1>3, <1>4

(* A step that leaves all commands where they are. *)
LEMMA CommandsLeftAlone ==
    ASSUME RunInOrder, UNCHANGED <<m_object_id, written, command_buffer, command_buffers, current, done, dropped>>
    PROVE  /\ RunInOrder'
           /\ \A q \in Queue : Waiting(q)' = Waiting(q) /\ Dropped(q)' = Dropped(q)
<1>1. \A q \in Queue : /\ Ran(q)' = Ran(q) /\ Dropped(q)' = Dropped(q) /\ Current(q)' = Current(q)
                       /\ Queued(q)' = Queued(q) /\ Waiting(q)' = Waiting(q)
  BY DEF Ran, Dropped, Current, Queued, Waiting
<1>2. \A w \in Writer : Kept(w)' = Kept(w) BY DEF Kept
<1>3. \A q \in Queue : QueueInOrder(q)' BY <1>1 DEF RunInOrder, QueueInOrder
<1>4. \A w \in Writer : WriterInOrder(w)' BY <1>1, <1>2 DEF RunInOrder, WriterInOrder
<1>5. EveryCommand'
  <2>1. /\ \A q \in Queue : \A c \in Ran(q)' \union Waiting(q)' : QueueOf(m_object_id'[c.writer]) = q
        /\ \A w \in Writer : \A c \in Kept(w)' : c.writer = w
    BY <1>1, <1>2 DEF RunInOrder, EveryCommand
  <2>2. UNION {Ran(q)' \union Waiting(q)' : q \in Queue} = UNION {Ran(q) \union Waiting(q) : q \in Queue}
    BY <1>1
  <2>3. UNION {Kept(w)' : w \in Writer} = UNION {Kept(w) : w \in Writer}
    BY <1>2
  <2>4. {c \in Command : c.number <= written'[c.writer]} = {c \in Command : c.number <= written[c.writer]}
    OBVIOUS
  <2> QED BY <2>1, <2>2, <2>3, <2>4 DEF RunInOrder, EveryCommand
<1> QED BY <1>1, <1>3, <1>4, <1>5 DEF RunInOrder

(* The steps that only look at the queues: CommandsLeftAlone, and what the  *)
(* step does to the slice, to the counter and to the objects.              *)
LEMMA LookingKeeps ==
    ASSUME CommandInv, NEW q \in Queue,
           BeginFlush(q) \/ GetOld(q) \/ TimeOver(q) \/ BeginSlice(q) \/ EndFlush(q)
    PROVE  CommandInv'
<1> USE DEF CommandInv, QueuesExact, bufferVars, writerVars
<1>1. UNCHANGED <<m_object_id, written, command_buffer, command_buffers, current, done, dropped>>
  BY DEF BeginFlush, GetOld, TimeOver, BeginSlice, EndFlush
<1>2. /\ RunInOrder'
      /\ \A r \in Queue : Waiting(r)' = Waiting(r) /\ Dropped(r)' = Dropped(r)
  BY <1>1, CommandsLeftAlone
<1>3. /\ in_progress' = in_progress /\ alive' = alive /\ exists' = exists
  BY DEF BeginFlush, GetOld, TimeOver, BeginSlice, EndFlush
<1>4. DroppedInv' BY <1>1, <1>2, <1>3 DEF DroppedInv
<1>5. current[q].commands \in Seq(Command) BY DEF TypeOK, Entry
<1>6. Len(current[q].commands) \in Nat /\ (current[q].commands # <<>> <=> Len(current[q].commands) > 0)
  BY <1>5, ListOfCommands
<1>7. /\ IsFiniteSet(Waiting(q)) /\ IsFiniteSet(Dropped(q))
  <2>1. Dropped(q) \subseteq dropped BY DEF Dropped
  <2> QED BY <2>1, FS_Subset DEF DroppedInv
<1>8. Cardinality(Waiting(q)) \in Nat /\ Cardinality(Dropped(q)) \in Nat BY <1>7, FS_CardinalityType
<1>9. num_commands[q] - processed[q] \in Nat
  BY <1>8 DEF CommandsCounted, TypeOK
<1>10. (flush' = [flush EXCEPT ![q] = flush'[q]]) /\ flush'[q] \in {"idle", "loop", "time", "run", "end"}
  BY DEF BeginFlush, GetOld, TimeOver, BeginSlice, EndFlush, TypeOK
<1>11. TypeOK'
  <2>1. old' \in [Queue -> BOOLEAN] BY DEF BeginFlush, GetOld, TimeOver, BeginSlice, EndFlush, TypeOK
  <2>2. processed' \in [Queue -> Nat] BY DEF BeginFlush, GetOld, TimeOver, BeginSlice, EndFlush, TypeOK
  <2>3. left' \in [Queue -> Nat]
    BY ZenonT(60), <1>6, CommandAssumption
      DEF CommandAssumption, BeginFlush, GetOld, TimeOver, BeginSlice, EndFlush, TypeOK
  <2>4. num_commands' \in [Queue -> Nat]
    BY <1>9 DEF BeginFlush, GetOld, TimeOver, BeginSlice, EndFlush, TypeOK
  <2>5. flush' \in [Queue -> {"idle", "loop", "time", "run", "end"}] BY <1>10 DEF TypeOK
  <2> QED BY <1>1, <1>3, <2>1, <2>2, <2>3, <2>4, <2>5 DEF TypeOK
<1>12. CommandsCounted'
  <2>1. ASSUME NEW r \in Queue
        PROVE  num_commands'[r] - processed'[r] = num_commands[r] - processed[r]
    <3>1. CASE EndFlush(q) BY <3>1 DEF EndFlush, TypeOK
    <3>2. CASE BeginFlush(q) BY <3>2 DEF BeginFlush, IdleInv, TypeOK
    <3>3. CASE GetOld(q) \/ TimeOver(q) \/ BeginSlice(q) BY <3>3 DEF GetOld, TimeOver, BeginSlice
    <3> QED BY <3>1, <3>2, <3>3
  <2>2. ASSUME NEW r \in Queue
        PROVE  num_commands'[r] = Cardinality(Waiting(r)') + processed'[r] + Cardinality(Dropped(r)')
    <3>1. Waiting(r)' = Waiting(r) /\ Dropped(r)' = Dropped(r) BY <1>2
    <3>2. num_commands[r] = Cardinality(Waiting(r)) + processed[r] + Cardinality(Dropped(r))
      BY DEF CommandsCounted
    <3>3. IsFiniteSet(Waiting(r)) /\ IsFiniteSet(Dropped(r))
      <4>1. Dropped(r) \subseteq dropped BY DEF Dropped
      <4> QED BY <4>1, FS_Subset DEF DroppedInv
    <3>4. Cardinality(Waiting(r)) \in Nat /\ Cardinality(Dropped(r)) \in Nat BY <3>3, FS_CardinalityType
    <3>5. /\ num_commands[r] \in Nat /\ processed[r] \in Nat /\ num_commands'[r] \in Nat /\ processed'[r] \in Nat
      BY <1>11 DEF TypeOK
    <3> QED BY <2>1, <3>1, <3>2, <3>4, <3>5
  <2> QED BY <2>2 DEF CommandsCounted
<1>13. SlicesHaveCommands'
  <2>1. ASSUME NEW r \in Queue, flush'[r] = "time" PROVE flush[r] = "time"
    BY <2>1 DEF BeginFlush, GetOld, TimeOver, BeginSlice, EndFlush, TypeOK
  <2>2. ASSUME NEW r \in Queue, flush'[r] = "run" PROVE left'[r] \in 1 .. Len(current[r].commands)
    <3>1. CASE BeginSlice(q) /\ r = q
      <4>1. Len(current[q].commands) > 0
        BY <3>1, <1>6 DEF BeginSlice, SlicesHaveCommands
      <4>2. left'[q] = IF old[q] \/ Len(current[q].commands) < MaxPerIter
                    THEN Len(current[q].commands) ELSE MaxPerIter
        BY <3>1 DEF BeginSlice, TypeOK
      <4> QED BY <3>1, <4>1, <4>2, <1>6, CommandAssumption DEF CommandAssumption
    <3>2. CASE ~ (BeginSlice(q) /\ r = q)
      <4>1. flush[r] = "run" /\ left'[r] = left[r]
        BY <3>2, <2>2 DEF BeginFlush, GetOld, TimeOver, BeginSlice, EndFlush, TypeOK
      <4> QED BY <4>1 DEF SlicesHaveCommands
    <3> QED BY <3>1, <3>2
  <2> QED BY <1>1, <1>3, <2>1, <2>2 DEF SlicesHaveCommands
<1>14. EntriesInv'
  <2>1. ASSUME NEW r \in Queue
        PROVE  /\ \A i \in DOMAIN command_buffers[r] : EntryFor(command_buffers[r][i], r)'
               /\ current[r].commands # <<>> => EntryFor(current[r], r)'
    BY <1>1 DEF EntriesInv, EntryFor
  <2>2. ASSUME flush'["main"] = "run" PROVE current["main"].object \in alive
    <3>1. CASE BeginSlice(q) /\ q = "main" BY <3>1 DEF BeginSlice, HasObject
    <3>2. CASE ~ (BeginSlice(q) /\ q = "main")
      <4>1. flush["main"] = "run"
        BY <3>2, <2>2 DEF BeginFlush, GetOld, TimeOver, BeginSlice, EndFlush, TypeOK, Queue
      <4> QED BY <4>1 DEF EntriesInv, Queue
    <3> QED BY <3>1, <3>2
  <2> QED BY <1>1, <1>3, <2>1, <2>2 DEF EntriesInv
<1>15. IdleInv'
  <2>1. ASSUME NEW r \in Queue, flush'[r] = "idle" PROVE processed'[r] = 0
    BY <2>1 DEF BeginFlush, GetOld, TimeOver, BeginSlice, EndFlush, TypeOK, IdleInv
  <2> QED BY <2>1 DEF IdleInv
<1> QED BY <1>2, <1>4, <1>11, <1>12, <1>13, <1>14, <1>15

(* The places a command can be in. *)
Somewhere(c) ==
    \/ c \in dropped
    \/ \E q \in Queue : c \in Ran(q) \/ c \in Waiting(q)
    \/ \E w \in Writer : c \in Kept(w)

(* The commands that were written are those in one of the places. *)
LEMMA EveryCommandIff ==
    EveryCommand <=>
        /\ \A q \in Queue : \A c : c \in Ran(q) \/ c \in Waiting(q) => QueueOf(m_object_id[c.writer]) = q
        /\ \A w \in Writer : \A c \in Kept(w) : c.writer = w
        /\ \A c : c \in Command /\ c.number <= written[c.writer] <=> Somewhere(c)
<1>1. (\A q \in Queue : \A c \in Ran(q) \union Waiting(q) : QueueOf(m_object_id[c.writer]) = q)
      <=> \A q \in Queue : \A c : c \in Ran(q) \/ c \in Waiting(q) => QueueOf(m_object_id[c.writer]) = q
  OBVIOUS
<1>2. \A c : c \in {d \in Command : d.number <= written[d.writer]}
             <=> c \in Command /\ c.number <= written[c.writer]
  OBVIOUS
<1> DEFINE A == UNION {Ran(q) \union Waiting(q) : q \in Queue}
           B == UNION {Kept(w) : w \in Writer}
<1>3. \A c : c \in A <=> \E q \in Queue : c \in Ran(q) \/ c \in Waiting(q)
  OBVIOUS
<1>4. \A c : c \in B <=> \E w \in Writer : c \in Kept(w)
  OBVIOUS
<1> HIDE DEF A, B
<1>5. \A c : c \in dropped \union A \union B <=> c \in dropped \/ c \in A \/ c \in B
  OBVIOUS
<1>6. \A c : c \in dropped \union A \union B <=> Somewhere(c)
  BY <1>3, <1>4, <1>5, Zenon DEF Somewhere
<1>7. {d \in Command : d.number <= written[d.writer]} = dropped \union A \union B
      <=> \A c : c \in Command /\ c.number <= written[c.writer] <=> Somewhere(c)
  BY <1>2, <1>6
<1>8. EveryCommand <=>
        /\ \A q \in Queue : \A c \in Ran(q) \union Waiting(q) : QueueOf(m_object_id[c.writer]) = q
        /\ \A w \in Writer : \A c \in Kept(w) : c.writer = w
        /\ {d \in Command : d.number <= written[d.writer]} = dropped \union A \union B
  BY DEF EveryCommand, A, B
<1> QED BY ONLY <1>1, <1>7, <1>8

(* The same of the next state. *)
LEMMA EveryCommandIffNext ==
    EveryCommand' <=>
        /\ \A q \in Queue : \A c : c \in Ran(q)' \/ c \in Waiting(q)' => QueueOf(m_object_id'[c.writer]) = q
        /\ \A w \in Writer : \A c \in Kept(w)' : c.writer = w
        /\ \A c : c \in Command /\ c.number <= written'[c.writer] <=> Somewhere(c)'
<1>1. (\A q \in Queue : \A c \in Ran(q)' \union Waiting(q)' : QueueOf(m_object_id'[c.writer]) = q)
      <=> \A q \in Queue : \A c : c \in Ran(q)' \/ c \in Waiting(q)' => QueueOf(m_object_id'[c.writer]) = q
  OBVIOUS
<1>2. \A c : c \in {d \in Command : d.number <= written'[d.writer]}
             <=> c \in Command /\ c.number <= written'[c.writer]
  OBVIOUS
<1> DEFINE A == UNION {Ran(q)' \union Waiting(q)' : q \in Queue}
           B == UNION {Kept(w)' : w \in Writer}
<1>3. \A c : c \in A <=> \E q \in Queue : c \in Ran(q)' \/ c \in Waiting(q)'
  OBVIOUS
<1>4. \A c : c \in B <=> \E w \in Writer : c \in Kept(w)'
  OBVIOUS
<1> HIDE DEF A, B
<1>5. \A c : c \in dropped' \union A \union B <=> c \in dropped' \/ c \in A \/ c \in B
  OBVIOUS
<1>6. \A c : c \in dropped' \union A \union B <=> Somewhere(c)'
  BY <1>3, <1>4, <1>5, Zenon DEF Somewhere
<1>7. {d \in Command : d.number <= written'[d.writer]} = dropped' \union A \union B
      <=> \A c : c \in Command /\ c.number <= written'[c.writer] <=> Somewhere(c)'
  BY <1>2, <1>6
<1>8. EveryCommand' <=>
        /\ \A q \in Queue : \A c \in Ran(q)' \union Waiting(q)' : QueueOf(m_object_id'[c.writer]) = q
        /\ \A w \in Writer : \A c \in Kept(w)' : c.writer = w
        /\ {d \in Command : d.number <= written'[d.writer]} = dropped' \union A \union B
  BY DEF EveryCommand, A, B
<1> QED BY ONLY <1>1, <1>7, <1>8

(* The commands are commands, and where they are is finite. *)
LEMMA PlacesOfCommands ==
    ASSUME CommandInv
    PROVE  /\ \A q \in Queue : /\ Ran(q) \subseteq Command /\ Dropped(q) \subseteq Command
                               /\ Current(q) \subseteq Command /\ Queued(q) \subseteq Command
                               /\ Waiting(q) \subseteq Command /\ Handed(q) \subseteq Command
                               /\ IsFiniteSet(Waiting(q)) /\ IsFiniteSet(Dropped(q))
                               /\ Cardinality(Waiting(q)) \in Nat /\ Cardinality(Dropped(q)) \in Nat
           /\ \A w \in Writer : Kept(w) \subseteq Command
<1> USE DEF CommandInv, QueuesExact
<1>1. ASSUME NEW q \in Queue
      PROVE  /\ done[q] \in Seq(Command) /\ current[q].commands \in Seq(Command)
             /\ command_buffers[q] \in Seq(Entry)
  BY DEF TypeOK, Entry
<1>2. ASSUME NEW q \in Queue
      PROVE  Ran(q) \subseteq Command /\ Current(q) \subseteq Command /\ Queued(q) \subseteq Command
  BY <1>1, ListOfCommands, ListOfBuffers DEF Ran, Current, Queued
<1>3. ASSUME NEW q \in Queue PROVE Dropped(q) \subseteq Command /\ Dropped(q) \subseteq dropped
  BY DEF Dropped, TypeOK
<1>4. ASSUME NEW q \in Queue PROVE IsFiniteSet(Waiting(q)) /\ IsFiniteSet(Dropped(q))
  BY <1>3, FS_Subset DEF DroppedInv
<1>5. ASSUME NEW q \in Queue PROVE Cardinality(Waiting(q)) \in Nat /\ Cardinality(Dropped(q)) \in Nat
  BY <1>4, FS_CardinalityType
<1>6. ASSUME NEW w \in Writer PROVE Kept(w) \subseteq Command
  <2>1. command_buffer[w] \in Seq(Command) BY DEF TypeOK
  <2> QED BY <2>1, ListOfCommands DEF Kept
<1>7. ASSUME NEW q \in Queue PROVE Waiting(q) \subseteq Command /\ Handed(q) \subseteq Command
  BY <1>2, <1>3 DEF Waiting, Handed
<1> QED BY <1>2, <1>3, <1>4, <1>5, <1>6, <1>7

(* The main thread deletes an object only while it runs no commands. *)
LEMMA DeleteObjectKeeps ==
    ASSUME CommandInv, NEW o \in Object, DeleteObject(o)
    PROVE  CommandInv'
<1> USE DEF CommandInv, QueuesExact, bufferVars, writerVars, flushVars, DeleteObject
<1>1. /\ RunInOrder'
      /\ \A r \in Queue : Waiting(r)' = Waiting(r) /\ Dropped(r)' = Dropped(r)
  BY CommandsLeftAlone
<1>2. TypeOK' BY DEF TypeOK
<1>3. CommandsCounted' BY <1>1 DEF CommandsCounted
<1>4. SlicesHaveCommands' BY DEF SlicesHaveCommands
<1>5. EntriesInv' BY DEF EntriesInv, EntryFor
<1>6. DroppedInv' BY <1>1 DEF DroppedInv
<1>7. IdleInv' BY DEF IdleInv
<1> QED BY <1>1, <1>2, <1>3, <1>4, <1>5, <1>6, <1>7

(* A new command has a greater number than all others of its writer. *)
LEMMA AddCommandKeeps ==
    ASSUME CommandInv, NEW w \in Writer, AddCommand(w)
    PROVE  CommandInv'
<1> USE DEF CommandInv, QueuesExact, bufferVars, flushVars
<1> DEFINE new == [writer |-> w, number |-> written[w] + 1]
<1>1. /\ written[w] \in Nat /\ written[w] + 1 \in 1 .. MaxCommands /\ new \in Command
      /\ new.writer = w /\ new.number = written[w] + 1
  BY CommandAssumption DEF CommandAssumption, AddCommand, TypeOK, Command
<1>2. command_buffer[w] \in Seq(Command) BY DEF TypeOK
<1>3. /\ UNCHANGED <<m_object_id, exists, alive, command_buffers, num_commands, current, in_progress, old, flush,
                     left, processed, done, dropped>>
      /\ written' = [written EXCEPT ![w] = written[w] + 1]
      /\ command_buffer' = [command_buffer EXCEPT ![w] = Append(command_buffer[w], new)]
  BY DEF AddCommand
<1> HIDE DEF new
<1>4. \A q \in Queue : /\ Ran(q)' = Ran(q) /\ Dropped(q)' = Dropped(q) /\ Current(q)' = Current(q)
                       /\ Queued(q)' = Queued(q) /\ Waiting(q)' = Waiting(q)
  BY <1>3 DEF Ran, Dropped, Current, Queued, Waiting
<1>5. \A v \in Writer : v # w => command_buffer'[v] = command_buffer[v] /\ Kept(v)' = Kept(v)
  BY <1>3 DEF Kept, TypeOK
<1>6. command_buffer'[w] = Append(command_buffer[w], new) BY <1>3 DEF TypeOK
<1>7. Kept(w)' = Kept(w) \union {new} BY <1>2, <1>1, <1>6, OneMore DEF Kept
<1>8. \A c : Somewhere(c) => c \in Command /\ c.number <= written[c.writer]
  BY EveryCommandIff DEF RunInOrder
<1>9. ASSUME NEW S, \A c \in S : Somewhere(c) PROVE Before(S, {new})
  BY <1>1, <1>8, <1>9 DEF Before, Command
<1>10. Before(Kept(w), {new}) /\ \A q \in Queue : Before(Ran(q) \union Dropped(q) \union Waiting(q), {new})
  <2>1. \A c \in Kept(w) : Somewhere(c) BY DEF Somewhere
  <2>2. ASSUME NEW q \in Queue, NEW c \in Ran(q) \union Dropped(q) \union Waiting(q) PROVE Somewhere(c)
    BY DEF Somewhere, Dropped
  <2> QED BY <2>1, <2>2, <1>9
<1>11. TypeOK'
  <2>1. written' \in [Writer -> 0 .. MaxCommands]
    BY <1>1, <1>3 DEF TypeOK
  <2>2. command_buffer' \in [Writer -> Seq(Command)]
    BY <1>1, <1>2, <1>3, OneMore DEF TypeOK
  <2> QED BY <1>3, <2>1, <2>2 DEF TypeOK
<1>12. \A q \in Queue : QueueInOrder(q)' BY <1>3, <1>4 DEF RunInOrder, QueueInOrder
<1>13. ASSUME NEW v \in Writer PROVE WriterInOrder(v)'
  <2>1. CASE v # w BY <2>1, <1>4, <1>5 DEF RunInOrder, WriterInOrder
  <2>2. CASE v = w
    <3>1. Ordered(command_buffer[w]) BY DEF RunInOrder, WriterInOrder
    <3>2. Before(ToSet(command_buffer[w]), {new}) BY <1>10 DEF Kept
    <3>3. Ordered(command_buffer'[w]) BY <3>1, <3>2, <1>1, <1>2, <1>6, OneMore
    <3>4. ASSUME NEW q \in Queue
          PROVE  Before(Ran(q)' \union Dropped(q)' \union Waiting(q)', Kept(w)')
      <4>1. Before(Ran(q) \union Dropped(q) \union Waiting(q), Kept(w)) BY DEF RunInOrder, WriterInOrder
      <4> QED BY <4>1, <1>4, <1>7, <1>10 DEF Before
    <3> QED BY <2>2, <3>3, <3>4 DEF WriterInOrder
  <2> QED BY <2>1, <2>2
<1>14. EveryCommand'
  <2>1. \A q \in Queue : \A c : c \in Ran(q)' \/ c \in Waiting(q)' => QueueOf(m_object_id'[c.writer]) = q
    BY <1>3, <1>4, EveryCommandIff DEF RunInOrder
  <2>2. ASSUME NEW v \in Writer, NEW c \in Kept(v)' PROVE c.writer = v
    <3>1. c \in Kept(v) => c.writer = v BY EveryCommandIff DEF RunInOrder
    <3> QED BY <3>1, <1>1, <1>5, <1>7
  <2>3. \A c : Somewhere(c)' <=> Somewhere(c) \/ c = new
    BY <1>3, <1>4, <1>5, <1>7 DEF Somewhere
  <2>4. ASSUME NEW c \in Command
        PROVE  c.number <= written'[c.writer] <=> c.number <= written[c.writer] \/ c = new
    <3>1. c.writer \in Writer /\ c.number \in Nat /\ written[c.writer] \in Nat BY DEF Command, TypeOK
    <3>2. CASE c.writer # w
      <4>1. written'[c.writer] = written[c.writer] BY <3>1, <3>2, <1>3 DEF TypeOK
      <4> QED BY <4>1, <3>2, <1>1
    <3>3. CASE c.writer = w
      <4>1. written'[w] = written[w] + 1 BY <1>3 DEF TypeOK
      <4>2. c.number = written[w] + 1 <=> c = new BY <3>3 DEF Command, new
      <4> QED BY <4>1, <4>2, <3>1, <3>3, <1>1
    <3> QED BY <3>2, <3>3
  <2>5. \A c : c \in Command /\ c.number <= written'[c.writer] <=> Somewhere(c)'
    <3>1. \A c : c \in Command /\ c.number <= written[c.writer] <=> Somewhere(c)
      BY EveryCommandIff DEF RunInOrder
    <3> QED BY <2>3, <2>4, <3>1, <1>1
  <2> QED BY <2>1, <2>2, <2>5, EveryCommandIffNext
<1>15. RunInOrder' BY <1>12, <1>13, <1>14 DEF RunInOrder
<1>16. CommandsCounted' BY <1>3, <1>4 DEF CommandsCounted
<1>17. SlicesHaveCommands' BY <1>3 DEF SlicesHaveCommands
<1>18. EntriesInv' BY <1>3 DEF EntriesInv, EntryFor
<1>19. DroppedInv' BY <1>3, <1>4 DEF DroppedInv
<1>20. IdleInv' BY <1>3 DEF IdleInv
<1> QED BY <1>11, <1>15, <1>16, <1>17, <1>18, <1>19, <1>20

(* A writer hands over its commands, as one buffer, at the end of the queue *)
(* of its object.                                                          *)
LEMMA HandingOverKeeps ==
    ASSUME CommandInv, NEW w \in Writer,
           AddCommandBuffer(m_object_id[w], command_buffer[w]),
           command_buffer' = [command_buffer EXCEPT ![w] = <<>>],
           exists' \in [Writer -> BOOLEAN],
           UNCHANGED <<m_object_id, written, alive, flushVars, done, dropped>>
    PROVE  CommandInv'
<1> USE DEF CommandInv, QueuesExact
<1>0. m_object_id[w] \in Object \union {RServer} /\ QueueOf(m_object_id[w]) \in Queue
      /\ command_buffer[w] \in Seq(Command)
  BY DEF TypeOK, QueueOf, Queue
<1>1. PICK o \in Object \union {RServer}, Q \in Queue : o = m_object_id[w] /\ Q = QueueOf(o)
  BY <1>0
<1>2. PICK entry \in Entry :
          /\ command_buffer[w] \in Seq(Command)
          /\ entry = [object |-> o, commands |-> command_buffer[w]]
          /\ entry.object = o /\ entry.commands = command_buffer[w]
  <2>1. [object |-> o, commands |-> command_buffer[w]] \in Entry BY <1>0 DEF Entry
  <2> QED BY <2>1, <1>0
<1>3. UNCHANGED <<m_object_id, written, alive, current, in_progress, old, flush, left, processed, done, dropped>>
  BY DEF flushVars
<1>4. /\ command_buffers \in [Queue -> Seq(Entry)] /\ num_commands \in [Queue -> Nat]
      /\ command_buffer \in [Writer -> Seq(Command)]
  BY DEF TypeOK
<1>5. /\ command_buffer'[w] = <<>> /\ Kept(w)' = {} /\ Ordered(command_buffer'[w])
      /\ \A v \in Writer : v # w => command_buffer'[v] = command_buffer[v] /\ Kept(v)' = Kept(v)
  BY <1>4, NoCommands DEF Kept
(* The queue of the object. *)
<1>6. /\ command_buffers' \in [Queue -> Seq(Entry)] /\ num_commands' \in [Queue -> Nat]
      /\ \A r \in Queue : r # Q => command_buffers'[r] = command_buffers[r] /\ num_commands'[r] = num_commands[r]
      /\ num_commands'[Q] = num_commands[Q] + Len(command_buffer[w])
      /\ Queued(Q)' = Queued(Q) \union Kept(w)
      /\ InSequence(command_buffers'[Q])
      /\ \A i \in DOMAIN command_buffers'[Q] :
            \/ \E k \in DOMAIN command_buffers[Q] : command_buffers'[Q][i] = command_buffers[Q][k]
            \/ command_buffers'[Q][i] = entry /\ command_buffer[w] # <<>>
  <2>1. CASE command_buffer[w] = <<>>
    <3>1. command_buffers' = command_buffers /\ num_commands' = num_commands
      BY <2>1 DEF AddCommandBuffer, bufferVars
    <3>2. Len(command_buffer[w]) = 0 /\ Kept(w) = {} BY <2>1, NoCommands DEF Kept
    <3>3. Queued(Q)' = Queued(Q) BY <3>1 DEF Queued
    <3>4. InSequence(command_buffers[Q]) BY <1>1 DEF RunInOrder, QueueInOrder
    <3> QED BY <3>1, <3>2, <3>3, <3>4, <1>1, <1>4
  <2>2. CASE command_buffer[w] # <<>>
    <3>1. /\ command_buffers' = [command_buffers EXCEPT ![Q] = Append(command_buffers[Q], entry)]
          /\ num_commands' = [num_commands EXCEPT ![Q] = num_commands[Q] + Len(command_buffer[w])]
      BY <2>2, <1>1, <1>2 DEF AddCommandBuffer
    <3>2. /\ command_buffers'[Q] = Append(command_buffers[Q], entry)
          /\ num_commands'[Q] = num_commands[Q] + Len(command_buffer[w])
          /\ \A r \in Queue : r # Q => command_buffers'[r] = command_buffers[r] /\ num_commands'[r] = num_commands[r]
      BY <3>1, <1>1, <1>4
    <3>3. command_buffers[Q] \in Seq(Entry) BY <1>1, <1>4
    <3>4. /\ InSequence(command_buffers[Q]) /\ Ordered(command_buffer[w])
          /\ Before(CommandsIn(command_buffers[Q]), ToSet(command_buffer[w]))
      <4>1. InSequence(command_buffers[Q]) BY <1>1 DEF RunInOrder, QueueInOrder
      <4>2. Ordered(command_buffer[w]) BY DEF RunInOrder, WriterInOrder
      <4>3. Before(Ran(Q) \union Dropped(Q) \union Waiting(Q), Kept(w))
        BY <1>1 DEF RunInOrder, WriterInOrder
      <4>4. Before(Queued(Q), Kept(w)) BY <4>3 DEF Before, Waiting
      <4> QED BY <4>1, <4>2, <4>4 DEF Queued, Kept
    <3>5. /\ command_buffers'[Q] \in Seq(Entry)
          /\ CommandsIn(command_buffers'[Q]) = CommandsIn(command_buffers[Q]) \union ToSet(command_buffer[w])
          /\ InSequence(command_buffers'[Q])
          /\ \A i \in DOMAIN command_buffers'[Q] :
                command_buffers'[Q][i] = entry \/ \E k \in DOMAIN command_buffers[Q] : command_buffers'[Q][i] = command_buffers[Q][k]
      BY <3>2, <3>3, <3>4, <1>2, OneBufferMore
    <3>6. Queued(Q)' = Queued(Q) \union Kept(w) BY <3>5 DEF Queued, Kept
    <3>7. command_buffers' \in [Queue -> Seq(Entry)] BY <3>1, <3>2, <3>5, <1>1, <1>4
    <3>8. num_commands' \in [Queue -> Nat]
      <4>1. num_commands[Q] + Len(command_buffer[w]) \in Nat BY <1>1, <1>2, <1>4, LenProperties
      <4> QED BY <4>1, <3>1, <1>4
    <3> QED BY <3>2, <3>5, <3>6, <3>7, <3>8, <2>2
  <2> QED BY <2>1, <2>2
<1>7. TypeOK'
  <2>1. command_buffer' \in [Writer -> Seq(Command)] BY <1>4, NoCommands
  <2> QED BY <1>3, <1>6, <2>1 DEF TypeOK
<1>8. \A r \in Queue : /\ Ran(r)' = Ran(r) /\ Dropped(r)' = Dropped(r) /\ Current(r)' = Current(r)
  BY <1>3 DEF Ran, Dropped, Current
<1>9. \A r \in Queue : r # Q => Queued(r)' = Queued(r) /\ Waiting(r)' = Waiting(r)
  BY <1>6, <1>8 DEF Queued, Waiting
<1>10. Waiting(Q)' = Waiting(Q) \union Kept(w) BY <1>1, <1>6, <1>8 DEF Waiting
<1>11. Before(Ran(Q) \union Dropped(Q) \union Waiting(Q), Kept(w)) BY <1>1 DEF RunInOrder, WriterInOrder
(* The orders. *)
<1>12. ASSUME NEW r \in Queue PROVE QueueInOrder(r)'
  <2>1. CASE r # Q
    <3>1. Dropped(r)' = Dropped(r) /\ done'[r] = done[r] /\ current'[r].commands = current[r].commands
          /\ command_buffers'[r] = command_buffers[r] /\ QueueInOrder(r)
      BY <2>1, <1>3, <1>6, <1>8 DEF RunInOrder
    <3> QED BY <3>1, QueueLeftAlone
  <2>2. CASE r = Q
    <3>1. QueueInOrder(Q) BY <1>1 DEF RunInOrder
    <3>2. Before(Ran(Q)' \union Dropped(Q)', Waiting(Q)')
      <4>1. Before(Ran(Q) \union Dropped(Q), Waiting(Q)) BY <3>1 DEF QueueInOrder
      <4>2. Before(Ran(Q) \union Dropped(Q), Kept(w)) BY <1>11 DEF Before
      <4> QED BY <4>1, <4>2, <1>1, <1>8, <1>10 DEF Before
    <3>3. Before(Current(Q)', Queued(Q)')
      <4>1. Before(Current(Q), Queued(Q)) BY <3>1 DEF QueueInOrder
      <4>2. Before(Current(Q), Kept(w)) BY <1>11 DEF Before, Waiting
      <4> QED BY <4>1, <4>2, <1>1, <1>6, <1>8 DEF Before
    <3>4. Before(Ran(Q)', Dropped(Q)') BY <3>1, <1>1, <1>8 DEF QueueInOrder
    <3>5. Ordered(done'[Q]) /\ Ordered(current'[Q].commands) BY <3>1, <1>3 DEF QueueInOrder
    <3> QED BY <2>2, <3>2, <3>3, <3>4, <3>5, <1>6 DEF QueueInOrder
  <2> QED BY <2>1, <2>2
<1>13. ASSUME NEW v \in Writer PROVE WriterInOrder(v)'
  <2>1. CASE v = w BY <2>1, <1>5 DEF WriterInOrder, Before
  <2>2. CASE v # w
    <3>1. Ordered(command_buffer'[v]) BY <2>2, <1>5 DEF RunInOrder, WriterInOrder
    <3>2. ASSUME NEW r \in Queue PROVE Before(Ran(r)' \union Dropped(r)' \union Waiting(r)', Kept(v)')
      <4>1. Before(Ran(r) \union Dropped(r) \union Waiting(r), Kept(v)) BY DEF RunInOrder, WriterInOrder
      <4>2. \A c \in Kept(w) : \A d \in Kept(v) : c.writer # d.writer
        BY <2>2, EveryCommandIff DEF RunInOrder
      <4>3. CASE r # Q BY <4>1, <4>3, <1>5, <1>8, <1>9, <2>2
      <4>4. CASE r = Q BY <4>1, <4>2, <4>4, <1>5, <1>8, <1>10, <2>2 DEF Before
      <4> QED BY <4>3, <4>4
    <3> QED BY <3>1, <3>2 DEF WriterInOrder
  <2> QED BY <2>1, <2>2
<1>14. EveryCommand'
  <2>1. ASSUME NEW r \in Queue, NEW c, c \in Ran(r)' \/ c \in Waiting(r)' PROVE QueueOf(m_object_id'[c.writer]) = r
    <3>1. CASE c \in Ran(r) \/ c \in Waiting(r) BY <3>1, <1>3, EveryCommandIff DEF RunInOrder
    <3>2. CASE r = Q /\ c \in Kept(w)
      <4>1. c.writer = w BY <3>2, EveryCommandIff DEF RunInOrder
      <4> QED BY <4>1, <3>2, <1>1, <1>3
    <3> QED BY <3>1, <3>2, <2>1, <1>8, <1>9, <1>10
  <2>2. \A v \in Writer : \A c \in Kept(v)' : c.writer = v
    BY <1>5, EveryCommandIff DEF RunInOrder
  <2>3. \A c : Somewhere(c)' <=> Somewhere(c)
    BY <1>1, <1>3, <1>5, <1>8, <1>9, <1>10 DEF Somewhere
  <2>4. \A c : c \in Command /\ c.number <= written'[c.writer] <=> Somewhere(c)'
    BY <2>3, <1>3, EveryCommandIff DEF RunInOrder
  <2> QED BY <2>1, <2>2, <2>4, EveryCommandIffNext
<1>15. RunInOrder' BY <1>12, <1>13, <1>14 DEF RunInOrder
(* The counter. *)
<1>16. /\ IsFiniteSet(Kept(w)) /\ Cardinality(Kept(w)) = Len(command_buffer[w])
       /\ Waiting(Q) \intersect Kept(w) = {}
       /\ IsFiniteSet(Waiting(Q))
  <2>1. Ordered(command_buffer[w]) BY DEF RunInOrder, WriterInOrder
  <2>2. IsFiniteSet(Kept(w)) /\ Cardinality(Kept(w)) = Len(command_buffer[w])
    BY <1>2, <2>1, CountedOnce DEF Kept
  <2>3. Kept(w) \subseteq Command BY PlacesOfCommands
  <2>4. ASSUME NEW c \in Waiting(Q) \intersect Kept(w) PROVE FALSE
    <3>1. c.number \in Nat /\ c.number < c.number BY <2>3, <2>4, <1>11 DEF Before, Command
    <3> QED BY <3>1
  <2> QED BY <2>2, <2>4, <1>1 DEF DroppedInv
<1>17. /\ IsFiniteSet(Waiting(Q)')
       /\ Cardinality(Waiting(Q)') = Cardinality(Waiting(Q)) + Len(command_buffer[w])
  <2>1. /\ IsFiniteSet(Waiting(Q) \union Kept(w))
        /\ Cardinality(Waiting(Q) \union Kept(w))
              = Cardinality(Waiting(Q)) + Cardinality(Kept(w)) - Cardinality(Waiting(Q) \intersect Kept(w))
    BY <1>16, FS_Union
  <2>2. Cardinality({}) = 0 BY FS_EmptySet
  <2>3. Cardinality(Waiting(Q)) \in Nat /\ Cardinality(Kept(w)) \in Nat BY <1>16, FS_CardinalityType
  <2>4. Cardinality(Waiting(Q) \intersect Kept(w)) = 0 BY <2>2, <1>16
  <2>5. Cardinality(Waiting(Q) \union Kept(w)) = Cardinality(Waiting(Q)) + Cardinality(Kept(w))
    BY <2>1, <2>3, <2>4
  <2> QED BY <2>1, <2>5, <1>10, <1>16
<1>18. ASSUME NEW r \in Queue
       PROVE  num_commands'[r] = Cardinality(Waiting(r)') + processed'[r] + Cardinality(Dropped(r)')
  <2>1. num_commands[r] = Cardinality(Waiting(r)) + processed[r] + Cardinality(Dropped(r)) BY DEF CommandsCounted
  <2>2. CASE r # Q BY <2>1, <2>2, <1>3, <1>6, <1>8, <1>9
  <2>3. CASE r = Q
    <3>1. /\ Cardinality(Waiting(Q)) \in Nat /\ Cardinality(Dropped(Q)) \in Nat /\ processed[Q] \in Nat
          /\ Len(command_buffer[w]) \in Nat
      BY <1>1, <1>2, PlacesOfCommands, LenProperties DEF TypeOK
    <3>2. processed'[Q] = processed[Q] /\ Dropped(Q)' = Dropped(Q) BY <1>1, <1>3, <1>8
    <3>3. num_commands'[Q] = num_commands[Q] + Len(command_buffer[w]) BY <1>6
    <3> QED BY <2>1, <2>3, <3>1, <3>2, <3>3, <1>17
  <2> QED BY <2>2, <2>3
<1>19. CommandsCounted' BY <1>18 DEF CommandsCounted
<1>20. SlicesHaveCommands' BY <1>3 DEF SlicesHaveCommands
<1>21. EntriesInv'
  <2>1. ASSUME NEW e, NEW r \in Queue, EntryFor(e, r) PROVE EntryFor(e, r)'
    BY <2>1, <1>3 DEF EntryFor
  <2>2. command_buffer[w] # <<>> => EntryFor(entry, Q)'
    <3>1. \A c \in ToSet(command_buffer[w]) : m_object_id'[c.writer] = o
      BY <1>1, <1>3, EveryCommandIff DEF RunInOrder, Kept
    <3> QED BY <3>1, <1>1, <1>2 DEF EntryFor
  <2>3. ASSUME NEW r \in Queue, NEW i \in DOMAIN command_buffers'[r] PROVE EntryFor(command_buffers[r][i], r)'
    <3>1. PICK e : e = command_buffers'[r][i] OBVIOUS
    <3>2. EntryFor(e, r)'
      <4>1. CASE r # Q
        <5>1. e = command_buffers[r][i] /\ i \in DOMAIN command_buffers[r] BY <3>1, <4>1, <1>6
        <5>2. EntryFor(e, r) BY <5>1 DEF EntriesInv
        <5> QED BY <5>2, <2>1
      <4>2. CASE r = Q
        <5>1. CASE \E k \in DOMAIN command_buffers[Q] : e = command_buffers[Q][k]
          <6>1. EntryFor(e, r) BY <4>2, <5>1 DEF EntriesInv
          <6> QED BY <6>1, <2>1
        <5>2. CASE e = entry /\ command_buffer[w] # <<>> BY <4>2, <5>2, <2>2
        <5> QED BY <5>1, <5>2, <3>1, <4>2, <1>6
      <4> QED BY <4>1, <4>2
    <3> QED BY <3>1, <3>2 DEF EntryFor
  <2>4. ASSUME NEW r \in Queue
        PROVE  /\ current'[r].commands # <<>> => EntryFor(current[r], r)'
               /\ flush'[r] = "run" /\ r = "main" => current'[r].object \in alive'
    BY <1>3 DEF EntriesInv, EntryFor
  <2> QED BY <2>3, <2>4 DEF EntriesInv
<1>22. DroppedInv'
  <2>1. \A r \in Queue : IsFiniteSet(Waiting(r)')
    BY <1>9, <1>17 DEF DroppedInv
  <2> QED BY <2>1, <1>3 DEF DroppedInv
<1>23. IdleInv' BY <1>3 DEF IdleInv
<1> QED BY <1>7, <1>15, <1>19, <1>20, <1>21, <1>22, <1>23

(* The steps of a flush move commands within their queue. *)
LEMMA OrderWithinQueue ==
    ASSUME RunInOrder, NEW q \in Queue,
           UNCHANGED <<m_object_id, written, command_buffer>>,
           \A r \in Queue : r # q => /\ done'[r] = done[r] /\ command_buffers'[r] = command_buffers[r]
                                     /\ current'[r].commands = current[r].commands
                                     /\ Dropped(r)' = Dropped(r),
           Handed(q)' = Handed(q),
           Ran(q)' \union Waiting(q)' \subseteq Ran(q) \union Waiting(q),
           dropped \subseteq dropped', dropped' \subseteq dropped \union Handed(q),
           QueueInOrder(q)'
    PROVE  RunInOrder'
<1>1. ASSUME NEW r \in Queue, r # q
      PROVE  /\ Ran(r)' = Ran(r) /\ Waiting(r)' = Waiting(r) /\ Handed(r)' = Handed(r)
             /\ QueueInOrder(r)'
  BY <1>1, QueueLeftAlone DEF RunInOrder
<1>2. \A r \in Queue : QueueInOrder(r)' BY <1>1
<1>3. \A r \in Queue : Handed(r)' = Handed(r) BY <1>1
<1>4. \A w \in Writer : Kept(w)' = Kept(w) BY DEF Kept
<1>5. \A w \in Writer : WriterInOrder(w)'
  BY <1>3, <1>4 DEF RunInOrder, WriterInOrder, Handed
<1>6. EveryCommand'
  <2>1. ASSUME NEW r \in Queue, NEW c, c \in Ran(r)' \/ c \in Waiting(r)' PROVE QueueOf(m_object_id'[c.writer]) = r
    <3>1. c \in Ran(r) \/ c \in Waiting(r) BY <2>1, <1>1
    <3> QED BY <3>1, EveryCommandIff DEF RunInOrder
  <2>2. \A w \in Writer : \A c \in Kept(w)' : c.writer = w
    BY <1>4, EveryCommandIff DEF RunInOrder
  <2>3. \A c : Somewhere(c) <=> c \in dropped \/ (\E r \in Queue : c \in Handed(r)) \/ \E w \in Writer : c \in Kept(w)
    BY DEF Somewhere, Handed, Dropped
  <2>4. \A c : Somewhere(c)' <=> c \in dropped' \/ (\E r \in Queue : c \in Handed(r)') \/ \E w \in Writer : c \in Kept(w)'
    BY DEF Somewhere, Handed, Dropped
  <2>5. \A c : Somewhere(c)' <=> Somewhere(c)
    BY <2>3, <2>4, <1>3, <1>4
  <2>6. \A c : c \in Command /\ c.number <= written'[c.writer] <=> Somewhere(c)'
    BY <2>5, EveryCommandIff DEF RunInOrder
  <2> QED BY <2>1, <2>2, <2>6, EveryCommandIffNext
<1> QED BY <1>2, <1>5, <1>6 DEF RunInOrder

(* The counters and the buffers of the queues a step of q leaves alone. *)
LEMMA CountsWithinQueue ==
    ASSUME CommandInv, NEW q \in Queue,
           \A r \in Queue : r # q => /\ done'[r] = done[r] /\ command_buffers'[r] = command_buffers[r]
                                     /\ current'[r].commands = current[r].commands
                                     /\ Dropped(r)' = Dropped(r)
                                     /\ num_commands'[r] = num_commands[r] /\ processed'[r] = processed[r],
           IsFiniteSet(Waiting(q)'), 
           num_commands'[q] = Cardinality(Waiting(q)') + processed'[q] + Cardinality(Dropped(q)')
    PROVE  CommandsCounted' /\ \A r \in Queue : IsFiniteSet(Waiting(r)')
<1>1. ASSUME NEW r \in Queue, r # q
      PROVE  /\ IsFiniteSet(Waiting(r)')
             /\ num_commands'[r] = Cardinality(Waiting(r)') + processed'[r] + Cardinality(Dropped(r)')
  <2>1. Waiting(r)' = Waiting(r) /\ Dropped(r)' = Dropped(r)
    BY <1>1, QueueLeftAlone DEF CommandInv, RunInOrder
  <2>2. num_commands[r] = Cardinality(Waiting(r)) + processed[r] + Cardinality(Dropped(r))
    BY DEF CommandInv, QueuesExact, CommandsCounted
  <2> QED BY <2>1, <2>2, <1>1 DEF CommandInv, DroppedInv
<1> QED BY <1>1 DEF CommandsCounted

(* The next buffer is the oldest one: what waits stays the same. *)
LEMMA TakeBufferKeeps ==
    ASSUME CommandInv, NEW q \in Queue, TakeBuffer(q)
    PROVE  CommandInv'
<1> USE DEF CommandInv, QueuesExact
<1>1. UNCHANGED <<m_object_id, written, command_buffer, exists, alive, num_commands, left, processed, done, dropped>>
  BY DEF TakeBuffer, writerVars
<1>2. /\ command_buffers \in [Queue -> Seq(Entry)] /\ current \in [Queue -> Entry]
      /\ flush \in [Queue -> {"idle", "loop", "time", "run", "end"}] /\ in_progress \in [Queue -> BOOLEAN]
      /\ old \in [Queue -> BOOLEAN] /\ flush[q] = "loop"
  BY DEF TypeOK, TakeBuffer
<1>3. CASE in_progress[q] \/ command_buffers[q] = <<>>
  <2>1. UNCHANGED <<command_buffers, current, in_progress, old>> BY <1>3 DEF TakeBuffer
  <2>2. /\ RunInOrder'
        /\ \A r \in Queue : Waiting(r)' = Waiting(r) /\ Dropped(r)' = Dropped(r)
    BY <1>1, <2>1, CommandsLeftAlone
  <2>3. \E f \in {"time", "end"} : flush' = [flush EXCEPT ![q] = f] /\ (f = "time" => in_progress[q])
    BY <1>3 DEF TakeBuffer
  <2>4. PICK f \in {"time", "end"} : flush' = [flush EXCEPT ![q] = f] /\ (f = "time" => in_progress[q])
    BY <2>3
  <2>5. TypeOK' BY <1>1, <1>2, <2>1, <2>4 DEF TypeOK
  <2>6. CommandsCounted' BY <1>1, <2>2 DEF CommandsCounted
  <2>7. SlicesHaveCommands' BY <1>1, <1>2, <2>1, <2>4 DEF SlicesHaveCommands
  <2>8. EntriesInv' BY <1>1, <1>2, <2>1, <2>4 DEF EntriesInv, EntryFor
  <2>9. DroppedInv' BY <1>1, <2>2 DEF DroppedInv
  <2>10. IdleInv' BY <1>1, <1>2, <2>4 DEF IdleInv
  <2> QED BY <2>2, <2>5, <2>6, <2>7, <2>8, <2>9, <2>10
<1>4. CASE ~ in_progress[q] /\ command_buffers[q] # <<>>
  <2>1. PICK b \in BOOLEAN :
          /\ flush' = [flush EXCEPT ![q] = "time"]
          /\ current' = [current EXCEPT ![q] = Head(command_buffers[q])]
          /\ command_buffers' = [command_buffers EXCEPT ![q] = Tail(command_buffers[q])]
          /\ in_progress' = [in_progress EXCEPT ![q] = TRUE]
          /\ old' = [old EXCEPT ![q] = b]
    BY <1>4 DEF TakeBuffer
  <2>2. PICK bs \in Seq(Entry) : bs = command_buffers[q] /\ bs # <<>> BY <1>2, <1>4
  <2>3. PICK h \in Entry : h = Head(bs) BY <2>2, OneBufferLess
  <2>4. PICK t \in Seq(Entry) : t = Tail(bs) BY <2>2, OneBufferLess
  <2>5. /\ current'[q] = h /\ command_buffers'[q] = t /\ in_progress'[q] = TRUE /\ flush'[q] = "time"
        /\ \A r \in Queue : r # q => /\ current'[r] = current[r] /\ command_buffers'[r] = command_buffers[r]
                                     /\ in_progress'[r] = in_progress[r] /\ flush'[r] = flush[r]
    BY <1>2, <2>1, <2>2, <2>3, <2>4
  <2>6. /\ CommandsIn(bs) = ToSet(h.commands) \union CommandsIn(t)
        /\ InSequence(bs) => Ordered(h.commands) /\ InSequence(t) /\ Before(ToSet(h.commands), CommandsIn(t))
        /\ \E k \in DOMAIN bs : h = bs[k]
        /\ \A i \in DOMAIN t : \E k \in DOMAIN bs : t[i] = bs[k]
    BY <2>2, <2>3, <2>4, OneBufferLess
  <2>7. QueueInOrder(q) BY DEF RunInOrder
  <2>8. current[q].commands = <<>> /\ Current(q) = {}
    BY <1>4, NoCommands DEF SlicesHaveCommands, Current
  <2>9. /\ Ran(q)' = Ran(q) /\ \A r \in Queue : Dropped(r)' = Dropped(r)
    BY <1>1 DEF Ran, Dropped
  <2>10. Current(q)' = ToSet(h.commands) /\ Queued(q)' = CommandsIn(t) /\ Queued(q) = CommandsIn(bs)
    BY <2>2, <2>5 DEF Current, Queued
  <2>11. Waiting(q)' = Waiting(q) BY <2>6, <2>8, <2>10 DEF Waiting
  <2>12. QueueInOrder(q)'
    <3>1. Ordered(h.commands) /\ InSequence(t) /\ Before(ToSet(h.commands), CommandsIn(t))
      BY <2>2, <2>6, <2>7 DEF QueueInOrder
    <3>2. Ordered(done'[q]) /\ Before(Ran(q)', Dropped(q)') /\ Before(Ran(q)' \union Dropped(q)', Waiting(q)')
      BY <2>7, <2>9, <2>11, <1>1 DEF QueueInOrder
    <3> QED BY <3>1, <3>2, <2>5, <2>10 DEF QueueInOrder
  <2>13. RunInOrder'
    <3>1. Handed(q)' = Handed(q) BY <2>9, <2>11 DEF Handed
    <3>2. \A r \in Queue : r # q => /\ done'[r] = done[r] /\ command_buffers'[r] = command_buffers[r]
                                    /\ current'[r].commands = current[r].commands /\ Dropped(r)' = Dropped(r)
      BY <1>1, <2>5, <2>9
    <3> QED BY <3>1, <3>2, <2>9, <2>11, <2>12, <1>1, OrderWithinQueue
  <2>14. TypeOK'
    <3>1. /\ command_buffers' \in [Queue -> Seq(Entry)] /\ current' \in [Queue -> Entry]
      BY <1>2, <2>1, <2>2, <2>3, <2>4
    <3> QED BY <3>1, <1>1, <1>2, <2>1 DEF TypeOK
  <2>15. CommandsCounted' /\ \A r \in Queue : IsFiniteSet(Waiting(r)')
    <3>1. num_commands[q] = Cardinality(Waiting(q)) + processed[q] + Cardinality(Dropped(q)) /\ IsFiniteSet(Waiting(q))
      BY DEF CommandsCounted, DroppedInv
    <3>2. num_commands'[q] = Cardinality(Waiting(q)') + processed'[q] + Cardinality(Dropped(q)') /\ IsFiniteSet(Waiting(q)')
      BY <3>1, <1>1, <2>9, <2>11
    <3> QED BY <3>2, <1>1, <2>5, <2>9, CountsWithinQueue
  <2>16. ASSUME NEW e \in Entry, \E k \in DOMAIN bs : e = bs[k] PROVE EntryFor(e, q)' /\ e.commands # <<>>
    <3>1. EntryFor(e, q) BY <2>2, <2>16 DEF EntriesInv
    <3> QED BY <3>1, <1>1 DEF EntryFor
  <2>17. SlicesHaveCommands'
    <3>1. h.commands # <<>> BY <2>3, <2>6, <2>16
    <3> QED BY <3>1, <1>1, <2>5 DEF SlicesHaveCommands
  <2>18. EntriesInv'
    <3>1. ASSUME NEW r \in Queue, r # q
          PROVE  /\ \A i \in DOMAIN command_buffers'[r] : EntryFor(command_buffers[r][i], r)'
                 /\ current'[r].commands # <<>> => EntryFor(current[r], r)'
                 /\ flush'[r] = "run" /\ r = "main" => current'[r].object \in alive'
      BY <3>1, <1>1, <2>5 DEF EntriesInv, EntryFor
    <3>2. ASSUME NEW i \in DOMAIN t PROVE EntryFor(t[i], q)'
      <4>1. PICK e \in Entry : e = t[i] BY <2>4, ListOfBuffers
      <4>2. EntryFor(e, q)' BY <4>1, <2>6, <2>16
      <4> QED BY <4>1, <4>2
    <3>3. EntryFor(h, q)' BY <2>3, <2>6, <2>16
    <3>4. /\ \A i \in DOMAIN command_buffers'[q] : EntryFor(command_buffers[q][i], q)'
          /\ current'[q].commands # <<>> => EntryFor(current[q], q)'
          /\ flush'[q] # "run"
      BY <3>2, <3>3, <2>5 DEF EntryFor
    <3> QED BY <3>1, <3>4 DEF EntriesInv
  <2>19. DroppedInv' BY <1>1, <2>15 DEF DroppedInv
  <2>20. IdleInv' BY <1>1, <2>5 DEF IdleInv
  <2> QED BY <2>13, <2>14, <2>15, <2>17, <2>18, <2>19, <2>20
<1> QED BY <1>3, <1>4

(* The command that runs is the first of those that wait, and none of its   *)
(* writer was dropped, for the object is alive.                             *)
LEMMA RunCommandKeeps ==
    ASSUME CommandInv, NEW q \in Queue, RunCommand(q)
    PROVE  CommandInv'
<1> USE DEF CommandInv, QueuesExact
<1>1. UNCHANGED <<m_object_id, written, command_buffer, exists, alive, command_buffers, num_commands, old, dropped>>
  BY DEF RunCommand, writerVars, bufferVars
<1>2. /\ current \in [Queue -> Entry] /\ done \in [Queue -> Seq(Command)] /\ in_progress \in [Queue -> BOOLEAN]
      /\ flush \in [Queue -> {"idle", "loop", "time", "run", "end"}] /\ flush[q] = "run"
      /\ left \in [Queue -> Nat] /\ processed \in [Queue -> Nat]
  BY DEF TypeOK, RunCommand
<1>3. current[q].commands \in Seq(Command) /\ current[q].commands # <<>>
  <2>1. current[q].commands \in Seq(Command) BY <1>2 DEF Entry
  <2>2. left[q] \in 1 .. Len(current[q].commands) BY <1>2 DEF SlicesHaveCommands
  <2> QED BY <2>1, <2>2, ListOfCommands
<1>4. PICK s \in Seq(Command) : s = current[q].commands /\ s # <<>> BY <1>3
<1>5. PICK c \in Command : c = Head(s) BY <1>4, OneLess
<1>6. PICK t \in Seq(Command) : t = Tail(s) BY <1>4, OneLess
<1>7. PICK d \in Seq(Command) : d = done[q] BY <1>2
<1>8. /\ done'[q] = Append(d, c) /\ current'[q].commands = t /\ current'[q].object = current[q].object
      /\ processed'[q] = processed[q] + 1 /\ left'[q] = left[q] - 1
      /\ flush'[q] = IF left[q] = 1 THEN "loop" ELSE "run"
      /\ in_progress'[q] = (Len(s) > 1)
      /\ \A r \in Queue : r # q => /\ current'[r] = current[r] /\ done'[r] = done[r] /\ processed'[r] = processed[r]
                                   /\ left'[r] = left[r] /\ flush'[r] = flush[r] /\ in_progress'[r] = in_progress[r]
  <2>1. /\ done'[q] = Append(d, c) /\ processed'[q] = processed[q] + 1 /\ left'[q] = left[q] - 1
        /\ flush'[q] = IF left[q] = 1 THEN "loop" ELSE "run"
        /\ in_progress'[q] = (Len(s) > 1)
    BY <1>2, <1>4, <1>5, <1>7 DEF RunCommand
  <2>2. current'[q].commands = t /\ current'[q].object = current[q].object
    BY <1>2, <1>4, <1>6 DEF RunCommand, Entry
  <2> QED BY <2>1, <2>2 DEF RunCommand
<1>9. /\ c \in ToSet(s) /\ ToSet(s) = {c} \union ToSet(t) /\ Len(t) = Len(s) - 1
      /\ Ordered(s) => Ordered(t) /\ Before({c}, ToSet(t))
      /\ Len(s) \in Nat /\ Len(t) \in Nat /\ (t # <<>> <=> Len(t) > 0)
  <2>1. Len(s) \in Nat /\ Len(t) \in Nat /\ (t # <<>> <=> Len(t) > 0) BY ListOfCommands
  <2> QED BY <2>1, <1>4, <1>5, <1>6, OneLess
<1>10. QueueInOrder(q) BY DEF RunInOrder
(* Where the commands of the queue are. *)
<1>11. /\ Ran(q)' = Ran(q) \union {c} /\ Queued(q)' = Queued(q) /\ \A r \in Queue : Dropped(r)' = Dropped(r)
       /\ Current(q) = {c} \union ToSet(t) /\ Current(q)' = ToSet(t)
  <2>1. Ran(q)' = Ran(q) \union {c} BY <1>7, <1>8, OneMore DEF Ran
  <2>2. Queued(q)' = Queued(q) /\ \A r \in Queue : Dropped(r)' = Dropped(r) BY <1>1 DEF Queued, Dropped
  <2>3. Current(q) = {c} \union ToSet(t) /\ Current(q)' = ToSet(t) BY <1>4, <1>8, <1>9 DEF Current
  <2> QED BY <2>1, <2>2, <2>3
<1>12. Ordered(t) /\ Before({c}, ToSet(t)) BY <1>4, <1>9, <1>10 DEF QueueInOrder
<1>13. Before({c}, Queued(q)) /\ Before(Current(q)', Queued(q))
  <2>1. Before(Current(q), Queued(q)) BY <1>10 DEF QueueInOrder
  <2> QED BY <2>1, <1>11 DEF Before
<1>14. Waiting(q) = {c} \union ToSet(t) \union Queued(q) /\ Waiting(q)' = ToSet(t) \union Queued(q)
  BY <1>11 DEF Waiting
<1>15. Before({c}, Waiting(q)') BY <1>12, <1>13, <1>14 DEF Before
<1>16. c \notin Waiting(q)' /\ Waiting(q)' = Waiting(q) \ {c} /\ c \in Waiting(q)
  <2>1. c.number \in Nat BY DEF Command
  <2>2. ~ (c.number < c.number) BY <2>1
  <2>3. c \notin Waiting(q)' BY <2>2, <1>15 DEF Before
  <2> QED BY <2>3, <1>14
(* None of its writer was dropped. *)
<1>17. ASSUME NEW e \in Dropped(q) PROVE e.writer # c.writer
  <2>1. m_object_id[e.writer] \in Object \ alive /\ QueueOf(m_object_id[e.writer]) = q
    BY DEF Dropped, DroppedInv
  <2>2. q = "main" BY <2>1, CommandAssumption DEF CommandAssumption, QueueOf
  <2>3. current[q].object \in alive BY <2>2, <1>2 DEF EntriesInv
  <2>4. m_object_id[c.writer] = current[q].object BY <1>4, <1>9 DEF EntriesInv, EntryFor
  <2> QED BY <2>1, <2>3, <2>4
<1>18. QueueInOrder(q)'
  <2>1. Before(Ran(q) \union Dropped(q), Waiting(q)) BY <1>10 DEF QueueInOrder
  <2>2. Ordered(done'[q])
    <3>1. Before(ToSet(d), {c}) BY <2>1, <1>7, <1>16 DEF Before, Ran
    <3>2. Ordered(d) BY <1>7, <1>10 DEF QueueInOrder
    <3> QED BY <3>1, <3>2, <1>8, OneMore
  <2>3. Before(Ran(q)', Dropped(q)')
    <3>1. Before(Ran(q), Dropped(q)) BY <1>10 DEF QueueInOrder
    <3> QED BY <3>1, <1>11, <1>17 DEF Before
  <2>4. Before(Ran(q)' \union Dropped(q)', Waiting(q)')
    BY <2>1, <1>11, <1>15, <1>16 DEF Before
  <2>5. InSequence(command_buffers'[q]) BY <1>1, <1>10 DEF QueueInOrder
  <2>6. Ordered(current'[q].commands) /\ Before(Current(q)', Queued(q)') BY <1>8, <1>11, <1>12, <1>13
  <2> QED BY <2>2, <2>3, <2>4, <2>5, <2>6 DEF QueueInOrder
<1>19. RunInOrder'
  <2>1. Handed(q)' = Handed(q) /\ Ran(q)' \union Waiting(q)' \subseteq Ran(q) \union Waiting(q)
    BY <1>11, <1>16 DEF Handed
  <2>2. \A r \in Queue : r # q => /\ done'[r] = done[r] /\ command_buffers'[r] = command_buffers[r]
                                  /\ current'[r].commands = current[r].commands /\ Dropped(r)' = Dropped(r)
    BY <1>1, <1>8, <1>11
  <2> QED BY <2>1, <2>2, <1>1, <1>18, OrderWithinQueue
<1>20. left[q] \in 1 .. Len(s) BY <1>2, <1>4 DEF SlicesHaveCommands
<1>21. TypeOK'
  <2>1. current' \in [Queue -> Entry]
    <3>1. [current[q] EXCEPT !.commands = Tail(current[q].commands)] \in Entry
      BY <1>2, <1>4, <1>6 DEF Entry
    <3> QED BY <3>1, <1>2 DEF RunCommand
  <2>2. done' \in [Queue -> Seq(Command)]
    <3>1. Append(d, c) \in Seq(Command) BY OneMore
    <3> QED BY <3>1, <1>2, <1>4, <1>5, <1>7 DEF RunCommand
  <2>3. left' \in [Queue -> Nat] BY <1>2, <1>9, <1>20 DEF RunCommand
  <2>4. /\ processed' \in [Queue -> Nat] /\ in_progress' \in [Queue -> BOOLEAN]
        /\ flush' \in [Queue -> {"idle", "loop", "time", "run", "end"}]
    BY SMTT(30), <1>2 DEF RunCommand
  <2> QED BY <2>1, <2>2, <2>3, <2>4, <1>1 DEF TypeOK
<1>22. CommandsCounted' /\ \A r \in Queue : IsFiniteSet(Waiting(r)')
  <2>1. /\ num_commands[q] = Cardinality(Waiting(q)) + processed[q] + Cardinality(Dropped(q))
        /\ IsFiniteSet(Waiting(q)) /\ Cardinality(Waiting(q)) \in Nat /\ Cardinality(Dropped(q)) \in Nat
    BY PlacesOfCommands DEF CommandsCounted
  <2>2. IsFiniteSet(Waiting(q)') /\ Cardinality(Waiting(q)') = Cardinality(Waiting(q)) - 1
    BY <2>1, <1>16, FS_RemoveElement
  <2>3. Cardinality(Dropped(q)') = Cardinality(Dropped(q)) BY <1>11
  <2>4. num_commands'[q] = Cardinality(Waiting(q)') + processed'[q] + Cardinality(Dropped(q)')
    BY <2>1, <2>2, <2>3, <1>1, <1>2, <1>8
  <2> QED BY <2>2, <2>4, <1>1, <1>8, <1>11, CountsWithinQueue
<1>23. SlicesHaveCommands'
  <2>1. ASSUME flush'[q] = "run" PROVE left'[q] \in 1 .. Len(t)
    BY <2>1, <1>8, <1>9, <1>20
  <2>2. in_progress'[q] <=> t # <<>>
    <3>1. (Len(s) > 1) <=> t # <<>> BY <1>9
    <3>2. in_progress'[q] = (Len(s) > 1) BY <1>8
    <3> QED BY ONLY <3>1, <3>2, Zenon
  <2>3. flush'[q] # "time" BY <1>8
  <2> QED BY <2>1, <2>2, <2>3, <1>8 DEF SlicesHaveCommands
<1>24. EntriesInv'
  <2>1. ASSUME NEW r \in Queue, r # q
        PROVE  /\ \A i \in DOMAIN command_buffers'[r] : EntryFor(command_buffers[r][i], r)'
               /\ current'[r].commands # <<>> => EntryFor(current[r], r)'
               /\ flush'[r] = "run" /\ r = "main" => current'[r].object \in alive'
    BY <2>1, <1>1, <1>8 DEF EntriesInv, EntryFor
  <2>2. \A i \in DOMAIN command_buffers'[q] : EntryFor(command_buffers[q][i], q)'
    BY <1>1 DEF EntriesInv, EntryFor
  <2>3. t # <<>> => EntryFor(current[q], q)'
    <3>1. QueueOf(current[q].object) = q /\ \A e \in ToSet(s) : m_object_id[e.writer] = current[q].object
      BY <1>4 DEF EntriesInv, EntryFor
    <3> QED BY <3>1, <1>1, <1>8, <1>9 DEF EntryFor
  <2>4. flush'[q] = "run" /\ q = "main" => current'[q].object \in alive'
    BY <1>1, <1>2, <1>8 DEF EntriesInv
  <2> QED BY <2>1, <2>2, <2>3, <2>4, <1>8 DEF EntriesInv
<1>25. DroppedInv' BY <1>1, <1>22 DEF DroppedInv
<1>26. IdleInv' BY <1>8 DEF IdleInv
<1> QED BY <1>19, <1>21, <1>22, <1>23, <1>24, <1>25, <1>26

(* A buffer is cleared only when its object is gone. *)
LEMMA ClearedForNoObject ==
    ASSUME CommandInv, NEW q \in Queue, ClearBuffer(q)
    PROVE  /\ q = "main" /\ current[q].commands # <<>> /\ EntryFor(current[q], q)
           /\ \A c \in Current(q) : m_object_id[c.writer] \in Object \ alive
<1> USE DEF CommandInv, QueuesExact
<1>1. q = "main" /\ current[q].object \notin alive /\ flush[q] = "time"
  BY DEF ClearBuffer, HasObject, Queue
<1>2. current[q].commands # <<>> /\ EntryFor(current[q], q)
  BY <1>1 DEF SlicesHaveCommands, EntriesInv
<1>3. current[q].object \in Object
  <2>1. current[q].object \in Object \union {RServer} BY DEF TypeOK, Entry
  <2> QED BY <2>1, <1>1, <1>2 DEF EntryFor, QueueOf
<1> QED BY <1>1, <1>2, <1>3 DEF EntryFor, Current

(* A buffer is cleared after its commands have run. *)
LEMMA ClearBufferKeeps ==
    ASSUME CommandInv, NEW q \in Queue, ClearBuffer(q)
    PROVE  CommandInv'
<1> USE DEF CommandInv, QueuesExact
<1>1. UNCHANGED <<m_object_id, written, command_buffer, exists, alive, command_buffers, num_commands, old, left,
                  processed, done>>
  BY DEF ClearBuffer, writerVars, bufferVars
<1>2. /\ current \in [Queue -> Entry] /\ in_progress \in [Queue -> BOOLEAN]
      /\ flush \in [Queue -> {"idle", "loop", "time", "run", "end"}] /\ dropped \subseteq Command
  BY DEF TypeOK
<1>3. /\ dropped' = dropped \union Current(q)
      /\ current'[q].commands = <<>> /\ in_progress'[q] = FALSE /\ flush'[q] = "loop"
      /\ \A r \in Queue : r # q => /\ current'[r] = current[r]
                                   /\ flush'[r] = flush[r] /\ in_progress'[r] = in_progress[r]
  <2>1. current'[q].commands = <<>> BY <1>2 DEF ClearBuffer, Entry
  <2> QED BY <2>1, <1>2 DEF ClearBuffer, Current
<1>4. /\ q = "main" /\ EntryFor(current[q], q) /\ current[q].commands # <<>>
      /\ \A c \in Current(q) : m_object_id[c.writer] \in Object \ alive
  BY ClearedForNoObject
<1>5. QueueInOrder(q) BY DEF RunInOrder
<1>6. \A c \in Current(q) : QueueOf(m_object_id[c.writer]) = q
  BY <1>4, CommandAssumption DEF CommandAssumption, QueueOf
<1>7. /\ Dropped(q)' = Dropped(q) \union Current(q)
      /\ \A r \in Queue : r # q => Dropped(r)' = Dropped(r)
  BY <1>1, <1>3, <1>6 DEF Dropped
<1>8. Ran(q)' = Ran(q) /\ Queued(q)' = Queued(q) /\ Current(q)' = {}
  BY <1>1, <1>3, NoCommands DEF Ran, Queued, Current
<1>9. Waiting(q) = Current(q) \union Queued(q) /\ Waiting(q)' = Queued(q) BY <1>8 DEF Waiting
<1>10. Before(Current(q), Queued(q)) /\ Before(Ran(q) \union Dropped(q), Waiting(q)) /\ Before(Ran(q), Dropped(q))
  BY <1>5 DEF QueueInOrder
<1>11. QueueInOrder(q)'
  <2>1. Before(Ran(q)', Dropped(q)') BY <1>7, <1>8, <1>9, <1>10 DEF Before
  <2>2. Before(Ran(q)' \union Dropped(q)', Waiting(q)') BY <1>7, <1>8, <1>9, <1>10 DEF Before
  <2>3. Before(Current(q)', Queued(q)') BY <1>8 DEF Before
  <2>4. /\ Ordered(done'[q]) /\ Ordered(current'[q].commands) /\ InSequence(command_buffers'[q])
    BY <1>1, <1>3, <1>5, NoCommands DEF QueueInOrder
  <2> QED BY <2>1, <2>2, <2>3, <2>4 DEF QueueInOrder
<1>12. RunInOrder'
  <2>1. Handed(q)' = Handed(q) /\ Ran(q)' \union Waiting(q)' \subseteq Ran(q) \union Waiting(q)
    BY <1>7, <1>8, <1>9 DEF Handed
  <2>2. \A r \in Queue : r # q => /\ done'[r] = done[r] /\ command_buffers'[r] = command_buffers[r]
                                  /\ current'[r].commands = current[r].commands /\ Dropped(r)' = Dropped(r)
    BY <1>1, <1>3, <1>7
  <2>3. dropped \subseteq dropped' /\ dropped' \subseteq dropped \union Handed(q)
    BY <1>3 DEF Handed, Waiting
  <2> QED BY <2>1, <2>2, <2>3, <1>1, <1>11, OrderWithinQueue
<1>13. TypeOK'
  <2>1. current' \in [Queue -> Entry]
    <3>1. [current[q] EXCEPT !.commands = <<>>] \in Entry BY <1>2, NoCommands DEF Entry
    <3> QED BY <3>1, <1>2 DEF ClearBuffer
  <2>2. dropped' \subseteq Command BY <1>2, <1>3, PlacesOfCommands
  <2>3. in_progress' \in [Queue -> BOOLEAN] /\ flush' \in [Queue -> {"idle", "loop", "time", "run", "end"}]
    BY <1>2 DEF ClearBuffer
  <2> QED BY <2>1, <2>2, <2>3, <1>1 DEF TypeOK
(* The cleared commands were waiting and are dropped: their number counts once. *)
<1>14. /\ IsFiniteSet(Current(q)) /\ IsFiniteSet(Queued(q)) /\ IsFiniteSet(Dropped(q))
       /\ Current(q) \intersect Queued(q) = {} /\ Dropped(q) \intersect Current(q) = {}
  <2>1. IsFiniteSet(Waiting(q)) /\ IsFiniteSet(Dropped(q)) BY PlacesOfCommands
  <2>2. IsFiniteSet(Current(q)) /\ IsFiniteSet(Queued(q)) BY <2>1, <1>9, FS_Subset
  <2>3. \A c \in Current(q) : c.number \in Nat BY PlacesOfCommands DEF Command
  <2>4. \A c \in Current(q) : ~ (c.number < c.number) BY <2>3
  <2>5. ASSUME NEW c \in Current(q), c \in Queued(q) PROVE FALSE BY <2>4, <2>5, <1>10 DEF Before
  <2>6. ASSUME NEW c \in Current(q), c \in Dropped(q) PROVE FALSE BY <2>4, <2>6, <1>9, <1>10 DEF Before
  <2> QED BY <2>1, <2>2, <2>5, <2>6
<1>15. /\ Cardinality(Waiting(q)) = Cardinality(Current(q)) + Cardinality(Queued(q))
       /\ Cardinality(Dropped(q)') = Cardinality(Dropped(q)) + Cardinality(Current(q))
       /\ Cardinality(Current(q)) \in Nat /\ Cardinality(Queued(q)) \in Nat /\ Cardinality(Dropped(q)) \in Nat
  <2>1. Cardinality({}) = 0 BY FS_EmptySet
  <2>2. Cardinality(Current(q)) \in Nat /\ Cardinality(Queued(q)) \in Nat /\ Cardinality(Dropped(q)) \in Nat
    BY <1>14, FS_CardinalityType
  <2>3. Cardinality(Current(q) \union Queued(q))
          = Cardinality(Current(q)) + Cardinality(Queued(q)) - Cardinality(Current(q) \intersect Queued(q))
    BY <1>14, FS_Union
  <2>4. Cardinality(Dropped(q) \union Current(q))
          = Cardinality(Dropped(q)) + Cardinality(Current(q)) - Cardinality(Dropped(q) \intersect Current(q))
    BY <1>14, FS_Union
  <2>5. Cardinality(Current(q) \intersect Queued(q)) = 0 /\ Cardinality(Dropped(q) \intersect Current(q)) = 0
    BY <2>1, <1>14
  <2>6. Cardinality(Current(q) \union Queued(q)) = Cardinality(Current(q)) + Cardinality(Queued(q))
    BY <2>2, <2>3, <2>5
  <2>7. Cardinality(Dropped(q) \union Current(q)) = Cardinality(Dropped(q)) + Cardinality(Current(q))
    BY <2>2, <2>4, <2>5
  <2> QED BY <2>2, <2>6, <2>7, <1>7, <1>9
<1>16. CommandsCounted' /\ \A r \in Queue : IsFiniteSet(Waiting(r)')
  <2>1. num_commands[q] = Cardinality(Waiting(q)) + processed[q] + Cardinality(Dropped(q)) /\ processed[q] \in Nat
    BY DEF CommandsCounted, TypeOK
  <2>2. IsFiniteSet(Waiting(q)') /\ Cardinality(Waiting(q)') = Cardinality(Queued(q)) BY <1>9, <1>14
  <2>3. num_commands'[q] = Cardinality(Waiting(q)') + processed'[q] + Cardinality(Dropped(q)')
    BY <2>1, <2>2, <1>1, <1>15
  <2> QED BY <2>2, <2>3, <1>1, <1>3, <1>7, CountsWithinQueue
<1>17. SlicesHaveCommands' BY <1>1, <1>3 DEF SlicesHaveCommands
<1>18. EntriesInv' BY <1>1, <1>3 DEF EntriesInv, EntryFor
<1>19. DroppedInv'
  <2>1. IsFiniteSet(dropped')
    <3>1. IsFiniteSet(dropped) BY DEF DroppedInv
    <3> QED BY <3>1, <1>3, <1>14, FS_Union
  <2> QED BY <2>1, <1>1, <1>3, <1>4, <1>16 DEF DroppedInv
<1>20. IdleInv' BY <1>1, <1>3 DEF IdleInv
<1> QED BY <1>12, <1>13, <1>16, <1>17, <1>18, <1>19, <1>20

-----------------------------------------------------------------------------
(* All steps. *)

(* Every step keeps the invariant. *)
LEMMA NextKeeps == CommandInv /\ [Next]_vars => CommandInv'
<1> SUFFICES ASSUME CommandInv, [Next]_vars PROVE CommandInv' OBVIOUS
<1>1. ASSUME NEW w \in Writer, AddCommand(w) PROVE CommandInv'
  BY <1>1, AddCommandKeeps
<1>2. ASSUME NEW w \in Writer, FlushWriter(w) PROVE CommandInv'
  <2>1. exists' \in [Writer -> BOOLEAN] BY <1>2 DEF FlushWriter, CommandInv, QueuesExact, TypeOK
  <2> QED BY <1>2, <2>1, HandingOverKeeps DEF FlushWriter
<1>3. ASSUME NEW w \in Writer, DeleteWriter(w) PROVE CommandInv'
  <2>1. exists' \in [Writer -> BOOLEAN] BY <1>3 DEF DeleteWriter, CommandInv, QueuesExact, TypeOK
  <2> QED BY <1>3, <2>1, HandingOverKeeps DEF DeleteWriter
<1>4. ASSUME NEW o \in Object, DeleteObject(o) PROVE CommandInv'
  BY <1>4, DeleteObjectKeeps
<1>5. ASSUME NEW q \in Queue, BeginFlush(q) \/ GetOld(q) \/ TimeOver(q) \/ BeginSlice(q) \/ EndFlush(q)
      PROVE  CommandInv'
  BY <1>5, LookingKeeps
<1>6. ASSUME NEW q \in Queue, TakeBuffer(q) PROVE CommandInv'
  BY <1>6, TakeBufferKeeps
<1>7. ASSUME NEW q \in Queue, RunCommand(q) PROVE CommandInv'
  BY <1>7, RunCommandKeeps
<1>8. ASSUME NEW q \in Queue, ClearBuffer(q) PROVE CommandInv'
  BY <1>8, ClearBufferKeeps
<1>9. CASE UNCHANGED vars
  <2> USE <1>9 DEF vars, writerVars, bufferVars, flushVars, CommandInv, QueuesExact
  <2>1. /\ RunInOrder'
        /\ \A r \in Queue : Waiting(r)' = Waiting(r) /\ Dropped(r)' = Dropped(r)
    BY CommandsLeftAlone
  <2>2. TypeOK' BY DEF TypeOK
  <2>3. CommandsCounted' BY <2>1 DEF CommandsCounted
  <2>4. SlicesHaveCommands' BY DEF SlicesHaveCommands
  <2>5. EntriesInv' BY DEF EntriesInv, EntryFor
  <2>6. DroppedInv' BY <2>1 DEF DroppedInv
  <2>7. IdleInv' BY DEF IdleInv
  <2> QED BY <2>1, <2>2, <2>3, <2>4, <2>5, <2>6, <2>7
<1> QED BY <1>1, <1>2, <1>3, <1>4, <1>5, <1>6, <1>7, <1>8, <1>9 DEF Next, FlushState

-----------------------------------------------------------------------------
(* Theorems. *)

(* AddCommandBuffer, FlushState and the deletion of objects keep every      *)
(* command in one place, the places in order, and the counters exact.       *)
THEOREM CommandInvariant == Spec => []CommandInv
<1> QED BY InitKeeps, NextKeeps, PTL DEF Spec

(* num_commands, the queues and the slice in progress agree in FlushState:  *)
(* no more commands are processed than there are, no counter wraps around,  *)
(* and a slice is never begun on an empty buffer.                           *)
THEOREM QueuesAlwaysExact == Spec => []QueuesExact
<1>1. CommandInv => QueuesExact BY DEF CommandInv
<1> QED BY <1>1, CommandInvariant, PTL

(* The commands of a CommandWriter are run by FlushState in the order they  *)
(* were added, each once, and those that are dropped come after all that    *)
(* were run.                                                                *)
THEOREM AlwaysRunInOrder == Spec => []RunInOrder
<1>1. CommandInv => RunInOrder BY DEF CommandInv
<1> QED BY <1>1, CommandInvariant, PTL

(* A command runs only while FlushState finds its object, and only the      *)
(* commands of a deleted object are cleared.                                *)
THEOREM ObjectsAlwaysRespected == Spec => ObjectsRespected
<1> DEFINE Respected ==
             /\ \A q \in Queue : done'[q] # done[q] =>
                  \E c \in Command :
                      /\ done'[q] = Append(done[q], c)
                      /\ q = "main" => m_object_id[c.writer] \in alive
             /\ \A c \in dropped' \ dropped : m_object_id[c.writer] \in Object \ alive
<1>1. CommandInv /\ [Next]_vars => [Respected]_vars
  <2> SUFFICES ASSUME CommandInv, Next PROVE Respected BY DEF vars
  <2>1. ASSUME NEW q \in Queue, RunCommand(q) PROVE Respected
    <3>1. /\ current[q].commands \in Seq(Command) /\ current[q].commands # <<>>
          /\ done \in [Queue -> Seq(Command)] /\ flush[q] = "run"
      <4>1. current[q].commands \in Seq(Command) BY DEF CommandInv, QueuesExact, TypeOK, Entry
      <4>2. left[q] \in 1 .. Len(current[q].commands)
        BY <2>1 DEF CommandInv, QueuesExact, SlicesHaveCommands, RunCommand
      <4>3. done \in [Queue -> Seq(Command)] /\ flush[q] = "run"
        BY <2>1 DEF CommandInv, QueuesExact, TypeOK, RunCommand
      <4> QED BY <4>1, <4>2, <4>3, ListOfCommands
    <3>2. PICK c \in Command : c = Head(current[q].commands) /\ c \in ToSet(current[q].commands)
      BY <3>1, OneLess
    <3>3. /\ done'[q] = Append(done[q], c)
          /\ \A r \in Queue : r # q => done'[r] = done[r]
      BY <3>1, <3>2, <2>1 DEF RunCommand
    <3>4. q = "main" => m_object_id[c.writer] \in alive
      BY <3>1, <3>2 DEF CommandInv, EntriesInv, EntryFor
    <3>5. dropped' = dropped BY <2>1 DEF RunCommand
    <3> QED BY <3>3, <3>4, <3>5
  <2>2. ASSUME NEW q \in Queue, ClearBuffer(q) PROVE Respected
    <3>1. done' = done /\ dropped' = dropped \union Current(q) BY <2>2 DEF ClearBuffer, Current
    <3>2. \A c \in Current(q) : m_object_id[c.writer] \in Object \ alive BY <2>2, ClearedForNoObject
    <3> QED BY <3>1, <3>2
  <2>3. ASSUME UNCHANGED <<done, dropped>> PROVE Respected BY <2>3
  <2>4. ASSUME NEW w \in Writer, AddCommand(w) \/ FlushWriter(w) \/ DeleteWriter(w) PROVE Respected
    BY <2>3, <2>4 DEF AddCommand, FlushWriter, DeleteWriter
  <2>5. ASSUME NEW o \in Object, DeleteObject(o) PROVE Respected
    BY <2>3, <2>5 DEF DeleteObject
  <2>6. ASSUME NEW q \in Queue,
               BeginFlush(q) \/ GetOld(q) \/ TimeOver(q) \/ BeginSlice(q) \/ EndFlush(q) \/ TakeBuffer(q)
        PROVE  Respected
    BY <2>3, <2>6 DEF BeginFlush, GetOld, TimeOver, BeginSlice, EndFlush, TakeBuffer
  <2> HIDE DEF Respected
  <2> QED BY <2>1, <2>2, <2>4, <2>5, <2>6 DEF Next, FlushState
<1>2. ObjectsRespected <=> [][Respected]_vars BY DEF ObjectsRespected
<1> HIDE DEF Respected
<1> QED BY <1>1, <1>2, CommandInvariant, PTL DEF Spec
=============================================================================
