--------------------------- MODULE RuntimeProofs ----------------------------
(***************************************************************************)
(* The event loops and the blocking sends implement LamportQueueAlgorithm, *)
(* for any number of hares and bears, any capacity, any number of requests *)
(* and any number of messages that MPI buffers.                            *)
(***************************************************************************)
EXTENDS RuntimeProperties, PolicyProofs, SequenceTheorems

\* What holds of 0 and of the successors up to n holds up to n.
LEMMA UpToN ==
  ASSUME NEW n \in Nat, NEW S, 0 \in S, \A k \in 1 .. n : k - 1 \in S => k \in S
  PROVE  0 .. n \subseteq S
<1> DEFINE bad == (0 .. n) \ S
<1>1. SUFFICES ASSUME bad # {} PROVE FALSE
  OBVIOUS
<1>2. bad \in SUBSET Nat
  OBVIOUS
<1>3. PICK k \in bad : \A j \in bad : k <= j
  <2> HIDE DEF bad
  <2> QED BY <1>1, <1>2, LeastNat
<1>4. k \in 1 .. n /\ k - 1 \in 0 .. n /\ k - 1 \notin bad
  BY <1>3
<1> QED
  BY <1>3, <1>4
-----------------------------------------------------------------------------
\* The definition of UpTo has a solution, so that UpTo is one.
Selects(f, s, q) ==
  f = [n \in 0 .. Len(s) |->
         IF n = 0 THEN <<>>
         ELSE IF s[n].peer = q THEN Append(f[n - 1], s[n].msg)
         ELSE f[n - 1]]

LEMMA UpToExists ==
  ASSUME NEW s \in Seq(Entry), NEW q
  PROVE  Selects(UpTo(s, q), s, q)
<1> DEFINE Sol(f, n) ==
             f = [k \in 0 .. n |->
                    IF k = 0 THEN <<>>
                    ELSE IF s[k].peer = q THEN Append(f[k - 1], s[k].msg)
                    ELSE f[k - 1]]
           good == {n \in Nat : \E f : Sol(f, n)}
<1>1. Len(s) \in Nat
  BY LenProperties
<1>2. 0 \in good
  <2>1. Sol([k \in 0 .. 0 |-> <<>>], 0)
    OBVIOUS
  <2> HIDE DEF Sol
  <2> QED BY <2>1
<1>3. ASSUME NEW n \in 1 .. Len(s), n - 1 \in good PROVE n \in good
  <2>1. PICK f : Sol(f, n - 1)
    <3> HIDE DEF Sol
    <3> QED BY <1>3
  <2> DEFINE g == [k \in 0 .. n |->
                     IF k < n THEN f[k]
                     ELSE IF s[n].peer = q THEN Append(f[n - 1], s[n].msg)
                     ELSE f[n - 1]]
  <2>2. Sol(g, n)
    <3>1. \A k \in 0 .. n : k # 0 => k - 1 \in 0 .. n - 1
      BY <1>1
    <3>2. \A k \in 0 .. n :
            g[k] = IF k = 0 THEN <<>>
                   ELSE IF s[k].peer = q THEN Append(g[k - 1], s[k].msg)
                   ELSE g[k - 1]
      <4> SUFFICES ASSUME NEW k \in 0 .. n
                   PROVE  g[k] = IF k = 0 THEN <<>>
                                 ELSE IF s[k].peer = q
                                      THEN Append(g[k - 1], s[k].msg)
                                 ELSE g[k - 1]
        OBVIOUS
      <4>1. k # 0 => g[k - 1] = f[k - 1]
        OBVIOUS
      <4>2. CASE k < n
        <5>1. g[k] = f[k] /\ k \in 0 .. n - 1
          BY <4>2
        <5>2. f[k] = IF k = 0 THEN <<>>
                     ELSE IF s[k].peer = q THEN Append(f[k - 1], s[k].msg)
                     ELSE f[k - 1]
          BY <2>1, <5>1
        <5> HIDE DEF g
        <5> QED BY <4>1, <5>1, <5>2
      <4>3. CASE k = n
        <5>1. k # 0 /\ g[k] = IF s[k].peer = q THEN Append(f[k - 1], s[k].msg)
                              ELSE f[k - 1]
          BY <4>3
        <5> HIDE DEF g
        <5> QED BY <4>1, <5>1
      <4> QED
        BY <4>2, <4>3, <1>1
    <3> DEFINE h == [k \in 0 .. n |->
                       IF k = 0 THEN <<>>
                       ELSE IF s[k].peer = q THEN Append(g[k - 1], s[k].msg)
                       ELSE g[k - 1]]
    <3>3. g = h
      <4>1. \A k \in 0 .. n : g[k] = h[k]
        <5> HIDE DEF g
        <5> QED BY <3>2
      <4> QED
        BY <4>1
    <3> QED
      BY <3>3
  <2> HIDE DEF Sol, g
  <2> QED
    BY <2>2
<1>4. Len(s) \in good
  <2> HIDE DEF good
  <2>1. \A n \in 1 .. Len(s) : n - 1 \in good => n \in good
    BY <1>3
  <2>2. 0 .. Len(s) \subseteq good
    BY <1>1, <1>2, <2>1, UpToN
  <2> QED
    BY <1>1, <2>2
<1>5. \E f : Selects(f, s, q)
  BY <1>4 DEF Selects
<1>6. UpTo(s, q) = CHOOSE f : Selects(f, s, q)
  BY DEF UpTo, Selects
<1> QED
  BY <1>5, <1>6

\* What a selection starts with and how it goes on.
LEMMA UpToSteps ==
  ASSUME NEW s \in Seq(Entry), NEW q
  PROVE  /\ Len(s) \in Nat
         /\ UpTo(s, q)[0] = <<>>
         /\ \A n \in 1 .. Len(s) :
              UpTo(s, q)[n] = IF s[n].peer = q
                              THEN Append(UpTo(s, q)[n - 1], s[n].msg)
                              ELSE UpTo(s, q)[n - 1]
<1>1. Len(s) \in Nat
  BY LenProperties
<1> DEFINE f == UpTo(s, q)
<1>2. f = [n \in 0 .. Len(s) |->
             IF n = 0 THEN <<>>
             ELSE IF s[n].peer = q THEN Append(f[n - 1], s[n].msg)
             ELSE f[n - 1]]
  BY UpToExists DEF Selects
<1> HIDE DEF f
<1>3. f[0] = <<>>
  BY <1>1, <1>2
<1>4. ASSUME NEW n \in 1 .. Len(s)
      PROVE  f[n] = IF s[n].peer = q THEN Append(f[n - 1], s[n].msg) ELSE f[n - 1]
  <2>1. n \in 0 .. Len(s) /\ n # 0
    BY <1>1
  <2>2. f[n] = IF n = 0 THEN <<>>
               ELSE IF s[n].peer = q THEN Append(f[n - 1], s[n].msg)
               ELSE f[n - 1]
    BY <1>2, <2>1, Zenon
  <2> QED
    BY <2>1, <2>2
<1> QED
  BY <1>1, <1>3, <1>4 DEF f

\* A selection is a sequence of messages.
LEMMA UpToType ==
  ASSUME NEW s \in Seq(Entry), NEW q
  PROVE  \A n \in 0 .. Len(s) : UpTo(s, q)[n] \in Seq(Message)
<1> DEFINE f == UpTo(s, q)
           good == {n \in Nat : f[n] \in Seq(Message)}
<1>1. /\ Len(s) \in Nat
      /\ f[0] = <<>>
      /\ \A n \in 1 .. Len(s) :
           f[n] = IF s[n].peer = q THEN Append(f[n - 1], s[n].msg) ELSE f[n - 1]
  BY UpToSteps
<1> HIDE DEF f
<1>2. 0 \in good
  <2>1. <<>> \in Seq(Message)
    OBVIOUS
  <2> QED
    BY <1>1, <2>1
<1>3. ASSUME NEW n \in 1 .. Len(s), n - 1 \in good PROVE n \in good
  <2>1. n \in Nat /\ f[n - 1] \in Seq(Message)
    BY <1>1, <1>3
  <2>2. s[n].msg \in Message
    <3>1. s[n] \in Entry
      BY ElementOfSeq
    <3> QED
      BY <3>1 DEF Entry
  <2>3. Append(f[n - 1], s[n].msg) \in Seq(Message)
    BY <2>1, <2>2, AppendProperties
  <2> QED
    BY <1>1, <2>1, <2>3
<1>4. 0 .. Len(s) \subseteq good
  <2> HIDE DEF good
  <2> QED BY <1>1, <1>2, <1>3, UpToN
<1> QED
  BY <1>4 DEF f

LEMMA OfType ==
  ASSUME NEW s \in Seq(Entry), NEW q
  PROVE  Of(s, q) \in Seq(Message)
BY UpToType, UpToSteps DEF Of

\* Nothing is selected from an empty vector.
LEMMA OfEmpty == ASSUME NEW q PROVE Of(<<>>, q) = <<>>
<1>1. <<>> \in Seq(Entry) /\ Len(<<>>) = 0
  BY EmptySeq
<1> QED
  BY <1>1, UpToSteps DEF Of

\* What an entry contributes.
Picked(e, q) == IF e.peer = q THEN <<e.msg>> ELSE <<>>

LEMMA PickedType ==
  ASSUME NEW e \in Entry, NEW q
  PROVE  Picked(e, q) \in Seq(Message)
BY DEF Picked, Entry

\* A new entry at the end of a vector is the last to be selected.
LEMMA OfAppend ==
  ASSUME NEW s \in Seq(Entry), NEW e \in Entry, NEW q
  PROVE  Of(Append(s, e), q) = Of(s, q) \o Picked(e, q)
<1> DEFINE t == Append(s, e)
           f == UpTo(s, q)
           g == UpTo(t, q)
           good == {n \in Nat : f[n] = g[n]}
<1>1. /\ t \in Seq(Entry)
      /\ Len(t) = Len(s) + 1
      /\ t[Len(s) + 1] = e
      /\ \A n \in 1 .. Len(s) : t[n] = s[n]
  BY AppendProperties
<1> HIDE DEF t
<1>2. /\ Len(s) \in Nat
      /\ f[0] = <<>>
      /\ \A n \in 1 .. Len(s) :
           f[n] = IF s[n].peer = q THEN Append(f[n - 1], s[n].msg) ELSE f[n - 1]
  BY UpToSteps
<1>3. /\ g[0] = <<>>
      /\ \A n \in 1 .. Len(s) + 1 :
           g[n] = IF t[n].peer = q THEN Append(g[n - 1], t[n].msg) ELSE g[n - 1]
  BY <1>1, UpToSteps
<1>4. f[Len(s)] \in Seq(Message)
  BY <1>2, UpToType
<1> HIDE DEF f, g
<1>5. 0 \in good
  BY <1>2, <1>3
<1>6. ASSUME NEW n \in 1 .. Len(s), n - 1 \in good PROVE n \in good
  BY <1>1, <1>2, <1>3, <1>6
<1>7. 0 .. Len(s) \subseteq good
  <2> HIDE DEF good
  <2> QED BY <1>2, <1>5, <1>6, UpToN
<1>8. f[Len(s)] = g[Len(s)]
  BY <1>2, <1>7
<1>9. Len(s) + 1 \in 1 .. Len(s) + 1 /\ (Len(s) + 1) - 1 = Len(s)
  BY <1>2
<1>10. g[Len(s) + 1] = IF e.peer = q THEN Append(f[Len(s)], e.msg) ELSE f[Len(s)]
  BY <1>1, <1>3, <1>8, <1>9
<1>11. Of(s, q) = f[Len(s)] /\ Of(Append(s, e), q) = g[Len(s) + 1]
  BY <1>1 DEF Of, f, g, t
<1> QED
  <2>1. e.msg \in Message
    BY DEF Entry
  <2>2. Append(f[Len(s)], e.msg) = f[Len(s)] \o <<e.msg>>
    BY <1>4, <2>1, AppendIsConcat
  <2>3. f[Len(s)] \o <<>> = f[Len(s)]
    BY <1>4, ConcatEmptySeq
  <2> QED
    BY <1>10, <1>11, <2>2, <2>3 DEF Picked

\* Appending to the end of two sequences is appending to the second.
LEMMA AppendAfter ==
  ASSUME NEW a \in Seq(Message), NEW b \in Seq(Message), NEW m \in Message
  PROVE  Append(a \o b, m) = a \o Append(b, m)
<1>1. a \o b \in Seq(Message) /\ <<m>> \in Seq(Message)
  BY ConcatProperties
<1>2. (a \o b) \o <<m>> = a \o (b \o <<m>>)
  BY <1>1, ConcatAssociative
<1>3. Append(a \o b, m) = (a \o b) \o <<m>> /\ Append(b, m) = b \o <<m>>
  BY <1>1, AppendIsConcat
<1> QED
  BY <1>2, <1>3

LEMMA AppendBefore ==
  ASSUME NEW a \in Seq(Message), NEW b \in Seq(Message), NEW m \in Message
  PROVE  a \o (<<m>> \o b) = Append(a, m) \o b
<1>1. <<m>> \in Seq(Message)
  OBVIOUS
<1> QED
  BY <1>1, ConcatAssociative, AppendIsConcat

\* The head of a vector is the first to be selected.
LEMMA OfHead ==
  ASSUME NEW s \in Seq(Entry), s # <<>>, NEW q
  PROVE  Of(s, q) = Picked(Head(s), q) \o Of(Tail(s), q)
<1> DEFINE t == Tail(s)
           f == UpTo(t, q)
           g == UpTo(s, q)
           a == Picked(Head(s), q)
           good == {n \in Nat : g[n + 1] = a \o f[n]}
<1>1. /\ Head(s) = s[1] /\ Head(s) \in Entry
      /\ t \in Seq(Entry)
      /\ Len(s) = Len(t) + 1 /\ Len(t) \in Nat
      /\ \A n \in 1 .. Len(t) : t[n] = s[n + 1]
  BY HeadTailProperties, LenProperties
<1> HIDE DEF t
<1>2. /\ f[0] = <<>>
      /\ \A n \in 1 .. Len(t) :
           f[n] = IF t[n].peer = q THEN Append(f[n - 1], t[n].msg) ELSE f[n - 1]
  BY <1>1, UpToSteps
<1>3. /\ g[0] = <<>>
      /\ \A n \in 1 .. Len(t) + 1 :
           g[n] = IF s[n].peer = q THEN Append(g[n - 1], s[n].msg) ELSE g[n - 1]
  BY <1>1, UpToSteps
<1>4. \A n \in 0 .. Len(t) : f[n] \in Seq(Message)
  BY <1>1, UpToType
<1>5. \A n \in 1 .. Len(t) : t[n].msg \in Message
  <2>1. \A n \in 1 .. Len(t) : t[n] \in Entry
    BY <1>1, ElementOfSeq
  <2> QED
    BY <2>1 DEF Entry
<1>6. a \in Seq(Message)
  BY <1>1, PickedType
<1> HIDE DEF f, g
<1>7. 0 \in good
  <2>1. 1 \in 1 .. Len(t) + 1 /\ 1 - 1 = 0
    BY <1>1
  <2>2. g[1] = IF s[1].peer = q THEN Append(<<>>, s[1].msg) ELSE <<>>
    BY <1>3, <2>1
  <2>3. g[1] = a
    BY <1>1, <2>2 DEF Picked
  <2> HIDE DEF a
  <2>4. a \o f[0] = a
    BY <1>2, <1>6, ConcatEmptySeq
  <2> QED
    BY <2>3, <2>4
<1> HIDE DEF a
<1>8. ASSUME NEW n \in 1 .. Len(t), n - 1 \in good PROVE n \in good
  <2>1. n \in Nat /\ n - 1 \in 0 .. Len(t) /\ g[n] = a \o f[n - 1]
    BY <1>1, <1>8
  <2>2. g[n + 1] = IF t[n].peer = q THEN Append(g[n], t[n].msg) ELSE g[n]
    BY <1>1, <1>3
  <2>3. f[n] = IF t[n].peer = q THEN Append(f[n - 1], t[n].msg) ELSE f[n - 1]
    BY <1>2
  <2>4. Append(a \o f[n - 1], t[n].msg) = a \o Append(f[n - 1], t[n].msg)
    <3>1. t[n].msg \in Message /\ f[n - 1] \in Seq(Message)
      BY <1>4, <1>5, <2>1
    <3> QED
      BY <1>6, <3>1, AppendAfter
  <2> QED
    BY <2>1, <2>2, <2>3, <2>4
<1>9. 0 .. Len(t) \subseteq good
  <2> HIDE DEF good
  <2> QED BY <1>1, <1>7, <1>8, UpToN
<1>10. g[Len(t) + 1] = a \o f[Len(t)]
  BY <1>1, <1>9
<1> QED
  BY <1>1, <1>10 DEF Of, f, g, t, a

\* Nothing is selected from a vector without an entry of q, and exactly one
\* message from a vector with one.
LEMMA OfNone ==
  ASSUME NEW s \in Seq(Entry), NEW q, \A n \in 1 .. Len(s) : s[n].peer # q
  PROVE  Of(s, q) = <<>>
<1> DEFINE f == UpTo(s, q)
           good == {n \in Nat : f[n] = <<>>}
<1>1. /\ Len(s) \in Nat
      /\ f[0] = <<>>
      /\ \A n \in 1 .. Len(s) : f[n] = f[n - 1]
  BY UpToSteps
<1> HIDE DEF f
<1>2. 0 .. Len(s) \subseteq good
  <2>1. 0 \in good
    BY <1>1
  <2>2. \A n \in 1 .. Len(s) : n - 1 \in good => n \in good
    BY <1>1
  <2> HIDE DEF good
  <2> QED BY <1>1, <2>1, <2>2, UpToN
<1> QED
  BY <1>1, <1>2 DEF Of, f

LEMMA OfOne ==
  ASSUME NEW s \in Seq(Entry), NEW q, NEW k \in 1 .. Len(s), s[k].peer = q,
         \A n \in 1 .. Len(s) : n # k => s[n].peer # q
  PROVE  Of(s, q) = <<s[k].msg>>
<1> DEFINE f == UpTo(s, q)
           m == s[k].msg
           good == {n \in Nat : f[n] = IF n < k THEN <<>> ELSE <<m>>}
<1>1. /\ Len(s) \in Nat
      /\ f[0] = <<>>
      /\ \A n \in 1 .. Len(s) : n # k => f[n] = f[n - 1]
      /\ f[k] = Append(f[k - 1], m)
  BY UpToSteps
<1> HIDE DEF f, m
<1>2. 0 .. Len(s) \subseteq good
  <2>1. 0 \in good
    BY <1>1
  <2>2. ASSUME NEW n \in 1 .. Len(s), n - 1 \in good PROVE n \in good
    <3>1. n \in Nat /\ k \in Nat /\ f[n - 1] = IF n - 1 < k THEN <<>> ELSE <<m>>
      BY <1>1, <2>2
    <3>2. CASE n < k
      BY <1>1, <3>1, <3>2
    <3>3. CASE n = k
      BY <1>1, <3>1, <3>3
    <3>4. CASE n > k
      BY <1>1, <3>1, <3>4
    <3> QED
      BY <3>1, <3>2, <3>3, <3>4
  <2> HIDE DEF good
  <2> QED BY <1>1, <2>1, <2>2, UpToN
<1> QED
  BY <1>1, <1>2 DEF Of, f, m

\* Sending to one rank, and then more.
LEMMA OfSend ==
  ASSUME NEW q \in Pid, NEW m \in Message, NEW s \in Seq(Entry), NEW r
  PROVE  /\ Send(q, m) \o s \in Seq(Entry)
         /\ Of(Send(q, m) \o s, r) = (IF r = q THEN <<m>> ELSE <<>>) \o Of(s, r)
<1> DEFINE e == [peer |-> q, msg |-> m]
           t == <<e>> \o s
<1>1. e \in Entry /\ <<e>> \in Seq(Entry)
  BY DEF Entry
<1>2. Picked(e, r) = IF r = q THEN <<m>> ELSE <<>>
  BY DEF Picked
<1> HIDE DEF e
<1>3. t \in Seq(Entry) /\ t # <<>> /\ Head(t) = e /\ Tail(t) = s
  BY <1>1
<1>4. Of(t, r) = Picked(e, r) \o Of(s, r)
  <2> HIDE DEF t
  <2> QED BY <1>3, OfHead
<1> QED
  BY <1>2, <1>3, <1>4 DEF Send, e

\* Broadcasting a message puts it once into the actions for every other rank.
LEMMA BroadcastFacts ==
  ASSUME NEW p \in Pid, NEW m \in Message
  PROVE  /\ Broadcast(p, {m}) \in Seq(Entry)
         /\ \A i \in DOMAIN Broadcast(p, {m}) : Broadcast(p, {m})[i].peer # p
         /\ Of(Broadcast(p, {m}), p) = <<>>
         /\ \A r \in Pid \ {p} : Of(Broadcast(p, {m}), r) = <<m>>
<1> DEFINE s == Broadcast(p, {m})
           n == WorldSize - 1
<1>1. n \in Nat /\ Pid = 0 .. n
  BY ConfigAssumption DEF Pid, WorldSize
<1>2. (CHOOSE x \in {m} : TRUE) = m
  OBVIOUS
<1>3. s = [i \in 1 .. n |-> [peer |-> IF i <= p THEN i - 1 ELSE i, msg |-> m]]
  BY <1>2 DEF Broadcast
<1> HIDE DEF s, n
<1>4. \A i \in 1 .. n : s[i].peer = (IF i <= p THEN i - 1 ELSE i) /\ s[i].msg = m
  BY <1>3
<1>5. s \in Seq(Entry) /\ Len(s) = n /\ DOMAIN s = 1 .. n
  <2>1. \A i \in 1 .. n : (IF i <= p THEN i - 1 ELSE i) \in Pid
    BY <1>1
  <2>2. \A i \in 1 .. n :
          [peer |-> IF i <= p THEN i - 1 ELSE i, msg |-> m] \in Entry
    BY <2>1 DEF Entry
  <2>3. s \in [1 .. n -> Entry]
    BY <1>3, <2>2
  <2>4. s \in Seq(Entry)
    BY <1>1, <2>3, SeqDef
  <2> QED
    BY <1>1, <2>3, <2>4
<1>6. \A i \in 1 .. n : s[i].peer # p
  BY <1>1, <1>4
<1>7. Of(s, p) = <<>>
  BY <1>5, <1>6, OfNone
<1>8. ASSUME NEW r \in Pid \ {p} PROVE Of(s, r) = <<m>>
  <2> DEFINE k == IF r < p THEN r + 1 ELSE r
  <2>1. k \in 1 .. n
    BY <1>1
  <2>2. \A i \in 1 .. n : (IF i <= p THEN i - 1 ELSE i) = r <=> i = k
    BY <1>1
  <2> HIDE DEF k
  <2>3. s[k].peer = r /\ s[k].msg = m /\ \A i \in 1 .. n : i # k => s[i].peer # r
    BY <1>4, <2>1, <2>2
  <2>4. Of(s, r) = <<s[k].msg>>
    BY <1>5, <2>1, <2>3, OfOne
  <2> QED
    BY <2>3, <2>4
<1> QED
  BY <1>5, <1>6, <1>7, <1>8 DEF s
-----------------------------------------------------------------------------
\* The algorithm that the loops implement has the same processes and messages.
LEMMA SamePid == Atomic!Pid = Pid /\ Atomic!WorldSize = WorldSize
BY DEF Atomic!Pid, Atomic!WorldSize, Pid, WorldSize

\* Its policy forms the same groups.
LEMMA SameWeights == \A p : Atomic!WeightOf(p) = WeightOf(p)
BY DEF Atomic!WeightOf, Atomic!IsHare, WeightOf, IsHare

LEMMA SameCardinality ==
  ASSUME NEW S PROVE Atomic!Cardinality(S) = Cardinality(S)
BY DEF Atomic!Cardinality, Atomic!IsFiniteSet, Cardinality, IsFiniteSet

LEMMA SameOldest ==
  ASSUME NEW S, NEW n PROVE Atomic!Oldest(S, n) = Oldest(S, n)
<1>1. \A t : {u \in S : Atomic!Before(u, t)} = {u \in S : Before(u, t)}
  BY DEF Atomic!Before, Before
<1>2. \A t : Atomic!Cardinality({u \in S : Atomic!Before(u, t)})
               = Cardinality({u \in S : Before(u, t)})
  BY <1>1, SameCardinality
<1> QED
  BY <1>2 DEF Atomic!Oldest, Oldest

LEMMA SameBearCounts ==
  ASSUME NEW capacity, NEW leader, NEW hares, NEW bears
  PROVE  Atomic!BearCounts(capacity, leader, hares, bears)
           = BearCounts(capacity, leader, hares, bears)
BY SameWeights, SameCardinality DEF Atomic!BearCounts, BearCounts

LEMMA SameBearsToTake ==
  ASSUME NEW counts PROVE Atomic!BearsToTake(counts) = BearsToTake(counts)
BY DEF Atomic!BearsToTake, BearsToTake

LEMMA SameGroups ==
  ASSUME NEW q PROVE Atomic!TryFormGroup(q) = TryFormGroup(q)
<1> DEFINE leader == CHOOSE t \in q : IsFirst(t, q)
           others == q \ {leader}
           hares  == {t \in others : WeightOf(t.pid) = HareWeight}
           bears  == {t \in others \ hares : WeightOf(t.pid) = BearWeight}
           counts == BearCounts(PartyCapacity, leader, hares, bears)
           b      == BearsToTake(counts)
           h      == PartyCapacity - WeightOf(leader.pid) - b * BearWeight
           group  == {t.pid : t \in {leader} \cup Oldest(bears, b) \cup Oldest(hares, h)}
<1> DEFINE ahares  == {t \in others : Atomic!WeightOf(t.pid) = HareWeight}
           abears  == {t \in others \ ahares : Atomic!WeightOf(t.pid) = BearWeight}
           acounts == Atomic!BearCounts(PartyCapacity, leader, ahares, abears)
           ab      == Atomic!BearsToTake(acounts)
           ah      == PartyCapacity - Atomic!WeightOf(leader.pid) - ab * BearWeight
           agroup  == {t.pid : t \in {leader} \cup Atomic!Oldest(abears, ab)
                                              \cup Atomic!Oldest(ahares, ah)}
<1>1. TryFormGroup(q) = IF q = {} \/ HareWeight # 1 THEN {}
                        ELSE IF counts = {} THEN {} ELSE group
  BY DEF TryFormGroup, FormGroup
<1>2. (CHOOSE t \in q : Atomic!IsFirst(t, q)) = leader
  BY DEF IsFirst, Before, Atomic!IsFirst, Atomic!Before
<1>3. Atomic!TryFormGroup(q) = IF q = {} \/ HareWeight # 1 THEN {}
                               ELSE IF acounts = {} THEN {} ELSE agroup
  <2> HIDE DEF leader
  <2> QED BY <1>2 DEF Atomic!TryFormGroup, Atomic!FormGroup
<1> HIDE DEF leader
<1>4. ahares = hares /\ abears = bears
  BY SameWeights
<1> HIDE DEF ahares, hares, abears, bears
<1>5. acounts = counts /\ ab = b
  BY <1>4, SameBearCounts, SameBearsToTake
<1> HIDE DEF acounts, counts, ab, b
<1>6. ah = h
  BY <1>5, SameWeights
<1> HIDE DEF ah, h
<1>7. agroup = group
  BY <1>4, <1>5, <1>6, SameOldest
<1> QED
  BY <1>1, <1>3, <1>5, <1>7

\* Its handlers do the same to the state of a process and broadcast the same.
LEMMA SameStarts ==
  ASSUME NEW p, NEW now, NEW q, NEW got
  PROVE  Atomic!Starts(p, now, q, got) = Starts(p, now, q, got)
BY SamePid, SameGroups
DEF Starts, Queued, AllReplied, AllRepliesReceived, AmLeader, IsFirst, Before,
    Time, Tick, MyTicket, PartyStartMsg, CreatePartyId,
    Atomic!Starts, Atomic!Queued, Atomic!AllReplied, Atomic!AllRepliesReceived,
    Atomic!AmLeader, Atomic!IsFirst, Atomic!Before, Atomic!Time, Atomic!Tick,
    Atomic!MyTicket, Atomic!PartyStartMsg, Atomic!CreatePartyId

LEMMA SameTickets ==
  /\ \A q, t : Atomic!Insert(q, t) = Insert(q, t)
  /\ \A q, pids : Atomic!Remove(q, pids) = Remove(q, pids)
  /\ \A now, remote : Atomic!OnReceive(now, remote) = OnReceive(now, remote)
  /\ \A now : Atomic!Tick(now) = Tick(now)
  /\ \A p, now : Atomic!MyTicket(p, now) = MyTicket(p, now)
  /\ \A s, t : Atomic!ReplyMsg(s, t) = ReplyMsg(s, t)
  /\ \A t : Atomic!RequestMsg(t) = RequestMsg(t)
BY DEF Insert, Remove, OnReceive, Tick, MyTicket, ReplyMsg, RequestMsg,
       Atomic!Insert, Atomic!Remove, Atomic!OnReceive, Atomic!Tick,
       Atomic!MyTicket, Atomic!ReplyMsg, Atomic!RequestMsg

LEMMA SameGoToParty ==
  \A p, ps, now, q : Atomic!GoToParty(p, ps, now, q) <=> GoToParty(p, ps, now, q)
BY DEF GoToParty, Remove, Atomic!GoToParty, Atomic!Remove

LEMMA SameRecompute ==
  \A p, now, q, got : Atomic!Recompute(p, now, q, got) <=> Recompute(p, now, q, got)
BY SamePid, SameStarts, SameGoToParty
DEF Recompute, Queued, AllReplied, AllRepliesReceived, Time, Tick, localVars,
    Atomic!Recompute, Atomic!Queued, Atomic!AllReplied,
    Atomic!AllRepliesReceived, Atomic!Time, Atomic!Tick, Atomic!localVars

LEMMA SameLocalEvents ==
  \A p : /\ Atomic!Want(p) <=> Want(p)
         /\ Atomic!Asks(p) = Asks(p)
         /\ Atomic!Release(p) <=> Release(p)
         /\ \A now : Atomic!IgnoreReply(p, now) <=> IgnoreReply(p, now)
BY SameTickets
DEF Want, MayWant, Asks, Release, IgnoreReply, localVars,
    Atomic!Want, Atomic!MayWant, Atomic!Asks, Atomic!Release,
    Atomic!IgnoreReply, Atomic!localVars
-----------------------------------------------------------------------------
\* A party id fits its width.
LEMMA PartyIdType ==
  ASSUME NEW i \in Nat PROVE i % PartyIdSpan \in PartyId
BY AlgorithmAssumption DEF PartyId

\* At most one message is broadcast at the end of a handler.
AtMostOne(msgs) == msgs = {} \/ \E m \in Message : msgs = {m}

\* The PARTY_START that a handler ends with, if any, is a message of the leader.
LEMMA StartsType ==
  ASSUME ProcessesTyped, NEW p \in Pid, NEW now \in Nat, NEW q \in SUBSET Ticket,
         NEW got
  PROVE  /\ AtMostOne(Starts(p, now, q, got))
         /\ \A m \in Starts(p, now, q, got) :
              m \in Message /\ m.type = "PartyStart"
<1> DEFINE group  == IF Queued(p, got) /\ AmLeader(p, q) THEN TryFormGroup(q) ELSE {}
           time   == Tick(Time(p, now, got))
           ticket == MyTicket(p, time)
           start  == PartyStartMsg(ticket, CreatePartyId(p, ticket.ts), group)
<1>1. time \in Nat
  BY DEF Time, Tick
<1>2. group \in SUBSET Pid
  BY GroupIsPids DEF AmLeader
<1> HIDE DEF time, group
<1>3. CreatePartyId(p, time) \in PartyId
  <2>1. partyCounter[p] + time \in Nat
    BY <1>1 DEF ProcessesTyped, PartyId
  <2> QED
    BY <2>1, PartyIdType DEF CreatePartyId
<1>4. start \in Message /\ start.type = "PartyStart"
  BY <1>1, <1>2, <1>3 DEF PartyStartMsg, MyTicket, Message, Ticket
<1>5. Starts(p, now, q, got) = IF p \in group THEN {start} ELSE {}
  BY DEF Starts, group, time
<1> HIDE DEF start
<1> QED
  BY <1>4, <1>5 DEF AtMostOne

\* Every stage of a handler keeps the types of the process.
LEMMA GoToPartyTyped ==
  ASSUME ProcessesTyped, NEW p \in Pid, NEW ps \in Message,
         ps.type = "PartyStart", NEW now \in Nat, NEW q \in SUBSET Ticket,
         GoToParty(p, ps, now, q), partyCounter' \in [Pid -> PartyId]
  PROVE  ProcessesTyped'
<1>1. ps.sender.pid \in Pid /\ ps.id \in PartyId /\ ps.participants \in SUBSET Pid
  BY DEF Message, Ticket
<1>2. [leader |-> ps.sender.pid, id |-> ps.id, members |-> ps.participants] \in Party
  BY <1>1 DEF Party
<1>3. Remove(q, ps.participants) \in SUBSET Ticket
  BY RemoveType
<1>4. party' \in [Pid -> SUBSET Party]
  BY <1>2 DEF GoToParty, ProcessesTyped
<1>5. /\ state' \in [Pid -> AppState]
      /\ queue' \in [Pid -> SUBSET Ticket]
      /\ clock' \in [Pid -> Nat]
  BY <1>3 DEF GoToParty, ProcessesTyped, AppState
<1>6. /\ pending' \in [Pid -> SUBSET Ticket]
      /\ replies' \in [Pid -> SUBSET Pid]
      /\ inside' \in [Pid -> BOOLEAN]
      /\ shouldWant' \in [Pid -> BOOLEAN]
      /\ issued' \in [Pid -> Nat]
  BY DEF GoToParty, ProcessesTyped
<1> QED
  BY <1>4, <1>5, <1>6 DEF ProcessesTyped

LEMMA RecomputeTyped ==
  ASSUME ProcessesTyped, NEW p \in Pid, NEW now \in Nat, NEW q \in SUBSET Ticket,
         NEW got \in SUBSET Pid, Recompute(p, now, q, got)
  PROVE  ProcessesTyped'
<1>1. CASE /\ state' = [state EXCEPT ![p] = IF Queued(p, got) THEN "queued" ELSE @]
           /\ clock' = [clock EXCEPT ![p] = Time(p, now, got)]
           /\ queue' = [queue EXCEPT ![p] = q]
           /\ replies' = [replies EXCEPT ![p] = got]
           /\ UNCHANGED <<pending, party, partyCounter, localVars>>
  <2>1. Time(p, now, got) \in Nat
    BY DEF Time, Tick
  <2>2. clock' \in [Pid -> Nat] /\ state' \in [Pid -> AppState]
    BY <1>1, <2>1 DEF ProcessesTyped, AppState
  <2>3. queue' \in [Pid -> SUBSET Ticket] /\ replies' \in [Pid -> SUBSET Pid]
    BY <1>1 DEF ProcessesTyped
  <2> QED
    BY <1>1, <2>2, <2>3 DEF ProcessesTyped, localVars
<1>2. ASSUME NEW start \in Starts(p, now, q, got),
             GoToParty(p, start, start.sender.ts, q),
             partyCounter' = [partyCounter EXCEPT ![p] = (@ + 1) % PartyIdSpan]
      PROVE  ProcessesTyped'
  <2>1. start \in Message /\ start.type = "PartyStart"
    BY <1>2, StartsType
  <2>2. start.sender.ts \in Nat
    BY <2>1 DEF Message, Ticket
  <2>3. partyCounter' \in [Pid -> PartyId]
    <3>1. partyCounter[p] + 1 \in Nat
      BY DEF ProcessesTyped, PartyId
    <3> QED
      BY <1>2, <3>1, PartyIdType DEF ProcessesTyped
  <2> QED
    BY <1>2, <2>1, <2>2, <2>3, GoToPartyTyped
<1> QED
  BY <1>1, <1>2 DEF Recompute

\* So do LocalThread's events, and a request is a message.
LEMMA WantTyped ==
  ASSUME ProcessesTyped, NEW p \in Pid, Want(p)
  PROVE  ProcessesTyped' /\ AtMostOne(Asks(p))
<1> DEFINE ticket == MyTicket(p, Tick(clock[p]))
<1>1. Tick(clock[p]) \in Nat
  BY DEF Tick, ProcessesTyped
<1>2. ticket \in Ticket
  BY <1>1 DEF Ticket, MyTicket
<1>3. Insert(queue[p], ticket) \in SUBSET Ticket
  BY <1>2, InsertType DEF ProcessesTyped
<1>4. RequestMsg(ticket) \in Message
  BY <1>2 DEF RequestMsg, Message
<1> HIDE DEF ticket
<1>5. AtMostOne(Asks(p))
  BY <1>4 DEF AtMostOne, Asks, ticket
<1>6. clock' \in [Pid -> Nat] /\ shouldWant' \in [Pid -> BOOLEAN]
  BY <1>1 DEF Want, ProcessesTyped
<1>7. CASE state[p] = "idle"
  <2>1. /\ state' = [state EXCEPT ![p] = "waiting"]
        /\ replies' = [replies EXCEPT ![p] = {p}]
        /\ pending' = [pending EXCEPT ![p] = {ticket}]
        /\ queue' = [queue EXCEPT ![p] = Insert(@, ticket)]
        /\ issued' = [issued EXCEPT ![p] = @ + 1]
        /\ UNCHANGED <<party, partyCounter, inside>>
    BY <1>7 DEF Want, ticket
  <2> QED
    BY <1>2, <1>3, <1>5, <1>6, <2>1 DEF ProcessesTyped, AppState
<1>8. CASE state[p] # "idle"
  BY <1>5, <1>6, <1>8 DEF Want, ProcessesTyped
<1> QED
  BY <1>7, <1>8

LEMMA ReleaseTyped ==
  ASSUME ProcessesTyped, NEW p \in Pid, Release(p) PROVE ProcessesTyped'
BY DEF Release, ProcessesTyped, AppState, Tick

LEMMA IgnoreReplyTyped ==
  ASSUME ProcessesTyped, NEW p \in Pid, NEW now \in Nat, IgnoreReply(p, now)
  PROVE  ProcessesTyped'
BY DEF IgnoreReply, ProcessesTyped, localVars
-----------------------------------------------------------------------------
\* The channels of the algorithm, and what the loops make of them.
Channels ==
  {n \in [Pid -> [Pid -> Seq(Message)]] : \A p \in Pid : n[p][p] = <<>>}

Net == [p \in Pid |-> [q \in Pid |-> Unhandled(p, q)]]

\* The vectors of actions that p may have to execute.
Outgoing(p) == {s \in Seq(Entry) : \A i \in DOMAIN s : s[i].peer # p}

\* p has sent acts, or the message m to q, on the channels n; q has taken a
\* message of p from them.
Sent(n, p, acts) == [n EXCEPT ![p] = [r \in Pid |-> n[p][r] \o Of(acts, r)]]
Replied(n, p, q, m) == [n EXCEPT ![p][q] = Append(@, m)]
Taken(n, p, q) == [n EXCEPT ![p][q] = Tail(@)]

\* The parts of a channel.
LEMMA PartsType ==
  ASSUME TypeOK, NEW p \in Pid, NEW q \in Pid
  PROVE  /\ Of(batch[q], p) \in Seq(Message)
         /\ chan[p][q] \in Seq(Message)
         /\ Of(actions[p], q) \in Seq(Message)
         /\ Unhandled(p, q) \in Seq(Message)
<1>1. /\ Of(batch[q], p) \in Seq(Message)
      /\ chan[p][q] \in Seq(Message)
      /\ Of(actions[p], q) \in Seq(Message)
  BY OfType DEF TypeOK
<1> QED
  BY <1>1, ConcatProperties DEF Unhandled

LEMMA OutgoingIntro ==
  ASSUME NEW p, NEW s \in Seq(Entry), \A i \in 1 .. Len(s) : s[i].peer # p
  PROVE  s \in Outgoing(p)
BY LenProperties DEF Outgoing

LEMMA NothingOutgoing == ASSUME NEW p PROVE <<>> \in Outgoing(p)
BY EmptySeq DEF Outgoing

LEMMA NothingToOneself ==
  ASSUME NEW p \in Pid, NEW s \in Outgoing(p)
  PROVE  Of(s, p) = <<>>
<1>1. s \in Seq(Entry) /\ \A n \in 1 .. Len(s) : s[n].peer # p
  BY DEF Outgoing
<1> QED
  BY <1>1, OfNone

LEMMA NetType == TypeOK => Net \in Channels
<1> SUFFICES ASSUME TypeOK PROVE Net \in Channels
  OBVIOUS
<1>1. ASSUME NEW p \in Pid PROVE Unhandled(p, p) = <<>>
  <2>1. batch[p] \in Outgoing(p) /\ actions[p] \in Outgoing(p) /\ chan[p][p] = <<>>
    BY DEF TypeOK, Outgoing
  <2>2. Of(batch[p], p) = <<>> /\ Of(actions[p], p) = <<>>
    BY <2>1, NothingToOneself
  <2> QED
    BY <2>1, <2>2 DEF Unhandled
<1> QED
  BY <1>1, PartsType DEF Net, Channels

\* Sending nothing; sending a reply and then more; broadcasting.
LEMMA SentNothing ==
  ASSUME NEW p \in Pid, NEW n \in Channels PROVE Sent(n, p, <<>>) = n
<1>1. \A r \in Pid : n[p][r] \o Of(<<>>, r) = n[p][r]
  BY OfEmpty, ConcatEmptySeq DEF Channels
<1>2. [r \in Pid |-> n[p][r] \o Of(<<>>, r)] = n[p]
  BY <1>1 DEF Channels
<1> QED
  BY <1>2 DEF Sent, Channels

LEMMA SentReply ==
  ASSUME NEW p \in Pid, NEW q \in Pid \ {p}, NEW m \in Message,
         NEW acts \in Outgoing(p), NEW n \in Channels
  PROVE  /\ Send(q, m) \o acts \in Outgoing(p)
         /\ Replied(n, p, q, m) \in Channels
         /\ Sent(n, p, Send(q, m) \o acts) = Sent(Replied(n, p, q, m), p, acts)
<1> DEFINE s == Send(q, m) \o acts
           k == Replied(n, p, q, m)
<1>1. acts \in Seq(Entry) /\ s \in Seq(Entry)
  BY OfSend DEF Outgoing
<1>2. s \in Outgoing(p)
  <2>1. <<[peer |-> q, msg |-> m]>> \in Seq(Entry)
    BY DEF Entry
  <2>2. \A i \in DOMAIN s : s[i].peer # p
    BY <1>1, <2>1, ConcatProperties DEF Send, Outgoing
  <2> QED
    BY <1>1, <2>2 DEF Outgoing
<1>3. k \in Channels
  <2>1. Append(n[p][q], m) \in Seq(Message)
    BY AppendProperties DEF Channels
  <2> QED
    BY <2>1 DEF Replied, Channels
<1>4. ASSUME NEW r \in Pid PROVE n[p][r] \o Of(s, r) = k[p][r] \o Of(acts, r)
  <2>1. n[p][r] \in Seq(Message) /\ Of(acts, r) \in Seq(Message)
    BY <1>1, OfType DEF Channels
  <2>2. Of(s, r) = (IF r = q THEN <<m>> ELSE <<>>) \o Of(acts, r)
    BY <1>1, OfSend
  <2>3. CASE r = q
    <3>1. k[p][r] = Append(n[p][r], m)
      BY <2>3 DEF Replied, Channels
    <3>2. n[p][r] \o (<<m>> \o Of(acts, r)) = Append(n[p][r], m) \o Of(acts, r)
      BY <2>1, AppendBefore
    <3> QED
      BY <2>2, <2>3, <3>1, <3>2
  <2>4. CASE r # q
    <3>1. k[p][r] = n[p][r]
      BY <2>4 DEF Replied, Channels
    <3> QED
      BY <2>1, <2>2, <2>4, <3>1, ConcatEmptySeq
  <2> QED
    BY <2>3, <2>4
<1>5. \A a \in Pid \ {p} : k[a] = n[a]
  BY DEF Replied, Channels
<1> HIDE DEF s, k
<1>6. Sent(n, p, s) = Sent(k, p, acts)
  BY <1>3, <1>4, <1>5 DEF Sent, Channels
<1> QED
  BY <1>2, <1>3, <1>6 DEF s, k

LEMMA SentBroadcast ==
  ASSUME NEW p \in Pid, NEW msgs, AtMostOne(msgs), NEW n \in Channels
  PROVE  /\ Broadcast(p, msgs) \in Outgoing(p)
         /\ Net' = Sent(n, p, Broadcast(p, msgs)) => Atomic!Sends(n, p, msgs)
<1>1. CASE msgs = {}
  <2>1. Broadcast(p, msgs) = <<>>
    BY <1>1 DEF Broadcast
  <2> QED
    BY <1>1, <2>1, NothingOutgoing, SentNothing DEF Atomic!Sends, Net
<1>2. ASSUME NEW m \in Message, msgs = {m}
      PROVE  /\ Broadcast(p, msgs) \in Outgoing(p)
             /\ Net' = Sent(n, p, Broadcast(p, msgs)) => Atomic!Sends(n, p, msgs)
  <2> DEFINE s == Broadcast(p, {m})
  <2>1. /\ s \in Outgoing(p)
        /\ Of(s, p) = <<>>
        /\ \A r \in Pid \ {p} : Of(s, r) = <<m>>
    BY BroadcastFacts DEF Outgoing
  <2> HIDE DEF s
  <2>2. ASSUME NEW r \in Pid
        PROVE  n[p][r] \o Of(s, r) = IF r = p THEN n[p][r] ELSE Append(n[p][r], m)
    <3>1. n[p][r] \in Seq(Message)
      BY DEF Channels
    <3> QED
      BY <2>1, <3>1, AppendIsConcat, ConcatEmptySeq
  <2>3. Sent(n, p, s) = Atomic!Broadcast(n, p, m)
    BY <2>2, SamePid DEF Sent, Atomic!Broadcast
  <2> QED
    BY <1>2, <2>1, <2>3 DEF Atomic!Sends, Net, s
<1> QED
  BY <1>1, <1>2 DEF AtMostOne
-----------------------------------------------------------------------------
\* A message that moves from one part of a channel to the next leaves the
\* channel as it is.
LEMMA MoveHead ==
  ASSUME NEW a \in Seq(Message), NEW b \in Seq(Message), b # <<>>
  PROVE  (a \o <<Head(b)>>) \o Tail(b) = a \o b
<1>1. /\ Head(b) \in Message /\ Tail(b) \in Seq(Message)
      /\ Len(b) \in Nat /\ Len(Tail(b)) = Len(b) - 1
      /\ \A i \in 1 .. Len(Tail(b)) : Tail(b)[i] = b[i + 1]
  BY HeadTailProperties, LenProperties
<1>2. <<Head(b)>> \o Tail(b) = b
  OBVIOUS
<1>3. <<Head(b)>> \in Seq(Message)
  BY <1>1
<1> QED
  BY <1>1, <1>2, <1>3, ConcatAssociative

LEMMA MovedToChan ==
  ASSUME NEW a \in Seq(Message), NEW b \in Seq(Message), NEW m \in Message,
         NEW c \in Seq(Message)
  PROVE  (a \o Append(b, m)) \o c = (a \o b) \o (<<m>> \o c)
<1>1. a \o b \in Seq(Message)
  BY ConcatProperties
<1>2. a \o Append(b, m) = Append(a \o b, m)
  BY AppendAfter
<1> DEFINE x == a \o b
<1>3. x \o (<<m>> \o c) = Append(x, m) \o c
  <2> HIDE DEF x
  <2> QED BY <1>1, AppendBefore DEF x
<1> QED
  BY <1>2, <1>3

\* The first message of a channel is the first of the vector.
LEMMA HeadOfCons ==
  ASSUME NEW m \in Message, NEW u \in Seq(Message)
  PROVE  /\ <<m>> \o u # <<>>
         /\ Head(<<m>> \o u) = m
         /\ Tail(<<m>> \o u) = u
OBVIOUS

LEMMA Regroup ==
  ASSUME NEW m \in Message, NEW a \in Seq(Message), NEW b \in Seq(Message),
         NEW c \in Seq(Message)
  PROVE  /\ ((<<m>> \o a) \o b) \o c = <<m>> \o ((a \o b) \o c)
         /\ (a \o b) \o c \in Seq(Message)
<1>1. <<m>> \in Seq(Message) /\ a \o b \in Seq(Message)
      /\ (a \o b) \o c \in Seq(Message)
  BY ConcatProperties
<1> QED
  BY <1>1, ConcatAssociative

\* The next MPI_Send of a rank does nothing to the channels of the algorithm.
LEMMA ExecuteMoves ==
  ASSUME TypeOK, NEW p \in Pid, Execute(p)
  PROVE  TypeOK' /\ Net' = Net
<1> DEFINE a == Head(actions[p])
<1>1. /\ actions[p] \in Seq(Entry) /\ actions[p] # <<>>
      /\ chan' = [chan EXCEPT ![p][a.peer] = Append(@, a.msg)]
      /\ actions' = [actions EXCEPT ![p] = Tail(actions[p])]
      /\ UNCHANGED <<phase, batch, processVars>>
  BY DEF Execute, Returns, TypeOK
<1>2. a \in Entry /\ a.peer # p /\ Tail(actions[p]) \in Outgoing(p)
  <2>1. /\ Len(actions[p]) \in Nat \ {0}
        /\ Len(Tail(actions[p])) = Len(actions[p]) - 1
        /\ a \in Entry /\ a = actions[p][1]
        /\ Tail(actions[p]) \in Seq(Entry)
        /\ \A i \in 1 .. Len(Tail(actions[p])) : Tail(actions[p])[i] = actions[p][i + 1]
    BY <1>1, HeadTailProperties, EmptySeq
  <2>2. \A i \in 1 .. Len(actions[p]) : actions[p][i].peer # p
    BY <1>1 DEF TypeOK
  <2>3. \A i \in 1 .. Len(Tail(actions[p])) : i + 1 \in 1 .. Len(actions[p])
    BY <2>1
  <2>4. \A i \in 1 .. Len(Tail(actions[p])) : Tail(actions[p])[i].peer # p
    BY <2>1, <2>2, <2>3
  <2>5. 1 \in 1 .. Len(actions[p])
    BY <2>1
  <2> QED
    BY <2>1, <2>2, <2>4, <2>5, OutgoingIntro
<1>3. a.peer \in Pid /\ a.msg \in Message
  BY <1>2 DEF Entry
<1> HIDE DEF a
<1>4. TypeOK'
  <2>1. chan' \in [Pid -> [Pid -> Seq(Message)]]
    <3>1. Append(chan[p][a.peer], a.msg) \in Seq(Message)
      BY <1>3, AppendProperties DEF TypeOK
    <3> QED
      BY <1>1, <1>3, <3>1 DEF TypeOK
  <2>2. \A q \in Pid : chan'[q][q] = <<>>
    BY <1>1, <1>2, <1>3 DEF TypeOK
  <2>3. actions' \in [Pid -> Seq(Entry)]
    BY <1>1, <1>2 DEF TypeOK, Outgoing
  <2>4. \A q \in Pid : \A i \in DOMAIN actions'[q] : actions'[q][i].peer # q
    BY <1>1, <1>2 DEF TypeOK, Outgoing
  <2>5. ProcessesTyped'
    BY <1>1 DEF TypeOK, ProcessesTyped, processVars
  <2> QED
    BY <1>1, <2>1, <2>2, <2>3, <2>4, <2>5 DEF TypeOK
<1>5. ASSUME NEW x \in Pid, NEW y \in Pid PROVE Unhandled(x, y)' = Unhandled(x, y)
  <2>1. batch' = batch
    BY <1>1
  <2>2. CASE x # p
    BY <1>1, <2>1, <2>2 DEF Unhandled, TypeOK
  <2>3. CASE x = p
    <3>1. Of(actions[p], y) = Picked(a, y) \o Of(Tail(actions[p]), y)
      BY <1>1, OfHead DEF a
    <3>2. /\ Of(batch[y], p) \in Seq(Message) /\ chan[p][y] \in Seq(Message)
          /\ Of(Tail(actions[p]), y) \in Seq(Message)
      BY <1>2, PartsType, OfType DEF Outgoing
    <3>3. actions'[p] = Tail(actions[p])
      BY <1>1 DEF TypeOK
    <3>4. CASE y = a.peer
      <4>1. chan'[p][y] = Append(chan[p][y], a.msg)
        BY <1>1, <3>4 DEF TypeOK
      <4>2. Of(actions[p], y) = <<a.msg>> \o Of(Tail(actions[p]), y)
        BY <3>1, <3>4 DEF Picked
      <4> QED
        <5>1. (Of(batch[y], p) \o Append(chan[p][y], a.msg)) \o Of(Tail(actions[p]), y)
                = (Of(batch[y], p) \o chan[p][y]) \o (<<a.msg>> \o Of(Tail(actions[p]), y))
          BY <1>3, <3>2, MovedToChan
        <5> QED
          BY <2>1, <2>3, <3>3, <4>1, <4>2, <5>1 DEF Unhandled
    <3>5. CASE y # a.peer
      <4>1. chan'[p][y] = chan[p][y]
        BY <1>1, <3>5 DEF TypeOK
      <4>2. Of(actions[p], y) = Of(Tail(actions[p]), y)
        BY <3>1, <3>2, <3>5, ConcatEmptySeq DEF Picked
      <4> QED
        BY <2>1, <2>3, <3>3, <4>1, <4>2 DEF Unhandled
    <3> QED
      BY <3>4, <3>5
  <2> QED
    BY <2>2, <2>3
<1> QED
  BY <1>4, <1>5 DEF Net

\* Neither does an MPI_Recv.
LEMMA ReceiveMoves ==
  ASSUME TypeOK, NEW p \in Pid, NEW q \in Pid, Receive(p, q)
  PROVE  TypeOK' /\ Net' = Net
<1> DEFINE m == Head(chan[q][p])
           e == [peer |-> q, msg |-> m]
<1>1. /\ chan[q][p] \in Seq(Message) /\ chan[q][p] # <<>> /\ q # p
      /\ batch[p] \in Seq(Entry)
      /\ batch' = [batch EXCEPT ![p] = Append(@, e)]
      /\ chan' = [chan EXCEPT ![q][p] = Tail(@)]
      /\ UNCHANGED <<phase, actions, processVars>>
  BY DEF Receive, Probe, TypeOK
<1>2. m \in Message /\ Tail(chan[q][p]) \in Seq(Message)
  BY <1>1, HeadTailProperties
<1>3. e \in Entry /\ e.peer = q /\ Picked(e, q) = <<m>>
      /\ \A r : r # q => Picked(e, r) = <<>>
  BY <1>2 DEF Entry, Picked
<1> HIDE DEF m, e
<1>4. TypeOK'
  <2>1. /\ Append(batch[p], e) \in Seq(Entry)
        /\ Len(batch[p]) \in Nat
        /\ Len(Append(batch[p], e)) = Len(batch[p]) + 1
        /\ \A i \in 1 .. Len(batch[p]) : Append(batch[p], e)[i] = batch[p][i]
        /\ Append(batch[p], e)[Len(batch[p]) + 1] = e
    BY <1>1, <1>3, AppendProperties, LenProperties
  <2>2. \A i \in 1 .. Len(batch[p]) : batch[p][i].peer # p
    BY <1>1 DEF TypeOK
  <2>3. Append(batch[p], e) \in Outgoing(p)
    <3>1. \A i \in 1 .. Len(batch[p]) + 1 : Append(batch[p], e)[i].peer # p
      BY <1>1, <1>3, <2>1, <2>2
    <3> QED
      BY <2>1, <3>1, OutgoingIntro
  <2>4. batch' \in [Pid -> Seq(Entry)]
    BY <1>1, <2>1 DEF TypeOK
  <2>5. \A r \in Pid : \A i \in DOMAIN batch'[r] : batch'[r][i].peer # r
    BY <1>1, <2>3 DEF TypeOK, Outgoing
  <2>6. chan' \in [Pid -> [Pid -> Seq(Message)]]
    BY <1>1, <1>2 DEF TypeOK
  <2>7. \A r \in Pid : chan'[r][r] = <<>>
    BY <1>1 DEF TypeOK
  <2>8. ProcessesTyped'
    BY <1>1 DEF TypeOK, ProcessesTyped, processVars
  <2> QED
    BY <1>1, <2>4, <2>5, <2>6, <2>7, <2>8 DEF TypeOK
<1>5. ASSUME NEW x \in Pid, NEW y \in Pid PROVE Unhandled(x, y)' = Unhandled(x, y)
  <2>1. actions' = actions
    BY <1>1
  <2>2. CASE y # p
    <3>1. batch'[y] = batch[y] /\ chan'[x][y] = chan[x][y]
      BY <1>1, <2>2 DEF TypeOK
    <3> QED
      BY <2>1, <3>1 DEF Unhandled
  <2>3. CASE y = p
    <3>1. batch'[p] = Append(batch[p], e)
      BY <1>1 DEF TypeOK
    <3>2. Of(batch'[p], x) = Of(batch[p], x) \o Picked(e, x)
      BY <1>1, <1>3, <3>1, OfAppend
    <3>3. Of(batch[p], x) \in Seq(Message) /\ chan[x][p] \in Seq(Message)
      BY PartsType
    <3>4. CASE x = q
      <4>1. chan'[q][p] = Tail(chan[q][p])
        BY <1>1 DEF TypeOK
      <4>2. (Of(batch[p], q) \o <<m>>) \o Tail(chan[q][p]) = Of(batch[p], q) \o chan[q][p]
        BY <1>1, <3>3, <3>4, MoveHead DEF m
      <4> QED
        BY <1>3, <2>1, <2>3, <3>2, <3>4, <4>1, <4>2 DEF Unhandled
    <3>5. CASE x # q
      <4>1. chan'[x][p] = chan[x][p]
        BY <1>1, <3>5 DEF TypeOK
      <4>2. Of(batch'[p], x) = Of(batch[p], x)
        BY <1>3, <3>2, <3>3, <3>5, ConcatEmptySeq
      <4> QED
        BY <2>1, <2>3, <4>1, <4>2 DEF Unhandled
    <3> QED
      BY <3>4, <3>5
  <2> QED
    BY <2>2, <2>3
<1> QED
  BY <1>4, <1>5 DEF Net

\* Nor does the end of polling.
LEMMA EndPollMoves ==
  ASSUME TypeOK, NEW p \in Pid, EndPoll(p)
  PROVE  TypeOK' /\ Net' = Net
<1>1. TypeOK'
  BY DEF EndPoll, TypeOK, ProcessesTyped, processVars
<1>2. batch' = batch /\ chan' = chan /\ actions' = actions
  BY DEF EndPoll
<1> QED
  BY <1>1, <1>2 DEF Net, Unhandled

\* The variables of the loop after a handler.
LoopsTyped ==
  /\ phase \in [Pid -> {"polling", "handling"}]
  /\ batch \in [Pid -> Seq(Entry)]
  /\ actions \in [Pid -> Seq(Entry)]
  /\ chan \in [Pid -> [Pid -> Seq(Message)]]
  /\ \A p \in Pid :
       /\ chan[p][p] = <<>>
       /\ \A i \in DOMAIN batch[p] : batch[p][i].peer # p
       /\ \A i \in DOMAIN actions[p] : actions[p][i].peer # p

\* The end of a round puts what p sends at the end of its channels.
LEMMA LocalMoves ==
  ASSUME TypeOK, NEW p \in Pid, actions[p] = <<>>, NEW acts \in Outgoing(p),
         Returns(p, acts), phase' = [phase EXCEPT ![p] = "polling"],
         UNCHANGED <<batch, chan>>
  PROVE  LoopsTyped' /\ Net' = Sent(Net, p, acts)
<1>1. acts \in Seq(Entry) /\ actions' = [actions EXCEPT ![p] = acts]
      /\ batch' = batch /\ chan' = chan
  BY DEF Outgoing, Returns
<1>2. LoopsTyped'
  <2>1. actions' \in [Pid -> Seq(Entry)]
    BY <1>1 DEF TypeOK
  <2>2. \A r \in Pid : \A i \in DOMAIN actions'[r] : actions'[r][i].peer # r
    BY <1>1 DEF TypeOK, Outgoing
  <2> QED
    BY <1>1, <2>1, <2>2 DEF TypeOK, LoopsTyped
<1>3. \A x \in Pid \ {p} : \A y \in Pid : Unhandled(x, y)' = Unhandled(x, y)
  BY <1>1 DEF Unhandled, TypeOK
<1>4. ASSUME NEW y \in Pid PROVE Unhandled(p, y)' = Unhandled(p, y) \o Of(acts, y)
  <2> DEFINE ready == Of(batch[y], p) \o chan[p][y]
  <2>1. ready \in Seq(Message)
    BY PartsType, ConcatProperties
  <2>2. Unhandled(p, y)' = ready \o Of(acts, y)
    BY <1>1 DEF Unhandled, TypeOK
  <2>3. Unhandled(p, y) = ready \o <<>>
    BY OfEmpty DEF Unhandled
  <2> HIDE DEF ready
  <2>4. ready \o <<>> = ready
    BY <2>1, ConcatEmptySeq
  <2> QED
    BY <2>2, <2>3, <2>4
<1>5. Net' = Sent(Net, p, acts)
  BY <1>3, <1>4 DEF Net, Sent
<1> QED
  BY <1>2, <1>5

\* The next event of the vector of p is the head of a channel to p.
LEMMA NextEvent ==
  ASSUME TypeOK, NEW p \in Pid, batch[p] # <<>>
  PROVE  LET q == Head(batch[p]).peer
             m == Head(batch[p]).msg
         IN  /\ q \in Pid \ {p} /\ m \in Message
             /\ Net[q][p] # <<>>
             /\ Head(Net[q][p]) = m
             /\ Tail(Net[q][p])
                  = (Of(Tail(batch[p]), q) \o chan[q][p]) \o Of(actions[q], p)
             /\ \A x \in Pid \ {q} : Of(Tail(batch[p]), x) = Of(batch[p], x)
             /\ Tail(batch[p]) \in Outgoing(p)
<1> DEFINE e == Head(batch[p])
           q == e.peer
           m == e.msg
           s == Tail(batch[p])
<1>1. /\ batch[p] \in Seq(Entry) /\ Len(batch[p]) \in Nat \ {0}
      /\ e \in Entry /\ e = batch[p][1]
      /\ s \in Seq(Entry) /\ Len(s) = Len(batch[p]) - 1
      /\ \A i \in 1 .. Len(s) : s[i] = batch[p][i + 1]
  BY HeadTailProperties, EmptySeq DEF TypeOK
<1>2. \A i \in 1 .. Len(batch[p]) : batch[p][i].peer # p
  BY <1>1 DEF TypeOK
<1>3. q \in Pid \ {p} /\ m \in Message
  <2>1. 1 \in 1 .. Len(batch[p])
    BY <1>1
  <2> QED
    BY <1>1, <1>2, <2>1 DEF Entry
<1>4. s \in Outgoing(p)
  <2>1. \A i \in 1 .. Len(s) : i + 1 \in 1 .. Len(batch[p])
    BY <1>1
  <2>2. \A i \in 1 .. Len(s) : s[i].peer # p
    BY <1>1, <1>2, <2>1
  <2> QED
    BY <1>1, <2>2, OutgoingIntro
<1>5. \A x : Of(batch[p], x) = Picked(e, x) \o Of(s, x)
  BY <1>1, OfHead
<1>6. \A x : Of(s, x) \in Seq(Message)
  BY <1>1, OfType
<1> HIDE DEF e, s
<1>7. ASSUME NEW x \in Pid \ {q} PROVE Of(s, x) = Of(batch[p], x)
  <2>1. Picked(e, x) = <<>>
    BY DEF Picked
  <2>2. <<>> \o Of(s, x) = Of(s, x)
    BY <1>6, ConcatEmptySeq
  <2> QED
    BY <1>5, <2>1, <2>2
<1>8. Of(batch[p], q) = <<m>> \o Of(s, q)
  BY <1>5 DEF Picked
<1>9. Net[q][p] = ((<<m>> \o Of(s, q)) \o chan[q][p]) \o Of(actions[q], p)
  BY <1>3, <1>8 DEF Net, Unhandled
<1>10. /\ Net[q][p] # <<>> /\ Head(Net[q][p]) = m
       /\ Tail(Net[q][p]) = (Of(s, q) \o chan[q][p]) \o Of(actions[q], p)
  <2>1. chan[q][p] \in Seq(Message) /\ Of(actions[q], p) \in Seq(Message)
    BY <1>3, PartsType
  <2> DEFINE u == (Of(s, q) \o chan[q][p]) \o Of(actions[q], p)
  <2>2. Net[q][p] = <<m>> \o u /\ u \in Seq(Message)
    <3>1. m \in Message /\ Of(s, q) \in Seq(Message)
      BY <1>3, <1>6
    <3> HIDE DEF m, q
    <3>2. /\ ((<<m>> \o Of(s, q)) \o chan[q][p]) \o Of(actions[q], p) = <<m>> \o u
          /\ u \in Seq(Message)
      BY <2>1, <3>1, Regroup
    <3> QED
      BY <1>9, <3>2
  <2> HIDE DEF q, m, u
  <2>3. <<m>> \o u # <<>> /\ Head(<<m>> \o u) = m /\ Tail(<<m>> \o u) = u
    BY <1>3, <2>2, HeadOfCons
  <2> QED
    BY <2>2, <2>3 DEF u
<1> QED
  BY <1>3, <1>4, <1>7, <1>10 DEF e, s

\* A handler takes its message from the channel and puts what p sends at the
\* end of the channels of p.
LEMMA NetMoves ==
  ASSUME TypeOK, NEW p \in Pid, actions[p] = <<>>, batch[p] # <<>>,
         NEW acts \in Outgoing(p), Returns(p, acts),
         batch' = [batch EXCEPT ![p] = Tail(@)], UNCHANGED <<phase, chan>>
  PROVE  /\ LoopsTyped'
         /\ Net' = Sent(Taken(Net, Head(batch[p]).peer, p), p, acts)
<1> DEFINE q == Head(batch[p]).peer
           s == Tail(batch[p])
<1>1. /\ acts \in Seq(Entry) /\ actions' = [actions EXCEPT ![p] = acts]
      /\ batch' = [batch EXCEPT ![p] = s] /\ chan' = chan /\ phase' = phase
  BY DEF Outgoing, Returns, TypeOK
<1>2. /\ q \in Pid \ {p}
      /\ Tail(Net[q][p]) = (Of(s, q) \o chan[q][p]) \o Of(actions[q], p)
      /\ \A x \in Pid \ {q} : Of(s, x) = Of(batch[p], x)
      /\ s \in Outgoing(p)
  BY NextEvent
<1> HIDE DEF q, s
<1>3. LoopsTyped'
  <2>1. actions' \in [Pid -> Seq(Entry)] /\ batch' \in [Pid -> Seq(Entry)]
    BY <1>1, <1>2 DEF TypeOK, Outgoing
  <2>2. \A r \in Pid : \A i \in DOMAIN actions'[r] : actions'[r][i].peer # r
    BY <1>1 DEF TypeOK, Outgoing
  <2>3. \A r \in Pid : \A i \in DOMAIN batch'[r] : batch'[r][i].peer # r
    BY <1>1, <1>2 DEF TypeOK, Outgoing
  <2> QED
    BY <1>1, <2>1, <2>2, <2>3 DEF TypeOK, LoopsTyped
<1> DEFINE n == Taken(Net, q, p)
<1>4. /\ \A x \in Pid \ {q} : n[x] = Net[x]
      /\ \A y \in Pid \ {p} : n[q][y] = Net[q][y]
      /\ n[q][p] = Tail(Net[q][p])
      /\ n \in [Pid -> [Pid -> Seq(Message)]]
  <2>1. Net \in Channels /\ Net[q][p] # <<>>
    BY NetType, NextEvent DEF q
  <2>2. Tail(Net[q][p]) \in Seq(Message)
    BY <1>2, <2>1, HeadTailProperties DEF Channels
  <2> QED
    BY <1>2, <2>1, <2>2 DEF Taken, Channels
<1>5. ASSUME NEW x \in Pid \ {p}, NEW y \in Pid PROVE Unhandled(x, y)' = n[x][y]
  <2>1. actions'[x] = actions[x] /\ chan'[x][y] = chan[x][y]
    BY <1>1 DEF TypeOK
  <2>2. CASE y # p
    <3>1. batch'[y] = batch[y]
      BY <1>1, <2>2 DEF TypeOK
    <3>2. n[x][y] = Unhandled(x, y)
      BY <1>4, <2>2 DEF Net
    <3> QED
      BY <2>1, <3>1, <3>2 DEF Unhandled
  <2>3. CASE y = p
    <3>1. batch'[p] = s
      BY <1>1 DEF TypeOK
    <3>2. Unhandled(x, y)' = (Of(s, x) \o chan[x][p]) \o Of(actions[x], p)
      BY <2>1, <2>3, <3>1 DEF Unhandled
    <3>3. CASE x = q
      BY <1>2, <1>4, <2>3, <3>2, <3>3
    <3>4. CASE x # q
      <4>1. n[x][p] = Unhandled(x, p)
        BY <1>4, <3>4 DEF Net
      <4> QED
        BY <1>2, <2>3, <3>2, <3>4, <4>1 DEF Unhandled
    <3> QED
      BY <3>3, <3>4
  <2> QED
    BY <2>2, <2>3
<1>6. ASSUME NEW y \in Pid PROVE Unhandled(p, y)' = n[p][y] \o Of(acts, y)
  <2> DEFINE ready == Of(batch[y], p) \o chan[p][y]
  <2>1. ready \in Seq(Message)
    BY PartsType, ConcatProperties
  <2>2. Of(batch'[y], p) = Of(batch[y], p)
    BY <1>1, <1>2 DEF TypeOK
  <2>3. Unhandled(p, y)' = ready \o Of(acts, y)
    BY <1>1, <2>2 DEF Unhandled, TypeOK
  <2>4. n[p][y] = ready \o <<>>
    <3>1. n[p][y] = Unhandled(p, y)
      BY <1>2, <1>4 DEF Net
    <3>2. Of(actions[p], y) = <<>>
      BY OfEmpty
    <3> QED
      BY <3>1, <3>2 DEF Unhandled
  <2> HIDE DEF ready
  <2>5. ready \o <<>> = ready
    BY <2>1, ConcatEmptySeq
  <2> QED
    BY <2>3, <2>4, <2>5
<1> HIDE DEF n
<1>7. Net' = Sent(n, p, acts)
  <2> DEFINE row(x) == [y \in Pid |-> Unhandled(x, y)']
  <2>1. \A x \in Pid \ {p} : row(x) = n[x]
    BY <1>4, <1>5
  <2>2. row(p) = [y \in Pid |-> n[p][y] \o Of(acts, y)]
    BY <1>6
  <2>3. Net' = [x \in Pid |-> row(x)]
    BY DEF Net
  <2> HIDE DEF row
  <2> QED
    BY <1>4, <2>1, <2>2, <2>3 DEF Sent
<1> QED
  BY <1>3, <1>7 DEF n, q
-----------------------------------------------------------------------------
\* The handlers.  Head(Net[q][p]) is the message m that p handles; the channels
\* of the algorithm are those that NetMoves and LocalMoves speak of.
Hears(p, q, m) == Net[q][p] # <<>> /\ Head(Net[q][p]) = m

\* p does what the step A of the algorithm does, if the channels n are left
\* with what p sends.
Implements(p, n, A) ==
  /\ ProcessesTyped'
  /\ \E acts \in Outgoing(p) : Returns(p, acts) /\ (Net' = Sent(n, p, acts) => A)

LEMMA TakenType ==
  ASSUME TypeOK, NEW p \in Pid, NEW q \in Pid \ {p}, Net[q][p] # <<>>
  PROVE  Taken(Net, q, p) \in Channels /\ Taken(Net, q, p) = Atomic!Consumed(p, q)
<1>1. Net \in Channels
  BY NetType
<1>2. Tail(Net[q][p]) \in Seq(Message)
  BY <1>1, HeadTailProperties DEF Channels
<1>3. Taken(Net, q, p) \in Channels
  BY <1>1, <1>2 DEF Taken, Channels
<1> QED
  BY <1>3 DEF Taken, Atomic!Consumed, Net

LEMMA HearsArrives ==
  ASSUME NEW p \in Pid, NEW q \in Pid, NEW m, Hears(p, q, m)
  PROVE  Atomic!Arrives(p, q, m.type)
BY DEF Hears, Net, Atomic!Arrives

LEMMA ReturnsNothing ==
  ASSUME TypeOK, NEW p \in Pid, actions[p] = <<>>, UNCHANGED actions
  PROVE  <<>> \in Outgoing(p) /\ Returns(p, <<>>)
BY NothingOutgoing DEF Returns, TypeOK

\* The end of a handler.
LEMMA RecomputeImplements ==
  ASSUME TypeOK, NEW p \in Pid, NEW now \in Nat, NEW q \in SUBSET Ticket,
         NEW got \in SUBSET Pid, NEW n \in Channels, Recompute(p, now, q, got)
  PROVE  LET acts == Broadcast(p, Starts(p, now, q, got))
         IN  /\ ProcessesTyped'
             /\ acts \in Outgoing(p)
             /\ Net' = Sent(n, p, acts) => Atomic!Concludes(p, now, q, got, n)
<1>1. ProcessesTyped'
  BY RecomputeTyped DEF TypeOK
<1> DEFINE starts == Starts(p, now, q, got)
<1>2. AtMostOne(starts)
  BY StartsType DEF TypeOK
<1>3. Atomic!Recompute(p, now, q, got)
  BY SameRecompute
<1>4. Atomic!Starts(p, now, q, got) = starts
  BY SameStarts
<1> HIDE DEF starts
<1>5. /\ Broadcast(p, starts) \in Outgoing(p)
      /\ Net' = Sent(n, p, Broadcast(p, starts)) => Atomic!Sends(n, p, starts)
  BY <1>2, SentBroadcast
<1>6. Net' = Sent(n, p, Broadcast(p, starts)) => Atomic!Concludes(p, now, q, got, n)
  BY <1>3, <1>4, <1>5 DEF Atomic!Concludes
<1> QED
  BY <1>1, <1>5, <1>6 DEF starts

\* OnMsg(Request).
LEMMA RequestImplements ==
  ASSUME TypeOK, NEW p \in Pid, NEW q \in Pid \ {p}, NEW m \in Message,
         m.type = "Request", Hears(p, q, m), OnRequest(p, q, m)
  PROVE  Implements(p, Taken(Net, q, p), Atomic!OnRequest(p, q))
<1> DEFINE now   == OnReceive(clock[p], m.request.ts)
           rest  == Insert(queue[p], m.request)
           reply == ReplyMsg(MyTicket(p, now), m.request)
           n     == Taken(Net, q, p)
           k     == Replied(n, p, q, reply)
           more  == Broadcast(p, Starts(p, now, rest, replies[p]))
           acts  == Send(q, reply) \o more
<1>1. m.request \in Ticket /\ m.request.ts \in Nat
  BY DEF Message, Ticket
<1>2. /\ now \in Nat /\ rest \in SUBSET Ticket /\ replies[p] \in SUBSET Pid
      /\ reply \in Message
  <2>1. now \in Nat
    <3>1. clock[p] \in Nat
      BY DEF TypeOK, ProcessesTyped
    <3> QED
      BY <1>1, <3>1 DEF OnReceive
  <2>2. rest \in SUBSET Ticket /\ replies[p] \in SUBSET Pid
    BY <1>1, InsertType DEF TypeOK, ProcessesTyped
  <2> HIDE DEF now
  <2>3. reply \in Message
    BY <1>1, <2>1 DEF ReplyMsg, MyTicket, Message, Ticket
  <2> QED
    BY <2>1, <2>2, <2>3
<1>3. n \in Channels /\ n = Atomic!Consumed(p, q)
  BY TakenType DEF Hears
<1>4. Atomic!Arrives(p, q, "Request")
  BY HearsArrives
<1>5. Recompute(p, now, rest, replies[p]) /\ Returns(p, acts)
  BY DEF OnRequest
<1>6. /\ Atomic!OnReceive(clock[p], Head(Net[q][p]).request.ts) = now
      /\ Atomic!Insert(queue[p], Head(Net[q][p]).request) = rest
      /\ Atomic!ReplyMsg(Atomic!MyTicket(p, now), Head(Net[q][p]).request) = reply
  BY SameTickets DEF Hears
<1> HIDE DEF now, rest, reply, n
<1>7. k \in Channels
  BY <1>2, <1>3, NothingOutgoing, SentReply
<1>8. /\ ProcessesTyped'
      /\ more \in Outgoing(p)
      /\ Net' = Sent(k, p, more) => Atomic!Concludes(p, now, rest, replies[p], k)
  BY <1>2, <1>5, <1>7, RecomputeImplements
<1> HIDE DEF more
<1>9. acts \in Outgoing(p) /\ Sent(n, p, acts) = Sent(k, p, more)
  BY <1>2, <1>3, <1>8, SentReply
<1> HIDE DEF acts
<1>10. ASSUME Atomic!Concludes(p, now, rest, replies[p], k)
       PROVE  Atomic!OnRequest(p, q)
  BY <1>3, <1>4, <1>6, <1>10 DEF Atomic!OnRequest, Replied, Net
<1> QED
  BY <1>5, <1>8, <1>9, <1>10 DEF Implements, n

\* OnMsg(Reply).
LEMMA ReplyImplements ==
  ASSUME TypeOK, NEW p \in Pid, NEW q \in Pid \ {p}, NEW m \in Message,
         actions[p] = <<>>,
         m.type = "Reply", Hears(p, q, m), OnReply(p, q, m)
  PROVE  Implements(p, Taken(Net, q, p), Atomic!OnReply(p, q))
<1> DEFINE now == OnReceive(clock[p], m.sender.ts)
           got == replies[p] \cup {q}
           n   == Taken(Net, q, p)
           acts == Broadcast(p, Starts(p, now, queue[p], got))
<1>1. m.sender.ts \in Nat
  BY DEF Message, Ticket
<1>2. now \in Nat /\ queue[p] \in SUBSET Ticket /\ got \in SUBSET Pid
  BY <1>1 DEF OnReceive, TypeOK, ProcessesTyped
<1>3. n \in Channels /\ n = Atomic!Consumed(p, q)
  BY TakenType DEF Hears
<1>4. Atomic!Arrives(p, q, "Reply")
  BY HearsArrives
<1>5. \/ /\ state[p] = "waiting"
         /\ Recompute(p, now, queue[p], got)
         /\ Returns(p, acts)
      \/ IgnoreReply(p, now) /\ UNCHANGED actions
  BY DEF OnReply
<1>6. Atomic!OnReceive(clock[p], Head(Net[q][p]).sender.ts) = now
  BY SameTickets DEF Hears
<1> HIDE DEF now, got, n
<1>7. CASE /\ state[p] = "waiting"
           /\ Recompute(p, now, queue[p], got)
           /\ Returns(p, acts)
  <2>1. /\ ProcessesTyped'
        /\ acts \in Outgoing(p)
        /\ Net' = Sent(n, p, acts) => Atomic!Concludes(p, now, queue[p], got, n)
    BY <1>2, <1>3, <1>7, RecomputeImplements
  <2> HIDE DEF acts
  <2>2. ASSUME Atomic!Concludes(p, now, queue[p], got, n)
        PROVE  Atomic!OnReply(p, q)
    BY <1>3, <1>4, <1>6, <1>7, <2>2 DEF Atomic!OnReply, got, Net
  <2> QED
    BY <1>7, <2>1, <2>2 DEF Implements, n
<1>8. CASE IgnoreReply(p, now) /\ UNCHANGED actions
  <2>1. <<>> \in Outgoing(p) /\ Returns(p, <<>>)
    BY <1>8, ReturnsNothing
  <2>2. Sent(n, p, <<>>) = n
    BY <1>3, SentNothing
  <2>3. Atomic!IgnoreReply(p, now)
    BY <1>8, SameLocalEvents
  <2>4. ASSUME Net' = n PROVE Atomic!OnReply(p, q)
    BY <1>3, <1>4, <1>6, <2>3, <2>4 DEF Atomic!OnReply, Net
  <2>5. ProcessesTyped'
    BY <1>2, <1>8, IgnoreReplyTyped DEF TypeOK
  <2> QED
    BY <2>1, <2>2, <2>4, <2>5 DEF Implements, n
<1> QED
  BY <1>5, <1>7, <1>8

\* OnMsg(PartyStart).
LEMMA PartyStartImplements ==
  ASSUME TypeOK, NEW p \in Pid, NEW q \in Pid \ {p}, NEW m \in Message,
         actions[p] = <<>>,
         m.type = "PartyStart", Hears(p, q, m), OnPartyStart(p, m)
  PROVE  Implements(p, Taken(Net, q, p), Atomic!OnPartyStart(p, q))
<1> DEFINE now  == OnReceive(clock[p], m.sender.ts)
           rest == Remove(queue[p], m.participants)
           n    == Taken(Net, q, p)
           acts == Broadcast(p, Starts(p, now, rest, replies[p]))
<1>1. m.sender.ts \in Nat
  BY DEF Message, Ticket
<1>2. now \in Nat /\ rest \in SUBSET Ticket /\ replies[p] \in SUBSET Pid
  <2>1. now \in Nat
    BY <1>1 DEF OnReceive, TypeOK, ProcessesTyped
  <2>2. rest \in SUBSET Ticket /\ replies[p] \in SUBSET Pid
    BY RemoveType DEF TypeOK, ProcessesTyped
  <2> QED
    BY <2>1, <2>2
<1>3. n \in Channels /\ n = Atomic!Consumed(p, q)
  BY TakenType DEF Hears
<1>4. Atomic!Arrives(p, q, "PartyStart")
  BY HearsArrives
<1>5. \/ /\ p \in m.participants
         /\ GoToParty(p, m, now, rest)
         /\ UNCHANGED <<partyCounter, actions>>
      \/ /\ p \notin m.participants
         /\ Recompute(p, now, rest, replies[p])
         /\ Returns(p, acts)
  BY DEF OnPartyStart
<1>6. /\ Head(Net[q][p]) = m
      /\ Atomic!OnReceive(clock[p], m.sender.ts) = now
      /\ Atomic!Remove(queue[p], m.participants) = rest
  BY SameTickets DEF Hears
<1> HIDE DEF now, rest, n
<1>7. CASE /\ p \in m.participants
           /\ GoToParty(p, m, now, rest)
           /\ UNCHANGED <<partyCounter, actions>>
  <2>1. <<>> \in Outgoing(p) /\ Returns(p, <<>>)
    BY <1>7, ReturnsNothing
  <2>2. Sent(n, p, <<>>) = n
    BY <1>3, SentNothing
  <2>3. Atomic!GoToParty(p, m, now, rest)
    BY <1>7, SameGoToParty
  <2>4. ASSUME Net' = n PROVE Atomic!OnPartyStart(p, q)
    BY <1>3, <1>4, <1>6, <1>7, <2>3, <2>4 DEF Atomic!OnPartyStart, Net
  <2>5. ProcessesTyped'
    BY <1>2, <1>7, GoToPartyTyped DEF TypeOK, ProcessesTyped
  <2> QED
    BY <2>1, <2>2, <2>4, <2>5 DEF Implements, n
<1>8. CASE /\ p \notin m.participants
           /\ Recompute(p, now, rest, replies[p])
           /\ Returns(p, acts)
  <2>1. /\ ProcessesTyped'
        /\ acts \in Outgoing(p)
        /\ Net' = Sent(n, p, acts) => Atomic!Concludes(p, now, rest, replies[p], n)
    BY <1>2, <1>3, <1>8, RecomputeImplements
  <2> HIDE DEF acts
  <2>2. ASSUME Atomic!Concludes(p, now, rest, replies[p], n)
        PROVE  Atomic!OnPartyStart(p, q)
    BY <1>3, <1>4, <1>6, <1>8, <2>2 DEF Atomic!OnPartyStart, Net
  <2> QED
    BY <1>8, <2>1, <2>2 DEF Implements, n
<1> QED
  BY <1>5, <1>7, <1>8

\* LocalThread's events.
LEMMA LocalImplements ==
  ASSUME TypeOK, NEW p \in Pid, actions[p] = <<>>
  PROVE  /\ Want(p) /\ Returns(p, Broadcast(p, Asks(p)))
              => Implements(p, Net, Atomic!WantParty(p))
         /\ Release(p) /\ UNCHANGED actions
              => Implements(p, Net, Atomic!ReleaseParty(p))
<1>1. Net \in Channels
  BY NetType
<1>2. ASSUME Want(p), Returns(p, Broadcast(p, Asks(p)))
      PROVE  Implements(p, Net, Atomic!WantParty(p))
  <2>1. ProcessesTyped' /\ AtMostOne(Asks(p))
    BY <1>2, WantTyped DEF TypeOK
  <2>2. Atomic!Want(p) /\ Atomic!Asks(p) = Asks(p)
    BY <1>2, SameLocalEvents
  <2>3. /\ Broadcast(p, Asks(p)) \in Outgoing(p)
        /\ Net' = Sent(Net, p, Broadcast(p, Asks(p))) => Atomic!Sends(Net, p, Asks(p))
    BY <1>1, <2>1, SentBroadcast
  <2>4. ASSUME Atomic!Sends(Net, p, Asks(p)) PROVE Atomic!WantParty(p)
    BY <2>2, <2>4 DEF Atomic!WantParty, Net
  <2> QED
    BY <1>2, <2>1, <2>3, <2>4 DEF Implements
<1>3. ASSUME Release(p), UNCHANGED actions
      PROVE  Implements(p, Net, Atomic!ReleaseParty(p))
  <2>1. <<>> \in Outgoing(p) /\ Returns(p, <<>>)
    BY <1>3, ReturnsNothing
  <2>2. Sent(Net, p, <<>>) = Net
    BY <1>1, SentNothing
  <2>3. Atomic!Release(p)
    BY <1>3, SameLocalEvents
  <2>4. ASSUME Net' = Net PROVE Atomic!ReleaseParty(p)
    BY <2>3, <2>4 DEF Atomic!ReleaseParty, Net
  <2>5. ProcessesTyped'
    BY <1>3, ReleaseTyped DEF TypeOK
  <2> QED
    BY <2>1, <2>2, <2>4, <2>5 DEF Implements
<1> QED
  BY <1>2, <1>3
-----------------------------------------------------------------------------
\* The initial state is well typed, and is an initial state of the algorithm.
LEMMA InitImplements == Init => TypeOK /\ Atomic!Init
<1> SUFFICES ASSUME Init PROVE TypeOK /\ Atomic!Init
  OBVIOUS
<1>1. ProcessesTyped
  <2>1. \A p \in Pid : p * PartyIdOffset \in Nat
    BY ConfigAssumption, AlgorithmAssumption DEF Pid, WorldSize
  <2>2. partyCounter \in [Pid -> PartyId]
    BY <2>1, PartyIdType DEF Init, InitProcesses
  <2> QED
    BY <2>2 DEF Init, InitProcesses, ProcessesTyped, AppState
<1>2. TypeOK
  <2>1. <<>> \in Seq(Entry) /\ <<>> \in Seq(Message) /\ DOMAIN <<>> = {}
    OBVIOUS
  <2> QED
    BY <1>1, <2>1 DEF Init, TypeOK
<1>3. Net = [p \in Pid |-> [q \in Pid |-> <<>>]]
  <2>1. \A p, q \in Pid : Unhandled(p, q) = <<>>
    BY OfEmpty DEF Init, Unhandled
  <2> QED
    BY <2>1 DEF Net
<1>4. Atomic!InitProcesses
  BY SamePid DEF Init, InitProcesses, Atomic!InitProcesses
<1> QED
  BY <1>2, <1>3, <1>4, SamePid DEF Atomic!Init, Net

\* The handling of an event is a handler of the algorithm.
LEMMA HandleNetImplements ==
  ASSUME TypeOK, NEW p \in Pid, HandleNet(p)
  PROVE  TypeOK' /\ \E q \in Pid \ {p} : Atomic!Handle(p, q)
<1> DEFINE q == Head(batch[p]).peer
           m == Head(batch[p]).msg
           n == Taken(Net, q, p)
<1>1. /\ actions[p] = <<>> /\ batch[p] # <<>>
      /\ batch' = [batch EXCEPT ![p] = Tail(@)] /\ UNCHANGED <<phase, chan>>
  BY DEF HandleNet, Drained
<1>2. q \in Pid \ {p} /\ m \in Message /\ Hears(p, q, m)
  BY <1>1, NextEvent DEF Hears
<1>3. \/ m.type = "Request" /\ OnRequest(p, q, m)
      \/ m.type = "Reply" /\ OnReply(p, q, m)
      \/ m.type = "PartyStart" /\ OnPartyStart(p, m)
  BY DEF HandleNet
<1>4. ASSUME NEW ACTION A, Implements(p, n, A) PROVE TypeOK' /\ A
  <2>1. PICK acts \in Outgoing(p) : Returns(p, acts) /\ (Net' = Sent(n, p, acts) => A)
    BY <1>4 DEF Implements
  <2>2. LoopsTyped' /\ Net' = Sent(n, p, acts)
    BY <1>1, <2>1, NetMoves
  <2> QED
    BY <1>4, <2>1, <2>2 DEF Implements, TypeOK, LoopsTyped
<1> HIDE DEF q, m, n
<1>5. CASE m.type = "Request" /\ OnRequest(p, q, m)
  <2>1. Implements(p, n, Atomic!OnRequest(p, q))
    BY <1>2, <1>5, RequestImplements DEF n
  <2> QED
    BY <1>2, <1>4, <2>1 DEF Atomic!Handle
<1>6. CASE m.type = "Reply" /\ OnReply(p, q, m)
  <2>1. Implements(p, n, Atomic!OnReply(p, q))
    BY <1>1, <1>2, <1>6, ReplyImplements DEF n
  <2> QED
    BY <1>2, <1>4, <2>1 DEF Atomic!Handle
<1>7. CASE m.type = "PartyStart" /\ OnPartyStart(p, m)
  <2>1. Implements(p, n, Atomic!OnPartyStart(p, q))
    BY <1>1, <1>2, <1>7, PartyStartImplements DEF n
  <2> QED
    BY <1>2, <1>4, <2>1 DEF Atomic!Handle
<1> QED
  BY <1>3, <1>5, <1>6, <1>7

\* The end of a round is an event of LocalThread, or nothing.
LEMMA HandleLocalImplements ==
  ASSUME TypeOK, NEW p \in Pid, HandleLocal(p)
  PROVE  TypeOK' /\ (Atomic!WantParty(p) \/ Atomic!ReleaseParty(p)
                       \/ (Net' = Net /\ UNCHANGED processVars))
<1>1. /\ actions[p] = <<>> /\ phase' = [phase EXCEPT ![p] = "polling"]
      /\ UNCHANGED <<batch, chan>>
  BY DEF HandleLocal, Drained
<1>2. ASSUME NEW ACTION A, Implements(p, Net, A) PROVE TypeOK' /\ A
  <2>1. PICK acts \in Outgoing(p) : Returns(p, acts) /\ (Net' = Sent(Net, p, acts) => A)
    BY <1>2 DEF Implements
  <2>2. LoopsTyped' /\ Net' = Sent(Net, p, acts)
    BY <1>1, <2>1, LocalMoves
  <2> QED
    BY <1>2, <2>1, <2>2 DEF Implements, TypeOK, LoopsTyped
<1>3. CASE Want(p) /\ Returns(p, Broadcast(p, Asks(p)))
  BY <1>1, <1>2, <1>3, LocalImplements
<1>4. CASE Release(p) /\ UNCHANGED actions
  BY <1>1, <1>2, <1>4, LocalImplements
<1>5. CASE UNCHANGED <<actions, processVars>>
  <2>1. TypeOK'
    BY <1>1, <1>5 DEF TypeOK, ProcessesTyped, processVars
  <2>2. Net' = Net
    BY <1>1, <1>5 DEF Net, Unhandled
  <2> QED
    BY <1>5, <2>1, <2>2
<1> QED
  BY <1>3, <1>4, <1>5 DEF HandleLocal

\* Every step of the loops keeps the types and is a step of the algorithm or
\* none.
LEMMA NextImplements ==
  TypeOK /\ [Next]_vars => TypeOK' /\ [Atomic!Next]_(Atomic!vars)
<1> SUFFICES ASSUME TypeOK, [Next]_vars
             PROVE  TypeOK' /\ [Atomic!Next]_(Atomic!vars)
  OBVIOUS
<1>1. ASSUME Net' = Net, UNCHANGED processVars PROVE UNCHANGED Atomic!vars
  BY <1>1 DEF Net, processVars, Atomic!vars
<1>2. ASSUME NEW p \in Pid, Execute(p)
      PROVE  TypeOK' /\ [Atomic!Next]_(Atomic!vars)
  BY <1>1, <1>2, ExecuteMoves DEF Execute
<1>3. ASSUME NEW p \in Pid, EndPoll(p)
      PROVE  TypeOK' /\ [Atomic!Next]_(Atomic!vars)
  BY <1>1, <1>3, EndPollMoves DEF EndPoll
<1>4. ASSUME NEW p \in Pid, NEW q \in Pid, Receive(p, q)
      PROVE  TypeOK' /\ [Atomic!Next]_(Atomic!vars)
  BY <1>1, <1>4, ReceiveMoves DEF Receive
<1>5. ASSUME NEW p \in Pid, HandleNet(p)
      PROVE  TypeOK' /\ [Atomic!Next]_(Atomic!vars)
  BY <1>5, HandleNetImplements, SamePid DEF Atomic!Next
<1>6. ASSUME NEW p \in Pid, HandleLocal(p)
      PROVE  TypeOK' /\ [Atomic!Next]_(Atomic!vars)
  BY <1>1, <1>6, HandleLocalImplements, SamePid DEF Atomic!Next
<1>7. CASE UNCHANGED vars
  <2>1. TypeOK'
    BY <1>7 DEF vars, loopVars, processVars, TypeOK, ProcessesTyped
  <2>2. Net' = Net /\ UNCHANGED processVars
    BY <1>7 DEF vars, loopVars, Net, Unhandled
  <2> QED
    BY <1>1, <2>1, <2>2
<1> QED
  BY <1>2, <1>3, <1>4, <1>5, <1>6, <1>7 DEF Next, Step

\* The variables of the loops keep their types, and no rank ever has a message
\* to itself in its actions, in MPI or in its vector.
THEOREM LoopsAreTyped == Spec => []TypeOK
BY InitImplements, NextImplements, PTL DEF Spec

\* Blocking sends, polling and vectors are invisible: what the loops do to the
\* processes is what the algorithm does in single steps on ideal channels.
THEOREM LoopsImplementAlgorithm == Spec => ImplementsAlgorithm
BY InitImplements, NextImplements, PTL DEF Spec, ImplementsAlgorithm, Atomic!Spec
=============================================================================
