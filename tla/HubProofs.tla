----------------------------- MODULE HubProofs -----------------------------
(* Proofs about Hub, for every strategy, every number of publishers,        *)
(* subscribers and messages, and every size of chunks and batches.          *)
EXTENDS TLAPS, Hub, SequenceTheorems, FiniteSetTheorems

-----------------------------------------------------------------------------
(* Pieces of sequences.                                                     *)

LEMMA PrefixFacts ==
  ASSUME NEW S, NEW s \in Seq(S), NEW n \in Nat
  PROVE  /\ Prefix(s, n) \in Seq(S)
         /\ Len(Prefix(s, n)) = Least(n, Len(s))
         /\ \A i \in 1..Len(Prefix(s, n)) : i \in 1..Len(s) /\ Prefix(s, n)[i] = s[i]
BY DEF Prefix, Least

LEMMA RestFacts ==
  ASSUME NEW S, NEW s \in Seq(S), NEW n \in 0..Len(s)
  PROVE  /\ Rest(s, n) \in Seq(S)
         /\ Len(Rest(s, n)) = Len(s) - n
         /\ \A i \in 1..Len(Rest(s, n)) : n + i \in 1..Len(s) /\ Rest(s, n)[i] = s[n + i]
BY DEF Rest

LEMMA RestNone ==
  ASSUME NEW S, NEW s \in Seq(S), NEW n \in Nat, n >= Len(s)
  PROVE  Rest(s, n) = <<>>
BY SubSeqEmpty DEF Rest

LEMMA ConcatFacts ==
  ASSUME NEW S, NEW s \in Seq(S), NEW t \in Seq(S)
  PROVE  /\ s \o t \in Seq(S)
         /\ Len(s \o t) = Len(s) + Len(t)
         /\ \A i \in 1..Len(s) : (s \o t)[i] = s[i]
         /\ \A i \in 1..Len(t) : (s \o t)[Len(s) + i] = t[i]
BY ConcatProperties

LEMMA EmptyFacts ==
  ASSUME NEW S, NEW s \in Seq(S)
  PROVE  /\ s = <<>> <=> Len(s) = 0
         /\ s \o <<>> = s /\ <<>> \o s = s
BY EmptySeq, ConcatEmptySeq

\* How two concatenations are told to be equal.
LEMMA ConcatIs ==
  ASSUME NEW S, NEW a \in Seq(S), NEW b \in Seq(S), NEW c \in Seq(S),
         Len(c) = Len(a) + Len(b),
         \A i \in 1..Len(a) : c[i] = a[i],
         \A i \in 1..Len(b) : c[Len(a) + i] = b[i]
  PROVE  a \o b = c
<1>1. a \o b \in Seq(S) /\ Len(a \o b) = Len(c)
  BY ConcatFacts
<1>2. ASSUME NEW i \in 1..Len(a \o b) PROVE (a \o b)[i] = c[i]
  <2>1. CASE i <= Len(a)
    BY <2>1, <1>1, ConcatFacts
  <2>2. CASE i > Len(a)
    <3>1. PICK j \in 1..Len(b) : i = Len(a) + j
      <4>1. i - Len(a) \in 1..Len(b) /\ i = Len(a) + (i - Len(a))
        BY <1>1, <2>2
      <4>2. QED
        BY <4>1
    <3>2. QED
      BY <3>1, ConcatFacts
  <2>3. QED
    BY <2>1, <2>2
<1>3. QED
  BY <1>1, <1>2, SeqEqual

\* A sequence is a prefix and the rest.
LEMMA CutInTwo ==
  ASSUME NEW S, NEW s \in Seq(S), NEW n \in 0..Len(s)
  PROVE  Prefix(s, n) \o Rest(s, n) = s
<1>1. /\ Prefix(s, n) \in Seq(S) /\ Len(Prefix(s, n)) = n
      /\ \A i \in 1..n : Prefix(s, n)[i] = s[i]
  <2>1. n \in Nat /\ Len(s) \in Nat /\ Least(n, Len(s)) = n
    BY DEF Least
  <2>2. QED
    BY <2>1, PrefixFacts
<1>2. /\ Rest(s, n) \in Seq(S) /\ Len(Rest(s, n)) = Len(s) - n
      /\ \A i \in 1..Len(Rest(s, n)) : Rest(s, n)[i] = s[n + i]
  BY RestFacts
<1>3. n \in Nat /\ Len(s) \in Nat
  OBVIOUS
<1> DEFINE a == Prefix(s, n)
           b == Rest(s, n)
<1>4. /\ a \in Seq(S) /\ Len(a) = n /\ \A i \in 1..n : a[i] = s[i]
      /\ b \in Seq(S) /\ Len(b) = Len(s) - n
      /\ \A i \in 1..Len(b) : b[i] = s[n + i]
  BY <1>1, <1>2
<1> HIDE DEF a, b
<1>5. /\ Len(s) = Len(a) + Len(b)
      /\ \A i \in 1..Len(a) : s[i] = a[i]
      /\ \A i \in 1..Len(b) : s[Len(a) + i] = b[i]
  BY <1>3, <1>4
<1>6. a \o b = s
  BY <1>4, <1>5, ConcatIs
<1>7. QED
  BY <1>6 DEF a, b

\* What is taken from the front of the first sequence is taken from both.
LEMMA RestOfConcat ==
  ASSUME NEW S, NEW s \in Seq(S), NEW t \in Seq(S), NEW n \in 0..Len(s)
  PROVE  Rest(s, n) \o t = Rest(s \o t, n)
<1> DEFINE a == Rest(s, n)
           c == s \o t
           d == Rest(c, n)
<1>1. a \in Seq(S) /\ Len(a) = Len(s) - n /\ \A i \in 1..Len(a) : a[i] = s[n + i] /\ n + i \in 1..Len(s)
  BY RestFacts
<1>2. /\ c \in Seq(S) /\ Len(c) = Len(s) + Len(t)
      /\ \A i \in 1..Len(s) : c[i] = s[i]
      /\ \A i \in 1..Len(t) : c[Len(s) + i] = t[i]
  BY ConcatFacts
<1> HIDE DEF a, c
<1>3. d \in Seq(S) /\ Len(d) = Len(c) - n /\ \A i \in 1..Len(d) : d[i] = c[n + i]
  <2>1. n \in 0..Len(c)
    BY <1>2
  <2>2. QED
    BY <2>1, <1>2, RestFacts
<1> HIDE DEF d
<1>4. Len(d) = Len(a) + Len(t)
  BY <1>1, <1>2, <1>3
<1>5. ASSUME NEW i \in 1..Len(a) PROVE d[i] = a[i]
  <2>1. i \in 1..Len(d) /\ n + i \in 1..Len(s)
    BY <1>1, <1>4
  <2>2. QED
    BY <2>1, <1>1, <1>2, <1>3
<1>6. ASSUME NEW i \in 1..Len(t) PROVE d[Len(a) + i] = t[i]
  <2>1. Len(a) + i \in 1..Len(d) /\ n + (Len(a) + i) = Len(s) + i
    BY <1>1, <1>4
  <2>2. d[Len(a) + i] = c[n + (Len(a) + i)]
    BY <2>1, <1>3
  <2>3. QED
    BY <2>1, <2>2, <1>2
<1>7. a \o t = d
  BY <1>1, <1>3, <1>4, <1>5, <1>6, ConcatIs
<1>8. QED
  BY <1>7 DEF a, c, d

LEMMA ConcatAssoc ==
  ASSUME NEW S, NEW s \in Seq(S), NEW t \in Seq(S), NEW u \in Seq(S)
  PROVE  (s \o t) \o u = s \o (t \o u)
BY ConcatAssociative

-----------------------------------------------------------------------------
(* Order.                                                                   *)

Before(s, t) == \A i \in DOMAIN s, j \in DOMAIN t : s[i] < t[j]

\* The entries of a concatenation are those of its parts.
LEMMA ConcatEntries ==
  ASSUME NEW S, NEW s \in Seq(S), NEW t \in Seq(S)
  PROVE  /\ \A i \in DOMAIN s : i \in DOMAIN (s \o t) /\ (s \o t)[i] = s[i]
         /\ \A i \in DOMAIN t : Len(s) + i \in DOMAIN (s \o t) /\ (s \o t)[Len(s) + i] = t[i]
         /\ \A i \in DOMAIN (s \o t) :
              \/ i \in DOMAIN s
              \/ \E j \in DOMAIN t : i = Len(s) + j
         /\ DOMAIN s = 1..Len(s) /\ Len(s) \in Nat
<1> DEFINE c == s \o t
<1>1. /\ c \in Seq(S) /\ Len(c) = Len(s) + Len(t)
      /\ \A i \in 1..Len(s) : c[i] = s[i]
      /\ \A i \in 1..Len(t) : c[Len(s) + i] = t[i]
  BY ConcatFacts
<1>2. /\ DOMAIN s = 1..Len(s) /\ DOMAIN t = 1..Len(t) /\ DOMAIN c = 1..Len(c)
      /\ Len(s) \in Nat /\ Len(t) \in Nat
  BY <1>1
<1> HIDE DEF c
<1>3. ASSUME NEW i \in DOMAIN s PROVE i \in DOMAIN c /\ c[i] = s[i]
  BY <1>1, <1>2
<1>4. ASSUME NEW i \in DOMAIN t PROVE Len(s) + i \in DOMAIN c /\ c[Len(s) + i] = t[i]
  BY <1>1, <1>2
<1>5. ASSUME NEW i \in DOMAIN c, i \notin DOMAIN s
      PROVE  \E j \in DOMAIN t : i = Len(s) + j
  <2>1. i - Len(s) \in DOMAIN t /\ i = Len(s) + (i - Len(s))
    BY <1>1, <1>2, <1>5
  <2>2. QED
    BY <2>1
<1>6. QED
  BY <1>2, <1>3, <1>4, <1>5 DEF c

\* A concatenation is in order if its parts are and the first comes before the second.
LEMMA ConcatInOrder ==
  ASSUME NEW S, S \subseteq Nat, NEW s \in Seq(S), NEW t \in Seq(S)
  PROVE  Increasing(s \o t) <=> Increasing(s) /\ Increasing(t) /\ Before(s, t)
<1> DEFINE c == s \o t
<1>1. /\ \A i \in DOMAIN s : i \in DOMAIN c /\ c[i] = s[i]
      /\ \A i \in DOMAIN t : Len(s) + i \in DOMAIN c /\ c[Len(s) + i] = t[i]
      /\ \A i \in DOMAIN c : i \in DOMAIN s \/ \E j \in DOMAIN t : i = Len(s) + j
      /\ DOMAIN s = 1..Len(s) /\ DOMAIN t = 1..Len(t) /\ Len(s) \in Nat
  BY ConcatEntries
<1> HIDE DEF c
<1>2. ASSUME Increasing(c) PROVE Increasing(s) /\ Increasing(t) /\ Before(s, t)
  <2>1. Increasing(s)
    BY <1>1, <1>2 DEF Increasing
  <2>2. ASSUME NEW i \in DOMAIN t, NEW j \in DOMAIN t, i < j PROVE t[i] < t[j]
    <3>1. Len(s) + i < Len(s) + j
      BY <1>1, <2>2
    <3>2. QED
      BY <3>1, <1>1, <1>2 DEF Increasing
  <2>3. ASSUME NEW i \in DOMAIN s, NEW j \in DOMAIN t PROVE s[i] < t[j]
    <3>1. i < Len(s) + j
      BY <1>1
    <3>2. QED
      BY <3>1, <1>1, <1>2 DEF Increasing
  <2>4. QED
    BY <2>1, <2>2, <2>3 DEF Increasing, Before
<1>3. ASSUME Increasing(s), Increasing(t), Before(s, t) PROVE Increasing(c)
  <2>1. SUFFICES ASSUME NEW i \in DOMAIN c, NEW j \in DOMAIN c, i < j PROVE c[i] < c[j]
    BY DEF Increasing
  <2>2. CASE i \in DOMAIN s /\ j \in DOMAIN s
    BY <2>1, <2>2, <1>1, <1>3 DEF Increasing
  <2>3. ASSUME i \in DOMAIN s, NEW l \in DOMAIN t, j = Len(s) + l PROVE c[i] < c[j]
    BY <2>3, <1>1, <1>3 DEF Before
  <2>4. ASSUME NEW k \in DOMAIN t, i = Len(s) + k, j \in DOMAIN s PROVE FALSE
    BY <2>1, <2>4, <1>1
  <2>5. ASSUME NEW k \in DOMAIN t, i = Len(s) + k, NEW l \in DOMAIN t, j = Len(s) + l
        PROVE  c[i] < c[j]
    <3>1. k < l
      BY <2>1, <2>5, <1>1
    <3>2. QED
      BY <3>1, <2>5, <1>1, <1>3 DEF Increasing
  <2>6. QED
    BY <1>1, <2>2, <2>3, <2>4, <2>5
<1>4. Increasing(c) <=> Increasing(s) /\ Increasing(t) /\ Before(s, t)
  BY <1>2, <1>3
<1>5. QED
  BY <1>4 DEF c

LEMMA BeforeConcat ==
  ASSUME NEW S, S \subseteq Nat, NEW s \in Seq(S), NEW t \in Seq(S), NEW u \in Seq(S)
  PROVE  /\ Before(u, s \o t) <=> Before(u, s) /\ Before(u, t)
         /\ Before(s \o t, u) <=> Before(s, u) /\ Before(t, u)
<1> DEFINE c == s \o t
<1>1. /\ \A i \in DOMAIN s : i \in DOMAIN c /\ c[i] = s[i]
      /\ \A i \in DOMAIN t : Len(s) + i \in DOMAIN c /\ c[Len(s) + i] = t[i]
      /\ \A i \in DOMAIN c : i \in DOMAIN s \/ \E j \in DOMAIN t : i = Len(s) + j
  BY ConcatEntries, SMTT(30)
<1> HIDE DEF c
<1>2. Before(u, c) <=> Before(u, s) /\ Before(u, t)
  BY <1>1 DEF Before
<1>3. Before(c, u) <=> Before(s, u) /\ Before(t, u)
  BY <1>1 DEF Before
<1>4. /\ Before(u, c) <=> Before(u, s) /\ Before(u, t)
      /\ Before(c, u) <=> Before(s, u) /\ Before(t, u)
  BY <1>2, <1>3
<1>5. QED
  BY <1>4 DEF c

\* The two parts of a sequence that is in order.
LEMMA CutInOrder ==
  ASSUME NEW S, S \subseteq Nat, NEW s \in Seq(S), NEW n \in 0..Len(s)
  PROVE  /\ Increasing(s) =>
              /\ Increasing(Prefix(s, n)) /\ Increasing(Rest(s, n))
              /\ Before(Prefix(s, n), Rest(s, n))
         /\ \A u \in Seq(S) :
              /\ Before(u, s) => Before(u, Prefix(s, n)) /\ Before(u, Rest(s, n))
              /\ Before(s, u) => Before(Prefix(s, n), u) /\ Before(Rest(s, n), u)
<1> DEFINE a == Prefix(s, n)
           b == Rest(s, n)
<1>1. a \in Seq(S) /\ b \in Seq(S) /\ a \o b = s
  <2>1. n \in Nat
    OBVIOUS
  <2>2. a \in Seq(S)
    BY <2>1, PrefixFacts
  <2>3. b \in Seq(S)
    BY RestFacts
  <2>4. a \o b = s
    BY CutInTwo
  <2>5. QED
    BY <2>2, <2>3, <2>4
<1> HIDE DEF a, b
<1>2. Increasing(s) => Increasing(a) /\ Increasing(b) /\ Before(a, b)
  BY <1>1, ConcatInOrder
<1>3. ASSUME NEW u \in Seq(S)
      PROVE  /\ Before(u, s) => Before(u, a) /\ Before(u, b)
             /\ Before(s, u) => Before(a, u) /\ Before(b, u)
  BY <1>1, BeforeConcat
<1>4. /\ Increasing(s) => Increasing(a) /\ Increasing(b) /\ Before(a, b)
      /\ \A u \in Seq(S) : /\ Before(u, s) => Before(u, a) /\ Before(u, b)
                           /\ Before(s, u) => Before(a, u) /\ Before(b, u)
  BY <1>2, <1>3
<1>5. QED
  BY <1>4 DEF a, b

LEMMA EmptyInOrder == Increasing(<<>>) /\ \A s : Before(<<>>, s) /\ Before(s, <<>>)
BY DEF Increasing, Before

-----------------------------------------------------------------------------
(* The messages of suspended publishers.                                    *)

Put(M) == [message : M, publisher : Publisher \cup {Nobody}]

LEMMA PayloadFacts ==
  ASSUME NEW M, NEW puts \in Seq(Put(M))
  PROVE  /\ Payload(puts) \in Seq(M) /\ Len(Payload(puts)) = Len(puts)
         /\ \A i \in 1..Len(puts) : Payload(puts)[i] = puts[i].message
<1>1. DOMAIN puts = 1..Len(puts) /\ Len(puts) \in Nat
  OBVIOUS
<1>2. \A i \in 1..Len(puts) : puts[i].message \in M
  <2>1. \A i \in 1..Len(puts) : puts[i] \in Put(M)
    OBVIOUS
  <2>2. QED
    BY <2>1 DEF Put
<1>3. Payload(puts) = [i \in 1..Len(puts) |-> puts[i].message]
  BY <1>1 DEF Payload
<1>4. QED
  BY <1>1, <1>2, <1>3

LEMMA PayloadConcat ==
  ASSUME NEW M, NEW a \in Seq(Put(M)), NEW b \in Seq(Put(M))
  PROVE  Payload(a \o b) = Payload(a) \o Payload(b)
<1> DEFINE c == a \o b
<1>1. /\ c \in Seq(Put(M)) /\ Len(c) = Len(a) + Len(b)
      /\ \A i \in 1..Len(a) : c[i] = a[i]
      /\ \A i \in 1..Len(b) : c[Len(a) + i] = b[i]
  BY ConcatFacts
<1> HIDE DEF c
<1>2. Len(a) \in Nat /\ Len(b) \in Nat
  OBVIOUS
<1>3. /\ Payload(a) \in Seq(M) /\ Len(Payload(a)) = Len(a)
      /\ \A i \in 1..Len(a) : Payload(a)[i] = a[i].message
  BY PayloadFacts
<1>4. /\ Payload(b) \in Seq(M) /\ Len(Payload(b)) = Len(b)
      /\ \A i \in 1..Len(b) : Payload(b)[i] = b[i].message
  BY PayloadFacts
<1>5. /\ Payload(c) \in Seq(M) /\ Len(Payload(c)) = Len(c)
      /\ \A i \in 1..Len(c) : Payload(c)[i] = c[i].message
  BY <1>1, PayloadFacts
<1>6. ASSUME NEW i \in 1..Len(a) PROVE Payload(c)[i] = Payload(a)[i]
  <2>1. i \in 1..Len(c)
    BY <1>1, <1>2
  <2>2. QED
    BY <2>1, <1>1, <1>3, <1>5
<1>7. ASSUME NEW i \in 1..Len(b) PROVE Payload(c)[Len(a) + i] = Payload(b)[i]
  <2>1. Len(a) + i \in 1..Len(c)
    BY <1>1, <1>2
  <2>2. QED
    BY <2>1, <1>1, <1>4, <1>5
<1> DEFINE u == Payload(a)
           v == Payload(b)
           w == Payload(c)
<1>8. /\ u \in Seq(M) /\ v \in Seq(M) /\ w \in Seq(M) /\ Len(w) = Len(u) + Len(v)
      /\ \A i \in 1..Len(u) : w[i] = u[i]
      /\ \A i \in 1..Len(v) : w[Len(u) + i] = v[i]
  BY <1>1, <1>3, <1>4, <1>5, <1>6, <1>7
<1> HIDE DEF u, v, w
<1>9. u \o v = w
  BY <1>8, ConcatIs
<1>10. QED
  BY <1>9 DEF c, u, v, w

-----------------------------------------------------------------------------
(* What enters the hub, under each strategy.                                *)

\* A queue is never longer than its capacity.
Fits == strategy.tag # "unbounded" => Len(queue) <= strategy.capacity

\* Publishers wait at a full queue of the one strategy that suspends.
FullFirst == putters # <<>> => strategy.tag = "backpressure" /\ Len(queue) = strategy.capacity

LEMMA StrategyFacts ==
  ASSUME strategy \in Strategy
  PROVE  /\ strategy.tag \in {"unbounded", "sliding", "dropping", "backpressure"}
         /\ strategy.capacity \in Nat /\ strategy.capacity > 0
         /\ MaxMessages \in Nat
BY StrategyAssumption, BoundAssumption

LEMMA RoomFacts ==
  ASSUME strategy \in Strategy, NEW S, NEW q \in Seq(S),
         strategy.tag # "unbounded" => Len(q) <= strategy.capacity
  PROVE  /\ Room(q) \in Nat
         /\ strategy.tag # "unbounded" => Room(q) = strategy.capacity - Len(q)
         /\ strategy.tag = "unbounded" => Room(q) = MaxMessages
BY StrategyFacts DEF Room

LEMMA RestOfSecond ==
  ASSUME NEW S, NEW s \in Seq(S), NEW t \in Seq(S), NEW n \in 0..Len(t)
  PROVE  Rest(s \o t, Len(s) + n) = Rest(t, n)
<1> DEFINE c == s \o t
           a == Rest(c, Len(s) + n)
           b == Rest(t, n)
<1>1. /\ c \in Seq(S) /\ Len(c) = Len(s) + Len(t)
      /\ \A i \in 1..Len(t) : c[Len(s) + i] = t[i]
  BY ConcatFacts
<1>2. b \in Seq(S) /\ Len(b) = Len(t) - n /\ \A i \in 1..Len(b) : n + i \in 1..Len(t) /\ b[i] = t[n + i]
  BY RestFacts
<1> HIDE DEF b, c
<1>3. Len(s) + n \in 0..Len(c)
  BY <1>1
<1>4. a \in Seq(S) /\ Len(a) = Len(c) - (Len(s) + n) /\ \A i \in 1..Len(a) : a[i] = c[(Len(s) + n) + i]
  BY <1>1, <1>3, RestFacts
<1> HIDE DEF a
<1>5. Len(a) = Len(b)
  BY <1>1, <1>2, <1>4
<1>6. ASSUME NEW i \in 1..Len(a) PROVE a[i] = b[i]
  <2>1. n + i \in 1..Len(t) /\ b[i] = t[n + i]
    BY <1>2, <1>5
  <2>2. (Len(s) + n) + i = Len(s) + (n + i)
    BY <1>1
  <2>3. QED
    BY <2>1, <2>2, <1>1, <1>4
<1>7. a = b
  BY <1>2, <1>4, <1>5, <1>6, SeqEqual
<1>8. QED
  BY <1>7 DEF a, b, c

\* Where the messages of a call end: all in the backlog, or the oldest there
\* are gone (sliding), or the newest (dropping).
Joins(all) ==
  \/ Backlog' = all /\ dropped' = dropped
  \/ /\ strategy.tag = "sliding" /\ Len(queue') = strategy.capacity
     /\ \E k \in 0..Len(all) : /\ Backlog' = Rest(all, k) /\ Backlog' = queue'
                               /\ dropped' = dropped \cup ToSet(Prefix(all, k))
  \/ /\ strategy.tag = "dropping" /\ Len(queue') = strategy.capacity
     /\ \E k \in 0..Len(all) : /\ Backlog' = Prefix(all, k) /\ Backlog' = queue'
                               /\ dropped' = dropped \cup ToSet(Rest(all, k))

\* The assumptions of the lemmas about Enters.
Ready(N, ms) ==
  /\ strategy \in Strategy /\ queue \in Seq(N) /\ putters \in Seq(Put(N))
  /\ ms \in Seq(N) /\ Len(ms) <= MaxMessages
  /\ Fits /\ FullFirst

LEMMA EntersWithRoom ==
  ASSUME NEW N, NEW ms, Ready(N, ms), strategy' = strategy, Len(ms) <= Room(queue),
         queue' = queue \o ms, UNCHANGED <<putters, dropped>>
  PROVE  /\ queue' \in Seq(N) /\ putters' \in Seq(Put(N))
         /\ Fits' /\ FullFirst' /\ Joins(Backlog \o ms)
<1> USE DEF Ready
<1>1. /\ queue \o ms \in Seq(N) /\ Len(queue \o ms) = Len(queue) + Len(ms)
      /\ Len(queue) \in Nat /\ Len(ms) \in Nat
  BY ConcatFacts
<1>2. /\ strategy.tag # "unbounded" => Room(queue) = strategy.capacity - Len(queue)
      /\ strategy.capacity \in Nat
  BY RoomFacts, StrategyFacts DEF Fits
<1>3. Fits'
  BY <1>1, <1>2 DEF Fits
<1>4. CASE putters = <<>>
  <2>1. Payload(putters) = <<>>
    BY <1>4 DEF Payload
  <2>2. Backlog = queue /\ Backlog' = queue \o ms
    <3>1. queue \o <<>> = queue /\ (queue \o ms) \o <<>> = queue \o ms
      BY <1>1, EmptyFacts
    <3>2. QED
      BY <2>1, <3>1 DEF Backlog, Payload
  <2>3. QED
    BY <1>1, <1>3, <1>4, <2>2 DEF FullFirst, Joins
<1>5. CASE putters # <<>>
  <2>1. strategy.tag = "backpressure" /\ Len(queue) = strategy.capacity
    BY <1>5 DEF FullFirst
  <2>2. Len(ms) = 0
    BY <1>1, <1>2, <2>1
  <2>3. ms = <<>>
    BY <2>2, EmptyFacts
  <2>4. Payload(putters) \in Seq(N)
    BY PayloadFacts
  <2>5. Backlog \in Seq(N)
    BY <2>4, ConcatFacts DEF Backlog
  <2>6. Backlog \o ms = Backlog /\ queue \o ms = queue
    BY <2>3, <2>5, EmptyFacts
  <2>7. queue' = queue /\ Backlog' = Backlog
    BY <2>6 DEF Backlog, Payload
  <2>8. QED
    BY <1>3, <2>6, <2>7, <2>1 DEF FullFirst, Joins
<1>6. QED
  BY <1>4, <1>5

LEMMA EntersSliding ==
  ASSUME NEW N, NEW ms, Ready(N, ms), strategy' = strategy, Len(ms) > Room(queue),
         strategy.tag = "sliding",
         queue' = Rest(queue \o ms, Len(queue \o ms) - strategy.capacity),
         dropped' = dropped \cup ToSet(Prefix(queue \o ms, Len(queue \o ms) - strategy.capacity)),
         UNCHANGED putters
  PROVE  /\ queue' \in Seq(N) /\ putters' \in Seq(Put(N))
         /\ Fits' /\ FullFirst' /\ Joins(Backlog \o ms)
<1> USE DEF Ready
<1> DEFINE all == queue \o ms
           k == Len(all) - strategy.capacity
<1>1. /\ all \in Seq(N) /\ Len(all) = Len(queue) + Len(ms)
      /\ Len(queue) \in Nat /\ Len(ms) \in Nat
  BY ConcatFacts
<1>2. Room(queue) = strategy.capacity - Len(queue) /\ strategy.capacity \in Nat
  BY RoomFacts, StrategyFacts DEF Fits
<1>3. putters = <<>>
  BY DEF FullFirst
<1>4. Backlog = queue /\ Backlog' = queue'
  <2>1. Payload(putters) = <<>> /\ Payload(putters)' = <<>>
    BY <1>3 DEF Payload
  <2>2. k \in 0..Len(all)
    BY <1>1, <1>2
  <2>3. queue' \in Seq(N)
    BY <1>1, <2>2, RestFacts
  <2>4. queue \o <<>> = queue /\ queue' \o <<>> = queue'
    BY <2>3, EmptyFacts
  <2>5. QED
    BY <2>1, <2>4 DEF Backlog
<1> HIDE DEF all
<1>5. k \in 0..Len(all)
  BY <1>1, <1>2
<1>6. queue' = Rest(all, k) /\ dropped' = dropped \cup ToSet(Prefix(all, k))
  BY DEF all
<1>7. queue' \in Seq(N) /\ Len(queue') = strategy.capacity
  <2>1. Rest(all, k) \in Seq(N) /\ Len(Rest(all, k)) = Len(all) - k
    BY <1>1, <1>5, RestFacts
  <2>2. QED
    BY <1>1, <1>2, <1>6, <2>1
<1>8. Fits' /\ FullFirst'
  BY <1>2, <1>3, <1>7 DEF Fits, FullFirst
<1>9. Joins(all)
  BY <1>4, <1>5, <1>6, <1>7 DEF Joins
<1>10. QED
  BY <1>3, <1>4, <1>7, <1>8, <1>9 DEF all

LEMMA EntersDropping ==
  ASSUME NEW N, NEW ms, Ready(N, ms), strategy' = strategy, Len(ms) > Room(queue),
         strategy.tag = "dropping",
         queue' = Prefix(queue \o ms, strategy.capacity),
         dropped' = dropped \cup ToSet(Rest(ms, Room(queue))),
         UNCHANGED putters
  PROVE  /\ queue' \in Seq(N) /\ putters' \in Seq(Put(N))
         /\ Fits' /\ FullFirst' /\ Joins(Backlog \o ms)
<1> USE DEF Ready
<1> DEFINE all == queue \o ms
           k == strategy.capacity
<1>1. /\ all \in Seq(N) /\ Len(all) = Len(queue) + Len(ms)
      /\ Len(queue) \in Nat /\ Len(ms) \in Nat
  BY ConcatFacts
<1>2. /\ Room(queue) = k - Len(queue) /\ k \in Nat /\ Len(queue) <= k
      /\ Room(queue) \in 0..Len(ms)
  <2>1. Room(queue) = k - Len(queue) /\ k \in Nat /\ Room(queue) \in Nat
    BY RoomFacts, StrategyFacts DEF Fits
  <2>2. QED
    BY <2>1, <1>1 DEF Fits
<1>3. putters = <<>>
  BY DEF FullFirst
<1>4. Rest(ms, Room(queue)) = Rest(all, k)
  <2>1. Rest(all, Len(queue) + Room(queue)) = Rest(ms, Room(queue))
    BY <1>2, RestOfSecond
  <2>2. Len(queue) + Room(queue) = k
    BY <1>1, <1>2
  <2>3. QED
    BY <2>1, <2>2
<1> HIDE DEF all
<1>5. k \in 0..Len(all)
  BY <1>1, <1>2
<1>6. queue' = Prefix(all, k) /\ dropped' = dropped \cup ToSet(Rest(all, k))
  BY <1>4 DEF all
<1>7. queue' \in Seq(N) /\ Len(queue') = k
  <2>1. Prefix(all, k) \in Seq(N) /\ Len(Prefix(all, k)) = Least(k, Len(all))
    BY <1>1, <1>2, PrefixFacts
  <2>2. QED
    BY <1>5, <1>6, <2>1 DEF Least
<1>8. Fits' /\ FullFirst'
  BY <1>2, <1>3, <1>7 DEF Fits, FullFirst
<1>9. Backlog = queue /\ Backlog' = queue'
  <2>1. Payload(putters) = <<>> /\ Payload(putters)' = <<>>
    BY <1>3 DEF Payload
  <2>2. queue \o <<>> = queue /\ queue' \o <<>> = queue'
    BY <1>7, EmptyFacts
  <2>3. QED
    BY <2>1, <2>2 DEF Backlog
<1>10. Joins(all)
  BY <1>5, <1>6, <1>7, <1>9 DEF Joins
<1>11. QED
  BY <1>3, <1>7, <1>8, <1>9, <1>10 DEF all

\* The messages of a call with the fiber that waits for them.
Waiting(ms, p) == [i \in DOMAIN ms |-> [message |-> ms[i], publisher |-> p]]

LEMMA WaitingFacts ==
  ASSUME NEW N, NEW ms \in Seq(N), NEW p \in Publisher \cup {Nobody}
  PROVE  Waiting(ms, p) \in Seq(Put(N)) /\ Payload(Waiting(ms, p)) = ms
<1>1. Waiting(ms, p) \in Seq(Put(N)) /\ Len(Waiting(ms, p)) = Len(ms)
  <2>1. \A i \in 1..Len(ms) : [message |-> ms[i], publisher |-> p] \in Put(N)
    BY DEF Put
  <2>2. Waiting(ms, p) = [i \in 1..Len(ms) |-> [message |-> ms[i], publisher |-> p]]
    BY DEF Waiting
  <2>3. QED
    BY <2>1, <2>2
<1>2. /\ Payload(Waiting(ms, p)) \in Seq(N) /\ Len(Payload(Waiting(ms, p))) = Len(ms)
      /\ \A i \in 1..Len(ms) : Payload(Waiting(ms, p))[i] = Waiting(ms, p)[i].message
  BY <1>1, PayloadFacts
<1>3. \A i \in 1..Len(ms) : Waiting(ms, p)[i].message = ms[i]
  BY DEF Waiting
<1>4. Payload(Waiting(ms, p)) = ms
  BY <1>2, <1>3, SeqEqual
<1>5. QED
  BY <1>1, <1>4

LEMMA WholePieces ==
  ASSUME NEW S, NEW s \in Seq(S), NEW t \in Seq(S)
  PROVE  Prefix(s \o t, Len(s)) = s /\ Rest(t, 0) = t
<1> DEFINE c == s \o t
           a == Prefix(c, Len(s))
           b == Rest(t, 0)
<1>1. /\ c \in Seq(S) /\ Len(c) = Len(s) + Len(t)
      /\ \A i \in 1..Len(s) : c[i] = s[i]
      /\ Len(s) \in Nat /\ Len(t) \in Nat
  BY ConcatFacts
<1> HIDE DEF c
<1>2. /\ a \in Seq(S) /\ Len(a) = Least(Len(s), Len(c)) /\ \A i \in 1..Len(a) : a[i] = c[i]
  BY <1>1, PrefixFacts
<1>3. b \in Seq(S) /\ Len(b) = Len(t) - 0 /\ \A i \in 1..Len(b) : b[i] = t[0 + i]
  BY <1>1, RestFacts
<1> HIDE DEF a, b
<1>4. Len(a) = Len(s) /\ \A i \in 1..Len(a) : a[i] = s[i]
  BY <1>1, <1>2 DEF Least
<1>5. a = s
  BY <1>2, <1>4, SeqEqual
<1>6. Len(b) = Len(t) /\ \A i \in 1..Len(b) : b[i] = t[i]
  BY <1>1, <1>3
<1>7. b = t
  BY <1>3, <1>6, SeqEqual
<1>8. QED
  BY <1>5, <1>7 DEF a, b, c

LEMMA EntersBackpressure ==
  ASSUME NEW N, NEW ms, Ready(N, ms), strategy' = strategy, Len(ms) > Room(queue),
         strategy.tag = "backpressure", NEW p \in Publisher \cup {Nobody},
         queue' = Prefix(queue \o ms, strategy.capacity),
         putters' = putters \o Waiting(Rest(ms, Room(queue)), p),
         UNCHANGED dropped
  PROVE  /\ queue' \in Seq(N) /\ putters' \in Seq(Put(N))
         /\ Fits' /\ FullFirst' /\ Joins(Backlog \o ms)
<1> USE DEF Ready
<1> DEFINE all == queue \o ms
           k == strategy.capacity
           surplus == Rest(ms, Room(queue))
           waits == Waiting(surplus, p)
<1>1. /\ all \in Seq(N) /\ Len(all) = Len(queue) + Len(ms)
      /\ Len(queue) \in Nat /\ Len(ms) \in Nat
  BY ConcatFacts
<1>2. /\ Room(queue) = k - Len(queue) /\ k \in Nat /\ Len(queue) <= k
      /\ Room(queue) \in 0..Len(ms)
  <2>1. Room(queue) = k - Len(queue) /\ k \in Nat /\ Room(queue) \in Nat
    BY RoomFacts, StrategyFacts DEF Fits
  <2>2. QED
    BY <2>1, <1>1 DEF Fits
<1>3. surplus \in Seq(N)
  BY <1>2, RestFacts
<1>4. surplus = Rest(all, k)
  <2>1. Rest(all, Len(queue) + Room(queue)) = Rest(ms, Room(queue))
    BY <1>2, RestOfSecond
  <2>2. Len(queue) + Room(queue) = k
    BY <1>1, <1>2
  <2>3. QED
    BY <2>1, <2>2
<1>5. k \in 0..Len(all)
  BY <1>1, <1>2
<1>6. Prefix(all, k) \in Seq(N) /\ Len(Prefix(all, k)) = k
  <2>1. Prefix(all, k) \in Seq(N) /\ Len(Prefix(all, k)) = Least(k, Len(all))
    BY <1>1, <1>2, PrefixFacts
  <2>2. QED
    BY <1>5, <2>1 DEF Least
<1>7. waits \in Seq(Put(N)) /\ Payload(waits) = surplus
  BY <1>3, WaitingFacts
<1> HIDE DEF waits
<1>8. putters' \in Seq(Put(N)) /\ Payload(putters') = Payload(putters) \o surplus
  <2>1. putters' = putters \o waits
    BY DEF waits
  <2>2. putters \o waits \in Seq(Put(N))
    BY <1>7, ConcatFacts
  <2>3. Payload(putters \o waits) = Payload(putters) \o Payload(waits)
    BY <1>7, PayloadConcat
  <2>4. QED
    BY <2>1, <2>2, <2>3, <1>7
<1>9. queue' \in Seq(N) /\ Len(queue') = k
  BY <1>6
<1>10. Fits' /\ FullFirst'
  BY <1>9, <1>2 DEF Fits, FullFirst
<1>11. Payload(putters) \in Seq(N)
  BY PayloadFacts
<1>12. Backlog' = queue' \o (Payload(putters) \o surplus)
  BY <1>8 DEF Backlog, Payload
<1>13. Backlog' = Backlog \o ms
  <2>1. CASE putters = <<>>
    <3>1. Payload(putters) = <<>>
      BY <2>1 DEF Payload
    <3>2. Payload(putters) \o surplus = surplus /\ Backlog = queue
      BY <3>1, <1>3, EmptyFacts DEF Backlog
    <3>3. Prefix(all, k) \o Rest(all, k) = all
      BY <1>1, <1>5, CutInTwo
    <3>4. QED
      BY <3>2, <3>3, <1>4, <1>12
  <2>2. CASE putters # <<>>
    <3>1. Len(queue) = k /\ Room(queue) = 0
      BY <2>2, <1>1, <1>2 DEF FullFirst
    <3>2. Prefix(all, k) = queue /\ surplus = ms
      BY <3>1, WholePieces
    <3>3. queue \o (Payload(putters) \o ms) = (queue \o Payload(putters)) \o ms
      BY <1>11, ConcatAssoc, SMTT(30)
    <3>4. QED
      BY <3>2, <3>3, <1>12 DEF Backlog
  <2>3. QED
    BY <2>1, <2>2
<1>14. QED
  BY <1>8, <1>9, <1>10, <1>13 DEF Joins

\* Whatever the strategy and the room.
LEMMA EntersJoins ==
  ASSUME NEW N, NEW ms, Ready(N, ms), strategy' = strategy,
         NEW p \in Publisher \cup {Nobody}, Enters(ms, p)
  PROVE  /\ queue' \in Seq(N) /\ putters' \in Seq(Put(N))
         /\ Fits' /\ FullFirst' /\ Joins(Backlog \o ms)
<1>1. /\ ms \in Seq(N) /\ queue \in Seq(N) /\ Len(ms) \in Nat /\ Len(ms) <= MaxMessages
      /\ Room(queue) \in Nat
      /\ strategy.tag = "unbounded" => Room(queue) = MaxMessages
      /\ strategy.tag \in {"unbounded", "sliding", "dropping", "backpressure"}
  BY RoomFacts, StrategyFacts DEF Ready, Fits
<1>2. CASE Len(ms) <= Room(queue)
  <2>1. Rest(ms, Room(queue)) = <<>>
    BY <1>1, <1>2, RestNone
  <2>2. queue' = queue \o ms /\ UNCHANGED <<putters, dropped>>
    BY <2>1 DEF Enters
  <2>3. QED
    BY <1>2, <2>2, EntersWithRoom
<1>3. CASE Len(ms) > Room(queue)
  <2>1. Rest(ms, Room(queue)) # <<>>
    <3>1. Rest(ms, Room(queue)) \in Seq(N) /\ Len(Rest(ms, Room(queue))) = Len(ms) - Room(queue)
      BY <1>1, <1>3, RestFacts
    <3>2. Len(Rest(ms, Room(queue))) # 0
      BY <3>1, <1>1, <1>3
    <3>3. QED
      BY <3>1, <3>2, EmptyFacts
  <2>2. strategy.tag # "unbounded"
    BY <1>1, <1>3
  <2>3. CASE strategy.tag = "sliding"
    <3>1. /\ queue' = Rest(queue \o ms, Len(queue \o ms) - strategy.capacity)
          /\ dropped' = dropped \cup ToSet(Prefix(queue \o ms, Len(queue \o ms) - strategy.capacity))
          /\ UNCHANGED putters
      BY <2>1, <2>3 DEF Enters
    <3>2. QED
      BY <3>1, <1>3, <2>3, EntersSliding
  <2>4. CASE strategy.tag = "dropping"
    <3>1. /\ queue' = Prefix(queue \o ms, strategy.capacity)
          /\ dropped' = dropped \cup ToSet(Rest(ms, Room(queue)))
          /\ UNCHANGED putters
      BY <2>1, <2>4 DEF Enters
    <3>2. QED
      BY <3>1, <1>3, <2>4, EntersDropping
  <2>5. CASE strategy.tag = "backpressure"
    <3>1. /\ queue' = Prefix(queue \o ms, strategy.capacity)
          /\ putters' = putters \o Waiting(Rest(ms, Room(queue)), p)
          /\ UNCHANGED dropped
      BY <2>1, <2>5 DEF Enters, Waiting
    <3>2. QED
      BY <3>1, <1>3, <2>5, EntersBackpressure
  <2>6. QED
    BY <1>1, <2>2, <2>3, <2>4, <2>5
<1>4. QED
  BY <1>1, <1>2, <1>3

LEMMA ConcatSet ==
  ASSUME NEW S, NEW s \in Seq(S), NEW t \in Seq(S)
  PROVE  ToSet(s \o t) = ToSet(s) \cup ToSet(t)
<1> DEFINE c == s \o t
<1>1. /\ \A i \in DOMAIN s : i \in DOMAIN c /\ c[i] = s[i]
      /\ \A i \in DOMAIN t : Len(s) + i \in DOMAIN c /\ c[Len(s) + i] = t[i]
      /\ \A i \in DOMAIN c : i \in DOMAIN s \/ \E j \in DOMAIN t : i = Len(s) + j
  BY ConcatEntries
<1> HIDE DEF c
<1>2. ToSet(c) = ToSet(s) \cup ToSet(t)
  BY <1>1 DEF ToSet
<1>3. QED
  BY <1>2 DEF c

LEMMA CutSet ==
  ASSUME NEW S, NEW s \in Seq(S), NEW n \in 0..Len(s)
  PROVE  ToSet(s) = ToSet(Prefix(s, n)) \cup ToSet(Rest(s, n))
<1>1. n \in Nat
  OBVIOUS
<1>2. Prefix(s, n) \in Seq(S)
  BY <1>1, PrefixFacts
<1>3. Rest(s, n) \in Seq(S)
  BY RestFacts
<1>4. ToSet(Prefix(s, n) \o Rest(s, n)) = ToSet(Prefix(s, n)) \cup ToSet(Rest(s, n))
  BY <1>2, <1>3, ConcatSet
<1>5. QED
  BY <1>4, CutInTwo

\* A publisher is suspended if and only if some message waits with it.
PublishersWait ==
  /\ publisher \in [Publisher -> {"idle", "suspended"}]
  /\ \A p \in Publisher :
       publisher[p] = "suspended" <=> \E put \in ToSet(putters) : put.publisher = p

LEMMA EntersPublishers ==
  ASSUME NEW N, NEW ms, Ready(N, ms), PublishersWait,
         NEW p \in Publisher \cup {Nobody}, Enters(ms, p)
  PROVE  PublishersWait'
<1> DEFINE surplus == Rest(ms, Room(queue))
           waits == Waiting(surplus, p)
<1>1. /\ ms \in Seq(N) /\ putters \in Seq(Put(N)) /\ Room(queue) \in Nat
      /\ strategy.tag \in {"unbounded", "sliding", "dropping", "backpressure"}
  BY RoomFacts, StrategyFacts DEF Ready, Fits
<1>2. CASE UNCHANGED <<putters, publisher>>
  BY <1>2 DEF PublishersWait
<1>3. CASE /\ surplus # <<>>
           /\ putters' = putters \o waits
           /\ publisher' = [q \in Publisher |-> IF q = p THEN "suspended" ELSE publisher[q]]
  <2>1. surplus \in Seq(N) /\ Len(surplus) # 0
    <3>1. CASE Room(queue) \in 0..Len(ms)
      <4>1. surplus \in Seq(N)
        BY <3>1, <1>1, RestFacts
      <4>2. QED
        BY <4>1, <1>3, EmptyFacts
    <3>2. CASE Room(queue) \notin 0..Len(ms)
      <4>1. Room(queue) >= Len(ms)
        BY <3>2, <1>1
      <4>2. surplus = <<>>
        BY <4>1, <1>1, RestNone
      <4>3. QED
        BY <4>2, <1>3
    <3>3. QED
      BY <3>1, <3>2
  <2> HIDE DEF surplus
  <2>2. waits \in Seq(Put(N))
    BY <2>1, WaitingFacts
  <2>3. DOMAIN waits = 1..Len(surplus) /\ \A i \in 1..Len(surplus) : waits[i].publisher = p
    BY <2>1 DEF Waiting
  <2>4. 1 \in 1..Len(surplus)
    BY <2>1
  <2>5. ToSet(waits) # {} /\ \A put \in ToSet(waits) : put.publisher = p
    BY <2>3, <2>4 DEF ToSet
  <2>6. ToSet(putters') = ToSet(putters) \cup ToSet(waits)
    BY <1>1, <1>3, <2>2, ConcatSet
  <2>7. \A q \in Publisher : publisher'[q] = "suspended" <=> q = p \/ publisher[q] = "suspended"
    BY <1>3
  <2>8. publisher' \in [Publisher -> {"idle", "suspended"}]
    BY <1>3 DEF PublishersWait
  <2>9. \A q \in Publisher :
          (\E put \in ToSet(putters') : put.publisher = q)
            <=> q = p \/ \E put \in ToSet(putters) : put.publisher = q
    BY <2>5, <2>6
  <2>10. \A q \in Publisher : publisher'[q] = "suspended" <=> \E put \in ToSet(putters') : put.publisher = q
    BY <2>7, <2>9 DEF PublishersWait
  <2>11. QED
    BY <2>8, <2>10 DEF PublishersWait, ToSet
<1>4. CASE surplus = <<>>
  <2>1. UNCHANGED <<putters, publisher>>
    BY <1>4 DEF Enters
  <2>2. QED
    BY <2>1, <1>2
<1>5. CASE surplus # <<>>
  <2>1. \/ UNCHANGED <<putters, publisher>>
        \/ /\ putters' = putters \o waits
           /\ publisher' = [q \in Publisher |-> IF q = p THEN "suspended" ELSE publisher[q]]
        \/ strategy.tag = "unbounded"
    BY <1>1, <1>5 DEF Enters, Waiting
  <2>2. strategy.tag # "unbounded"
    <3>1. ASSUME strategy.tag = "unbounded" PROVE surplus = <<>>
      <4>1. Room(queue) = MaxMessages /\ Len(ms) <= MaxMessages
        BY <3>1, RoomFacts DEF Ready, Fits
      <4>2. QED
        BY <4>1, <1>1, RestNone
    <3>2. QED
      BY <3>1, <1>5
  <2>3. QED
    BY <2>1, <2>2, <1>2, <1>3, <1>5
<1>6. QED
  BY <1>4, <1>5

\* What is left of a sequence in order is in order, and not younger.
LEMMA JoinsInOrder ==
  ASSUME NEW N, N \subseteq Nat, NEW all \in Seq(N), Joins(all), Increasing(all)
  PROVE  /\ Increasing(Backlog')
         /\ \A u \in Seq(N) : Before(u, all) => Before(u, Backlog')
         /\ all = <<>> => Backlog' = <<>>
<1>1. CASE Backlog' = all
  BY <1>1
<1>2. ASSUME NEW k \in 0..Len(all), Backlog' = Rest(all, k) \/ Backlog' = Prefix(all, k)
      PROVE  /\ Increasing(Backlog')
             /\ \A u \in Seq(N) : Before(u, all) => Before(u, Backlog')
             /\ all = <<>> => Backlog' = <<>>
  <2>1. Increasing(Backlog')
    BY <1>2, CutInOrder
  <2>2. \A u \in Seq(N) : Before(u, all) => Before(u, Backlog')
    BY <1>2, CutInOrder
  <2>3. ASSUME all = <<>> PROVE Backlog' = <<>>
    <3>1. Len(all) = 0 /\ k = 0 /\ k \in Nat
      BY <2>3
    <3>2. Rest(all, k) \in Seq(N) /\ Len(Rest(all, k)) = 0
      <4>1. Rest(all, k) \in Seq(N) /\ Len(Rest(all, k)) = Len(all) - k
        BY RestFacts
      <4>2. QED
        BY <3>1, <4>1
    <3>3. Prefix(all, k) \in Seq(N) /\ Len(Prefix(all, k)) = 0
      <4>1. Prefix(all, k) \in Seq(N) /\ Len(Prefix(all, k)) = Least(k, Len(all))
        BY <3>1, PrefixFacts
      <4>2. QED
        BY <3>1, <4>1 DEF Least
    <3>4. QED
      BY <1>2, <3>2, <3>3, EmptyFacts
  <2>4. QED
    BY <2>1, <2>2, <2>3
<1>3. QED
  BY <1>1, <1>2 DEF Joins

LEMMA JoinsDrops ==
  ASSUME NEW N, N \subseteq Nat, NEW all \in Seq(N), Joins(all), Increasing(all)
  PROVE  /\ dropped' \subseteq dropped \cup N
         /\ \A m \in dropped' \ dropped :
              /\ Len(queue') = strategy.capacity
              /\ \/ strategy.tag = "sliding" /\ \A w \in ToSet(queue') : m < w
                 \/ strategy.tag = "dropping" /\ \A w \in ToSet(queue') : w < m
<1>1. CASE dropped' = dropped
  BY <1>1
<1>2. ASSUME NEW k \in 0..Len(all)
      PROVE  /\ \A m \in ToSet(Prefix(all, k)), w \in ToSet(Rest(all, k)) : m < w
             /\ ToSet(Prefix(all, k)) \cup ToSet(Rest(all, k)) \subseteq N
  <2>1. Before(Prefix(all, k), Rest(all, k))
    BY CutInOrder
  <2>2. ToSet(all) \subseteq N
    BY DEF ToSet
  <2>3. QED
    BY <2>1, <2>2, CutSet DEF Before, ToSet
<1>3. CASE /\ strategy.tag = "sliding" /\ Len(queue') = strategy.capacity
           /\ \E k \in 0..Len(all) : /\ Backlog' = Rest(all, k) /\ Backlog' = queue'
                                     /\ dropped' = dropped \cup ToSet(Prefix(all, k))
  BY <1>2, <1>3
<1>4. CASE /\ strategy.tag = "dropping" /\ Len(queue') = strategy.capacity
           /\ \E k \in 0..Len(all) : /\ Backlog' = Prefix(all, k) /\ Backlog' = queue'
                                     /\ dropped' = dropped \cup ToSet(Rest(all, k))
  BY <1>2, <1>4
<1>5. QED
  BY <1>1, <1>3, <1>4 DEF Joins

-----------------------------------------------------------------------------
(* The inductive invariant.                                                 *)

\* No subscriber waits twice.
Once == \A i, j \in DOMAIN takers : takers[i] = takers[j] => i = j

SubscribersWait == \A s \in Subscriber : subscriber[s] = "waiting" <=> s \in ToSet(takers)

Ordered ==
  /\ Increasing(Backlog)
  /\ \A s \in Subscriber : Increasing(Got(s)) /\ Before(Got(s), Backlog)

Inv ==
  /\ TypeOK /\ published <= MaxMessages
  /\ Fits /\ FullFirst /\ Once
  /\ takers = <<>> \/ Backlog = <<>>
  /\ SubscribersWait /\ PublishersWait
  /\ Ordered

LEMMA InvGivesOrder == Inv => InOrder
BY DEF Inv, Ordered, Before, InOrder

LEMMA InvGivesNoWait == Inv => NobodyWaitsInVain
<1> SUFFICES ASSUME Inv PROVE NobodyWaitsInVain
  OBVIOUS
<1>1. /\ strategy \in Strategy /\ queue \in Seq(Messages) /\ putters \in Seq(Put(Messages))
      /\ takers \in Seq(Subscriber)
  BY DEF Inv, TypeOK, Put
<1>2. putters = <<>> \/ Room(queue) = 0
  BY <1>1, StrategyFacts DEF Inv, FullFirst, Room
<1>3. Size > 0 <=> Backlog # <<>>
  <2>1. Backlog \in Seq(Messages)
    BY <1>1, PayloadFacts, ConcatFacts DEF Backlog
  <2>2. /\ Backlog = <<>> <=> Len(Backlog) = 0
        /\ takers = <<>> <=> Len(takers) = 0
        /\ Len(Backlog) \in Nat /\ Len(takers) \in Nat
    BY <2>1, <1>1, EmptyFacts
  <2>3. takers = <<>> \/ Backlog = <<>>
    BY DEF Inv
  <2>4. QED
    BY <2>2, <2>3 DEF Size
<1>4. QED
  BY <1>2, <1>3 DEF Inv, NobodyWaitsInVain, SubscribersWait, PublishersWait

LEMMA InitInv == Init => Inv
<1> SUFFICES ASSUME Init PROVE Inv
  OBVIOUS
<1> USE DEF Init
<1>1. published = 0 /\ queue = <<>> /\ takers = <<>> /\ putters = <<>>
  OBVIOUS
<1>2. Payload(putters) = <<>> /\ Backlog = <<>>
  BY <1>1 DEF Payload, Backlog
<1>3. TypeOK
  BY <1>1 DEF TypeOK, Messages
<1>4. published <= MaxMessages
  BY BoundAssumption
<1>5. Fits /\ FullFirst
  BY StrategyFacts DEF Fits, FullFirst
<1>6. Once /\ SubscribersWait /\ PublishersWait
  BY DEF Once, SubscribersWait, PublishersWait, ToSet
<1>7. Ordered
  <2>1. \A s \in Subscriber : Got(s) = <<>>
    BY DEF Got
  <2>2. QED
    BY <1>2, <2>1, EmptyInOrder DEF Ordered
<1>8. QED
  BY <1>1, <1>3, <1>4, <1>5, <1>6, <1>7 DEF Inv

LEMMA WiderSeq ==
  ASSUME NEW a \in Nat, NEW b \in Nat, a <= b
  PROVE  Seq(1..a) \subseteq Seq(1..b) /\ Seq(Put(1..a)) \subseteq Seq(Put(1..b))
<1>1. 1..a \subseteq 1..b
  OBVIOUS
<1>2. Put(1..a) \subseteq Put(1..b)
  BY <1>1 DEF Put
<1>3. QED
  BY <1>1, <1>2

\* The messages of a call are younger than all before.
Numbered(a, n) == [i \in 1..n |-> a + i]

LEMMA NumberedFacts ==
  ASSUME NEW a \in Nat, NEW n \in Nat
  PROVE  /\ Numbered(a, n) \in Seq(1..(a + n)) /\ Len(Numbered(a, n)) = n
         /\ Increasing(Numbered(a, n))
         /\ \A u \in Seq(1..a) : Before(u, Numbered(a, n))
<1>1. \A i \in 1..n : a + i \in 1..(a + n)
  OBVIOUS
<1>2. Numbered(a, n) \in Seq(1..(a + n)) /\ Len(Numbered(a, n)) = n
  BY <1>1 DEF Numbered
<1>3. DOMAIN Numbered(a, n) = 1..n /\ \A i \in 1..n : Numbered(a, n)[i] = a + i
  BY DEF Numbered
<1>4. Increasing(Numbered(a, n))
  BY <1>3 DEF Increasing
<1>5. ASSUME NEW u \in Seq(1..a) PROVE Before(u, Numbered(a, n))
  BY <1>3 DEF Before
<1>6. QED
  BY <1>2, <1>4, <1>5

-----------------------------------------------------------------------------
(* Publishing.                                                              *)

\* The waiting subscribers that get the first of n messages, whatever the queue:
\* nobody waits at a queue that is not empty.
LEMMA PublishUnfolds ==
  ASSUME Inv, NEW p, NEW n \in Nat, Publish(p, n)
  PROVE  LET k == Least(n, Len(takers))
             ms == Numbered(published, n)
             Served(s) == s \in ToSet(Prefix(takers, k))
         IN /\ published' = published + n /\ published + n <= MaxMessages
            /\ takers' = Rest(takers, k)
            /\ \A s \in Subscriber :
                 IF Served(s)
                   THEN /\ \E i \in 1..k : takers[i] = s /\ chunk'[s] = <<published + i>>
                        /\ subscriber'[s] = "running"
                   ELSE chunk'[s] = chunk[s] /\ subscriber'[s] = subscriber[s]
            /\ DOMAIN chunk' = Subscriber /\ DOMAIN subscriber' = Subscriber
            /\ chunk' = [s \in Subscriber |-> chunk'[s]]
            /\ subscriber' = [s \in Subscriber |-> subscriber'[s]]
            /\ Enters(Rest(ms, k), p)
            /\ UNCHANGED <<strategy, handled, abandoned, stops>>
<1> DEFINE k == Least(n, Len(takers))
           ms == Numbered(published, n)
           served == IF queue = <<>> THEN Prefix(takers, n) ELSE <<>>
<1>1. takers \in Seq(Subscriber) /\ Len(takers) \in Nat /\ k \in 0..n /\ k \in 0..Len(takers)
  BY DEF Inv, TypeOK, Least
<1>2. Prefix(takers, n) = Prefix(takers, k)
  BY <1>1 DEF Prefix, Least
<1>3. Prefix(takers, k) \in Seq(Subscriber) /\ Len(Prefix(takers, k)) = k
  <2>1. Least(k, Len(takers)) = k /\ k \in Nat
    BY <1>1 DEF Least
  <2>2. QED
    BY <1>1, <2>1, PrefixFacts
<1>4. served = Prefix(takers, k)
  <2>1. CASE queue = <<>>
    BY <2>1, <1>2
  <2>2. CASE queue # <<>>
    <3>1. Backlog # <<>>
      <4>1. queue \in Seq(Messages) /\ putters \in Seq(Put(Messages))
        BY DEF Inv, TypeOK, Put
      <4>2. Len(queue) # 0 /\ Len(queue) \in Nat
        BY <2>2, <4>1, EmptyFacts
      <4>3. Payload(putters) \in Seq(Messages)
        BY <4>1, PayloadFacts
      <4>4. Len(Backlog) = Len(queue) + Len(Payload(putters)) /\ Len(Payload(putters)) \in Nat
        BY <4>1, <4>3, ConcatFacts DEF Backlog
      <4>5. QED
        BY <4>2, <4>4
    <3>2. takers = <<>>
      BY <3>1 DEF Inv
    <3>3. k = 0
      BY <3>2, <1>1
    <3>4. Prefix(takers, k) = <<>>
      BY <3>3, <1>3, EmptyFacts
    <3>5. QED
      BY <2>2, <3>4
  <2>3. QED
    BY <2>1, <2>2
<1> HIDE DEF k
<1>5. Len(served) = k /\ DOMAIN served = 1..k
  BY <1>3, <1>4
<1>6. \A s : (\E i \in DOMAIN served : served[i] = s) <=> s \in ToSet(Prefix(takers, k))
  BY <1>4 DEF ToSet
<1> HIDE DEF served
<1>7. /\ published' = published + n /\ published + n <= MaxMessages
      /\ takers' = Rest(takers, Len(served))
      /\ chunk' = [s \in Subscriber |->
                     IF \E i \in DOMAIN served : served[i] = s
                       THEN <<ms[CHOOSE i \in DOMAIN served : served[i] = s]>> ELSE chunk[s]]
      /\ subscriber' = [s \in Subscriber |->
                          IF \E i \in DOMAIN served : served[i] = s THEN "running" ELSE subscriber[s]]
      /\ Enters(Rest(ms, Len(served)), p)
      /\ UNCHANGED <<strategy, handled, abandoned, stops>>
  BY DEF Publish, served, Numbered
<1>8. ASSUME NEW s \in Subscriber
      PROVE  IF s \in ToSet(Prefix(takers, k))
               THEN /\ \E i \in 1..k : takers[i] = s /\ chunk'[s] = <<published + i>>
                    /\ subscriber'[s] = "running"
               ELSE chunk'[s] = chunk[s] /\ subscriber'[s] = subscriber[s]
  <2>1. CASE s \in ToSet(Prefix(takers, k))
    <3>1. \E i \in DOMAIN served : served[i] = s
      BY <2>1, <1>6
    <3>2. PICK h \in 1..k : h = (CHOOSE i \in DOMAIN served : served[i] = s) /\ served[h] = s
      BY <3>1, <1>5
    <3>3. \A i \in 1..k : ms[i] = published + i
      BY <1>1 DEF Numbered
    <3>4. /\ chunk'[s] = <<ms[CHOOSE i \in DOMAIN served : served[i] = s]>>
          /\ subscriber'[s] = "running"
      BY <1>7, <3>1
    <3>5. served[h] = takers[h]
      <4>1. k \in Nat /\ h \in 1..Len(Prefix(takers, k))
        BY <1>1, <1>3
      <4>2. QED
        BY <4>1, <1>1, <1>4, PrefixFacts
    <3>6. QED
      BY <2>1, <3>2, <3>3, <3>4, <3>5
  <2>2. CASE s \notin ToSet(Prefix(takers, k))
    BY <2>2, <1>6, <1>7
  <2>3. QED
    BY <2>1, <2>2
<1>9. /\ DOMAIN chunk' = Subscriber /\ DOMAIN subscriber' = Subscriber
      /\ chunk' = [s \in Subscriber |-> chunk'[s]]
      /\ subscriber' = [s \in Subscriber |-> subscriber'[s]]
  BY <1>7
<1>10. takers' = Rest(takers, k) /\ Enters(Rest(ms, k), p)
  BY <1>5, <1>7
<1> HIDE DEF ms
<1>11. QED
  BY <1>7, <1>8, <1>9, <1>10 DEF k, ms

LEMMA BacklogType == Inv => Backlog \in Seq(Messages) /\ queue \in Seq(Messages)
                              /\ putters \in Seq(Put(Messages)) /\ Payload(putters) \in Seq(Messages)
<1> SUFFICES ASSUME Inv PROVE Backlog \in Seq(Messages) /\ queue \in Seq(Messages)
                              /\ putters \in Seq(Put(Messages)) /\ Payload(putters) \in Seq(Messages)
  OBVIOUS
<1>1. queue \in Seq(Messages) /\ putters \in Seq(Put(Messages))
  BY DEF Inv, TypeOK, Put
<1>2. Payload(putters) \in Seq(Messages)
  BY <1>1, PayloadFacts
<1>3. QED
  BY <1>1, <1>2, ConcatFacts DEF Backlog

LEMMA GotType == Inv => \A s \in Subscriber : Got(s) \in Seq(Messages)
BY ConcatFacts DEF Inv, TypeOK, Got

\* A subscriber that waits, waits; when it is served it leaves the line.
LEMMA LineAfterService ==
  ASSUME Inv, NEW k \in 0..Len(takers), takers' = Rest(takers, k)
  PROVE  /\ takers' \in Seq(Subscriber) /\ Once'
         /\ \A s \in ToSet(Prefix(takers, k)) : s \in Subscriber /\ s \notin ToSet(takers') /\ s \in ToSet(takers)
         /\ \A s : s \in ToSet(takers) /\ s \notin ToSet(Prefix(takers, k)) => s \in ToSet(takers')
         /\ ToSet(takers') \subseteq ToSet(takers)
<1>1. takers \in Seq(Subscriber) /\ Len(takers) \in Nat /\ k \in Nat /\ k <= Len(takers)
  BY DEF Inv, TypeOK
<1>2. \A i, j \in 1..Len(takers) : takers[i] = takers[j] => i = j
  BY <1>1 DEF Inv, Once
<1> DEFINE a == Prefix(takers, k)
           b == Rest(takers, k)
<1>3. a \in Seq(Subscriber) /\ Len(a) = k /\ \A i \in 1..k : i \in 1..Len(takers) /\ a[i] = takers[i]
  <2>1. Least(k, Len(takers)) = k
    BY <1>1 DEF Least
  <2>2. QED
    BY <1>1, <2>1, PrefixFacts
<1>4. /\ b \in Seq(Subscriber) /\ Len(b) = Len(takers) - k
      /\ \A i \in 1..Len(b) : k + i \in 1..Len(takers) /\ b[i] = takers[k + i]
  BY <1>1, RestFacts
<1>5. ToSet(takers) = ToSet(a) \cup ToSet(b)
  BY <1>1, CutSet
<1> HIDE DEF a, b
<1>6. DOMAIN a = 1..k /\ DOMAIN b = 1..Len(b)
  BY <1>3, <1>4
<1>7. \A i \in DOMAIN a, j \in DOMAIN b : a[i] # b[j]
  <2> SUFFICES ASSUME NEW i \in DOMAIN a, NEW j \in DOMAIN b PROVE a[i] # b[j]
    OBVIOUS
  <2>1. i \in 1..k /\ j \in 1..Len(b)
    BY <1>6
  <2>2. i \in 1..Len(takers) /\ a[i] = takers[i]
    BY <2>1, <1>3
  <2>3. k + j \in 1..Len(takers) /\ b[j] = takers[k + j]
    BY <2>1, <1>4
  <2>4. Len(b) \in Nat
    BY <1>1, <1>4
  <2>5. i # k + j
    BY <2>1, <2>4, <1>1
  <2>6. QED
    BY <2>2, <2>3, <2>5, <1>2
<1>8. \A i, j \in DOMAIN b : b[i] = b[j] => i = j
  <2> SUFFICES ASSUME NEW i \in DOMAIN b, NEW j \in DOMAIN b, b[i] = b[j] PROVE i = j
    OBVIOUS
  <2>1. i \in 1..Len(b) /\ j \in 1..Len(b)
    BY <1>6
  <2>2. /\ k + i \in 1..Len(takers) /\ b[i] = takers[k + i]
        /\ k + j \in 1..Len(takers) /\ b[j] = takers[k + j]
    BY <2>1, <1>4
  <2>3. k + i = k + j
    BY <2>2, <1>2
  <2>4. i \in Int /\ j \in Int
    BY <2>1
  <2>5. QED
    BY <2>3, <2>4, <1>1
<1>9. \A s \in ToSet(a) : s \in Subscriber /\ s \notin ToSet(b)
  BY <1>3, <1>6, <1>7 DEF ToSet
<1>10. takers' = b
  BY DEF b
<1>11. takers' \in Seq(Subscriber) /\ Once'
  BY <1>4, <1>8, <1>10 DEF Once
<1>12. /\ \A s \in ToSet(a) : s \in Subscriber /\ s \notin ToSet(takers') /\ s \in ToSet(takers)
       /\ \A s : s \in ToSet(takers) /\ s \notin ToSet(a) => s \in ToSet(takers')
       /\ ToSet(takers') \subseteq ToSet(takers)
  BY <1>5, <1>9, <1>10
<1>13. QED
  BY <1>11, <1>12 DEF a

LEMMA PublishQueue ==
  ASSUME Inv, NEW p \in Publisher \cup {Nobody}, NEW n \in Nat, Publish(p, n)
  PROVE  LET rest == Rest(Numbered(published, n), Least(n, Len(takers)))
             all == Backlog \o rest
         IN /\ rest \in Seq(1..published') /\ all \in Seq(1..published')
            /\ queue' \in Seq(1..published') /\ putters' \in Seq(Put(1..published'))
            /\ Fits' /\ FullFirst' /\ PublishersWait'
            /\ Joins(all) /\ Increasing(all)
            /\ \A u \in Seq(1..published) : Before(u, Backlog) => Before(u, all)
<1> DEFINE k == Least(n, Len(takers))
           ms == Numbered(published, n)
           rest == Rest(ms, k)
           all == Backlog \o rest
           M == 1..published'
<1>1. /\ published' = published + n /\ published + n <= MaxMessages
      /\ Enters(rest, p) /\ strategy' = strategy
  BY PublishUnfolds
<1>2. published \in Nat /\ Messages = 1..published /\ MaxMessages \in Nat /\ Len(takers) \in Nat
  BY BoundAssumption DEF Inv, TypeOK, Messages
<1>3. published <= published' /\ published' \in Nat /\ n <= MaxMessages
  BY <1>1, <1>2
<1>4. Seq(1..published) \subseteq Seq(M) /\ Seq(Put(1..published)) \subseteq Seq(Put(M))
  BY <1>2, <1>3, WiderSeq
<1>5. ms \in Seq(M) /\ Len(ms) = n /\ Increasing(ms) /\ \A u \in Seq(1..published) : Before(u, ms)
  BY <1>1, <1>2, NumberedFacts
<1>6. k \in 0..n
  BY <1>2 DEF Least
<1> HIDE DEF k, ms
<1>7. rest \in Seq(M) /\ Len(rest) = n - k
  BY <1>5, <1>6, RestFacts
<1>8. M \subseteq Nat
  BY <1>3
<1>9. Increasing(rest) /\ \A u \in Seq(1..published) : Before(u, rest)
  BY <1>4, <1>5, <1>6, <1>8, CutInOrder
<1>10. /\ queue \in Seq(M) /\ putters \in Seq(Put(M)) /\ Backlog \in Seq(1..published)
  BY <1>2, <1>4, BacklogType
<1>11. Ready(M, rest)
  <2>1. Len(rest) <= MaxMessages
    BY <1>2, <1>3, <1>6, <1>7
  <2>2. QED
    BY <2>1, <1>7, <1>10 DEF Ready, Inv, TypeOK
<1> HIDE DEF rest
<1>12. /\ queue' \in Seq(M) /\ putters' \in Seq(Put(M))
       /\ Fits' /\ FullFirst' /\ Joins(all)
  BY <1>1, <1>11, EntersJoins
<1>13. PublishersWait'
  BY <1>1, <1>11, EntersPublishers DEF Inv
<1>14. Backlog \in Seq(M) /\ all \in Seq(M)
  BY <1>4, <1>7, <1>10, ConcatFacts
<1>15. Increasing(all)
  <2>1. Increasing(Backlog) /\ Before(Backlog, rest)
    BY <1>9, <1>10 DEF Inv, Ordered
  <2>2. QED
    BY <2>1, <1>7, <1>8, <1>9, <1>14, ConcatInOrder
<1>16. ASSUME NEW u \in Seq(1..published), Before(u, Backlog) PROVE Before(u, all)
  <2>1. Before(u, rest) /\ u \in Seq(M)
    BY <1>4, <1>9
  <2>2. QED
    BY <2>1, <1>7, <1>8, <1>14, <1>16, BeforeConcat
<1> HIDE DEF all
<1>17. QED
  BY <1>7, <1>12, <1>13, <1>14, <1>15, <1>16 DEF all, rest, k, ms

LEMMA PublishSubscribers ==
  ASSUME Inv, NEW p \in Publisher \cup {Nobody}, NEW n \in Nat, Publish(p, n)
  PROVE  /\ subscriber' \in [Subscriber -> {"off", "pulling", "taking", "waiting", "running"}]
         /\ chunk' \in [Subscriber -> Seq(1..published')]
         /\ \A s \in Subscriber : chunk'[s] # <<>> <=> subscriber'[s] = "running"
         /\ takers' \in Seq(Subscriber) /\ Once' /\ SubscribersWait'
<1> DEFINE k == Least(n, Len(takers))
           Served(s) == s \in ToSet(Prefix(takers, k))
<1>1. /\ published' = published + n /\ takers' = Rest(takers, k)
      /\ \A s \in Subscriber :
           IF Served(s)
             THEN /\ \E i \in 1..k : chunk'[s] = <<published + i>>
                  /\ subscriber'[s] = "running"
             ELSE chunk'[s] = chunk[s] /\ subscriber'[s] = subscriber[s]
      /\ chunk' = [s \in Subscriber |-> chunk'[s]]
      /\ subscriber' = [s \in Subscriber |-> subscriber'[s]]
  BY PublishUnfolds
<1>2. published \in Nat /\ Messages = 1..published /\ Len(takers) \in Nat
  BY DEF Inv, TypeOK, Messages
<1>3. k \in 0..n /\ k \in 0..Len(takers)
  BY <1>2 DEF Least
<1> HIDE DEF k
<1>4. Seq(1..published) \subseteq Seq(1..published')
  BY <1>1, <1>2, WiderSeq
<1>5. /\ takers' \in Seq(Subscriber) /\ Once'
      /\ \A s \in ToSet(Prefix(takers, k)) : s \in Subscriber /\ s \notin ToSet(takers') /\ s \in ToSet(takers)
      /\ \A s : s \in ToSet(takers) /\ s \notin ToSet(Prefix(takers, k)) => s \in ToSet(takers')
      /\ ToSet(takers') \subseteq ToSet(takers)
  BY <1>1, <1>3, LineAfterService
<1>6. \A s \in Subscriber :
        /\ subscriber[s] \in {"off", "pulling", "taking", "waiting", "running"}
        /\ chunk[s] \in Seq(1..published)
        /\ chunk[s] # <<>> <=> subscriber[s] = "running"
        /\ subscriber[s] = "waiting" <=> s \in ToSet(takers)
  BY <1>2 DEF Inv, TypeOK, SubscribersWait
<1>7. ASSUME NEW s \in Subscriber
      PROVE  /\ subscriber'[s] \in {"off", "pulling", "taking", "waiting", "running"}
             /\ chunk'[s] \in Seq(1..published')
             /\ chunk'[s] # <<>> <=> subscriber'[s] = "running"
             /\ subscriber'[s] = "waiting" <=> s \in ToSet(takers')
  <2>1. CASE Served(s)
    <3>1. PICK i \in 1..k : chunk'[s] = <<published + i>>
      BY <2>1, <1>1
    <3>2. published + i \in 1..published'
      BY <1>1, <1>2, <1>3
    <3>3. chunk'[s] \in Seq(1..published') /\ chunk'[s] # <<>>
      BY <3>1, <3>2
    <3>4. subscriber'[s] = "running" /\ s \notin ToSet(takers')
      BY <2>1, <1>1, <1>5
    <3>5. QED
      BY <3>3, <3>4
  <2>2. CASE ~Served(s)
    <3>1. chunk'[s] = chunk[s] /\ subscriber'[s] = subscriber[s]
      BY <2>2, <1>1
    <3>2. s \in ToSet(takers) <=> s \in ToSet(takers')
      BY <2>2, <1>5
    <3>3. QED
      BY <3>1, <3>2, <1>4, <1>6
  <2>3. QED
    BY <2>1, <2>2
<1>8. chunk' \in [Subscriber -> Seq(1..published')]
  BY <1>1, <1>7
<1>9. subscriber' \in [Subscriber -> {"off", "pulling", "taking", "waiting", "running"}]
  BY <1>1, <1>7
<1>10. SubscribersWait'
  BY <1>7 DEF SubscribersWait, ToSet
<1>11. QED
  BY <1>5, <1>7, <1>8, <1>9, <1>10

LEMMA PublishOrder ==
  ASSUME Inv, NEW p \in Publisher \cup {Nobody}, NEW n \in Nat, Publish(p, n)
  PROVE  (takers = <<>> \/ Backlog = <<>>)' /\ Ordered'
<1> DEFINE k == Least(n, Len(takers))
           ms == Numbered(published, n)
           rest == Rest(ms, k)
           all == Backlog \o rest
           M == 1..published'
<1>1. /\ published' = published + n /\ takers' = Rest(takers, k) /\ handled' = handled
      /\ \A s \in Subscriber :
           IF s \in ToSet(Prefix(takers, k))
             THEN \E i \in 1..k : chunk'[s] = <<published + i>>
             ELSE chunk'[s] = chunk[s]
  BY PublishUnfolds
<1>2. /\ rest \in Seq(M) /\ all \in Seq(M)
      /\ Joins(all) /\ Increasing(all)
      /\ \A u \in Seq(1..published) : Before(u, Backlog) => Before(u, all)
  BY PublishQueue
<1>3. published \in Nat /\ Messages = 1..published /\ Len(takers) \in Nat /\ takers \in Seq(Subscriber)
  BY DEF Inv, TypeOK, Messages
<1>4. k \in 0..n /\ k \in 0..Len(takers) /\ (k = n \/ k = Len(takers))
  BY <1>3 DEF Least
<1>5. ms \in Seq(M) /\ Len(ms) = n /\ \A i \in 1..n : ms[i] = published + i
  BY <1>1, <1>3, NumberedFacts DEF Numbered
<1> HIDE DEF k, ms
<1>6. Len(rest) = n - k /\ \A i \in 1..Len(rest) : rest[i] = published + (k + i)
  <2>1. Len(rest) = Len(ms) - k /\ \A i \in 1..Len(rest) : k + i \in 1..Len(ms) /\ rest[i] = ms[k + i]
    BY <1>4, <1>5, RestFacts
  <2>2. QED
    BY <2>1, <1>5
<1> HIDE DEF rest
<1>7. M \subseteq Nat /\ Seq(1..published) \subseteq Seq(M)
  BY <1>1, <1>3, WiderSeq
<1>8. Backlog \in Seq(1..published) /\ \A s \in Subscriber : Got(s) \in Seq(1..published)
  BY <1>3, BacklogType, GotType
<1>9. takers # <<>> => all = rest
  <2>1. takers # <<>> => Backlog = <<>>
    BY DEF Inv
  <2>2. QED
    BY <2>1, <1>2, EmptyFacts
<1> HIDE DEF all
<1>10. /\ Increasing(Backlog')
       /\ \A u \in Seq(M) : Before(u, all) => Before(u, Backlog')
       /\ all = <<>> => Backlog' = <<>>
  BY <1>2, <1>7, JoinsInOrder
<1>11. (takers = <<>> \/ Backlog = <<>>)'
  <2>1. takers' \in Seq(Subscriber) /\ Len(takers') = Len(takers) - k
    BY <1>1, <1>3, <1>4, RestFacts
  <2>2. CASE k = Len(takers)
    <3>1. Len(takers') = 0
      BY <2>1, <2>2, <1>3
    <3>2. takers' = <<>>
      BY <2>1, <3>1, EmptyFacts
    <3>3. QED
      BY <3>2
  <2>3. CASE k = n /\ k # Len(takers)
    <3>1. takers # <<>>
      BY <2>3, <1>3, <1>4
    <3>2. Len(rest) = 0
      BY <2>3, <1>6
    <3>3. all = <<>>
      BY <3>1, <3>2, <1>2, <1>9, EmptyFacts
    <3>4. QED
      BY <3>3, <1>10
  <2>4. QED
    BY <2>2, <2>3, <1>4
<1>12. ASSUME NEW s \in Subscriber PROVE Increasing(Got(s))' /\ Before(Got(s), Backlog)'
  <2>1. Increasing(Got(s)) /\ Before(Got(s), Backlog)
    BY DEF Inv, Ordered
  <2>2. CASE s \notin ToSet(Prefix(takers, k))
    <3>1. Got(s)' = Got(s)
      BY <2>2, <1>1 DEF Got
    <3>2. Before(Got(s), all)
      BY <2>1, <1>2, <1>8
    <3>3. Before(Got(s), Backlog')
      BY <3>2, <1>7, <1>8, <1>10
    <3>4. QED
      BY <2>1, <3>1, <3>3 DEF Before
  <2>3. CASE s \in ToSet(Prefix(takers, k))
    <3>1. PICK i \in 1..k : chunk'[s] = <<published + i>>
      BY <2>3, <1>1
    <3> DEFINE m == published + i
               one == <<m>>
    <3>2. m \in M /\ one \in Seq(M)
      BY <1>1, <1>3, <1>4
    <3>3. s \in ToSet(takers)
      BY <2>3, <1>1, <1>4, LineAfterService
    <3>4. takers # <<>>
      BY <3>3 DEF ToSet
    <3>5. chunk[s] = <<>> /\ handled[s] \in Seq(1..published)
      <4>1. subscriber[s] = "waiting"
        BY <3>3 DEF Inv, SubscribersWait
      <4>2. QED
        BY <4>1, <1>3 DEF Inv, TypeOK
    <3>6. handled[s] = Got(s)
      BY <3>5, EmptyFacts DEF Got
    <3>7. Got(s)' = Got(s) \o one
      BY <3>1, <3>6, <1>1 DEF Got
    <3>8. Before(Got(s), one)
      BY <1>3, <1>8 DEF Before
    <3>9. Increasing(one)
      BY DEF Increasing
    <3>10. Before(one, rest)
      <4>1. \A j \in DOMAIN rest : rest[j] = published + (k + j) /\ j \in Nat /\ j > 0
        BY <1>2, <1>6
      <4>2. \A j \in DOMAIN rest : m < rest[j]
        BY <4>1, <1>3, <1>4
      <4>3. QED
        BY <4>2 DEF Before
    <3>11. Got(s) \in Seq(M)
      BY <1>7, <1>8
    <3> HIDE DEF one, m
    <3>12. Increasing(Got(s)')
      BY <2>1, <3>2, <3>7, <3>8, <3>9, <3>11, <1>7, ConcatInOrder
    <3>13. Before(Got(s), all) /\ Before(one, all)
      BY <2>1, <3>4, <3>10, <1>2, <1>8, <1>9
    <3>14. Before(Got(s) \o one, all) /\ Got(s) \o one \in Seq(M)
      <4>1. Got(s) \o one \in Seq(M)
        BY <3>2, <3>11, ConcatFacts
      <4>2. QED
        BY <4>1, <3>2, <3>11, <3>13, <1>2, <1>7, BeforeConcat, ZenonT(60)
    <3>15. Before(Got(s)', Backlog')
      BY <3>7, <3>14, <1>10
    <3>16. QED
      BY <3>12, <3>15 DEF Increasing, Before
  <2>4. QED
    BY <2>2, <2>3
<1>13. Ordered'
  BY <1>10, <1>12 DEF Ordered, Increasing
<1>14. QED
  BY <1>11, <1>13

LEMMA PublishInv ==
  ASSUME Inv, NEW p \in Publisher \cup {Nobody}, NEW n \in Nat, Publish(p, n)
  PROVE  Inv'
<1>1. /\ published' = published + n /\ published' <= MaxMessages
      /\ UNCHANGED <<strategy, handled, abandoned, stops>>
  BY PublishUnfolds
<1>2. /\ subscriber' \in [Subscriber -> {"off", "pulling", "taking", "waiting", "running"}]
      /\ chunk' \in [Subscriber -> Seq(1..published')]
      /\ \A s \in Subscriber : chunk'[s] # <<>> <=> subscriber'[s] = "running"
      /\ takers' \in Seq(Subscriber) /\ Once' /\ SubscribersWait'
  BY PublishSubscribers
<1> DEFINE all == Backlog \o Rest(Numbered(published, n), Least(n, Len(takers)))
<1>3. /\ all \in Seq(1..published') /\ Joins(all) /\ Increasing(all)
      /\ queue' \in Seq(1..published') /\ putters' \in Seq(Put(1..published'))
      /\ Fits' /\ FullFirst' /\ PublishersWait'
  BY PublishQueue
<1> HIDE DEF all
<1>4. /\ published \in Nat /\ strategy \in Strategy /\ stops \in Nat
      /\ handled \in [Subscriber -> Seq(1..published)]
      /\ dropped \subseteq 1..published /\ abandoned \subseteq 1..published
  BY DEF Inv, TypeOK, Messages
<1>5. /\ published' \in Nat /\ 1..published \subseteq 1..published'
      /\ Seq(1..published) \subseteq Seq(1..published') /\ 1..published' \subseteq Nat
  BY <1>1, <1>4, WiderSeq
<1>6. dropped' \subseteq 1..published'
  BY <1>3, <1>4, <1>5, JoinsDrops
<1>7. handled' \in [Subscriber -> Seq(1..published')]
  BY <1>1, <1>4, <1>5
<1>8. TypeOK'
  BY <1>1, <1>2, <1>3, <1>4, <1>5, <1>6, <1>7 DEF TypeOK, Messages, Put, PublishersWait
<1>9. QED
  BY <1>1, <1>2, <1>3, <1>8, PublishOrder DEF Inv

-----------------------------------------------------------------------------
(* Taking.                                                                  *)

\* What is taken comes from the front of the backlog, and the rest of it stays,
\* though suspended publishers have put more of it into the queue.
LEMMA TakesBacklog ==
  ASSUME Inv, NEW s \in Subscriber, NEW n \in Nat, n > 0, queue # <<>>, Takes(s, n),
         strategy' = strategy, published' = published
  PROVE  /\ queue' \in Seq(Messages) /\ putters' \in Seq(Put(Messages))
         /\ Prefix(queue, n) \in Seq(Messages) /\ Prefix(queue, n) # <<>>
         /\ Fits' /\ FullFirst' /\ PublishersWait'
         /\ Backlog' \in Seq(Messages) /\ Backlog = Prefix(queue, n) \o Backlog'
<1> DEFINE k == Least(n, Len(queue))
           left == Rest(queue, k)
           entering == Prefix(putters, Room(left))
           e == Len(entering)
           staying == Rest(putters, e)
<1>1. /\ queue' = left \o Payload(entering) /\ putters' = staying
      /\ publisher' = [p \in Publisher |->
                         IF \E put \in ToSet(staying) : put.publisher = p
                           THEN "suspended" ELSE "idle"]
  BY DEF Takes
<1>2. /\ queue \in Seq(Messages) /\ putters \in Seq(Put(Messages)) /\ Payload(putters) \in Seq(Messages)
      /\ Len(queue) \in Nat /\ Len(queue) > 0 /\ Len(putters) \in Nat
  <2>1. queue \in Seq(Messages) /\ putters \in Seq(Put(Messages)) /\ Payload(putters) \in Seq(Messages)
    BY BacklogType
  <2>2. Len(queue) # 0
    BY <2>1, EmptyFacts
  <2>3. QED
    BY <2>1, <2>2
<1>3. k \in 0..Len(queue) /\ k > 0
  BY <1>2 DEF Least
<1>4. left \in Seq(Messages) /\ Len(left) = Len(queue) - k
  BY <1>2, <1>3, RestFacts
<1>5. Prefix(queue, n) = Prefix(queue, k)
  BY <1>2 DEF Prefix, Least
<1>6. Prefix(queue, k) \in Seq(Messages) /\ Len(Prefix(queue, k)) = k
  <2>1. Least(k, Len(queue)) = k /\ k \in Nat
    BY <1>2, <1>3 DEF Least
  <2>2. QED
    BY <1>2, <2>1, PrefixFacts
<1>7. Prefix(queue, k) \o left = queue
  BY <1>2, <1>3, CutInTwo
<1>8. strategy \in Strategy /\ strategy.capacity \in Nat
  BY StrategyFacts DEF Inv, TypeOK
<1> HIDE DEF k, left
<1>9. /\ Room(left) \in Nat
      /\ strategy.tag # "unbounded" => Room(left) = strategy.capacity - Len(left)
  <2>1. strategy.tag # "unbounded" => Len(left) <= strategy.capacity
    BY <1>2, <1>3, <1>4, <1>8 DEF Inv, Fits
  <2>2. QED
    BY <1>4, <1>8, <2>1, RoomFacts
<1>10. /\ entering \in Seq(Put(Messages)) /\ e = Least(Room(left), Len(putters))
  BY <1>2, <1>9, PrefixFacts
<1>11. e \in 0..Len(putters) /\ e \in 0..Room(left) /\ (e = Room(left) \/ e = Len(putters))
  BY <1>2, <1>9, <1>10 DEF Least
<1>12. entering = Prefix(putters, e)
  BY <1>2, <1>9, <1>10 DEF Prefix, Least
<1>13. entering \o staying = putters
  BY <1>2, <1>11, <1>12, CutInTwo
<1>14. staying \in Seq(Put(Messages)) /\ Len(staying) = Len(putters) - e
  BY <1>2, <1>11, RestFacts
<1>15. /\ Payload(entering) \in Seq(Messages) /\ Len(Payload(entering)) = e
       /\ Payload(staying) \in Seq(Messages)
  BY <1>10, <1>14, PayloadFacts
<1> HIDE DEF entering, staying
<1>16. Payload(putters) = Payload(entering) \o Payload(staying)
  BY <1>10, <1>13, <1>14, PayloadConcat
<1>17. queue' \in Seq(Messages) /\ Len(queue') = Len(left) + e
  <2> DEFINE b == Payload(entering)
  <2>1. b \in Seq(Messages) /\ Len(b) = e /\ queue' = left \o b
    BY <1>1, <1>15
  <2> HIDE DEF b, e
  <2>2. left \o b \in Seq(Messages) /\ Len(left \o b) = Len(left) + Len(b)
    BY <2>1, <1>4, ConcatFacts
  <2>3. QED
    BY <2>1, <2>2
<1>18. Backlog' = left \o Payload(putters)
  <2>1. Backlog' = (left \o Payload(entering)) \o Payload(staying)
    BY <1>1 DEF Backlog, Payload
  <2>2. (left \o Payload(entering)) \o Payload(staying) = left \o (Payload(entering) \o Payload(staying))
    BY <1>4, <1>15, ConcatAssoc, SMTT(30)
  <2>3. QED
    BY <2>1, <2>2, <1>16
<1>19. Backlog = Prefix(queue, n) \o Backlog'
  <2>1. (Prefix(queue, k) \o left) \o Payload(putters) = Prefix(queue, k) \o (left \o Payload(putters))
    <3> DEFINE a == Prefix(queue, k)
               b == Payload(putters)
    <3>1. a \in Seq(Messages) /\ b \in Seq(Messages) /\ left \in Seq(Messages)
      BY <1>2, <1>4, <1>6
    <3> HIDE DEF a, b
    <3>2. (a \o left) \o b = a \o (left \o b)
      BY <3>1, ConcatAssoc
    <3>3. QED
      BY <3>2 DEF a, b
  <2>2. QED
    BY <2>1, <1>5, <1>7, <1>18 DEF Backlog
<1>20. Backlog' \in Seq(Messages)
  BY <1>2, <1>4, <1>18, ConcatFacts
<1>21. Fits'
  <2>1. ASSUME strategy.tag # "unbounded" PROVE Len(queue') <= strategy.capacity
    <3>1. Room(left) = strategy.capacity - Len(left)
      BY <2>1, <1>9
    <3>2. Len(left) \in Nat
      BY <1>4
    <3>3. QED
      BY <3>1, <3>2, <1>8, <1>11, <1>17
  <2>2. QED
    BY <2>1 DEF Fits
<1>22. FullFirst'
  <2>1. ASSUME staying # <<>>
        PROVE  strategy.tag = "backpressure" /\ Len(queue') = strategy.capacity
    <3>1. Len(staying) # 0
      BY <2>1, <1>14, EmptyFacts
    <3>2. putters # <<>> /\ e = Room(left)
      BY <3>1, <1>2, <1>11, <1>14
    <3>3. strategy.tag = "backpressure"
      BY <3>2 DEF Inv, FullFirst
    <3>4. Room(left) = strategy.capacity - Len(left) /\ Len(left) \in Nat
      BY <3>3, <1>4, <1>9
    <3>5. QED
      BY <3>2, <3>3, <3>4, <1>8, <1>17
  <2>2. QED
    BY <2>1, <1>1 DEF FullFirst
<1>23. PublishersWait'
  BY <1>1 DEF PublishersWait, ToSet
<1>24. Prefix(queue, n) # <<>>
  BY <1>3, <1>5, <1>6
<1>25. QED
  BY <1>1, <1>5, <1>6, <1>14, <1>17, <1>19, <1>20, <1>21, <1>22, <1>23, <1>24

LEMMA TakesInv ==
  ASSUME Inv, NEW s \in Subscriber, NEW n \in Nat, n > 0, queue # <<>>, Takes(s, n),
         subscriber[s] \in {"pulling", "taking"},
         UNCHANGED <<strategy, takers, handled, ghostVars>>
  PROVE  Inv'
<1> DEFINE a == Prefix(queue, n)
<1>0. UNCHANGED <<strategy, takers, handled, published, dropped, abandoned, stops>>
  BY DEF ghostVars
<1>1. /\ queue' \in Seq(Messages) /\ putters' \in Seq(Put(Messages))
      /\ a \in Seq(Messages) /\ a # <<>>
      /\ Fits' /\ FullFirst' /\ PublishersWait'
      /\ Backlog' \in Seq(Messages) /\ Backlog = a \o Backlog'
  BY <1>0, TakesBacklog
<1>2. /\ chunk' = [chunk EXCEPT ![s] = a]
      /\ subscriber' = [subscriber EXCEPT ![s] = "running"]
  BY DEF Takes
<1> HIDE DEF a
<1>3. Messages' = Messages /\ Messages \subseteq Nat
  BY <1>0 DEF Messages, Inv, TypeOK
<1>4. takers = <<>>
  <2>1. Len(a) # 0 /\ Len(a) \in Nat /\ Len(Backlog') \in Nat
    BY <1>1, EmptyFacts
  <2>2. Len(Backlog) = Len(a) + Len(Backlog')
    BY <1>1, ConcatFacts
  <2>3. Backlog # <<>>
    BY <2>1, <2>2
  <2>4. QED
    BY <2>3 DEF Inv
<1>5. TypeOK'
  <2>1. /\ subscriber \in [Subscriber -> {"off", "pulling", "taking", "waiting", "running"}]
        /\ chunk \in [Subscriber -> Seq(Messages)]
        /\ \A t \in Subscriber : chunk[t] # <<>> <=> subscriber[t] = "running"
    BY DEF Inv, TypeOK
  <2>2. subscriber' \in [Subscriber -> {"off", "pulling", "taking", "waiting", "running"}]
    BY <2>1, <1>2
  <2>3. chunk' \in [Subscriber -> Seq(Messages)]
    BY <2>1, <1>1, <1>2
  <2>4. \A t \in Subscriber : chunk'[t] # <<>> <=> subscriber'[t] = "running"
    BY <2>1, <1>1, <1>2
  <2>5. publisher' \in [Publisher -> {"idle", "suspended"}]
    BY <1>1 DEF PublishersWait
  <2>6. QED
    BY <2>2, <2>3, <2>4, <2>5, <1>0, <1>1, <1>3 DEF Inv, TypeOK, Put
<1>6. SubscribersWait' /\ Once'
  BY <1>0, <1>2 DEF Inv, TypeOK, SubscribersWait, Once
<1>7. Increasing(a) /\ Increasing(Backlog') /\ Before(a, Backlog')
  BY <1>1, <1>3, ConcatInOrder DEF Inv, Ordered
<1>8. ASSUME NEW t \in Subscriber PROVE Increasing(Got(t)') /\ Before(Got(t)', Backlog')
  <2>1. Increasing(Got(t)) /\ Before(Got(t), Backlog) /\ Got(t) \in Seq(Messages)
    BY GotType DEF Inv, Ordered
  <2>2. Before(Got(t), a) /\ Before(Got(t), Backlog')
    BY <1>1, <1>3, <2>1, BeforeConcat
  <2>3. CASE t # s
    <3>1. Got(t)' = Got(t)
      BY <2>3, <1>0, <1>2 DEF Got, Inv, TypeOK
    <3>2. QED
      BY <2>1, <2>2, <3>1
  <2>4. CASE t = s
    <3>1. chunk[s] = <<>> /\ handled[s] \in Seq(Messages)
      BY DEF Inv, TypeOK
    <3>2. handled[s] = Got(t)
      BY <2>4, <3>1, EmptyFacts DEF Got
    <3>3. Got(t)' = Got(t) \o a
      BY <2>4, <3>2, <1>0, <1>2 DEF Got, Inv, TypeOK
    <3>4. Increasing(Got(t) \o a)
      BY <1>1, <1>3, <1>7, <2>1, <2>2, ConcatInOrder
    <3>5. Before(Got(t) \o a, Backlog')
      BY <1>1, <1>3, <1>7, <2>1, <2>2, BeforeConcat
    <3>6. QED
      BY <3>3, <3>4, <3>5
  <2>5. QED
    BY <2>3, <2>4
<1>9. Ordered'
  BY <1>7, <1>8 DEF Ordered, Increasing, Before
<1>10. QED
  BY <1>0, <1>1, <1>4, <1>5, <1>6, <1>9 DEF Inv

LEMMA EmptyQueue == Inv /\ queue = <<>> => Backlog = <<>> /\ putters = <<>>
<1> SUFFICES ASSUME Inv, queue = <<>> PROVE Backlog = <<>> /\ putters = <<>>
  OBVIOUS
<1>1. strategy.capacity > 0 /\ Len(queue) = 0
  BY StrategyFacts DEF Inv, TypeOK
<1>2. putters = <<>>
  BY <1>1, StrategyFacts DEF Inv, TypeOK, FullFirst
<1>3. QED
  BY <1>2 DEF Backlog, Payload

\* A step of the stream of s that only moves its control point.
LEMMA ControlInv ==
  ASSUME Inv, NEW s \in Subscriber, NEW to \in {"pulling", "taking"},
         subscriber[s] \in {"off", "pulling"},
         subscriber' = [subscriber EXCEPT ![s] = to],
         UNCHANGED <<hubVars, publisher, chunk, handled, ghostVars>>
  PROVE  Inv'
<1> USE DEF Inv, hubVars, ghostVars
<1>1. TypeOK'
  BY DEF TypeOK, Messages
<1>2. SubscribersWait'
  BY DEF TypeOK, SubscribersWait, ToSet
<1>3. Ordered' /\ (takers = <<>> \/ Backlog = <<>>)'
  BY DEF Ordered, Increasing, Before, Got, Backlog, Payload
<1>4. Fits' /\ FullFirst' /\ Once' /\ PublishersWait'
  BY DEF Fits, FullFirst, Once, PublishersWait, ToSet
<1>5. QED
  BY <1>1, <1>2, <1>3, <1>4

LEMMA WaitInv ==
  ASSUME Inv, NEW s \in Subscriber, subscriber[s] = "taking", queue = <<>>,
         subscriber' = [subscriber EXCEPT ![s] = "waiting"],
         takers' = Append(takers, s),
         UNCHANGED <<strategy, queue, putters, publisher, chunk, handled, ghostVars>>
  PROVE  Inv'
<1> USE DEF Inv, ghostVars
<1>1. Backlog = <<>> /\ Backlog' = <<>>
  <2>1. Backlog = <<>>
    BY EmptyQueue
  <2>2. QED
    BY <2>1 DEF Backlog, Payload
<1>2. takers \in Seq(Subscriber)
  BY DEF TypeOK
<1>3. s \notin ToSet(takers)
  BY DEF SubscribersWait
<1>4. /\ takers' \in Seq(Subscriber) /\ DOMAIN takers = 1..Len(takers)
      /\ DOMAIN takers' = 1..(Len(takers) + 1) /\ Len(takers) \in Nat
      /\ \A i \in 1..Len(takers) : takers'[i] = takers[i]
      /\ takers'[Len(takers) + 1] = s
  BY <1>2
<1>5. ToSet(takers') = ToSet(takers) \cup {s}
  <2>1. \A i \in DOMAIN takers' : i \in DOMAIN takers \/ i = Len(takers) + 1
    BY <1>4
  <2>2. \A i \in DOMAIN takers : i \in DOMAIN takers' /\ takers'[i] = takers[i]
    BY <1>4
  <2>3. Len(takers) + 1 \in DOMAIN takers'
    BY <1>4
  <2>4. QED
    BY <2>1, <2>2, <2>3, <1>4 DEF ToSet
<1>6. Once'
  <2>1. \A i \in 1..Len(takers) : takers[i] # s
    BY <1>3, <1>4 DEF ToSet
  <2>2. \A i, j \in 1..Len(takers) : takers[i] = takers[j] => i = j
    BY <1>4 DEF Once
  <2>3. \A i, j \in 1..(Len(takers) + 1) : takers'[i] = takers'[j] => i = j
    BY <1>4, <2>1, <2>2
  <2>4. QED
    BY <1>4, <2>3 DEF Once
<1>7. TypeOK'
  BY <1>4 DEF TypeOK, Messages
<1>8. SubscribersWait'
  <2>1. \A t \in Subscriber : subscriber'[t] = "waiting" <=> t \in ToSet(takers')
    BY <1>5 DEF TypeOK, SubscribersWait
  <2>2. QED
    BY <2>1 DEF SubscribersWait, ToSet
<1>9. Ordered'
  BY <1>1 DEF Ordered, Increasing, Before, Got
<1>10. Fits' /\ FullFirst' /\ PublishersWait'
  BY DEF Fits, FullFirst, PublishersWait, ToSet
<1>11. QED
  BY <1>1, <1>6, <1>7, <1>8, <1>9, <1>10

LEMMA HandledFacts ==
  ASSUME NEW S, NEW h \in Seq(S), NEW c \in Seq(S), c # <<>>
  PROVE  /\ Append(h, Head(c)) \in Seq(S) /\ Tail(c) \in Seq(S)
         /\ Tail(c) = <<>> <=> Len(c) = 1
         /\ Append(h, Head(c)) \o Tail(c) = h \o c
<1>1. Len(c) \in Nat /\ Len(c) > 0
  BY EmptyFacts
<1> DEFINE a == Append(h, Head(c))
           b == Tail(c)
<1>2. /\ a \in Seq(S) /\ Len(a) = Len(h) + 1 /\ a[Len(h) + 1] = c[1]
      /\ \A i \in 1..Len(h) : a[i] = h[i]
  BY <1>1
<1>3. b \in Seq(S) /\ Len(b) = Len(c) - 1 /\ \A i \in 1..Len(b) : b[i] = c[i + 1]
  BY <1>1
<1>4. Tail(c) = <<>> <=> Len(c) = 1
  <2>1. b = <<>> <=> Len(b) = 0
    BY <1>3, EmptyFacts
  <2>2. QED
    BY <1>1, <1>3, <2>1
<1> DEFINE d == h \o c
<1>5. /\ d \in Seq(S) /\ Len(d) = Len(h) + Len(c) /\ Len(h) \in Nat
      /\ \A i \in 1..Len(h) : d[i] = h[i]
      /\ \A i \in 1..Len(c) : d[Len(h) + i] = c[i]
  BY ConcatFacts
<1> HIDE DEF a, b, d
<1>6. Len(d) = Len(a) + Len(b)
  BY <1>1, <1>2, <1>3, <1>5
<1>7. ASSUME NEW i \in 1..Len(a) PROVE d[i] = a[i]
  <2>1. CASE i = Len(h) + 1
    BY <2>1, <1>1, <1>2, <1>5
  <2>2. CASE i \in 1..Len(h)
    BY <2>2, <1>2, <1>5
  <2>3. QED
    BY <2>1, <2>2, <1>2, <1>5
<1>8. ASSUME NEW i \in 1..Len(b) PROVE d[Len(a) + i] = b[i]
  <2>1. i + 1 \in 1..Len(c) /\ Len(a) + i = Len(h) + (i + 1)
    BY <1>1, <1>2, <1>3, <1>5
  <2>2. QED
    BY <2>1, <1>3, <1>5
<1>9. a \o b = d
  BY <1>2, <1>3, <1>5, <1>6, <1>7, <1>8, ConcatIs
<1>10. QED
  BY <1>2, <1>3, <1>4, <1>9 DEF a, b, d

LEMMA HandleInv ==
  ASSUME Inv, NEW s \in Subscriber, Handle(s)
  PROVE  Inv'
<1> USE DEF Inv, hubVars, ghostVars
<1>1. /\ subscriber[s] = "running"
      /\ handled' = [handled EXCEPT ![s] = Append(@, Head(chunk[s]))]
      /\ chunk' = [chunk EXCEPT ![s] = Tail(@)]
      /\ subscriber' = [subscriber EXCEPT ![s] = IF Len(chunk[s]) = 1 THEN "pulling" ELSE @]
      /\ UNCHANGED <<strategy, queue, takers, putters, publisher>>
      /\ UNCHANGED <<published, dropped, abandoned, stops>>
  BY DEF Handle
<1>2. /\ chunk \in [Subscriber -> Seq(Messages)] /\ handled \in [Subscriber -> Seq(Messages)]
      /\ subscriber \in [Subscriber -> {"off", "pulling", "taking", "waiting", "running"}]
      /\ \A t \in Subscriber : chunk[t] # <<>> <=> subscriber[t] = "running"
      /\ Messages' = Messages
  BY <1>1 DEF TypeOK, Messages
<1>3. /\ Append(handled[s], Head(chunk[s])) \in Seq(Messages) /\ Tail(chunk[s]) \in Seq(Messages)
      /\ Tail(chunk[s]) = <<>> <=> Len(chunk[s]) = 1
      /\ Append(handled[s], Head(chunk[s])) \o Tail(chunk[s]) = handled[s] \o chunk[s]
  <2>1. handled[s] \in Seq(Messages) /\ chunk[s] \in Seq(Messages) /\ chunk[s] # <<>>
    BY <1>1, <1>2
  <2>2. QED
    BY <2>1, HandledFacts
<1>4. chunk' \in [Subscriber -> Seq(Messages)] /\ handled' \in [Subscriber -> Seq(Messages)]
  BY <1>1, <1>2, <1>3
<1>5. subscriber' \in [Subscriber -> {"off", "pulling", "taking", "waiting", "running"}]
  BY <1>1, <1>2
<1>6. \A t \in Subscriber : chunk'[t] # <<>> <=> subscriber'[t] = "running"
  BY <1>1, <1>2, <1>3
<1>7. TypeOK'
  BY <1>1, <1>2, <1>4, <1>5, <1>6 DEF TypeOK
<1>8. \A t \in Subscriber : Got(t)' = Got(t)
  BY <1>1, <1>2, <1>3 DEF Got
<1>9. Backlog' = Backlog
  BY <1>1 DEF Backlog, Payload
<1>10. Ordered'
  BY <1>8, <1>9 DEF Ordered, Increasing, Before
<1>11. SubscribersWait'
  BY <1>1, <1>2 DEF SubscribersWait, ToSet
<1>12. Fits' /\ FullFirst' /\ Once' /\ PublishersWait'
  BY <1>1 DEF Fits, FullFirst, Once, PublishersWait, ToSet
<1>13. QED
  BY <1>1, <1>7, <1>9, <1>10, <1>11, <1>12

-----------------------------------------------------------------------------
(* Leaving: a run of entries is taken out of a line.                        *)

\* What is left, and where it was.
LEMMA WithoutFacts ==
  ASSUME NEW S, NEW s \in Seq(S), NEW i \in 1..Len(s), NEW j \in 1..Len(s), i <= j
  PROVE  /\ Without(s, i, j) \in Seq(S)
         /\ Len(Without(s, i, j)) = (i - 1) + (Len(s) - j)
         /\ \A l \in 1..Len(Without(s, i, j)) :
              Without(s, i, j)[l] = IF l < i THEN s[l] ELSE s[l + (j - i) + 1]
<1> DEFINE a == Prefix(s, i - 1)
           b == Rest(s, j)
           c == a \o b
<1>1. i \in Nat /\ j \in Nat /\ Len(s) \in Nat /\ i >= 1 /\ j <= Len(s)
  OBVIOUS
<1>2. /\ a \in Seq(S) /\ Len(a) = i - 1
      /\ \A l \in 1..Len(a) : l \in 1..Len(s) /\ a[l] = s[l]
  <2>1. i - 1 \in Nat /\ Least(i - 1, Len(s)) = i - 1
    BY <1>1 DEF Least
  <2>2. QED
    BY <2>1, PrefixFacts
<1>3. /\ b \in Seq(S) /\ Len(b) = Len(s) - j
      /\ \A l \in 1..Len(b) : j + l \in 1..Len(s) /\ b[l] = s[j + l]
  <2>1. j \in 0..Len(s)
    BY <1>1
  <2>2. QED
    BY <2>1, RestFacts
<1> HIDE DEF a, b
<1>4. /\ c \in Seq(S) /\ Len(c) = Len(a) + Len(b)
      /\ \A l \in 1..Len(a) : c[l] = a[l]
      /\ \A l \in 1..Len(b) : c[Len(a) + l] = b[l]
  <2>1. a \in Seq(S) /\ b \in Seq(S)
    BY <1>2, <1>3
  <2>2. QED
    BY <2>1, ConcatFacts
<1> HIDE DEF c
<1>5. ASSUME NEW l \in 1..Len(c)
      PROVE  c[l] = IF l < i THEN s[l] ELSE s[l + (j - i) + 1]
  <2>1. CASE l < i
    BY <2>1, <1>1, <1>2, <1>4
  <2>2. CASE l >= i
    <3>1. PICK m \in 1..Len(b) : l = Len(a) + m
      <4>1. l - Len(a) \in 1..Len(b) /\ l = Len(a) + (l - Len(a))
        BY <2>2, <1>1, <1>2, <1>3, <1>4
      <4>2. QED
        BY <4>1
    <3>2. c[l] = s[j + m]
      BY <3>1, <1>3, <1>4
    <3>3. j + m = l + (j - i) + 1
      BY <3>1, <1>1, <1>2
    <3>4. QED
      BY <2>2, <3>2, <3>3, <1>1
  <2>3. QED
    BY <2>1, <2>2, <1>1
<1>6. c = Without(s, i, j)
  BY DEF a, b, c, Without
<1>7. Len(c) = (i - 1) + (Len(s) - j)
  BY <1>2, <1>3, <1>4
<1>8. /\ c \in Seq(S) /\ Len(c) = (i - 1) + (Len(s) - j)
      /\ \A l \in 1..Len(c) : c[l] = IF l < i THEN s[l] ELSE s[l + (j - i) + 1]
  BY <1>4, <1>5, <1>7
<1>9. QED
  BY <1>6, <1>8

LEMMA WithoutEntries ==
  ASSUME NEW S, NEW s \in Seq(S), NEW i \in 1..Len(s), NEW j \in 1..Len(s), i <= j
  PROVE  /\ \A l \in DOMAIN Without(s, i, j) :
              \E m \in DOMAIN s \ (i..j) : Without(s, i, j)[l] = s[m]
         /\ \A m \in DOMAIN s \ (i..j) :
              \E l \in DOMAIN Without(s, i, j) : Without(s, i, j)[l] = s[m]
<1> DEFINE c == Without(s, i, j)
<1>1. i \in Nat /\ j \in Nat /\ Len(s) \in Nat /\ DOMAIN s = 1..Len(s) /\ i >= 1 /\ j <= Len(s)
  OBVIOUS
<1>2. /\ c \in Seq(S) /\ Len(c) = (i - 1) + (Len(s) - j)
      /\ \A l \in 1..Len(c) : c[l] = IF l < i THEN s[l] ELSE s[l + (j - i) + 1]
  BY WithoutFacts
<1> HIDE DEF c
<1>3. DOMAIN c = 1..Len(c)
  BY <1>2
<1>4. ASSUME NEW l \in DOMAIN c PROVE \E m \in DOMAIN s \ (i..j) : c[l] = s[m]
  <2>1. CASE l < i
    <3>1. l \in DOMAIN s \ (i..j) /\ c[l] = s[l]
      BY <2>1, <1>1, <1>2, <1>3
    <3>2. QED
      BY <3>1
  <2>2. CASE l >= i
    <3>1. l + (j - i) + 1 \in DOMAIN s \ (i..j) /\ c[l] = s[l + (j - i) + 1]
      BY <2>2, <1>1, <1>2, <1>3, SMTT(30)
    <3>2. QED
      BY <3>1
  <2>3. QED
    BY <2>1, <2>2, <1>1, <1>3
<1>5. ASSUME NEW m \in DOMAIN s \ (i..j) PROVE \E l \in DOMAIN c : c[l] = s[m]
  <2>1. CASE m < i
    <3>1. m \in DOMAIN c /\ c[m] = s[m]
      BY <2>1, <1>1, <1>2, <1>3
    <3>2. QED
      BY <3>1
  <2>2. CASE m > j
    <3> DEFINE l == m - (j - i) - 1
    <3>1. l \in 1..Len(c) /\ ~(l < i) /\ l + (j - i) + 1 = m
      BY <2>2, <1>1, <1>2
    <3>2. c[l] = s[m]
      BY <3>1, <1>2
    <3>3. QED
      BY <3>1, <3>2, <1>3
  <2>3. QED
    BY <2>1, <2>2, <1>1
<1>6. QED
  BY <1>4, <1>5 DEF c

\* Taking entries out of the second half keeps the order.
LEMMA WithoutInOrder ==
  ASSUME NEW N, N \subseteq Nat, NEW s \in Seq(N), NEW i \in 1..Len(s), NEW j \in 1..Len(s), i <= j
  PROVE  /\ Increasing(s) => Increasing(Without(s, i, j))
         /\ \A u \in Seq(N) : Before(u, s) => Before(u, Without(s, i, j))
<1> DEFINE c == Without(s, i, j)
<1>1. i \in Nat /\ j \in Nat /\ Len(s) \in Nat /\ DOMAIN s = 1..Len(s) /\ i >= 1 /\ j <= Len(s)
  OBVIOUS
<1>2. /\ c \in Seq(N) /\ Len(c) = (i - 1) + (Len(s) - j)
      /\ \A l \in 1..Len(c) : c[l] = IF l < i THEN s[l] ELSE s[l + (j - i) + 1]
  BY WithoutFacts
<1>3. \A l \in DOMAIN c : \E m \in DOMAIN s \ (i..j) : c[l] = s[m]
  BY WithoutEntries
<1> HIDE DEF c
<1>4. ASSUME NEW u \in Seq(N), Before(u, s) PROVE Before(u, c)
  BY <1>3, <1>4 DEF Before
<1>5. ASSUME Increasing(s) PROVE Increasing(c)
  <2>1. SUFFICES ASSUME NEW l \in 1..Len(c), NEW m \in 1..Len(c), l < m PROVE c[l] < c[m]
    BY <1>2 DEF Increasing
  <2> DEFINE At(h) == IF h < i THEN h ELSE h + (j - i) + 1
  <2>2. \A h \in 1..Len(c) : At(h) \in 1..Len(s) /\ c[h] = s[At(h)]
    BY <1>1, <1>2
  <2>3. At(l) < At(m)
    BY <2>1, <1>1, <1>2
  <2> HIDE DEF At
  <2>4. s[At(l)] < s[At(m)]
    BY <2>2, <2>3, <1>1, <1>5 DEF Increasing
  <2>5. QED
    BY <2>2, <2>4
<1>6. QED
  BY <1>4, <1>5 DEF c

\* Payload takes entries out where they were.
LEMMA PayloadWithout ==
  ASSUME NEW M, NEW a \in Seq(Put(M)), NEW i \in 1..Len(a), NEW j \in 1..Len(a), i <= j
  PROVE  Payload(Without(a, i, j)) = Without(Payload(a), i, j)
<1> DEFINE b == Without(a, i, j)
           u == Payload(a)
           v == Payload(b)
           w == Without(u, i, j)
<1>1. i \in Nat /\ j \in Nat /\ Len(a) \in Nat /\ i >= 1 /\ j <= Len(a)
  OBVIOUS
<1>2. /\ b \in Seq(Put(M)) /\ Len(b) = (i - 1) + (Len(a) - j)
      /\ \A l \in 1..Len(b) : b[l] = IF l < i THEN a[l] ELSE a[l + (j - i) + 1]
  BY WithoutFacts
<1>3. u \in Seq(M) /\ Len(u) = Len(a) /\ \A l \in 1..Len(a) : u[l] = a[l].message
  BY PayloadFacts
<1> HIDE DEF b, u
<1>4. v \in Seq(M) /\ Len(v) = Len(b) /\ \A l \in 1..Len(b) : v[l] = b[l].message
  BY <1>2, PayloadFacts
<1>5. /\ w \in Seq(M) /\ Len(w) = (i - 1) + (Len(u) - j)
      /\ \A l \in 1..Len(w) : w[l] = IF l < i THEN u[l] ELSE u[l + (j - i) + 1]
  <2>1. i \in 1..Len(u) /\ j \in 1..Len(u)
    BY <1>3
  <2>2. QED
    BY <2>1, <1>3, WithoutFacts, ZenonT(60)
<1> HIDE DEF v, w
<1>6. Len(v) = Len(w)
  BY <1>2, <1>3, <1>4, <1>5
<1>7. ASSUME NEW l \in 1..Len(v) PROVE v[l] = w[l]
  <2> DEFINE at == IF l < i THEN l ELSE l + (j - i) + 1
  <2>1. at \in 1..Len(a) /\ l \in 1..Len(b) /\ l \in 1..Len(w)
    BY <1>1, <1>2, <1>4, <1>6
  <2>2. b[l] = a[at] /\ w[l] = u[at]
    BY <2>1, <1>2, <1>5
  <2> HIDE DEF at
  <2>3. QED
    BY <2>1, <2>2, <1>3, <1>4
<1>8. v = w
  BY <1>4, <1>5, <1>6, <1>7, SeqEqual
<1>9. QED
  BY <1>8 DEF v, w, u, b

LEMMA StopInv ==
  ASSUME Inv, NEW s \in Subscriber, Stop(s)
  PROVE  Inv'
<1> USE DEF Inv
<1>1. /\ subscriber' = [subscriber EXCEPT ![s] = "off"]
      /\ chunk' = [chunk EXCEPT ![s] = <<>>]
      /\ abandoned' = abandoned \cup ToSet(chunk[s])
      /\ stops' = stops + 1
      /\ UNCHANGED <<strategy, queue, putters, publisher, handled, published, dropped>>
  BY DEF Stop
<1>2. \/ s \notin ToSet(takers) /\ UNCHANGED takers
      \/ \E i \in DOMAIN takers : takers[i] = s /\ takers' = Without(takers, i, i)
  BY DEF Stop
<1>3. /\ chunk \in [Subscriber -> Seq(Messages)] /\ handled \in [Subscriber -> Seq(Messages)]
      /\ subscriber \in [Subscriber -> {"off", "pulling", "taking", "waiting", "running"}]
      /\ \A t \in Subscriber : chunk[t] # <<>> <=> subscriber[t] = "running"
      /\ Messages' = Messages /\ Messages \subseteq Nat
      /\ takers \in Seq(Subscriber) /\ DOMAIN takers = 1..Len(takers) /\ Len(takers) \in Nat
  BY <1>1 DEF TypeOK, Messages
<1>4. /\ takers' \in Seq(Subscriber) /\ Once' /\ (takers = <<>> => takers' = <<>>)
      /\ \A t : t \in ToSet(takers') <=> t \in ToSet(takers) /\ t # s
  <2>1. CASE s \notin ToSet(takers) /\ UNCHANGED takers
    BY <2>1, <1>3 DEF Once, ToSet
  <2>2. ASSUME NEW i \in DOMAIN takers, takers[i] = s, takers' = Without(takers, i, i)
        PROVE  /\ takers' \in Seq(Subscriber) /\ Once' /\ (takers = <<>> => takers' = <<>>)
               /\ \A t : t \in ToSet(takers') <=> t \in ToSet(takers) /\ t # s
    <3> DEFINE b == Without(takers, i, i)
    <3>1. i \in 1..Len(takers) /\ i <= i /\ i \in Nat
      BY <1>3
    <3>2. /\ b \in Seq(Subscriber) /\ Len(b) = (i - 1) + (Len(takers) - i)
          /\ \A l \in 1..Len(b) : b[l] = IF l < i THEN takers[l] ELSE takers[l + (i - i) + 1]
      <4>1. takers \in Seq(Subscriber)
        BY <1>3
      <4>2. QED
        BY <3>1, <4>1, WithoutFacts
    <3>3. /\ \A l \in DOMAIN b : \E m \in DOMAIN takers \ (i..i) : b[l] = takers[m]
          /\ \A m \in DOMAIN takers \ (i..i) : \E l \in DOMAIN b : b[l] = takers[m]
      <4>1. takers \in Seq(Subscriber)
        BY <1>3
      <4>2. QED
        BY <3>1, <4>1, WithoutEntries
    <3> HIDE DEF b
    <3>4. \A m, h \in 1..Len(takers) : takers[m] = takers[h] => m = h
      BY <1>3 DEF Once
    <3>5. \A m \in DOMAIN takers : m \in i..i <=> m = i
      BY <3>1, <1>3
    <3>6. \A t : t \in ToSet(b) <=> t \in ToSet(takers) /\ t # s
      <4>1. ASSUME NEW l \in DOMAIN b PROVE b[l] \in ToSet(takers) /\ b[l] # s
        <5>1. PICK m \in DOMAIN takers \ (i..i) : b[l] = takers[m]
          BY <3>3
        <5>2. m # i /\ takers[m] # takers[i]
          BY <5>1, <3>1, <3>4, <3>5, <1>3
        <5>3. QED
          BY <5>1, <5>2, <2>2 DEF ToSet
      <4>2. ASSUME NEW m \in DOMAIN takers, takers[m] # s PROVE takers[m] \in ToSet(b)
        <5>1. m \notin i..i
          BY <4>2, <3>5, <2>2
        <5>2. QED
          BY <5>1, <3>3 DEF ToSet
      <4>3. QED
        BY <4>1, <4>2 DEF ToSet
    <3>7. DOMAIN b = 1..Len(b) /\ Len(b) = Len(takers) - 1
      BY <3>1, <3>2, <1>3
    <3>8. ASSUME NEW l \in 1..Len(b), NEW m \in 1..Len(b), b[l] = b[m] PROVE l = m
      <4> DEFINE At(h) == IF h < i THEN h ELSE h + 1
      <4>1. \A h \in 1..Len(b) : At(h) \in 1..Len(takers) /\ b[h] = takers[At(h)]
        <5>1. ASSUME NEW h \in 1..Len(b) PROVE At(h) \in 1..Len(takers) /\ b[h] = takers[At(h)]
          <6>1. h \in Nat /\ h + (i - i) + 1 = h + 1
            BY <3>1
          <6>2. b[h] = takers[At(h)]
            BY <6>1, <3>2
          <6>3. At(h) \in 1..Len(takers)
            BY <6>1, <3>1, <3>7, <1>3
          <6>4. QED
            BY <6>2, <6>3
        <5> HIDE DEF At
        <5>2. QED
          BY <5>1
      <4>2. At(l) = At(m)
        <5> HIDE DEF At
        <5>1. QED
          BY <4>1, <3>4, <3>8
      <4>3. QED
        BY <4>2, <3>1
    <3>9. takers' = b
      BY <2>2 DEF b
    <3>10. takers # <<>>
      BY <3>1
    <3>11. QED
      BY <3>2, <3>6, <3>7, <3>8, <3>9, <3>10 DEF Once
  <2>3. QED
    BY <1>2, <2>1, <2>2
<1>5. subscriber' \in [Subscriber -> {"off", "pulling", "taking", "waiting", "running"}]
  BY <1>1, <1>3
<1>6. chunk' \in [Subscriber -> Seq(Messages)]
  BY <1>1, <1>3
<1>7. \A t \in Subscriber : chunk'[t] # <<>> <=> subscriber'[t] = "running"
  BY <1>1, <1>3
<1>8. abandoned' \subseteq Messages
  <2>1. chunk[s] \in Seq(Messages)
    BY <1>3
  <2>2. ToSet(chunk[s]) \subseteq Messages
    BY <2>1 DEF ToSet
  <2>3. QED
    BY <2>2, <1>1 DEF TypeOK
<1>9. TypeOK'
  BY <1>1, <1>3, <1>4, <1>5, <1>6, <1>7, <1>8, SMTT(30) DEF TypeOK
<1>10. SubscribersWait'
  <2>1. \A t \in Subscriber : subscriber'[t] = "waiting" <=> t \in ToSet(takers')
    BY <1>1, <1>3, <1>4 DEF SubscribersWait
  <2>2. QED
    BY <2>1 DEF SubscribersWait, ToSet
<1>11. Backlog' = Backlog
  BY <1>1 DEF Backlog, Payload
<1>12. ASSUME NEW t \in Subscriber PROVE Increasing(Got(t)') /\ Before(Got(t)', Backlog)
  <2>1. Increasing(Got(t)) /\ Before(Got(t), Backlog) /\ Backlog \in Seq(Messages)
    BY BacklogType DEF Ordered
  <2>2. CASE t # s
    <3>1. Got(t)' = Got(t)
      BY <2>2, <1>1, <1>3 DEF Got
    <3>2. QED
      BY <2>1, <3>1
  <2>3. CASE t = s
    <3>1. handled[s] \in Seq(Messages) /\ chunk[s] \in Seq(Messages)
      BY <1>3
    <3>2. Got(t)' = handled[s] \o <<>>
      BY <2>3, <1>1, <1>3 DEF Got
    <3>3. Got(t)' = handled[s]
      BY <3>1, <3>2, EmptyFacts
    <3>4. Got(t) = handled[s] \o chunk[s]
      BY <2>3 DEF Got
    <3>5. Increasing(handled[s])
      BY <2>1, <3>1, <3>4, <1>3, ConcatInOrder
    <3>6. Before(handled[s], Backlog)
      <4>1. Before(handled[s] \o chunk[s], Backlog)
        BY <2>1, <3>4
      <4>2. Messages \subseteq Nat /\ Backlog \in Seq(Messages)
        BY <2>1, <1>3
      <4>3. QED
        BY <3>1, <4>1, <4>2, BeforeConcat
    <3>7. QED
      BY <3>3, <3>5, <3>6
  <2>4. QED
    BY <2>2, <2>3
<1>13. Ordered'
  BY <1>11, <1>12 DEF Ordered, Increasing, Before
<1>14. Fits' /\ FullFirst' /\ PublishersWait'
  BY <1>1 DEF Fits, FullFirst, PublishersWait, ToSet
<1>15. QED
  BY <1>1, <1>4, <1>9, <1>10, <1>11, <1>13, <1>14

LEMMA InterruptInv ==
  ASSUME Inv, NEW p \in Publisher, Interrupt(p)
  PROVE  Inv'
<1> USE DEF Inv
<1> DEFINE own == {i \in DOMAIN putters : putters[i].publisher = p}
<1>1. /\ publisher' = [publisher EXCEPT ![p] = "idle"]
      /\ abandoned' = abandoned \cup {putters[i].message : i \in own}
      /\ stops' = stops + 1
      /\ UNCHANGED <<strategy, queue, takers, subscriber, chunk, handled, published, dropped>>
  BY DEF Interrupt
<1>2. PICK i \in own, j \in own : own = i..j /\ putters' = Without(putters, i, j)
  BY DEF Interrupt
<1>3. /\ queue \in Seq(Messages) /\ putters \in Seq(Put(Messages)) /\ Payload(putters) \in Seq(Messages)
      /\ DOMAIN putters = 1..Len(putters) /\ Len(putters) \in Nat
      /\ Messages' = Messages /\ Messages \subseteq Nat
  <2>1. queue \in Seq(Messages) /\ putters \in Seq(Put(Messages)) /\ Payload(putters) \in Seq(Messages)
    BY BacklogType
  <2>2. Messages' = Messages /\ Messages \subseteq Nat
    BY <1>1 DEF Messages
  <2>3. QED
    BY <2>1, <2>2
<1>4. i \in 1..Len(putters) /\ j \in 1..Len(putters) /\ i <= j
  BY <1>2, <1>3
<1>5. putters' \in Seq(Put(Messages))
  <2>1. Without(putters, i, j) \in Seq(Put(Messages))
    BY <1>3, <1>4, WithoutFacts
  <2>2. QED
    BY <2>1, <1>2
<1>6. /\ \A l \in DOMAIN putters' : \E m \in DOMAIN putters \ own : putters'[l] = putters[m]
      /\ \A m \in DOMAIN putters \ own : \E l \in DOMAIN putters' : putters'[l] = putters[m]
  <2>1. /\ \A l \in DOMAIN Without(putters, i, j) :
             \E m \in DOMAIN putters \ (i..j) : Without(putters, i, j)[l] = putters[m]
        /\ \A m \in DOMAIN putters \ (i..j) :
             \E l \in DOMAIN Without(putters, i, j) : Without(putters, i, j)[l] = putters[m]
    <3>1. putters \in Seq(Put(Messages))
      BY <1>3
    <3>2. QED
      BY <3>1, <1>4, WithoutEntries
  <2>2. QED
    BY <2>1, <1>2
<1>7. PublishersWait'
  <2>1. /\ publisher \in [Publisher -> {"idle", "suspended"}]
        /\ \A q \in Publisher :
             publisher[q] = "suspended" <=> \E put \in ToSet(putters) : put.publisher = q
    BY DEF PublishersWait
  <2>2. publisher' \in [Publisher -> {"idle", "suspended"}]
    BY <2>1, <1>1
  <2>3. ~ \E put \in ToSet(putters') : put.publisher = p
    BY <1>6 DEF ToSet
  <2>4. \A q \in Publisher \ {p} :
          (\E put \in ToSet(putters') : put.publisher = q) <=> \E put \in ToSet(putters) : put.publisher = q
    BY <1>6 DEF ToSet
  <2>5. \A q \in Publisher : publisher'[q] = "suspended" <=> \E put \in ToSet(putters') : put.publisher = q
    BY <2>1, <2>3, <2>4, <1>1
  <2>6. QED
    BY <2>2, <2>5 DEF PublishersWait, ToSet
<1>8. abandoned' \subseteq Messages
  <2>1. \A l \in own : putters[l].message \in Messages
    <3>1. \A l \in DOMAIN putters : putters[l] \in Put(Messages)
      BY <1>3
    <3>2. QED
      BY <3>1 DEF Put
  <2>2. QED
    BY <2>1, <1>1 DEF TypeOK
<1> HIDE DEF own
<1>9. TypeOK'
  BY <1>1, <1>3, <1>5, <1>7, <1>8 DEF TypeOK, Put, PublishersWait
<1> DEFINE u == Payload(putters)
           w == Without(u, i, j)
<1>10. w = Payload(putters') /\ w \in Seq(Messages)
  <2>1. Payload(Without(putters, i, j)) = w
    BY <1>3, <1>4, PayloadWithout
  <2>2. Payload(putters') \in Seq(Messages)
    BY <1>5, PayloadFacts
  <2>3. QED
    BY <2>1, <2>2, <1>2
<1>11. Backlog = queue \o u /\ Backlog' = queue \o w
  BY <1>1, <1>10 DEF Backlog, Payload
<1>12. /\ Increasing(u) => Increasing(w)
       /\ \A v \in Seq(Messages) : Before(v, u) => Before(v, w)
  <2>1. i \in 1..Len(u) /\ j \in 1..Len(u)
    BY <1>3, <1>4, PayloadFacts
  <2>2. QED
    BY <2>1, <1>3, <1>4, WithoutInOrder
<1>13. u \in Seq(Messages)
  BY <1>3
<1> HIDE DEF u, w
<1>14. Increasing(Backlog')
  <2>1. Increasing(queue) /\ Increasing(u) /\ Before(queue, u)
    BY <1>3, <1>11, <1>13, ConcatInOrder DEF Ordered
  <2>2. Increasing(w) /\ Before(queue, w)
    BY <2>1, <1>3, <1>12
  <2>3. QED
    BY <2>1, <2>2, <1>3, <1>10, <1>11, ConcatInOrder
<1>15. ASSUME NEW t \in Subscriber PROVE Increasing(Got(t)') /\ Before(Got(t)', Backlog')
  <2>1. Increasing(Got(t)) /\ Before(Got(t), Backlog) /\ Got(t) \in Seq(Messages) /\ Got(t)' = Got(t)
    BY GotType, <1>1 DEF Ordered, Got
  <2>2. Before(Got(t), queue) /\ Before(Got(t), u)
    BY <2>1, <1>3, <1>11, <1>13, BeforeConcat
  <2>3. Before(Got(t), w)
    BY <2>1, <2>2, <1>12
  <2>4. Before(Got(t), queue \o w)
    BY <2>1, <2>2, <2>3, <1>3, <1>10, BeforeConcat
  <2>5. QED
    BY <2>1, <2>4, <1>11
<1>16. Ordered'
  BY <1>14, <1>15 DEF Ordered, Increasing, Before
<1>17. putters # <<>>
  BY <1>4
<1>18. takers' = <<>>
  <2>1. queue # <<>>
    BY <1>17, EmptyQueue
  <2>2. Len(queue) # 0 /\ Len(queue) \in Nat /\ Len(u) \in Nat
    BY <2>1, <1>3, <1>13, EmptyFacts
  <2>3. Len(Backlog) = Len(queue) + Len(u)
    BY <1>3, <1>11, <1>13, ConcatFacts
  <2>4. Backlog # <<>>
    BY <2>2, <2>3
  <2>5. QED
    BY <2>4, <1>1
<1>19. Fits' /\ FullFirst'
  BY <1>1, <1>17 DEF Fits, FullFirst
<1>20. Once' /\ SubscribersWait'
  BY <1>1 DEF Once, SubscribersWait, ToSet
<1>21. QED
  BY <1>1, <1>7, <1>9, <1>16, <1>18, <1>19, <1>20

-----------------------------------------------------------------------------
(* The theorems.                                                            *)

LEMMA StreamStepInv ==
  ASSUME Inv, NEW s \in Subscriber, StreamStep(s)
  PROVE  Inv' /\ dropped' = dropped
<1>1. ChunkSize \in Nat /\ ChunkSize > 0
  BY ChunkAssumption
<1>2. ASSUME TakeUpTo(s) PROVE Inv' /\ dropped' = dropped
  <2>1. subscriber[s] = "pulling" /\ UNCHANGED <<strategy, takers, handled, ghostVars>>
    BY <1>2 DEF TakeUpTo
  <2>2. CASE queue # <<>>
    <3>1. Takes(s, ChunkSize)
      BY <1>2, <2>2 DEF TakeUpTo
    <3>2. QED
      BY <2>1, <2>2, <3>1, <1>1, TakesInv DEF ghostVars
  <2>3. CASE queue = <<>>
    <3>1. /\ subscriber' = [subscriber EXCEPT ![s] = "taking"]
          /\ UNCHANGED <<queue, putters, publisher, chunk>>
      BY <1>2, <2>3 DEF TakeUpTo
    <3>2. UNCHANGED <<hubVars, publisher, chunk, handled, ghostVars>>
      BY <2>1, <3>1 DEF hubVars
    <3>3. QED
      BY <2>1, <3>1, <3>2, ControlInv DEF ghostVars
  <2>4. QED
    BY <2>2, <2>3
<1>3. ASSUME Take(s) PROVE Inv' /\ dropped' = dropped
  <2>1. subscriber[s] = "taking" /\ UNCHANGED <<strategy, handled, ghostVars>>
    BY <1>3 DEF Take
  <2>2. CASE queue # <<>>
    <3>1. Takes(s, 1) /\ UNCHANGED takers
      BY <1>3, <2>2 DEF Take
    <3>2. QED
      BY <2>1, <2>2, <3>1, TakesInv DEF ghostVars
  <2>3. CASE queue = <<>>
    <3>1. /\ subscriber' = [subscriber EXCEPT ![s] = "waiting"]
          /\ takers' = Append(takers, s)
          /\ UNCHANGED <<queue, putters, publisher, chunk>>
      BY <1>3, <2>3 DEF Take
    <3>2. QED
      BY <2>1, <2>3, <3>1, WaitInv DEF ghostVars
  <2>4. QED
    BY <2>2, <2>3
<1>4. ASSUME Handle(s) PROVE Inv' /\ dropped' = dropped
  BY <1>4, HandleInv DEF Handle, ghostVars
<1>5. QED
  BY <1>2, <1>3, <1>4 DEF StreamStep

LEMMA StepInv ==
  ASSUME Inv, [Next]_vars
  PROVE  /\ Inv'
         /\ \/ dropped' = dropped
            \/ \E p \in Publisher \cup {Nobody}, n \in Nat : Publish(p, n)
<1>1. ASSUME NEW p \in Publisher \cup {Nobody}, NEW n \in 1..MaxBatch, Publish(p, n)
      PROVE  Inv' /\ n \in Nat
  BY <1>1, PublishInv
<1>2. ASSUME NEW p \in Publisher, Interrupt(p) PROVE Inv' /\ dropped' = dropped
  BY <1>2, InterruptInv DEF Interrupt
<1>3. ASSUME NEW s \in Subscriber, Subscribe(s) PROVE Inv' /\ dropped' = dropped
  <2>1. /\ subscriber[s] = "off" /\ subscriber' = [subscriber EXCEPT ![s] = "pulling"]
        /\ UNCHANGED <<hubVars, publisher, chunk, handled, ghostVars>>
    BY <1>3 DEF Subscribe
  <2>2. QED
    BY <2>1, ControlInv DEF ghostVars
<1>4. ASSUME NEW s \in Subscriber, Stop(s) PROVE Inv' /\ dropped' = dropped
  BY <1>4, StopInv DEF Stop
<1>5. CASE UNCHANGED vars
  <2>1. UNCHANGED <<strategy, queue, takers, putters, publisher, subscriber, chunk, handled,
                    published, dropped, abandoned, stops>>
    BY <1>5 DEF vars, hubVars, ghostVars
  <2>2. TypeOK' /\ Backlog' = Backlog /\ \A s \in Subscriber : Got(s)' = Got(s)
    BY <2>1 DEF Inv, TypeOK, Messages, Backlog, Payload, Got
  <2>3. QED
    BY <2>1, <2>2 DEF Inv, Fits, FullFirst, Once, SubscribersWait, PublishersWait, Ordered,
                      Increasing, Before, ToSet
<1>6. QED
  BY <1>1, <1>2, <1>3, <1>4, <1>5, StreamStepInv DEF Next

\* The invariant everything else rests on.
THEOREM AlwaysInv == Spec => []Inv
<1>1. Init => Inv
  BY InitInv
<1>2. Inv /\ [Next]_vars => Inv'
  BY StepInv
<1>3. QED
  BY <1>1, <1>2, PTL DEF Spec

\* The state of a hub keeps its shape.
THEOREM TypeCorrect == Spec => []TypeOK
<1>1. Inv => TypeOK
  BY DEF Inv
<1>2. QED
  BY <1>1, AlwaysInv, PTL

\* First in, first out: through every interleaving of publishers and subscribers,
\* under every strategy, through ends of streams and interrupts of publishers.
THEOREM FirstInFirstOut == Spec => []InOrder
BY AlwaysInv, InvGivesOrder, PTL

\* No wakeup is lost.
THEOREM NoLostWakeup == Spec => []NobodyWaitsInVain
BY AlwaysInv, InvGivesNoWait, PTL

\* Messages are dropped by a full hub only, at the end its strategy names.
THEOREM DropsAreByStrategy == Spec => DropsByStrategy
<1> DEFINE ByStrategy ==
      \A m \in dropped' \ dropped :
        /\ Len(queue') = strategy.capacity
        /\ \/ strategy.tag = "sliding" /\ \A w \in ToSet(queue') : m < w
           \/ strategy.tag = "dropping" /\ \A w \in ToSet(queue') : w < m
<1>1. Inv /\ [Next]_vars => [ByStrategy]_vars
  <2> SUFFICES ASSUME Inv, [Next]_vars PROVE ByStrategy
    OBVIOUS
  <2>1. CASE dropped' = dropped
    BY <2>1
  <2>2. ASSUME NEW p \in Publisher \cup {Nobody}, NEW n \in Nat, Publish(p, n)
        PROVE  ByStrategy
    <3> DEFINE all == Backlog \o Rest(Numbered(published, n), Least(n, Len(takers)))
    <3>1. all \in Seq(1..published') /\ Joins(all) /\ Increasing(all)
      BY <2>2, PublishQueue
    <3>2. 1..published' \subseteq Nat
      OBVIOUS
    <3> HIDE DEF all
    <3>3. QED
      BY <3>1, <3>2, JoinsDrops
  <2>3. QED
    BY <2>1, <2>2, StepInv
<1>2. QED
  BY <1>1, AlwaysInv, PTL DEF Spec, DropsByStrategy

-----------------------------------------------------------------------------
(* No message is lost or delivered twice.                                   *)

\* Every message of M is in one of the sets: B waits, D is dropped, A is abandoned,
\* and G[s] is what s has got.
OneHolderOf(M, B, G, D, A) ==
  /\ \A m \in M : m \in B \/ m \in D \/ m \in A \/ \E s \in Subscriber : m \in G[s]
  /\ \A m \in B : m \notin D /\ m \notin A /\ \A s \in Subscriber : m \notin G[s]
  /\ \A m \in D : m \notin A /\ \A s \in Subscriber : m \notin G[s]
  /\ \A m \in A : \A s \in Subscriber : m \notin G[s]
  /\ \A s, t \in Subscriber : \A m \in G[s] : m \in G[t] => s = t

LEMMA TakenHolder ==
  ASSUME NEW M, NEW T, NEW C, NEW G, NEW D, NEW A, OneHolderOf(M, T \cup C, G, D, A),
         NEW H, NEW s \in Subscriber, T \cap C = {},
         H[s] = G[s] \cup T, \A t \in Subscriber : t # s => H[t] = G[t]
  PROVE  OneHolderOf(M, C, H, D, A)
<1>1. \A t \in Subscriber : \A m : m \in H[t] <=> m \in G[t] \/ (t = s /\ m \in T)
  OBVIOUS
<1>2. \A m : m \in T \cup C <=> m \in T \/ m \in C
  OBVIOUS
<1>3. \A m : ~(m \in T /\ m \in C)
  OBVIOUS
<1>4. QED
  BY <1>1, <1>2, <1>3 DEF OneHolderOf

LEMMA EndedHolder ==
  ASSUME NEW M, NEW B, NEW G, NEW D, NEW A, OneHolderOf(M, B, G, D, A),
         NEW H, NEW T, NEW C, NEW s \in Subscriber,
         G[s] = T \cup C, T \cap C = {},
         H[s] = T, \A t \in Subscriber : t # s => H[t] = G[t]
  PROVE  OneHolderOf(M, B, H, D, A \cup C)
<1>1. \A t \in Subscriber : \A m : m \in G[t] <=> m \in H[t] \/ (t = s /\ m \in C)
  OBVIOUS
<1>2. \A m : ~(m \in H[s] /\ m \in C)
  OBVIOUS
<1>3. \A m : m \in A \cup C <=> m \in A \/ m \in C
  OBVIOUS
<1>4. QED
  BY <1>1, <1>2, <1>3 DEF OneHolderOf

LEMMA WithdrawnHolder ==
  ASSUME NEW M, NEW T, NEW C, NEW G, NEW D, NEW A, OneHolderOf(M, T \cup C, G, D, A),
         T \cap C = {}
  PROVE  OneHolderOf(M, C, G, D, A \cup T)
<1>1. \A m : m \in T \cup C <=> m \in T \/ m \in C
  OBVIOUS
<1>2. \A m : ~(m \in T /\ m \in C)
  OBVIOUS
<1>3. \A m : m \in A \cup T <=> m \in A \/ m \in T
  OBVIOUS
<1>4. QED
  BY <1>1, <1>2, <1>3 DEF OneHolderOf

LEMMA SharedHolder ==
  ASSUME NEW M, NEW B, NEW G, NEW D, NEW A, OneHolderOf(M, B, G, D, A),
         B \subseteq M, D \subseteq M, A \subseteq M, \A s \in Subscriber : G[s] \subseteq M,
         NEW F, M \cap F = {}, NEW R, NEW Share, R \subseteq F,
         \A s \in Subscriber : Share[s] \subseteq F /\ Share[s] \cap R = {},
         \A s, t \in Subscriber : \A m \in Share[s] : m \in Share[t] => s = t,
         \A m \in F : m \in R \/ \E s \in Subscriber : m \in Share[s],
         NEW H, \A s \in Subscriber : H[s] = G[s] \cup Share[s]
  PROVE  OneHolderOf(M \cup F, B \cup R, H, D, A)
<1>1. \A t \in Subscriber : \A m : m \in H[t] <=> m \in G[t] \/ m \in Share[t]
  OBVIOUS
<1>2. \A m : ~(m \in M /\ m \in F)
  OBVIOUS
<1>3. \A m : m \in M \cup F <=> m \in M \/ m \in F
  OBVIOUS
<1>4. \A m : m \in B \cup R <=> m \in B \/ m \in R
  OBVIOUS
<1>5. /\ \A m : (m \in B => m \in M) /\ (m \in D => m \in M) /\ (m \in A => m \in M) /\ (m \in R => m \in F)
      /\ \A s \in Subscriber : \A m : /\ m \in G[s] => m \in M
                                      /\ m \in Share[s] => m \in F /\ m \notin R
  OBVIOUS
<1>6. \A m \in M \cup F : m \in B \cup R \/ m \in D \/ m \in A \/ \E s \in Subscriber : m \in H[s]
  BY <1>1, <1>3, <1>4 DEF OneHolderOf
<1>7. \A m \in B \cup R : m \notin D /\ m \notin A /\ \A s \in Subscriber : m \notin H[s]
  BY <1>1, <1>2, <1>4, <1>5 DEF OneHolderOf
<1>8. /\ \A m \in D : m \notin A /\ \A s \in Subscriber : m \notin H[s]
      /\ \A m \in A : \A s \in Subscriber : m \notin H[s]
  BY <1>1, <1>2, <1>5 DEF OneHolderOf
<1>9. \A s, t \in Subscriber : \A m \in H[s] : m \in H[t] => s = t
  BY <1>1, <1>2, <1>5 DEF OneHolderOf
<1>10. QED
  BY <1>6, <1>7, <1>8, <1>9 DEF OneHolderOf

LEMMA DroppedHolder ==
  ASSUME NEW M, NEW T, NEW C, NEW G, NEW D, NEW A, OneHolderOf(M, T \cup C, G, D, A),
         T \cap C = {}
  PROVE  OneHolderOf(M, C, G, D \cup T, A)
<1>1. \A m : m \in T \cup C <=> m \in T \/ m \in C
  OBVIOUS
<1>2. \A m : ~(m \in T /\ m \in C)
  OBVIOUS
<1>3. \A m : m \in D \cup T <=> m \in D \/ m \in T
  OBVIOUS
<1>4. QED
  BY <1>1, <1>2, <1>3 DEF OneHolderOf

Holders == [s \in Subscriber |-> ToSet(Got(s))]

OneHolder == OneHolderOf(Messages, ToSet(Backlog), Holders, dropped, abandoned)

\* Nothing of a sequence in order is in both of its parts.
LEMMA CutApart ==
  ASSUME NEW N, N \subseteq Nat, NEW s \in Seq(N), NEW n \in 0..Len(s), Increasing(s)
  PROVE  /\ ToSet(s) = ToSet(Prefix(s, n)) \cup ToSet(Rest(s, n))
         /\ ToSet(Prefix(s, n)) \cap ToSet(Rest(s, n)) = {}
<1> DEFINE a == Prefix(s, n)
           b == Rest(s, n)
<1>1. Before(a, b) /\ ToSet(s) = ToSet(a) \cup ToSet(b)
  BY CutInOrder, CutSet
<1>2. a \in Seq(N) /\ b \in Seq(N)
  <2>1. n \in Nat
    OBVIOUS
  <2>2. a \in Seq(N)
    BY <2>1, PrefixFacts
  <2>3. b \in Seq(N)
    BY RestFacts
  <2>4. QED
    BY <2>2, <2>3
<1> HIDE DEF a, b
<1>3. \A i \in DOMAIN a, j \in DOMAIN b : a[i] # b[j]
  <2>1. ASSUME NEW i \in DOMAIN a, NEW j \in DOMAIN b PROVE a[i] # b[j]
    <3>1. a[i] \in Nat /\ b[j] \in Nat
      <4>1. a[i] \in N /\ b[j] \in N
        BY <1>2
      <4>2. QED
        BY <4>1
    <3>2. a[i] < b[j]
      BY <1>1 DEF Before
    <3>3. QED
      BY <3>1, <3>2
  <2>2. QED
    BY <2>1
<1>4. ToSet(a) \cap ToSet(b) = {}
  BY <1>3 DEF ToSet
<1>5. QED
  BY <1>1, <1>4 DEF a, b

LEMMA ConcatApart ==
  ASSUME NEW N, N \subseteq Nat, NEW s \in Seq(N), NEW t \in Seq(N), Increasing(s \o t)
  PROVE  ToSet(s \o t) = ToSet(s) \cup ToSet(t) /\ ToSet(s) \cap ToSet(t) = {}
<1>1. Before(s, t)
  BY ConcatInOrder
<1>2. \A i \in DOMAIN s, j \in DOMAIN t : s[i] # t[j]
  <2>1. ASSUME NEW i \in DOMAIN s, NEW j \in DOMAIN t PROVE s[i] # t[j]
    <3>1. s[i] \in Nat /\ t[j] \in Nat
      <4>1. s[i] \in N /\ t[j] \in N
        OBVIOUS
      <4>2. QED
        BY <4>1
    <3>2. s[i] < t[j]
      BY <1>1 DEF Before
    <3>3. QED
      BY <3>1, <3>2
  <2>2. QED
    BY <2>1
<1>3. ToSet(s) \cap ToSet(t) = {}
  BY <1>2 DEF ToSet
<1>4. QED
  BY <1>3, ConcatSet

LEMMA TakesHolder ==
  ASSUME Inv, OneHolder, NEW s \in Subscriber, NEW n \in Nat, n > 0, queue # <<>>, Takes(s, n),
         subscriber[s] \in {"pulling", "taking"},
         UNCHANGED <<strategy, takers, handled, ghostVars>>
  PROVE  OneHolder'
<1> DEFINE a == Prefix(queue, n)
<1>1. /\ UNCHANGED <<handled, published, dropped, abandoned, strategy>>
      /\ chunk' = [chunk EXCEPT ![s] = a]
  BY DEF ghostVars, Takes
<1>2. a \in Seq(Messages) /\ Backlog' \in Seq(Messages) /\ Backlog = a \o Backlog'
  BY <1>1, TakesBacklog
<1> HIDE DEF a
<1>3. Messages \subseteq Nat /\ Messages' = Messages /\ Increasing(Backlog)
  BY <1>1 DEF Messages, Inv, Ordered
<1>4. ToSet(Backlog) = ToSet(a) \cup ToSet(Backlog') /\ ToSet(a) \cap ToSet(Backlog') = {}
  BY <1>2, <1>3, ConcatApart, ZenonT(60)
<1>5. /\ chunk \in [Subscriber -> Seq(Messages)] /\ handled \in [Subscriber -> Seq(Messages)]
      /\ chunk[s] = <<>>
  BY DEF Inv, TypeOK
<1>6. Got(s)' = Got(s) \o a
  <2>1. handled[s] = Got(s)
    BY <1>5, EmptyFacts DEF Got
  <2>2. QED
    BY <2>1, <1>1, <1>5 DEF Got
<1>7. ToSet(Got(s)') = ToSet(Got(s)) \cup ToSet(a)
  BY <1>2, <1>6, GotType, ConcatSet
<1>8. \A t \in Subscriber : t # s => Got(t)' = Got(t)
  BY <1>1, <1>5 DEF Got
<1> DEFINE G == [t \in Subscriber |-> ToSet(Got(t))]
           H == [t \in Subscriber |-> ToSet(Got(t)')]
<1>9. H[s] = G[s] \cup ToSet(a) /\ \A t \in Subscriber : t # s => H[t] = G[t]
  BY <1>7, <1>8
<1>10. OneHolderOf(Messages, ToSet(Backlog), G, dropped, abandoned)
  BY DEF OneHolder, Holders
<1> HIDE DEF G, H
<1>11. OneHolderOf(Messages, ToSet(Backlog'), H, dropped, abandoned)
  <2> DEFINE T == ToSet(a)
             C == ToSet(Backlog')
  <2>1. /\ OneHolderOf(Messages, T \cup C, G, dropped, abandoned)
        /\ T \cap C = {}
        /\ H[s] = G[s] \cup T /\ \A t \in Subscriber : t # s => H[t] = G[t]
    BY <1>4, <1>9, <1>10
  <2> HIDE DEF T, C
  <2>2. OneHolderOf(Messages, C, H, dropped, abandoned)
    BY <2>1, TakenHolder
  <2>3. QED
    BY <2>2 DEF C
<1>12. Holders' = H
  BY DEF Holders, H, ToSet
<1>13. ToSet(Backlog)' = ToSet(Backlog')
  BY DEF ToSet
<1>14. OneHolderOf(Messages, ToSet(Backlog), Holders, dropped, abandoned)'
  BY <1>1, <1>3, <1>11, <1>12, <1>13 DEF OneHolderOf
<1>15. QED
  BY <1>14 DEF OneHolder

\* A step that leaves everybody with what he had.
LEMMA SameHolder ==
  ASSUME OneHolder, Backlog' = Backlog, \A t \in Subscriber : Got(t)' = Got(t),
         UNCHANGED <<published, dropped, abandoned>>
  PROVE  OneHolder'
<1>1. ToSet(Backlog)' = ToSet(Backlog) /\ Messages' = Messages
  BY DEF ToSet, Messages
<1>2. Holders' = Holders
  BY DEF Holders, ToSet
<1>3. QED
  BY <1>1, <1>2 DEF OneHolder, OneHolderOf

LEMMA StopHolder ==
  ASSUME Inv, OneHolder, NEW s \in Subscriber, Stop(s)
  PROVE  OneHolder'
<1>1. /\ chunk' = [chunk EXCEPT ![s] = <<>>]
      /\ abandoned' = abandoned \cup ToSet(chunk[s])
      /\ UNCHANGED <<strategy, queue, putters, publisher, handled, published, dropped>>
  BY DEF Stop
<1>2. /\ chunk \in [Subscriber -> Seq(Messages)] /\ handled \in [Subscriber -> Seq(Messages)]
      /\ Messages' = Messages /\ Messages \subseteq Nat /\ Backlog' = Backlog
      /\ Increasing(Got(s))
  BY <1>1, SMTT(30) DEF Inv, TypeOK, Messages, Ordered, Backlog, Payload
<1> DEFINE h == handled[s]
           c == chunk[s]
<1>3. h \in Seq(Messages) /\ c \in Seq(Messages) /\ Got(s) = h \o c
  BY <1>2 DEF Got
<1>4. Got(s)' = h
  <2>1. Got(s)' = h \o <<>>
    BY <1>1, <1>2 DEF Got
  <2>2. QED
    BY <2>1, <1>3, EmptyFacts
<1>5. \A t \in Subscriber : t # s => Got(t)' = Got(t)
  BY <1>1, <1>2 DEF Got
<1> HIDE DEF h, c
<1>6. ToSet(Got(s)) = ToSet(h) \cup ToSet(c) /\ ToSet(h) \cap ToSet(c) = {}
  <2>1. h \in Seq(Messages) /\ c \in Seq(Messages) /\ Increasing(h \o c) /\ Messages \subseteq Nat
    BY <1>2, <1>3
  <2>2. ToSet(h \o c) = ToSet(h) \cup ToSet(c) /\ ToSet(h) \cap ToSet(c) = {}
    BY <2>1, ConcatApart
  <2>3. QED
    BY <2>2, <1>3
<1> DEFINE G == [t \in Subscriber |-> ToSet(Got(t))]
           H == [t \in Subscriber |-> ToSet(Got(t)')]
<1>7. /\ G[s] = ToSet(h) \cup ToSet(c) /\ H[s] = ToSet(h)
      /\ \A t \in Subscriber : t # s => H[t] = G[t]
  BY <1>4, <1>5, <1>6
<1>8. OneHolderOf(Messages, ToSet(Backlog), G, dropped, abandoned)
  BY DEF OneHolder, Holders
<1> HIDE DEF G, H
<1>9. OneHolderOf(Messages, ToSet(Backlog), H, dropped, abandoned \cup ToSet(c))
  BY <1>6, <1>7, <1>8, EndedHolder
<1>10. Holders' = H
  BY DEF Holders, H, ToSet
<1>11. ToSet(Backlog)' = ToSet(Backlog) /\ abandoned' = abandoned \cup ToSet(c)
  BY <1>1, <1>2 DEF ToSet, c
<1>12. OneHolderOf(Messages, ToSet(Backlog), Holders, dropped, abandoned)'
  BY <1>1, <1>2, <1>9, <1>10, <1>11 DEF OneHolderOf
<1>13. QED
  BY <1>12 DEF OneHolder

LEMMA IncreasingDistinct ==
  ASSUME NEW N, N \subseteq Nat, NEW s \in Seq(N), Increasing(s),
         NEW i \in DOMAIN s, NEW j \in DOMAIN s, s[i] = s[j]
  PROVE  i = j
<1>1. s[i] \in N /\ s[j] \in N /\ i \in Nat /\ j \in Nat
  OBVIOUS
<1>2. s[i] \in Nat /\ s[j] \in Nat
  BY <1>1
<1>3. ~(i < j) /\ ~(j < i)
  BY <1>2 DEF Increasing
<1>4. QED
  BY <1>1, <1>3

LEMMA InterruptHolder ==
  ASSUME Inv, OneHolder, NEW p \in Publisher, Interrupt(p)
  PROVE  OneHolder'
<1> DEFINE own == {i \in DOMAIN putters : putters[i].publisher = p}
           T == {putters[i].message : i \in own}
           u == Payload(putters)
<1>1. /\ abandoned' = abandoned \cup T
      /\ UNCHANGED <<queue, chunk, handled, published, dropped>>
  BY DEF Interrupt
<1>2. PICK i \in own, j \in own : own = i..j /\ putters' = Without(putters, i, j)
  BY DEF Interrupt
<1>3. /\ queue \in Seq(Messages) /\ putters \in Seq(Put(Messages)) /\ u \in Seq(Messages)
      /\ Messages' = Messages /\ Messages \subseteq Nat /\ Increasing(queue \o u)
  <2>1. queue \in Seq(Messages) /\ putters \in Seq(Put(Messages)) /\ u \in Seq(Messages)
    BY BacklogType
  <2>2. Messages' = Messages /\ Messages \subseteq Nat /\ Increasing(queue \o u)
    BY <1>1 DEF Inv, TypeOK, Messages, Ordered, Backlog
  <2>3. QED
    BY <2>1, <2>2
<1>4. i \in 1..Len(putters) /\ j \in 1..Len(putters) /\ i <= j
  BY <1>2, <1>3
<1>5. Len(u) = Len(putters) /\ \A l \in 1..Len(putters) : u[l] = putters[l].message
  BY <1>3, PayloadFacts
<1>6. DOMAIN u = 1..Len(putters) /\ DOMAIN putters = 1..Len(putters)
  BY <1>3, <1>5
<1>7. T = {u[l] : l \in i..j} /\ i..j \subseteq DOMAIN u
  <2>1. own \subseteq DOMAIN u /\ \A l \in own : putters[l].message = u[l]
    BY <1>5, <1>6
  <2>2. T = {u[l] : l \in own}
    BY <2>1
  <2>3. QED
    BY <2>1, <2>2, <1>2
<1>8. Payload(putters') = Without(u, i, j)
  BY <1>2, <1>3, <1>4, PayloadWithout
<1> DEFINE w == Without(u, i, j)
<1>9. /\ w \in Seq(Messages)
      /\ \A l \in DOMAIN w : \E m \in DOMAIN u \ (i..j) : w[l] = u[m]
      /\ \A m \in DOMAIN u \ (i..j) : \E l \in DOMAIN w : w[l] = u[m]
  <2>1. i \in 1..Len(u) /\ j \in 1..Len(u)
    BY <1>4, <1>5
  <2>2. w \in Seq(Messages)
    BY <2>1, <1>3, <1>4, WithoutFacts
  <2>3. QED
    BY <2>1, <2>2, <1>3, <1>4, WithoutEntries
<1>10. Backlog = queue \o u /\ Backlog' = queue \o w
  BY <1>1, <1>8 DEF Backlog, Payload
<1> HIDE DEF own, T, u, w
<1>11. ToSet(queue \o u) = ToSet(queue) \cup ToSet(u) /\ ToSet(queue) \cap ToSet(u) = {}
  BY <1>3, ConcatApart
<1>12. ToSet(queue \o w) = ToSet(queue) \cup ToSet(w)
  BY <1>3, <1>9, ConcatSet
<1>13. Increasing(u)
  BY <1>3, ConcatInOrder
<1>14. \A l, m \in DOMAIN u : u[l] = u[m] => l = m
  BY <1>3, <1>13, IncreasingDistinct
<1>15. ToSet(u) = T \cup ToSet(w) /\ T \cap ToSet(w) = {}
  BY <1>7, <1>9, <1>14 DEF ToSet
<1> DEFINE C == ToSet(Backlog')
<1>16. ToSet(Backlog) = T \cup C /\ T \cap C = {}
  BY <1>10, <1>11, <1>12, <1>15
<1>17. OneHolderOf(Messages, T \cup C, Holders, dropped, abandoned)
  BY <1>16 DEF OneHolder
<1> HIDE DEF C
<1>18. OneHolderOf(Messages, C, Holders, dropped, abandoned \cup T)
  BY <1>16, <1>17, WithdrawnHolder
<1>19. Holders' = Holders
  BY <1>1 DEF Holders, Got, ToSet
<1>20. ToSet(Backlog)' = C
  BY DEF C, ToSet
<1>21. OneHolderOf(Messages, ToSet(Backlog), Holders, dropped, abandoned)'
  BY <1>1, <1>3, <1>18, <1>19, <1>20 DEF OneHolderOf
<1>22. QED
  BY <1>21 DEF OneHolder

LEMMA PublishHolder ==
  ASSUME Inv, OneHolder, NEW p \in Publisher \cup {Nobody}, NEW n \in Nat, Publish(p, n)
  PROVE  OneHolder'
<1> DEFINE k == Least(n, Len(takers))
           ms == Numbered(published, n)
           rest == Rest(ms, k)
           all == Backlog \o rest
           N == 1..published'
           F == (published + 1)..published'
           R == ToSet(rest)
           Share == [s \in Subscriber |-> {published + i : i \in {l \in 1..k : takers[l] = s}}]
           H == [s \in Subscriber |-> ToSet(Got(s)')]
<1>1. /\ published' = published + n /\ handled' = handled /\ abandoned' = abandoned
      /\ strategy' = strategy
      /\ \A s \in Subscriber :
           IF s \in ToSet(Prefix(takers, k))
             THEN \E i \in 1..k : takers[i] = s /\ chunk'[s] = <<published + i>>
             ELSE chunk'[s] = chunk[s]
  BY PublishUnfolds
<1>2. /\ published \in Nat /\ Messages = 1..published /\ Len(takers) \in Nat
      /\ takers \in Seq(Subscriber) /\ DOMAIN takers = 1..Len(takers)
  BY DEF Inv, TypeOK, Messages
<1>3. /\ rest \in Seq(N) /\ all \in Seq(N) /\ Joins(all) /\ Increasing(all)
  BY PublishQueue
<1>4. k \in 0..n /\ k \in 0..Len(takers)
  BY <1>2 DEF Least
<1>5. ms \in Seq(N) /\ Len(ms) = n /\ \A i \in 1..n : ms[i] = published + i
  BY <1>1, <1>2, NumberedFacts DEF Numbered
<1> HIDE DEF k, ms
<1>6. Len(rest) = n - k /\ \A i \in 1..Len(rest) : rest[i] = published + (k + i)
  <2>1. Len(rest) = Len(ms) - k /\ \A i \in 1..Len(rest) : k + i \in 1..Len(ms) /\ rest[i] = ms[k + i]
    BY <1>4, <1>5, RestFacts
  <2>2. QED
    BY <2>1, <1>5
<1>7. R = (published + k + 1)..published'
  <2>1. DOMAIN rest = 1..(n - k)
    BY <1>3, <1>6
  <2>2. \A i \in DOMAIN rest : rest[i] \in (published + k + 1)..published'
    BY <2>1, <1>1, <1>2, <1>4, <1>6
  <2>3. ASSUME NEW m \in (published + k + 1)..published' PROVE \E i \in DOMAIN rest : rest[i] = m
    <3>1. m - published - k \in DOMAIN rest /\ published + (k + (m - published - k)) = m
      BY <2>1, <1>1, <1>2, <1>4
    <3>2. QED
      BY <3>1, <2>1, <1>6
  <2>4. QED
    BY <2>2, <2>3 DEF ToSet
<1>8. \A i, j \in 1..k : i \in DOMAIN takers /\ (takers[i] = takers[j] => i = j)
  BY <1>2, <1>4 DEF Inv, Once
<1>9. \A s \in Subscriber : Share[s] \subseteq (published + 1)..(published + k)
  BY <1>2, <1>4
<1>10. \A s, t \in Subscriber : \A m \in Share[s] : m \in Share[t] => s = t
  <2>1. \A i, j \in 1..k : published + i = published + j => i = j
    BY <1>2, <1>4
  <2>2. QED
    BY <2>1
<1>11. ASSUME NEW m \in F PROVE m \in R \/ \E s \in Subscriber : m \in Share[s]
  <2>1. CASE m >= published + k + 1
    BY <2>1, <1>1, <1>2, <1>4, <1>7
  <2>2. CASE m < published + k + 1
    <3>1. m - published \in 1..k /\ published + (m - published) = m
      BY <2>2, <1>1, <1>2, <1>4
    <3>2. takers[m - published] \in Subscriber
      BY <3>1, <1>2, <1>8
    <3>3. m \in Share[takers[m - published]]
      BY <3>1, <3>2
    <3>4. QED
      BY <3>2, <3>3
  <2>3. QED
    BY <2>1, <2>2, <1>1, <1>2, <1>4
<1>12. ASSUME NEW s \in Subscriber PROVE H[s] = Holders[s] \cup Share[s]
  <2>1. H[s] = ToSet(Got(s)') /\ Holders[s] = ToSet(Got(s))
    BY DEF Holders
  <2>2. CASE s \in ToSet(Prefix(takers, k))
    <3>1. PICK i \in 1..k : takers[i] = s /\ chunk'[s] = <<published + i>>
      BY <2>2, <1>1
    <3>2. Share[s] = {published + i}
      BY <3>1, <1>8
    <3>3. chunk[s] = <<>> /\ handled[s] \in Seq(1..published)
      <4>1. s \in ToSet(takers)
        BY <3>1, <1>8 DEF ToSet
      <4>2. subscriber[s] = "waiting"
        BY <4>1 DEF Inv, SubscribersWait
      <4>3. QED
        BY <4>2, <1>2 DEF Inv, TypeOK
    <3>4. handled[s] = Got(s)
      BY <3>3, EmptyFacts DEF Got
    <3>5. Got(s)' = Got(s) \o <<published + i>>
      BY <3>1, <3>4, <1>1 DEF Got
    <3>6. ToSet(<<published + i>>) = {published + i}
      BY DEF ToSet
    <3>7. Got(s) \in Seq(Nat) /\ <<published + i>> \in Seq(Nat)
      <4>1. Seq(1..published) \subseteq Seq(Nat)
        BY <1>2
      <4>2. published + i \in Nat
        BY <1>2, <1>4
      <4>3. QED
        BY <3>3, <3>4, <4>1, <4>2
    <3>8. ToSet(Got(s) \o <<published + i>>) = ToSet(Got(s)) \cup ToSet(<<published + i>>)
      BY <3>7, ConcatSet, ZenonT(60)
    <3>9. QED
      BY <2>1, <3>2, <3>5, <3>6, <3>8
  <2>3. CASE s \notin ToSet(Prefix(takers, k))
    <3>1. Got(s)' = Got(s)
      BY <2>3, <1>1 DEF Got
    <3>2. ASSUME NEW i \in 1..k PROVE takers[i] # s
      <4>1. k \in Nat /\ Len(Prefix(takers, k)) = Least(k, Len(takers)) /\ Prefix(takers, k) \in Seq(Subscriber)
        BY <1>2, <1>4, PrefixFacts
      <4>2. i \in DOMAIN Prefix(takers, k)
        BY <4>1, <1>2, <1>4 DEF Least
      <4>3. Prefix(takers, k)[i] = takers[i]
        BY <4>1, <4>2, <1>2, PrefixFacts
      <4>4. QED
        BY <4>2, <4>3, <2>3 DEF ToSet
    <3>3. Share[s] = {}
      BY <3>2
    <3>4. QED
      BY <2>1, <3>1, <3>3
  <2>4. QED
    BY <2>2, <2>3
<1> HIDE DEF Share, R, H, F, rest
<1>13. /\ ToSet(Backlog) \subseteq Messages /\ dropped \subseteq Messages /\ abandoned \subseteq Messages
       /\ \A s \in Subscriber : Holders[s] \subseteq Messages
  <2>1. \A s \in Subscriber : ToSet(Got(s)) \subseteq Messages
    BY GotType DEF ToSet
  <2>2. ToSet(Backlog) \subseteq Messages
    BY BacklogType DEF ToSet
  <2>3. QED
    BY <2>1, <2>2 DEF Inv, TypeOK, Holders
<1>14. Messages \cap F = {} /\ R \subseteq F /\ N = Messages \cup F
  BY <1>1, <1>2, <1>4, <1>7 DEF F
<1>15. \A s \in Subscriber : Share[s] \subseteq F /\ Share[s] \cap R = {}
  <2>1. (published + 1)..(published + k) \subseteq F
    BY <1>1, <1>2, <1>4 DEF F
  <2>2. ((published + 1)..(published + k)) \cap R = {}
    BY <1>1, <1>2, <1>4, <1>7
  <2>3. QED
    BY <2>1, <2>2, <1>9
<1>16. OneHolderOf(N, ToSet(all), H, dropped, abandoned)
  <2>1. OneHolderOf(Messages, ToSet(Backlog), Holders, dropped, abandoned)
    BY DEF OneHolder
  <2>2. OneHolderOf(Messages \cup F, ToSet(Backlog) \cup R, H, dropped, abandoned)
    <3> DEFINE B == ToSet(Backlog)
    <3>1. OneHolderOf(Messages, B, Holders, dropped, abandoned) /\ B \subseteq Messages
      BY <2>1, <1>13
    <3> HIDE DEF B
    <3>2. OneHolderOf(Messages \cup F, B \cup R, H, dropped, abandoned)
      BY <3>1, <1>10, <1>11, <1>12, <1>13, <1>14, <1>15, SharedHolder
    <3>3. QED
      BY <3>2 DEF B
  <2>3. ToSet(all) = ToSet(Backlog) \cup R
    <3>1. Backlog \in Seq(N)
      BY <1>1, <1>2, BacklogType, WiderSeq
    <3>2. ToSet(Backlog \o rest) = ToSet(Backlog) \cup ToSet(rest)
      BY <3>1, <1>3, ConcatSet
    <3>3. QED
      BY <3>2 DEF R
  <2>4. QED
    BY <2>2, <2>3, <1>14
<1>17. N \subseteq Nat
  BY <1>1, <1>2
<1> HIDE DEF all
<1>18. OneHolderOf(N, ToSet(Backlog'), H, dropped', abandoned)
  <2>1. CASE Backlog' = all /\ dropped' = dropped
    BY <2>1, <1>16
  <2>2. ASSUME NEW c \in 0..Len(all), Backlog' = Rest(all, c), dropped' = dropped \cup ToSet(Prefix(all, c))
        PROVE  OneHolderOf(N, ToSet(Backlog'), H, dropped', abandoned)
    <3> DEFINE T == ToSet(Prefix(all, c))
               C == ToSet(Rest(all, c))
    <3>1. ToSet(all) = T \cup C /\ T \cap C = {}
      BY <1>3, <1>17, CutApart
    <3>2. OneHolderOf(N, T \cup C, H, dropped, abandoned)
      BY <3>1, <1>16
    <3> HIDE DEF T, C
    <3>3. OneHolderOf(N, C, H, dropped \cup T, abandoned)
      BY <3>1, <3>2, DroppedHolder
    <3>4. QED
      BY <3>3, <2>2 DEF T, C
  <2>3. ASSUME NEW c \in 0..Len(all), Backlog' = Prefix(all, c), dropped' = dropped \cup ToSet(Rest(all, c))
        PROVE  OneHolderOf(N, ToSet(Backlog'), H, dropped', abandoned)
    <3> DEFINE C == ToSet(Prefix(all, c))
               T == ToSet(Rest(all, c))
    <3>1. ToSet(all) = C \cup T /\ C \cap T = {}
      BY <1>3, <1>17, CutApart
    <3>2. C \cup T = T \cup C /\ T \cap C = {}
      BY <3>1
    <3>3. OneHolderOf(N, T \cup C, H, dropped, abandoned)
      BY <3>1, <3>2, <1>16
    <3> HIDE DEF T, C
    <3>4. OneHolderOf(N, C, H, dropped \cup T, abandoned)
      BY <3>2, <3>3, DroppedHolder
    <3>5. QED
      BY <3>4, <2>3 DEF T, C
  <2>4. QED
    BY <2>1, <2>2, <2>3, <1>3 DEF Joins
<1>19. Holders' = H /\ ToSet(Backlog)' = ToSet(Backlog') /\ Messages' = N
  BY DEF Holders, H, ToSet, Messages
<1>20. OneHolderOf(Messages, ToSet(Backlog), Holders, dropped, abandoned)'
  BY <1>1, <1>18, <1>19 DEF OneHolderOf
<1>21. QED
  BY <1>20 DEF OneHolder

LEMMA HandleHolder ==
  ASSUME Inv, OneHolder, NEW s \in Subscriber, Handle(s)
  PROVE  OneHolder'
<1>1. /\ handled' = [handled EXCEPT ![s] = Append(@, Head(chunk[s]))]
      /\ chunk' = [chunk EXCEPT ![s] = Tail(@)]
      /\ UNCHANGED <<queue, putters, published, dropped, abandoned>>
      /\ subscriber[s] = "running"
  BY DEF Handle, hubVars, ghostVars
<1>2. /\ chunk \in [Subscriber -> Seq(Messages)] /\ handled \in [Subscriber -> Seq(Messages)]
      /\ chunk[s] # <<>>
  BY <1>1 DEF Inv, TypeOK
<1>3. handled[s] \in Seq(Messages) /\ chunk[s] \in Seq(Messages)
  BY <1>2
<1>4. Append(handled[s], Head(chunk[s])) \o Tail(chunk[s]) = handled[s] \o chunk[s]
  BY <1>2, <1>3, HandledFacts
<1>5. \A t \in Subscriber : Got(t)' = Got(t)
  BY <1>1, <1>2, <1>4 DEF Got
<1>6. Backlog' = Backlog
  BY <1>1 DEF Backlog, Payload
<1>7. QED
  BY <1>1, <1>5, <1>6, SameHolder

LEMMA StreamStepHolder ==
  ASSUME Inv, OneHolder, NEW s \in Subscriber, StreamStep(s)
  PROVE  OneHolder'
<1>1. ChunkSize \in Nat /\ ChunkSize > 0
  BY ChunkAssumption
<1>2. CASE queue # <<>> /\ TakeUpTo(s)
  <2>1. /\ Takes(s, ChunkSize) /\ subscriber[s] = "pulling"
        /\ UNCHANGED <<strategy, takers, handled, ghostVars>>
    BY <1>2 DEF TakeUpTo
  <2>2. QED
    BY <2>1, <1>1, <1>2, TakesHolder
<1>3. CASE queue # <<>> /\ Take(s)
  <2>1. /\ Takes(s, 1) /\ subscriber[s] = "taking"
        /\ UNCHANGED <<strategy, takers, handled, ghostVars>>
    BY <1>3 DEF Take
  <2>2. QED
    BY <2>1, <1>3, TakesHolder
<1>4. CASE queue = <<>> /\ (TakeUpTo(s) \/ Take(s))
  <2>1. UNCHANGED <<queue, putters, chunk, handled, published, dropped, abandoned>>
    BY <1>4 DEF TakeUpTo, Take, ghostVars
  <2>2. Backlog' = Backlog /\ \A t \in Subscriber : Got(t)' = Got(t)
    BY <2>1 DEF Backlog, Payload, Got
  <2>3. QED
    BY <2>1, <2>2, SameHolder
<1>5. CASE Handle(s)
  BY <1>5, HandleHolder
<1>6. QED
  BY <1>2, <1>3, <1>4, <1>5 DEF StreamStep

LEMMA StepHolder == Inv /\ OneHolder /\ [Next]_vars => OneHolder'
<1> SUFFICES ASSUME Inv, OneHolder, [Next]_vars PROVE OneHolder'
  OBVIOUS
<1>1. ASSUME NEW p \in Publisher \cup {Nobody}, NEW n \in 1..MaxBatch, Publish(p, n)
      PROVE  OneHolder'
  <2>1. n \in Nat
    OBVIOUS
  <2>2. QED
    BY <1>1, <2>1, PublishHolder
<1>2. ASSUME NEW p \in Publisher, Interrupt(p) PROVE OneHolder'
  BY <1>2, InterruptHolder
<1>3. ASSUME NEW s \in Subscriber, Stop(s) PROVE OneHolder'
  BY <1>3, StopHolder
<1>4. ASSUME \/ UNCHANGED vars
             \/ \E s \in Subscriber : Subscribe(s)
      PROVE  OneHolder'
  <2>1. UNCHANGED <<queue, putters, chunk, handled, published, dropped, abandoned>>
    BY <1>4 DEF Subscribe, vars, hubVars, ghostVars
  <2>2. Backlog' = Backlog /\ \A t \in Subscriber : Got(t)' = Got(t)
    BY <2>1 DEF Backlog, Payload, Got
  <2>3. QED
    BY <2>1, <2>2, SameHolder
<1>5. QED
  BY <1>1, <1>2, <1>3, <1>4, StreamStepHolder DEF Next

LEMMA InitHolder == Init => OneHolder
<1> SUFFICES ASSUME Init PROVE OneHolder
  OBVIOUS
<1>1. Messages = {} /\ Backlog = <<>> /\ dropped = {} /\ abandoned = {}
  BY DEF Init, Messages, Backlog, Payload
<1>2. \A s \in Subscriber : Got(s) = <<>>
  BY DEF Init, Got
<1>3. ToSet(Backlog) = {} /\ \A s \in Subscriber : Holders[s] = {}
  BY <1>1, <1>2 DEF ToSet, Holders
<1>4. QED
  BY <1>1, <1>3 DEF OneHolder, OneHolderOf

LEMMA HolderGivesPlace ==
  ASSUME Inv, OneHolder, NEW m \in Messages
  PROVE  Cardinality(Places(m)) = 1
<1> DEFINE Hub == {<<"hub", i>> : i \in {j \in DOMAIN Backlog : Backlog[j] = m}}
           Has(s) == {<<s, i>> : i \in {j \in DOMAIN Got(s) : Got(s)[j] = m}}
           U == SubscriberPlaces(m)
           Drop == IF m \in dropped THEN {<<"dropped", 0>>} ELSE {}
           Gone == IF m \in abandoned THEN {<<"abandoned", 0>>} ELSE {}
<1>1. Places(m) = Hub \cup U \cup Drop \cup Gone
  BY DEF Places
<1>2. /\ Messages \subseteq Nat /\ Backlog \in Seq(Messages) /\ Increasing(Backlog)
      /\ \A s \in Subscriber : Got(s) \in Seq(Messages) /\ Increasing(Got(s))
  BY BacklogType, GotType DEF Inv, Ordered, Messages, TypeOK
<1>3. m \notin ToSet(Backlog) => Hub = {}
  BY DEF ToSet
<1>4. \A s \in Subscriber : m \notin ToSet(Got(s)) => Has(s) = {}
  BY DEF ToSet
<1>5. ASSUME m \in ToSet(Backlog) PROVE \E x : Hub = {x}
  <2>1. PICK i \in DOMAIN Backlog : Backlog[i] = m
    BY <1>5 DEF ToSet
  <2>2. \A j \in DOMAIN Backlog : Backlog[j] = m => j = i
    BY <2>1, <1>2, IncreasingDistinct
  <2>3. Hub = {<<"hub", i>>}
    BY <2>1, <2>2
  <2>4. QED
    BY <2>3
<1>6. ASSUME NEW s \in Subscriber, m \in ToSet(Got(s)) PROVE \E x : Has(s) = {x}
  <2>1. PICK i \in DOMAIN Got(s) : Got(s)[i] = m
    BY <1>6 DEF ToSet
  <2>2. \A j \in DOMAIN Got(s) : Got(s)[j] = m => j = i
    BY <2>1, <1>2, IncreasingDistinct
  <2>3. Has(s) = {<<s, i>>}
    BY <2>1, <2>2
  <2>4. QED
    BY <2>3
<1>7. OneHolderOf(Messages, ToSet(Backlog), [s \in Subscriber |-> ToSet(Got(s))], dropped, abandoned)
  BY DEF OneHolder, Holders
<1>8. \A x : x \in U <=> \E s \in Subscriber : x \in Has(s)
  BY DEF SubscriberPlaces
<1> HIDE DEF Hub, Has
<1>9. ASSUME \A s \in Subscriber : m \notin ToSet(Got(s)) PROVE U = {}
  <2>1. \A s \in Subscriber : Has(s) = {}
    BY <1>4, <1>9
  <2>2. \A x : x \notin U
    BY <1>8, <2>1
  <2>3. QED
    BY <2>2
<1>10. ASSUME NEW s \in Subscriber, \A t \in Subscriber : t # s => m \notin ToSet(Got(t))
       PROVE  U = Has(s)
  <2>1. \A t \in Subscriber : t # s => Has(t) = {}
    BY <1>4, <1>10
  <2>2. \A x : x \in U <=> x \in Has(s)
    BY <1>8, <2>1
  <2>3. QED
    BY <2>2
<1> HIDE DEF U
<1>11. \E x : Places(m) = {x}
  <2>1. CASE m \in ToSet(Backlog)
    <3>1. m \notin dropped /\ m \notin abandoned /\ \A s \in Subscriber : m \notin ToSet(Got(s))
      BY <2>1, <1>7 DEF OneHolderOf
    <3>2. U = {} /\ Drop = {} /\ Gone = {}
      BY <3>1, <1>9
    <3> HIDE DEF Drop, Gone
    <3>3. Places(m) = Hub
      BY <3>2, <1>1
    <3>4. QED
      BY <3>3, <2>1, <1>5
  <2>2. CASE m \in dropped
    <3>1. /\ m \notin ToSet(Backlog) /\ m \notin abandoned
          /\ \A s \in Subscriber : m \notin ToSet(Got(s))
      BY <2>2, <1>7 DEF OneHolderOf
    <3>2. Drop = {<<"dropped", 0>>} /\ Gone = {}
      BY <3>1, <2>2
    <3>3. U = {} /\ Hub = {}
      BY <3>1, <1>3, <1>9
    <3> HIDE DEF Drop, Gone
    <3>4. Places(m) = Drop
      BY <3>2, <3>3, <1>1
    <3>5. QED
      BY <3>2, <3>4
  <2>3. CASE m \in abandoned
    <3>1. /\ m \notin ToSet(Backlog) /\ m \notin dropped
          /\ \A s \in Subscriber : m \notin ToSet(Got(s))
      BY <2>3, <1>7 DEF OneHolderOf
    <3>2. Gone = {<<"abandoned", 0>>} /\ Drop = {}
      BY <3>1, <2>3
    <3>3. U = {} /\ Hub = {}
      BY <3>1, <1>3, <1>9
    <3> HIDE DEF Drop, Gone
    <3>4. Places(m) = Gone
      BY <3>2, <3>3, <1>1
    <3>5. QED
      BY <3>2, <3>4
  <2>4. ASSUME NEW s \in Subscriber, m \in ToSet(Got(s)) PROVE \E x : Places(m) = {x}
    <3>1. /\ m \notin ToSet(Backlog) /\ m \notin dropped /\ m \notin abandoned
          /\ \A t \in Subscriber : t # s => m \notin ToSet(Got(t))
      BY <2>4, <1>7 DEF OneHolderOf
    <3>2. U = Has(s)
      BY <3>1, <1>10
    <3>3. Hub = {} /\ Drop = {} /\ Gone = {}
      BY <3>1, <1>3
    <3> HIDE DEF Drop, Gone
    <3>4. Places(m) = Has(s)
      BY <3>2, <3>3, <1>1
    <3>5. QED
      BY <3>4, <2>4, <1>6
  <2>5. QED
    BY <2>1, <2>2, <2>3, <2>4, <1>7 DEF OneHolderOf
<1>12. QED
  BY <1>11, FS_Singleton

\* No message is lost and none delivered twice, whatever the publishers and the
\* subscribers do: every message published is in exactly one place.
THEOREM NothingLostNothingTwice == Spec => []OnePlace
<1>1. Init => Inv /\ OneHolder
  BY InitInv, InitHolder
<1>2. Inv /\ OneHolder /\ [Next]_vars => (Inv /\ OneHolder)'
  BY StepInv, StepHolder
<1>3. Inv /\ OneHolder => OnePlace
  BY HolderGivesPlace DEF OnePlace
<1>4. QED
  BY <1>1, <1>2, <1>3, PTL DEF Spec

=============================================================================
