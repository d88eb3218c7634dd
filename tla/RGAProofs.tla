----------------------------- MODULE RGAProofs -----------------------------
(* Theorems about RGA: a copy stays a Map, and an element goes where it is asked to go. *)
EXTENDS TLAPS, RGA, SequenceTheorems, FiniteSetTheorems

-----------------------------------------------------------------------------
(* Numbers: a set of them has a least one, a bounded one has a greatest.    *)

LEMMA Least ==
  ASSUME NEW T, T \subseteq Nat, T # {}
  PROVE  \E m \in T : \A n \in T : m <= n
<1> DEFINE Up == {0..n : n \in T}
<1>1. Up \subseteq FiniteSubsetsOf(Nat) /\ Up # {}
  <2>1. \A n \in T : (0..n) \subseteq Nat /\ IsFiniteSet(0..n)
    BY FS_Interval
  <2>2. QED
    BY <2>1 DEF FiniteSubsetsOf
<1>2. PICK U \in Up : \A V \in Up : ~ (<<V, U>> \in StrictSubsetOrdering(Nat))
  <2> HIDE DEF Up
  <2> QED BY <1>1, FS_StrictSubsetOrderingWellFounded, WFMin
<1>3. PICK m \in T : U = 0..m
  OBVIOUS
<1>4. ASSUME NEW n \in T, n < m PROVE FALSE
  <2>1. (0..n) \subseteq (0..m) /\ m \in 0..m /\ m \notin 0..n
    BY <1>4
  <2>2. <<0..n, 0..m>> \in StrictSubsetOrdering(Nat)
    BY <2>1 DEF StrictSubsetOrdering
  <2>3. QED
    BY <1>2, <1>3, <2>2
<1>5. QED
  BY <1>4

LEMMA Greatest ==
  ASSUME NEW T, T \subseteq Nat, T # {}, NEW b \in Nat, \A n \in T : n <= b
  PROVE  \E m \in T : \A n \in T : n <= m
<1> DEFINE D == {b - n : n \in T}
<1>1. D \subseteq Nat /\ D # {}
  <2>1. \A n \in T : b - n \in Nat
    OBVIOUS
  <2>2. QED
    BY <2>1
<1>2. PICK d \in D : \A n \in D : d <= n
  <2> HIDE DEF D
  <2> QED BY <1>1, Least
<1>3. PICK m \in T : d = b - m
  OBVIOUS
<1>4. \A n \in T : b - m <= b - n
  BY <1>2, <1>3
<1>5. QED
  BY <1>4

-----------------------------------------------------------------------------
(* The order of positions is a strict total order.                          *)

LEMMA RankType == \A n \in Nat : Rank(n) \in Nat
BY DEF Rank

LEMMA RankInjective == \A m, n \in Nat : Rank(m) = Rank(n) => m = n
<1> SUFFICES ASSUME NEW m \in Nat, NEW n \in Nat, Rank(m) = Rank(n) PROVE m = n
  OBVIOUS
<1>1. /\ m \div 10 \in Nat /\ m % 10 \in 0..9 /\ m = 10 * (m \div 10) + (m % 10)
      /\ n \div 10 \in Nat /\ n % 10 \in 0..9 /\ n = 10 * (n \div 10) + (n % 10)
  OBVIOUS
<1>2. QED
  BY <1>1 DEF Rank

\* The same up to the first place i, where p ends or has the lower number.
Splits(p, q, i) ==
  /\ i \in 1..Len(q)
  /\ i <= Len(p) + 1
  /\ \A j \in 1..(i - 1) : p[j] = q[j]
  /\ i <= Len(p) => Rank(p[i]) < Rank(q[i])

LEMMA BeforeSplits ==
  \A p, q \in Seq(Nat) : Before(p, q) <=> \E i \in Nat : Splits(p, q, i)
<1> SUFFICES ASSUME NEW p \in Seq(Nat), NEW q \in Seq(Nat)
             PROVE  Before(p, q) <=> \E i \in Nat : Splits(p, q, i)
  OBVIOUS
<1>1. Len(q) \in Nat /\ DOMAIN q = 1..Len(q)
  BY LenProperties
<1>2. \A i : i \in 1..Len(q) => i \in Nat
  BY <1>1
<1>3. QED
  BY <1>1, <1>2 DEF Before, Splits

LEMMA BeforeIrreflexive == \A p \in Seq(Nat) : ~ Before(p, p)
<1> SUFFICES ASSUME NEW p \in Seq(Nat), NEW i \in Nat, Splits(p, p, i) PROVE FALSE
  BY BeforeSplits
<1>1. Len(p) \in Nat /\ i \in 1..Len(p) /\ Rank(p[i]) < Rank(p[i])
  BY LenProperties DEF Splits
<1>2. p[i] \in Nat
  BY <1>1, ElementOfSeq
<1>3. Rank(p[i]) \in Nat
  BY <1>2, RankType
<1>4. QED
  BY <1>1, <1>3

LEMMA BeforeTransitive ==
  ASSUME NEW p \in Seq(Nat), NEW q \in Seq(Nat), NEW s \in Seq(Nat),
         Before(p, q), Before(q, s)
  PROVE  Before(p, s)
<1>1. PICK i \in Nat : Splits(p, q, i)
  BY BeforeSplits
<1>2. PICK j \in Nat : Splits(q, s, j)
  BY BeforeSplits
<1>3. Len(p) \in Nat /\ Len(q) \in Nat /\ Len(s) \in Nat
  BY LenProperties
<1>4. /\ \A k \in 1..Len(p) : Rank(p[k]) \in Nat
      /\ \A k \in 1..Len(q) : Rank(q[k]) \in Nat
      /\ \A k \in 1..Len(s) : Rank(s[k]) \in Nat
  BY ElementOfSeq, RankType
<1>5. CASE i <= j
  <2>1. /\ i \in 1..Len(s) /\ i <= Len(p) + 1
    BY <1>1, <1>2, <1>3, <1>5 DEF Splits
  <2>2. \A k \in 1..(i - 1) : p[k] = s[k]
    BY <1>1, <1>2, <1>3, <1>5 DEF Splits
  <2>3. i <= Len(p) => Rank(p[i]) < Rank(s[i])
    <3> SUFFICES ASSUME i <= Len(p) PROVE Rank(p[i]) < Rank(s[i])
      OBVIOUS
    <3>1. i \in 1..Len(q) /\ Rank(p[i]) < Rank(q[i])
      BY <1>1 DEF Splits
    <3>2. i < j => q[i] = s[i]
      BY <1>2, <3>1, <1>3 DEF Splits
    <3>3. i = j => Rank(q[i]) < Rank(s[i])
      BY <1>2, <3>1, <1>3 DEF Splits
    <3>4. Rank(p[i]) \in Nat /\ Rank(q[i]) \in Nat /\ Rank(s[i]) \in Nat
      BY <1>3, <1>4, <2>1, <3>1
    <3>5. i < j => Rank(q[i]) = Rank(s[i])
      BY <3>2
    <3>6. QED
      BY <1>3, <1>5, <3>1, <3>3, <3>4, <3>5
  <2>4. Splits(p, s, i)
    BY <2>1, <2>2, <2>3 DEF Splits
  <2>5. QED
    BY <2>4, BeforeSplits
<1>6. CASE j < i
  <2>1. /\ j \in 1..Len(s) /\ j <= Len(p)
    BY <1>1, <1>2, <1>3, <1>6 DEF Splits
  <2>2. \A k \in 1..(j - 1) : p[k] = s[k]
    BY <1>1, <1>2, <1>3, <1>6 DEF Splits
  <2>3. p[j] = q[j]
    BY <1>1, <1>6, <2>1 DEF Splits
  <2>4. j <= Len(q) /\ Rank(q[j]) < Rank(s[j])
    BY <1>1, <1>2, <1>3, <1>6, SMTT(30) DEF Splits
  <2>5. Splits(p, s, j)
    BY <1>3, <2>1, <2>2, <2>3, <2>4 DEF Splits
  <2>6. QED
    BY <2>5, BeforeSplits
<1>7. QED
  BY <1>5, <1>6

LEMMA BeforeTotal ==
  ASSUME NEW p \in Seq(Nat), NEW q \in Seq(Nat), p # q
  PROVE  Before(p, q) \/ Before(q, p)
<1>1. Len(p) \in Nat /\ Len(q) \in Nat
  BY LenProperties
<1> DEFINE T == {i \in Nat \ {0} : i <= Len(p) /\ i <= Len(q) => p[i] # q[i]}
<1>2. T \subseteq Nat /\ Len(p) + 1 \in T
  BY <1>1
<1>3. PICK i \in T : \A j \in T : i <= j
  <2> HIDE DEF T
  <2> QED BY <1>2, Least
<1>4. i \in Nat /\ i >= 1 /\ i <= Len(p) + 1 /\ i <= Len(q) + 1
  BY <1>1, <1>3
<1>5. \A j \in 1..(i - 1) : p[j] = q[j]
  <2> SUFFICES ASSUME NEW j \in 1..(i - 1) PROVE p[j] = q[j]
    OBVIOUS
  <2>1. j \notin T /\ j \in Nat \ {0}
    BY <1>3, <1>4
  <2>2. QED
    BY <2>1
<1>6. CASE i <= Len(p) /\ i <= Len(q)
  <2>1. p[i] # q[i] /\ p[i] \in Nat /\ q[i] \in Nat
    BY <1>4, <1>6, ElementOfSeq
  <2>2. Rank(p[i]) \in Nat /\ Rank(q[i]) \in Nat /\ Rank(p[i]) # Rank(q[i])
    BY <2>1, RankType, RankInjective
  <2>3. Splits(p, q, i) \/ Splits(q, p, i)
    BY <1>1, <1>4, <1>5, <1>6, <2>2 DEF Splits
  <2>4. QED
    BY <1>4, <2>3, BeforeSplits
<1>7. CASE i > Len(p) /\ i <= Len(q)
  <2>1. Splits(p, q, i)
    BY <1>1, <1>4, <1>5, <1>7 DEF Splits
  <2>2. QED
    BY <1>4, <2>1, BeforeSplits
<1>8. CASE i <= Len(p) /\ i > Len(q)
  <2>1. Splits(q, p, i)
    BY <1>1, <1>4, <1>5, <1>8 DEF Splits
  <2>2. QED
    BY <1>4, <2>1, BeforeSplits
<1>9. CASE i > Len(p) /\ i > Len(q)
  <2>1. Len(p) = Len(q) /\ \A j \in 1..Len(p) : p[j] = q[j]
    BY <1>1, <1>4, <1>5, <1>9
  <2>2. p = q
    BY <2>1, SeqEqual
  <2>3. QED
    BY <2>2
<1>10. QED
  BY <1>1, <1>4, <1>6, <1>7, <1>8, <1>9
-----------------------------------------------------------------------------
(* The positions made from the neighbours.                                  *)

LEMMA FunctionSeq ==
  ASSUME NEW A, NEW n \in Nat, NEW f \in [1..n -> A]
  PROVE  f \in Seq(A) /\ Len(f) = n /\ DOMAIN f = 1..n
<1>1. f \in Seq(A)
  BY SeqDef
<1>2. Len(f) \in Nat /\ 1..Len(f) = 1..n
  BY <1>1, LenProperties
<1>3. QED
  BY <1>1, <1>2

LEMMA PositionType ==
  \A p \in Position : /\ p \in Seq(Nat) /\ Len(p) \in Nat /\ Len(p) >= 1
                      /\ DOMAIN p = 1..Len(p) /\ \A i \in 1..Len(p) : p[i] \in Nat
BY EmptySeq, LenProperties, ElementOfSeq DEF Position

LEMMA IsPosition == \A p \in Seq(Nat) : Len(p) >= 1 => p \in Position
BY EmptySeq DEF Position

\* A number put after the last one.
LEMMA Longer ==
  ASSUME NEW p \in Seq(Nat), NEW d \in Nat
  PROVE  /\ p \o <<d>> \in Position /\ Len(p \o <<d>>) = Len(p) + 1
         /\ \A i \in 1..Len(p) : (p \o <<d>>)[i] = p[i]
         /\ (p \o <<d>>)[Len(p) + 1] = d
<1>1. <<d>> \in Seq(Nat) /\ Len(<<d>>) = 1 /\ <<d>>[1] = d
  OBVIOUS
<1>2. Len(p) \in Nat
  BY LenProperties
<1>3. /\ p \o <<d>> \in Seq(Nat)
      /\ Len(p \o <<d>>) = Len(p) + 1
      /\ \A i \in 1..(Len(p) + 1) :
           (p \o <<d>>)[i] = IF i <= Len(p) THEN p[i] ELSE <<d>>[i - Len(p)]
  BY <1>1, ConcatProperties
<1>4. p \o <<d>> \in Position
  <2>1. PICK s : s = p \o <<d>>
    OBVIOUS
  <2>2. s \in Seq(Nat) /\ Len(s) >= 1
    BY <1>2, <1>3, <2>1
  <2>3. QED
    BY <2>1, <2>2, IsPosition
<1>5. QED
  BY <1>1, <1>2, <1>3, <1>4

LEMMA LongerAfter ==
  ASSUME NEW p \in Seq(Nat), NEW d \in Nat
  PROVE  Before(p, p \o <<d>>)
<1>1. Len(p) \in Nat /\ p \o <<d>> \in Seq(Nat)
  BY LenProperties, Longer DEF Position
<1>2. PICK s, i : s = p \o <<d>> /\ i = Len(p) + 1
  OBVIOUS
<1>3. s \in Seq(Nat) /\ i \in Nat /\ Splits(p, s, i)
  BY <1>1, <1>2, Longer DEF Splits
<1>4. Before(p, s)
  BY <1>3, BeforeSplits
<1>5. QED
  BY <1>2, <1>4

LEMMA PositionBeforeFacts ==
  ASSUME NEW p \in Position
  PROVE  /\ PositionBefore(p) \in Position
         /\ (\A i \in DOMAIN p : p[i] < 9) /\ (\E i \in DOMAIN p : p[i] > 0)
              => Before(PositionBefore(p), p)
<1> DEFINE Positive == {i \in DOMAIN p : p[i] > 0}
           last == CHOOSE i \in Positive : \A j \in Positive : j <= i
           b == [i \in DOMAIN p |-> IF i < last THEN p[i] ELSE IF i = last THEN p[i] - 1 ELSE 0]
<1>1. /\ p \in Seq(Nat) /\ Len(p) \in Nat /\ Len(p) >= 1 /\ DOMAIN p = 1..Len(p)
      /\ \A i \in 1..Len(p) : p[i] \in Nat
  BY PositionType
<1>2. CASE Positive = {}
  <2>1. PositionBefore(p) = <<0, 0>>
    BY <1>2 DEF PositionBefore
  <2>2. QED
    BY <1>2, <2>1 DEF Position
<1>3. CASE Positive # {}
  <2>1. PositionBefore(p) = b
    BY <1>3 DEF PositionBefore
  <2>2. Positive \subseteq Nat /\ \A i \in Positive : i <= Len(p)
    BY <1>1
  <2>3. \E m \in Positive : \A j \in Positive : j <= m
    <3> HIDE DEF Positive
    <3> QED BY <1>1, <1>3, <2>2, Greatest
  <2>4. last \in Positive
    BY <2>3
  <2> HIDE DEF last
  <2>5. last \in 1..Len(p) /\ p[last] > 0
    BY <1>1, <2>4
  <2>6. b \in [1..Len(p) -> Nat]
    <3>1. \A i \in 1..Len(p) : (IF i < last THEN p[i] ELSE IF i = last THEN p[i] - 1 ELSE 0) \in Nat
      BY <1>1, <2>5
    <3>2. QED
      BY <1>1, <3>1
  <2>7. b \in Seq(Nat) /\ Len(b) = Len(p)
    <3> HIDE DEF b
    <3> QED BY <1>1, <2>6, FunctionSeq
  <2>8. b \in Position
    BY <1>1, <2>7, IsPosition
  <2>9. ASSUME \A i \in DOMAIN p : p[i] < 9 PROVE Before(b, p)
    <3>1. b[last] = p[last] - 1 /\ \A i \in 1..(last - 1) : b[i] = p[i]
      BY <1>1, <2>5
    <3>2. p[last] \in 1..8
      <4>1. p[last] \in Nat
        BY <1>1, <2>5
      <4>2. p[last] < 9
        BY <1>1, <2>5, <2>9
      <4>3. QED
        BY <2>5, <4>1, <4>2
    <3>3. Rank(b[last]) < Rank(p[last])
      BY <3>1, <3>2 DEF Rank
    <3>4. last \in Nat /\ Splits(b, p, last)
      BY <1>1, <2>5, <2>7, <3>1, <3>3 DEF Splits
    <3> HIDE DEF b
    <3>5. QED
      BY <1>1, <2>7, <3>4, BeforeSplits
  <2>10. QED
    BY <2>1, <2>8, <2>9
<1>4. QED
  BY <1>2, <1>3

LEMMA PositionAfterFacts ==
  ASSUME NEW p \in Position
  PROVE  /\ PositionAfter(p) \in Position
         /\ (\A i \in DOMAIN p : p[i] < 9) => Before(p, PositionAfter(p))
<1>1. /\ p \in Seq(Nat) /\ Len(p) \in Nat /\ Len(p) >= 1 /\ DOMAIN p = 1..Len(p)
      /\ \A i \in 1..Len(p) : p[i] \in Nat
  BY PositionType
<1>2. PICK d \in Nat : d = p[Len(p)]
  BY <1>1
<1>3. PositionAfter(p) = [p EXCEPT ![Len(p)] = d + 1]
  BY <1>1, <1>2 DEF PositionAfter
<1>4. /\ PositionAfter(p) \in Seq(Nat)
      /\ Len(PositionAfter(p)) = Len(p)
      /\ \A j \in 1..Len(p) : PositionAfter(p)[j] = IF j = Len(p) THEN d + 1 ELSE p[j]
  BY <1>1, <1>3, ExceptSeq
<1>5. PositionAfter(p) \in Position
  BY <1>1, <1>4, IsPosition
<1>6. ASSUME \A i \in DOMAIN p : p[i] < 9 PROVE Before(p, PositionAfter(p))
  <2>1. PICK i, s : i = Len(p) /\ s = PositionAfter(p)
    OBVIOUS
  <2>2. /\ i \in Nat /\ i >= 1 /\ i \in 1..Len(p) /\ s \in Seq(Nat) /\ Len(s) = i
        /\ \A j \in 1..(i - 1) : p[j] = s[j]
    <3>1. i \in Nat /\ i >= 1 /\ i \in 1..Len(p)
      BY <1>1, <2>1
    <3>2. s \in Seq(Nat) /\ Len(s) = i /\ \A j \in 1..i : s[j] = IF j = i THEN d + 1 ELSE p[j]
      BY <1>4, <2>1
    <3>3. QED
      BY <3>1, <3>2
  <2>3. p[i] = d /\ d < 9 /\ s[i] = d + 1
    BY <1>1, <1>2, <1>4, <1>6, <2>1, <2>2
  <2>4. Rank(d) < Rank(d + 1)
    BY <2>3 DEF Rank
  <2>5. Splits(p, s, i)
    BY <2>1, <2>3, <2>4, <2>2 DEF Splits
  <2>6. Before(p, s)
    BY <1>1, <2>5, <2>2, BeforeSplits
  <2>7. QED
    BY <2>1, <2>6
<1>7. QED
  BY <1>5, <1>6

\* What CommonLength counts.
LEMMA CommonLengthFacts ==
  ASSUME NEW p \in Seq(Nat), NEW q \in Seq(Nat)
  PROVE  /\ CommonLength(p, q) \in Nat
         /\ CommonLength(p, q) <= Len(p) /\ CommonLength(p, q) <= Len(q)
         /\ \A j \in 1..CommonLength(p, q) : p[j] = q[j]
         /\ CommonLength(p, q) < Len(p) /\ CommonLength(p, q) < Len(q)
              => p[CommonLength(p, q) + 1] # q[CommonLength(p, q) + 1]
<1> DEFINE C == S!CommonPrefixes({p, q})
           T == {l \in Nat : /\ l <= Len(p) /\ l <= Len(q)
                             /\ \A j \in 1..l : p[j] = q[j]}
           longest == CHOOSE x \in C : \A y \in C : Len(y) <= Len(x)
<1>1. Len(p) \in Nat /\ Len(q) \in Nat
  BY LenProperties
<1>2. /\ \A l \in 0..Len(p) : /\ SubSeq(p, 1, l) \in Seq(Nat) /\ Len(SubSeq(p, 1, l)) = l
                              /\ \A j \in 1..l : SubSeq(p, 1, l)[j] = p[j]
      /\ \A l \in 0..Len(q) : /\ SubSeq(q, 1, l) \in Seq(Nat) /\ Len(SubSeq(q, 1, l)) = l
                              /\ \A j \in 1..l : SubSeq(q, 1, l)[j] = q[j]
  <2>1. ASSUME NEW s \in Seq(Nat), NEW l \in 0..Len(s)
        PROVE  /\ SubSeq(s, 1, l) \in Seq(Nat) /\ Len(SubSeq(s, 1, l)) = l
               /\ \A j \in 1..l : SubSeq(s, 1, l)[j] = s[j]
    <3>1. Len(s) \in Nat /\ \A i \in 1..l : s[i] \in Nat
      BY LenProperties, ElementOfSeq
    <3>2. QED
      BY <3>1, SubSeqProperties
  <2>2. QED
    BY <2>1
<1>3. ASSUME NEW x \in C PROVE Len(x) \in T
  <2>1. PICK l \in Nat : \/ l <= Len(p) /\ x = SubSeq(p, 1, l)
                         \/ l <= Len(q) /\ x = SubSeq(q, 1, l)
    BY <1>1 DEF S!CommonPrefixes, S!Prefixes
  <2>2. Len(x) = l /\ x \in Seq(Nat)
    <3>1. l <= Len(p) => l \in 0..Len(p)
      BY <1>1
    <3>2. l <= Len(q) => l \in 0..Len(q)
      BY <1>1
    <3>3. QED
      BY <1>2, <2>1, <3>1, <3>2
  <2>3. /\ Len(x) <= Len(p) /\ SubSeq(x, 1, Len(x)) = SubSeq(p, 1, Len(x))
        /\ Len(x) <= Len(q) /\ SubSeq(x, 1, Len(x)) = SubSeq(q, 1, Len(x))
    BY DEF S!CommonPrefixes, S!IsPrefix
  <2>4. \A j \in 1..l : p[j] = q[j]
    BY <1>1, <1>2, <2>2, <2>3
  <2>5. QED
    BY <2>2, <2>3, <2>4
<1>4. ASSUME NEW l \in T PROVE \E x \in C : Len(x) = l
  <2>1. l \in 0..Len(p) /\ l \in 0..Len(q) /\ \A j \in 1..l : p[j] = q[j]
    <3>1. l \in Nat /\ l <= Len(p) /\ l <= Len(q) /\ \A j \in 1..l : p[j] = q[j]
      OBVIOUS
    <3>2. QED
      BY <1>1, <3>1
  <2>2. PICK x : x = SubSeq(p, 1, l)
    OBVIOUS
  <2>3. x \in Seq(Nat) /\ Len(x) = l /\ \A j \in 1..l : x[j] = p[j]
    BY <1>2, <2>1, <2>2
  <2>4. SubSeq(x, 1, l) = x
    BY <2>3, SubSeqFull
  <2>5. SubSeq(q, 1, l) = x
    <3>1. /\ SubSeq(q, 1, l) \in Seq(Nat) /\ Len(SubSeq(q, 1, l)) = l
          /\ \A j \in 1..l : SubSeq(q, 1, l)[j] = q[j]
      BY <1>2, <2>1
    <3>2. QED
      BY <2>1, <2>3, <3>1, SeqEqual
  <2>6. x \in C
    <3>1. x \in S!Prefixes(p)
      BY <2>1, <2>2 DEF S!Prefixes
    <3>2. S!IsPrefix(x, p) /\ S!IsPrefix(x, q)
      BY <1>1, <2>1, <2>2, <2>3, <2>4, <2>5 DEF S!IsPrefix
    <3>3. QED
      BY <3>1, <3>2 DEF S!CommonPrefixes
  <2>7. QED
    BY <2>3, <2>6
<1>5. T \subseteq Nat /\ 0 \in T /\ \A l \in T : l <= Len(p)
  BY <1>1
<1>6. PICK m \in T : \A l \in T : l <= m
  <2> HIDE DEF T
  <2> QED BY <1>1, <1>5, Greatest
<1>7. CommonLength(p, q) = Len(longest)
  BY DEF CommonLength, S!LongestCommonPrefix
<1>8. longest \in C /\ \A y \in C : Len(y) <= Len(longest)
  <2> HIDE DEF C, T
  <2>1. \E x \in C : \A y \in C : Len(y) <= Len(x)
    BY <1>3, <1>4, <1>6
  <2>2. QED
    BY <2>1
<1>9. CommonLength(p, q) \in T /\ m <= CommonLength(p, q)
  <2> HIDE DEF longest, C, T
  <2> QED BY <1>3, <1>4, <1>7, <1>8
<1>10. CommonLength(p, q) + 1 \notin T
  <2> HIDE DEF T
  <2>1. m \in Nat /\ CommonLength(p, q) \in Nat
    BY <1>5, <1>9
  <2>2. QED
    BY <1>6, <1>9, <2>1
<1>11. PICK n \in Nat : n = CommonLength(p, q)
  BY <1>5, <1>9
<1>12. n <= Len(p) /\ n <= Len(q) /\ \A j \in 1..n : p[j] = q[j]
  BY <1>9, <1>11
<1>13. n < Len(p) /\ n < Len(q) => p[n + 1] # q[n + 1]
  <2> SUFFICES ASSUME n < Len(p), n < Len(q), p[n + 1] = q[n + 1] PROVE FALSE
    OBVIOUS
  <2>1. \A j \in 1..(n + 1) : p[j] = q[j]
    BY <1>12, SMTT(30)
  <2>2. n + 1 <= Len(p) /\ n + 1 <= Len(q) /\ n + 1 \in Nat
    BY <1>1
  <2>3. n + 1 \in T
    BY <2>1, <2>2
  <2>4. QED
    BY <1>10, <1>11, <2>3
<1>14. QED
  BY <1>11, <1>12, <1>13
LEMMA PositionBetweenType ==
  ASSUME NEW p \in Position, NEW q \in Position
  PROVE  PositionBetween(p, q) \in Position
<1>1. p \in Seq(Nat) /\ q \in Seq(Nat) /\ Len(p) \in Nat /\ Len(q) \in Nat
  BY PositionType
<1>2. PICK n \in Nat : n = CommonLength(p, q)
  BY <1>1, CommonLengthFacts
<1>3. n <= Len(p) /\ n <= Len(q)
  BY <1>1, <1>2, CommonLengthFacts
<1>4. p \o <<0>> \in Position /\ p \o <<5>> \in Position
  BY <1>1, Longer
<1>5. p \o <<0, 1>> \in Position
  <2>1. <<0, 1>> \in Seq(Nat) /\ Len(<<0, 1>>) = 2
    OBVIOUS
  <2>2. PICK s : s = p \o <<0, 1>>
    OBVIOUS
  <2>3. s \in Seq(Nat) /\ Len(s) = Len(p) + 2
    BY <1>1, <2>1, <2>2, ConcatProperties
  <2>4. Len(s) >= 1
    BY <1>1, <2>3
  <2>5. s \in Position
    BY <2>3, <2>4, IsPosition
  <2>6. QED
    BY <2>2, <2>5
<1>6. ASSUME n # Len(p), n # Len(q)
      PROVE  SubSeq(p, 1, n) \o <<(p[n + 1] + q[n + 1]) \div 2>> \in Position
  <2>1. p[n + 1] \in Nat /\ q[n + 1] \in Nat
    <3>1. n + 1 \in 1..Len(p) /\ n + 1 \in 1..Len(q)
      BY <1>1, <1>3, <1>6
    <3>2. QED
      BY <1>1, <3>1, ElementOfSeq
  <2>2. PICK d : d = (p[n + 1] + q[n + 1]) \div 2
    OBVIOUS
  <2>3. d \in Nat
    BY <2>1, <2>2
  <2>4. SubSeq(p, 1, n) \in Seq(Nat)
    <3>1. \A i \in 1..n : p[i] \in Nat
      BY <1>1, <1>3, ElementOfSeq
    <3>2. QED
      BY <3>1, SubSeqProperties
  <2>5. QED
    BY <2>2, <2>3, <2>4, Longer
<1>7. QED
  BY <1>2, <1>4, <1>5, <1>6 DEF PositionBetween

\* Where two neighbours in order leave room, what is put between them lies there.
LEMMA PositionBetweenFacts ==
  ASSUME NEW p \in Position, NEW q \in Position, Before(p, q),
         ~ S!IsPrefix(Append(p, 0), q),
         \A i \in 1..Len(p) : p[i] < 9, \A i \in 1..Len(q) : q[i] < 9
  PROVE  Before(p, PositionBetween(p, q)) /\ Before(PositionBetween(p, q), q)
<1>1. /\ p \in Seq(Nat) /\ q \in Seq(Nat) /\ Len(p) \in Nat /\ Len(q) \in Nat
      /\ \A i \in 1..Len(p) : p[i] \in Nat
      /\ \A i \in 1..Len(q) : q[i] \in Nat
  BY PositionType
<1>2. PICK n \in Nat : n = CommonLength(p, q)
  BY <1>1, CommonLengthFacts
<1>3. /\ n <= Len(p) /\ n <= Len(q) /\ \A j \in 1..n : p[j] = q[j]
      /\ n < Len(p) /\ n < Len(q) => p[n + 1] # q[n + 1]
  BY <1>1, <1>2, CommonLengthFacts
<1>4. PICK i \in Nat : Splits(p, q, i)
  BY <1>1, BeforeSplits
\* They part where p ends or has the lower number.
<1>5. i = n + 1
  <2>1. n < i
    <3> SUFFICES ASSUME i <= n PROVE FALSE
      BY <1>1, <1>4
    <3>1. i \in 1..n /\ i \in 1..Len(p) /\ Rank(p[i]) < Rank(q[i])
      BY <1>1, <1>3, <1>4 DEF Splits
    <3>2. p[i] = q[i] /\ Rank(q[i]) \in Nat
      BY <1>1, <1>3, <3>1, RankType
    <3>3. QED
      BY <3>1, <3>2
  <2>2. ~ (n + 1 < i)
    <3> SUFFICES ASSUME n + 1 < i PROVE FALSE
      OBVIOUS
    <3>1. n + 1 <= Len(p) /\ n + 1 <= Len(q) /\ n + 1 \in 1..(i - 1)
      BY <1>1, <1>4 DEF Splits
    <3>2. p[n + 1] = q[n + 1]
      BY <1>4, <3>1 DEF Splits
    <3>3. QED
      BY <1>1, <1>3, <3>1, <3>2
  <2>3. QED
    BY <2>1, <2>2
<1>6. n < Len(q) /\ n + 1 \in 1..Len(q)
  BY <1>1, <1>4, <1>5 DEF Splits
<1>7. PICK v \in Nat : v = q[n + 1]
  BY <1>1, <1>6
<1>8. v < 9
  BY <1>6, <1>7
<1>9. CASE n = Len(p)
  <2>1. v > 0
    <3> SUFFICES ASSUME v = 0 PROVE FALSE
      OBVIOUS
    <3>1. PICK s : s = Append(p, 0)
      OBVIOUS
    <3>2. /\ s \in Seq(Nat) /\ Len(s) = n + 1 /\ s[n + 1] = 0
          /\ \A j \in 1..n : s[j] = p[j]
      BY <1>1, <1>9, <3>1, AppendProperties
    <3>3. Len(s) <= Len(q) /\ \A j \in 1..(n + 1) : s[j] = q[j]
      BY <1>1, <1>3, <1>6, <1>7, <3>2, SMTT(30)
    <3>4. SubSeq(s, 1, Len(s)) = s
      BY <3>2, SubSeqFull
    <3>5. \A j \in 1..(n + 1) : q[j] \in Nat
      BY <1>1, <1>6
    <3>6. /\ SubSeq(q, 1, n + 1) \in Seq(Nat) /\ Len(SubSeq(q, 1, n + 1)) = n + 1
          /\ \A j \in 1..(n + 1) : SubSeq(q, 1, n + 1)[j] = q[j]
      BY <3>5, SubSeqProperties
    <3>7. SubSeq(q, 1, n + 1) = s
      BY <3>2, <3>3, <3>6, SeqEqual
    <3>8. S!IsPrefix(s, q)
      BY <3>2, <3>3, <3>4, <3>7 DEF S!IsPrefix
    <3>9. QED
      BY <3>1, <3>8
  <2>2. PositionBetween(p, q) = p \o <<0>>
    BY <1>2, <1>6, <1>7, <1>9, <2>1 DEF PositionBetween
  <2>3. PICK s \in Position : s = p \o <<0>>
    BY <1>1, Longer
  <2>4. /\ s \in Seq(Nat) /\ Len(s) = n + 1 /\ s[n + 1] = 0 /\ \A j \in 1..n : s[j] = p[j]
    BY <1>1, <1>9, <2>3, Longer DEF Position
  <2>5. Rank(0) < Rank(v)
    BY <1>8, <2>1 DEF Rank
  <2>6. Splits(s, q, i)
    BY <1>1, <1>3, <1>5, <1>6, <1>7, <2>4, <2>5 DEF Splits
  <2>7. Before(s, q)
    BY <1>1, <2>4, <2>6, BeforeSplits
  <2>8. QED
    BY <1>1, <2>2, <2>3, <2>7, LongerAfter
<1>10. CASE n # Len(p)
  <2>1. n < Len(p) /\ n + 1 \in 1..Len(p)
    BY <1>1, <1>3, <1>10
  <2>2. PICK u \in Nat : u = p[n + 1]
    BY <1>1, <2>1
  <2>3. u < v
    <3>1. Rank(u) < Rank(v) /\ u # v
      BY <1>1, <1>3, <1>4, <1>5, <1>6, <1>7, <2>1, <2>2 DEF Splits
    <3>2. u < 9
      BY <2>1, <2>2
    <3>3. QED
      BY <1>8, <3>1, <3>2 DEF Rank
  <2>4. CASE v > u + 1
    <3>1. PICK d : d = (u + v) \div 2
      OBVIOUS
    <3>2. d \in Nat /\ u < d /\ d < v
      BY <2>4, <3>1
    <3>3. PositionBetween(p, q) = SubSeq(p, 1, n) \o <<d>>
      <4>1. n # Len(p) /\ n # Len(q) /\ q[n + 1] > p[n + 1] + 1
        BY <1>1, <1>6, <1>7, <1>10, <2>2, <2>4
      <4>2. PositionBetween(p, q) = SubSeq(p, 1, n) \o <<(p[n + 1] + q[n + 1]) \div 2>>
        BY <1>2, <4>1 DEF PositionBetween
      <4>3. QED
        BY <1>7, <2>2, <3>1, <4>2
    <3>4. /\ SubSeq(p, 1, n) \in Seq(Nat) /\ Len(SubSeq(p, 1, n)) = n
          /\ \A j \in 1..n : SubSeq(p, 1, n)[j] = p[j]
      <4>1. \A j \in 1..n : p[j] \in Nat
        BY <1>1, <1>3
      <4>2. QED
        BY <4>1, SubSeqProperties
    <3>5. PICK s \in Position : s = SubSeq(p, 1, n) \o <<d>>
      BY <3>2, <3>4, Longer
    <3>6. /\ s \in Seq(Nat) /\ Len(s) = n + 1 /\ s[n + 1] = d /\ \A j \in 1..n : s[j] = p[j]
      BY <3>2, <3>4, <3>5, Longer DEF Position
    <3>7. Rank(u) < Rank(d) /\ Rank(d) < Rank(v)
      BY <1>8, <3>2 DEF Rank
    <3>8. Splits(p, s, i) /\ Splits(s, q, i)
      BY <1>1, <1>3, <1>5, <1>6, <1>7, <2>1, <2>2, <3>6, <3>7, SMTT(30) DEF Splits
    <3>9. QED
      BY <1>1, <3>3, <3>5, <3>6, <3>8, BeforeSplits
  <2>5. CASE ~ (v > u + 1)
    <3>1. PICK d \in Nat : PositionBetween(p, q) = p \o <<d>>
      BY <1>1, <1>2, <1>6, <1>7, <1>10, <2>1, <2>2, <2>5 DEF PositionBetween
    <3>2. PICK s \in Position : s = p \o <<d>>
      BY <1>1, Longer
    <3>3. /\ s \in Seq(Nat) /\ Len(s) = Len(p) + 1 /\ \A j \in 1..Len(p) : s[j] = p[j]
      BY <1>1, <3>2, Longer DEF Position
    <3>4. Rank(u) < Rank(v)
      BY <1>8, <2>3 DEF Rank
    <3>5. i \in 1..Len(p) /\ \A j \in 1..(i - 1) : s[j] = q[j]
      BY <1>1, <1>3, <1>5, <2>1, <3>3
    <3>6. s[i] = u /\ q[i] = v /\ i \in 1..Len(q) /\ i <= Len(s) + 1
      BY <1>1, <1>5, <1>6, <1>7, <2>1, <2>2, <3>3, <3>5, SMTT(30)
    <3>7. Splits(s, q, i)
      BY <3>4, <3>5, <3>6 DEF Splits
    <3>8. Before(s, q)
      BY <1>1, <3>3, <3>7, BeforeSplits
    <3>9. QED
      BY <1>1, <3>1, <3>2, <3>8, LongerAfter
  <2>6. QED
    BY <2>4, <2>5
<1>11. QED
  BY <1>9, <1>10

LEMMA NewPositionType ==
  ASSUME NEW prev \in Position \cup {None}, NEW next \in Position \cup {None}
  PROVE  NewPosition(prev, next) \in Position
<1>1. <<0, 0>> \in Position
  BY DEF Position
<1>2. QED
  BY <1>1, NoneAssumption, PositionBeforeFacts, PositionAfterFacts, PositionBetweenType
     DEF NewPosition

\* Wherever two neighbours in order leave room, generatePositionBetween makes a
\* position after the first and before the second.
THEOREM NewPositionBetween ==
  ASSUME NEW prev \in Position \cup {None}, NEW next \in Position \cup {None},
         prev # None /\ next # None => prev = next \/ Before(prev, next),
         HasRoom(prev, next)
  PROVE  /\ NewPosition(prev, next) \in Position
         /\ prev # None => Before(prev, NewPosition(prev, next))
         /\ next # None => Before(NewPosition(prev, next), next)
<1>1. NewPosition(prev, next) \in Position
  BY NewPositionType
<1>2. \A p \in {prev, next} \ {None} : \A i \in DOMAIN p : p[i] < 9
  BY DEF HasRoom
<1>3. CASE prev = None
  <2>1. ASSUME next # None PROVE Before(NewPosition(prev, next), next)
    <3>1. NewPosition(prev, next) = PositionBefore(next)
      BY <1>3, <2>1 DEF NewPosition
    <3>2. \E i \in DOMAIN next : next[i] > 0
      BY <1>3, <2>1 DEF HasRoom
    <3>3. \A i \in DOMAIN next : next[i] < 9
      BY <1>2, <2>1
    <3>4. QED
      BY <2>1, <3>1, <3>2, <3>3, PositionBeforeFacts
  <2>2. QED
    BY <1>1, <1>3, <2>1
<1>4. CASE prev # None /\ next = None
  <2>1. NewPosition(prev, next) = PositionAfter(prev)
    BY <1>4 DEF NewPosition
  <2>2. \A i \in DOMAIN prev : prev[i] < 9
    BY <1>2, <1>4
  <2>3. QED
    BY <1>1, <1>4, <2>1, <2>2, PositionAfterFacts
<1>5. CASE prev # None /\ next # None
  <2>1. NewPosition(prev, next) = PositionBetween(prev, next)
    BY <1>5 DEF NewPosition
  <2>2. prev # next /\ ~ S!IsPrefix(Append(prev, 0), next)
    BY <1>5 DEF HasRoom
  <2>3. \A i \in 1..Len(next) : next[i] < 9
    BY <1>2, <1>5, PositionType
  <2>4. \A i \in 1..Len(prev) : prev[i] < 9
    BY <1>2, <1>5, PositionType
  <2>5. QED
    BY <1>1, <1>5, <2>1, <2>2, <2>3, <2>4, PositionBetweenFacts
<1>6. QED
  BY <1>3, <1>4, <1>5
-----------------------------------------------------------------------------
(* Counting: in a finite chain every number up to its length is the place of *)
(* one member.                                                              *)

Chain(D, up) ==
  /\ IsFiniteSet(D)
  /\ up \in [D -> SUBSET D]
  /\ \A i \in D : i \in up[i]
  /\ \A i, j \in D : i # j => \/ up[i] \subseteq up[j] /\ j \notin up[i]
                              \/ up[j] \subseteq up[i] /\ i \notin up[j]

LEMMA ChainOrder ==
  ASSUME NEW D, NEW up, Chain(D, up), NEW i \in D, NEW j \in D
  PROVE  /\ Cardinality(up[i]) \in 1..Cardinality(D)
         /\ Cardinality(up[i]) <= Cardinality(up[j]) <=> i \in up[j]
         /\ Cardinality(up[i]) = Cardinality(up[j]) => i = j
<1>1. /\ up[i] \in SUBSET D /\ i \in up[i] /\ up[j] \in SUBSET D /\ j \in up[j] /\ IsFiniteSet(D)
      /\ i # j => \/ up[i] \subseteq up[j] /\ j \notin up[i]
                  \/ up[j] \subseteq up[i] /\ i \notin up[j]
  BY DEF Chain
<1>2. /\ IsFiniteSet(up[i]) /\ IsFiniteSet(up[j])
      /\ Cardinality(D) \in Nat /\ Cardinality(up[i]) \in Nat /\ Cardinality(up[j]) \in Nat
      /\ Cardinality(up[i]) <= Cardinality(D)
  BY <1>1, FS_Subset, FS_CardinalityType
<1>3. Cardinality(up[i]) # 0
  BY <1>1, <1>2, FS_EmptySet
<1>4. \A A, B : IsFiniteSet(B) /\ A \subseteq B /\ A # B => Cardinality(A) < Cardinality(B)
  <2> SUFFICES ASSUME NEW A, NEW B, IsFiniteSet(B), A \subseteq B, A # B
               PROVE  Cardinality(A) < Cardinality(B)
    OBVIOUS
  <2>1. IsFiniteSet(A) /\ Cardinality(A) <= Cardinality(B) /\ Cardinality(A) # Cardinality(B)
    BY FS_Subset
  <2>2. Cardinality(A) \in Nat /\ Cardinality(B) \in Nat
    BY <2>1, FS_CardinalityType
  <2>3. QED
    BY <2>1, <2>2
<1>5. CASE i # j /\ up[i] \subseteq up[j] /\ j \notin up[i]
  <2>1. Cardinality(up[i]) < Cardinality(up[j])
    BY <1>1, <1>2, <1>4, <1>5
  <2>2. i \in up[j]
    BY <1>1, <1>5
  <2>3. QED
    BY <1>2, <1>3, <2>1, <2>2
<1>6. CASE i # j /\ up[j] \subseteq up[i] /\ i \notin up[j]
  <2>1. Cardinality(up[j]) < Cardinality(up[i])
    BY <1>1, <1>2, <1>4, <1>6
  <2>2. QED
    BY <1>2, <1>3, <1>6, <2>1
<1>7. CASE i = j
  BY <1>1, <1>2, <1>3, <1>7
<1>8. QED
  BY <1>1, <1>5, <1>6, <1>7

LEMMA ChainPlaces ==
  ASSUME NEW D, NEW up, Chain(D, up), NEW k \in 1..Cardinality(D)
  PROVE  \E i \in D : Cardinality(up[i]) = k
<1> SUFFICES ASSUME \A i \in D : Cardinality(up[i]) # k PROVE FALSE
  OBVIOUS
<1> DEFINE f == [i \in D |-> Cardinality(up[i])]
           P == (1..Cardinality(D)) \ {k}
<1>1. IsFiniteSet(D) /\ Cardinality(D) \in Nat
  BY FS_CardinalityType DEF Chain
<1>2. f \in [D -> P]
  BY ChainOrder
<1>3. IsFiniteSet(P) /\ Cardinality(P) = Cardinality(D) - 1
  <2>1. IsFiniteSet(1..Cardinality(D)) /\ Cardinality(1..Cardinality(D)) = Cardinality(D)
    BY <1>1, FS_Interval
  <2>2. QED
    BY <2>1, FS_RemoveElement, ZenonT(60)
<1>4. Cardinality(P) < Cardinality(D)
  BY <1>1, <1>3
<1>5. PICK i, j \in D : i # j /\ f[i] = f[j]
  <2> HIDE DEF f, P
  <2> QED BY <1>1, <1>2, <1>3, <1>4, FS_PigeonHole
<1>6. QED
  BY <1>5, ChainOrder

-----------------------------------------------------------------------------
(* The places in the sorted array.                                          *)

Elements == Seq([id : Id, position : Position])

LEMMA ElementsType ==
  ASSUME NEW e \in Elements
  PROVE  /\ Len(e) \in Nat /\ DOMAIN e = 1..Len(e)
         /\ \A i \in 1..Len(e) : /\ e[i] \in [id : Id, position : Position]
                                 /\ e[i].id \in Id /\ e[i].position \in Position
                                 /\ e[i].position \in Seq(Nat)
<1>1. Len(e) \in Nat /\ DOMAIN e = 1..Len(e)
  BY LenProperties DEF Elements
<1>2. ASSUME NEW i \in 1..Len(e) PROVE e[i] \in [id : Id, position : Position]
  BY ElementOfSeq DEF Elements
<1>3. QED
  BY <1>1, <1>2 DEF Position

\* What sorts up to the entry i.
UpTo(e) ==
  [i \in 1..Len(e) |->
    {j \in 1..Len(e) : \/ Before(e[j].position, e[i].position)
                       \/ e[j].position = e[i].position /\ j <= i}]

LEMMA UpToAt ==
  ASSUME NEW e \in Elements, NEW i \in 1..Len(e), NEW j \in 1..Len(e)
  PROVE  j \in UpTo(e)[i] <=> \/ Before(e[j].position, e[i].position)
                              \/ e[j].position = e[i].position /\ j <= i
BY DEF UpTo

LEMMA PlaceIs ==
  ASSUME NEW e \in Elements, NEW i \in 1..Len(e)
  PROVE  Place(e, i) = Cardinality(UpTo(e)[i])
BY ElementsType DEF Place, UpTo

LEMMA Sorts ==
  ASSUME NEW e \in Elements
  PROVE  Chain(1..Len(e), UpTo(e)) /\ Cardinality(1..Len(e)) = Len(e)
<1>1. Len(e) \in Nat
  BY ElementsType
<1>2. IsFiniteSet(1..Len(e)) /\ Cardinality(1..Len(e)) = Len(e)
  BY <1>1, FS_Interval, SMTT(30)
<1>3. UpTo(e) \in [1..Len(e) -> SUBSET (1..Len(e))]
  BY DEF UpTo
<1>4. ASSUME NEW i \in 1..Len(e) PROVE i \in UpTo(e)[i]
  BY <1>1, UpToAt
<1>5. ASSUME NEW i \in 1..Len(e), NEW j \in 1..Len(e),
             \/ Before(e[i].position, e[j].position)
             \/ e[i].position = e[j].position /\ i < j
      PROVE  UpTo(e)[i] \subseteq UpTo(e)[j] /\ j \notin UpTo(e)[i]
  <2>1. e[i].position \in Seq(Nat) /\ e[j].position \in Seq(Nat)
    BY ElementsType
  <2>2. ASSUME NEW k \in UpTo(e)[i] PROVE k \in UpTo(e)[j]
    <3>1. k \in 1..Len(e) /\ e[k].position \in Seq(Nat)
      BY <1>3, ElementsType
    <3>2. \/ Before(e[k].position, e[i].position)
          \/ e[k].position = e[i].position /\ k <= i
      BY <2>2, <3>1, UpToAt
    <3>3. \/ Before(e[k].position, e[j].position)
          \/ e[k].position = e[j].position /\ k <= j
      BY <1>1, <1>5, <2>1, <3>1, <3>2, BeforeTransitive
    <3>4. QED
      BY <3>1, <3>3, UpToAt
  <2>3. ASSUME j \in UpTo(e)[i] PROVE FALSE
    <3>1. \/ Before(e[j].position, e[i].position)
          \/ e[j].position = e[i].position /\ j <= i
      BY <2>3, UpToAt
    <3>2. ~ (Before(e[i].position, e[j].position) /\ Before(e[j].position, e[i].position))
      BY <2>1, BeforeTransitive, BeforeIrreflexive
    <3>3. e[i].position = e[j].position => ~ Before(e[i].position, e[j].position)
                                           /\ ~ Before(e[j].position, e[i].position)
      BY <2>1, BeforeIrreflexive
    <3>4. QED
      BY <1>1, <1>5, <3>1, <3>2, <3>3
  <2>4. QED
    BY <2>2, <2>3
<1>6. ASSUME NEW i \in 1..Len(e), NEW j \in 1..Len(e), i # j
      PROVE  \/ UpTo(e)[i] \subseteq UpTo(e)[j] /\ j \notin UpTo(e)[i]
             \/ UpTo(e)[j] \subseteq UpTo(e)[i] /\ i \notin UpTo(e)[j]
  <2>1. e[i].position \in Seq(Nat) /\ e[j].position \in Seq(Nat)
    BY ElementsType
  <2>2. \/ Before(e[i].position, e[j].position)
        \/ Before(e[j].position, e[i].position)
        \/ e[i].position = e[j].position
    BY <2>1, BeforeTotal
  <2>3. i < j \/ j < i
    BY <1>1, <1>6
  <2>4. \/ (\/ Before(e[i].position, e[j].position)
            \/ e[i].position = e[j].position /\ i < j)
        \/ (\/ Before(e[j].position, e[i].position)
            \/ e[j].position = e[i].position /\ j < i)
    BY <2>2, <2>3
  <2>5. QED
    BY <1>5, <2>4
<1>7. QED
  BY <1>2, <1>3, <1>4, <1>6 DEF Chain

LEMMA Places ==
  ASSUME NEW e \in Elements
  PROVE  /\ \A i \in 1..Len(e) : Place(e, i) \in 1..Len(e) /\ EntryAt(e, Place(e, i)) = i
         /\ \A k \in 1..Len(e) : EntryAt(e, k) \in 1..Len(e) /\ Place(e, EntryAt(e, k)) = k
         /\ \A i, j \in 1..Len(e) : Place(e, i) <= Place(e, j) <=> i \in UpTo(e)[j]
<1>1. DOMAIN e = 1..Len(e)
  BY ElementsType
<1>2. /\ \A i \in 1..Len(e) : Place(e, i) \in 1..Len(e)
      /\ \A i, j \in 1..Len(e) : Place(e, i) <= Place(e, j) <=> i \in UpTo(e)[j]
      /\ \A i, j \in 1..Len(e) : Place(e, i) = Place(e, j) => i = j
  BY PlaceIs, Sorts, ChainOrder
<1>3. ASSUME NEW k \in 1..Len(e) PROVE \E i \in 1..Len(e) : Place(e, i) = k
  BY PlaceIs, Sorts, ChainPlaces
<1>4. \A k \in 1..Len(e) : EntryAt(e, k) \in 1..Len(e) /\ Place(e, EntryAt(e, k)) = k
  BY <1>1, <1>3 DEF EntryAt
<1>5. \A i \in 1..Len(e) : EntryAt(e, Place(e, i)) = i
  BY <1>2, <1>4
<1>6. QED
  BY <1>2, <1>4, <1>5
-----------------------------------------------------------------------------
(* insertAt.                                                                *)

LEMMA PositionAtFacts ==
  ASSUME NEW e \in Elements, NEW k \in Int
  PROVE  /\ PositionAt(e, k) \in Position \cup {None}
         /\ PositionAt(e, k) # None <=> k \in 1..Len(e)
         /\ k \in 1..Len(e) => PositionAt(e, k) = e[EntryAt(e, k)].position
<1>1. DOMAIN e = 1..Len(e)
  BY ElementsType
<1>2. CASE k \in 1..Len(e)
  <2>1. PositionAt(e, k) = e[EntryAt(e, k)].position
    BY <1>1, <1>2 DEF PositionAt, Nth
  <2>2. e[EntryAt(e, k)].position \in Position
    BY <1>2, Places, ElementsType
  <2>3. QED
    BY <1>2, <2>1, <2>2, NoneAssumption
<1>3. CASE k \notin 1..Len(e)
  BY <1>1, <1>3 DEF PositionAt
<1>4. QED
  BY <1>2, <1>3

\* What sorts no later than another has a position no later.
LEMMA PlacesOrder ==
  ASSUME NEW e \in Elements, NEW i \in 1..Len(e), NEW j \in 1..Len(e),
         Place(e, i) <= Place(e, j)
  PROVE  e[i].position = e[j].position \/ Before(e[i].position, e[j].position)
BY Places, UpToAt

LEMMA Neighbours ==
  ASSUME NEW e \in Elements, NEW index \in 0..Len(e), NEW i \in 1..Len(e)
  PROVE  /\ Place(e, i) <= index =>
              /\ PositionAt(e, index) # None
              /\ \/ e[i].position = PositionAt(e, index)
                 \/ Before(e[i].position, PositionAt(e, index))
         /\ Place(e, i) > index =>
              /\ PositionAt(e, index + 1) # None
              /\ \/ e[i].position = PositionAt(e, index + 1)
                 \/ Before(PositionAt(e, index + 1), e[i].position)
<1>1. Len(e) \in Nat /\ Place(e, i) \in 1..Len(e) /\ index \in Int /\ index + 1 \in Int
  BY ElementsType, Places
<1>2. ASSUME Place(e, i) <= index
      PROVE  /\ PositionAt(e, index) # None
             /\ \/ e[i].position = PositionAt(e, index)
                \/ Before(e[i].position, PositionAt(e, index))
  <2>1. index \in 1..Len(e)
    BY <1>1, <1>2
  <2>2. PICK j \in 1..Len(e) : j = EntryAt(e, index) /\ Place(e, j) = index
    BY <2>1, Places
  <2>3. e[i].position = e[j].position \/ Before(e[i].position, e[j].position)
    BY <1>2, <2>2, PlacesOrder
  <2>4. QED
    BY <1>1, <2>1, <2>2, <2>3, PositionAtFacts
<1>3. ASSUME Place(e, i) > index
      PROVE  /\ PositionAt(e, index + 1) # None
             /\ \/ e[i].position = PositionAt(e, index + 1)
                \/ Before(PositionAt(e, index + 1), e[i].position)
  <2>1. PICK k \in 1..Len(e) : k = index + 1
    BY <1>1, <1>3
  <2>2. PICK j \in 1..Len(e) : j = EntryAt(e, k) /\ Place(e, j) = k
    BY <2>1, Places
  <2>3. Place(e, j) <= Place(e, i)
    BY <1>1, <1>3, <2>1, <2>2
  <2>4. e[i].position = e[j].position \/ Before(e[j].position, e[i].position)
    BY <2>3, PlacesOrder
  <2>5. k \in Int
    BY <1>1, <2>1
  <2>6. QED
    BY <2>1, <2>2, <2>4, <2>5, PositionAtFacts
<1>4. QED
  BY <1>2, <1>3

\* A new last entry that belongs behind the first "index" and before the rest.
LEMMA AppendedPlaces ==
  ASSUME NEW e \in Elements, NEW index \in 0..Len(e),
         NEW x \in [id : Id, position : Position],
         \A i \in 1..Len(e) :
           IF Place(e, i) <= index THEN Before(e[i].position, x.position)
                                   ELSE Before(x.position, e[i].position)
  PROVE  /\ Append(e, x) \in Elements /\ Len(Append(e, x)) = Len(e) + 1
         /\ \A i \in 1..Len(e) : Append(e, x)[i] = e[i]
         /\ Append(e, x)[Len(e) + 1] = x
         /\ \A i \in 1..Len(e) :
              Place(Append(e, x), i) =
                IF Place(e, i) <= index THEN Place(e, i) ELSE Place(e, i) + 1
         /\ Place(Append(e, x), Len(e) + 1) = index + 1
<1>1. PICK a, n : a = Append(e, x) /\ n = Len(e) + 1
  OBVIOUS
<1>2. /\ a \in Elements /\ Len(a) = n /\ a[n] = x
      /\ \A i \in 1..Len(e) : a[i] = e[i]
  BY <1>1, AppendProperties DEF Elements
<1>3. /\ Len(e) \in Nat /\ n \in Nat /\ n \in 1..Len(a) /\ n \notin 1..Len(e)
      /\ 1..Len(a) = (1..Len(e)) \cup {n} /\ IsFiniteSet(1..Len(e))
  <2>1. Len(e) \in Nat /\ IsFiniteSet(1..Len(e))
    BY ElementsType, Sorts DEF Chain
  <2>2. QED
    BY <1>1, <1>2, <2>1
<1>4. x.position \in Seq(Nat) /\ \A i \in 1..Len(e) : e[i].position \in Seq(Nat)
  BY ElementsType DEF Position
<1>5. /\ \A p, q \in Seq(Nat) : ~ (Before(p, q) /\ Before(q, p))
      /\ \A p \in Seq(Nat) : ~ Before(p, p)
  BY BeforeIrreflexive, BeforeTransitive
<1>6. ASSUME NEW i \in 1..Len(e)
      PROVE  Place(a, i) = IF Place(e, i) <= index THEN Place(e, i) ELSE Place(e, i) + 1
  <2>1. /\ UpTo(e)[i] \subseteq 1..Len(e) /\ UpTo(a)[i] \subseteq 1..Len(a) /\ i \in 1..Len(a)
        /\ n \notin UpTo(e)[i]
    BY <1>3 DEF UpTo
  <2>2. ASSUME NEW j \in 1..Len(e) PROVE j \in UpTo(a)[i] <=> j \in UpTo(e)[i]
    BY <1>2, <1>3, UpToAt
  <2>3. n \in UpTo(a)[i] <=> ~ (Place(e, i) <= index)
    <3>1. n \in UpTo(a)[i] <=> \/ Before(x.position, e[i].position)
                               \/ x.position = e[i].position /\ n <= i
      BY <1>2, <1>3, UpToAt
    <3>2. ~ (n <= i)
      BY <1>1, <1>3
    <3>3. QED
      BY <1>4, <1>5, <3>1, <3>2
  <2>4. IsFiniteSet(UpTo(e)[i])
    BY <1>3, <2>1, FS_Subset
  <2>5. CASE Place(e, i) <= index
    <3>1. UpTo(a)[i] = UpTo(e)[i]
      BY <1>3, <2>1, <2>2, <2>3, <2>5
    <3>2. QED
      BY <1>2, <2>1, <2>5, <3>1, PlaceIs
  <2>6. CASE ~ (Place(e, i) <= index)
    <3>1. UpTo(a)[i] = UpTo(e)[i] \cup {n}
      BY <1>3, <2>1, <2>2, <2>3, <2>6
    <3>2. Cardinality(UpTo(a)[i]) = Cardinality(UpTo(e)[i]) + 1
      BY <2>1, <2>4, <3>1, FS_AddElement
    <3>3. QED
      BY <1>2, <2>1, <2>6, <3>2, PlaceIs
  <2>7. QED
    BY <2>5, <2>6
<1>7. Place(a, n) = index + 1
  <2>1. PICK B : B = {j \in 1..Len(e) : Place(e, j) <= index}
    OBVIOUS
  <2>2. IsFiniteSet(B) /\ Cardinality(B) = index
    <3>1. CASE index = 0
      <4>1. B = {}
        BY <2>1, <3>1, Places, <1>3
      <4>2. QED
        BY <3>1, <4>1, FS_EmptySet
    <3>2. CASE index # 0
      <4>1. index \in 1..Len(e)
        BY <1>3, <3>2
      <4>2. PICK k \in 1..Len(e) : Place(e, k) = index
        BY <4>1, Places
      <4>3. UpTo(e)[k] \subseteq 1..Len(e)
        BY DEF UpTo
      <4>4. B = UpTo(e)[k]
        BY <2>1, <4>2, <4>3, Places
      <4>5. IsFiniteSet(B)
        BY <1>3, <4>3, <4>4, FS_Subset
      <4>6. QED
        BY <4>2, <4>4, <4>5, PlaceIs
    <3>3. QED
      BY <3>1, <3>2
  <2>3. UpTo(a)[n] = B \cup {n}
    <3>1. UpTo(a)[n] \subseteq 1..Len(a) /\ B \subseteq 1..Len(e)
      BY <1>3, <2>1 DEF UpTo
    <3>2. n \in UpTo(a)[n]
      BY <1>2, <1>3, UpToAt
    <3>3. ASSUME NEW j \in 1..Len(e) PROVE j \in UpTo(a)[n] <=> j \in B
      <4>1. j \in UpTo(a)[n] <=> \/ Before(e[j].position, x.position)
                                 \/ e[j].position = x.position /\ j <= n
        BY <1>2, <1>3, UpToAt
      <4>2. QED
        BY <1>4, <1>5, <2>1, <4>1
    <3>4. QED
      BY <1>3, <3>1, <3>2, <3>3
  <2>4. n \notin B
    BY <1>3, <2>1
  <2>5. Cardinality(UpTo(a)[n]) = index + 1
    BY <2>2, <2>3, <2>4, FS_AddElement
  <2>6. QED
    BY <1>2, <1>3, <2>5, PlaceIs
<1>8. QED
  BY <1>1, <1>2, <1>6, <1>7
LEMMA ToArrayFacts ==
  ASSUME NEW e \in Elements
  PROVE  /\ ToArray(e) \in Seq(Id) /\ Len(ToArray(e)) = Len(e)
         /\ \A k \in 1..Len(e) : ToArray(e)[k] = e[EntryAt(e, k)].id
<1>1. Len(e) \in Nat /\ DOMAIN e = 1..Len(e)
  BY ElementsType
<1>2. \A k \in 1..Len(e) : e[EntryAt(e, k)].id \in Id
  BY Places, ElementsType
<1>3. ToArray(e) = [k \in 1..Len(e) |-> e[EntryAt(e, k)].id]
  BY <1>1 DEF ToArray, Nth
<1>4. ToArray(e) \in [1..Len(e) -> Id]
  BY <1>2, <1>3
<1>5. ToArray(e) \in Seq(Id) /\ Len(ToArray(e)) = Len(e)
  BY <1>1, <1>4, FunctionSeq
<1>6. QED
  BY <1>3, <1>5

\* The array as inserting "v" before place k leaves it.
LEMMA InsertAtFacts ==
  ASSUME NEW A, NEW s \in Seq(A), NEW k \in 1..(Len(s) + 1), NEW v \in A
  PROVE  /\ S!InsertAt(s, k, v) \in Seq(A) /\ Len(S!InsertAt(s, k, v)) = Len(s) + 1
         /\ \A i \in 1..(Len(s) + 1) :
              S!InsertAt(s, k, v)[i] = IF i < k THEN s[i] ELSE IF i = k THEN v ELSE s[i - 1]
<1>1. Len(s) \in Nat /\ k \in Nat /\ k >= 1 /\ k <= Len(s) + 1
  BY LenProperties
<1>2. PICK a, m, b : a = SubSeq(s, 1, k - 1) /\ m = <<v>> /\ b = SubSeq(s, k, Len(s))
  OBVIOUS
<1>3. \A i \in 1..Len(s) : s[i] \in A
  BY ElementOfSeq
<1>4. /\ a \in Seq(A) /\ Len(a) = k - 1 /\ \A i \in 1..(k - 1) : a[i] = s[i]
  <2>1. \A i \in 1..(k - 1) : s[i] \in A
    BY <1>1, <1>3
  <2>2. QED
    BY <1>1, <1>2, <2>1, SubSeqProperties
<1>5. /\ b \in Seq(A) /\ Len(b) = Len(s) - k + 1
      /\ \A i \in 1..(Len(s) - k + 1) : b[i] = s[k + i - 1]
  <2>1. \A i \in k..Len(s) : s[i] \in A
    BY <1>1, <1>3
  <2>2. QED
    BY <1>1, <1>2, <2>1, SubSeqProperties
<1>6. m \in Seq(A) /\ Len(m) = 1 /\ m[1] = v
  BY <1>2
<1>7. PICK c : c = a \o m
  OBVIOUS
<1>8. /\ c \in Seq(A) /\ Len(c) = k
      /\ \A i \in 1..k : c[i] = IF i <= k - 1 THEN a[i] ELSE m[i - (k - 1)]
  <2>1. /\ c \in Seq(A) /\ Len(c) = Len(a) + Len(m)
        /\ \A i \in 1..(Len(a) + Len(m)) : c[i] = IF i <= Len(a) THEN a[i] ELSE m[i - Len(a)]
    BY <1>4, <1>6, <1>7, ConcatProperties
  <2>2. Len(a) + Len(m) = k
    BY <1>1, <1>4, <1>6
  <2>3. QED
    BY <1>4, <2>1, <2>2
<1>9. PICK d : d = c \o b
  OBVIOUS
<1>10. /\ d \in Seq(A) /\ Len(d) = Len(s) + 1
       /\ \A i \in 1..(Len(s) + 1) : d[i] = IF i <= k THEN c[i] ELSE b[i - k]
  <2>1. /\ d \in Seq(A) /\ Len(d) = Len(c) + Len(b)
        /\ \A i \in 1..(Len(c) + Len(b)) : d[i] = IF i <= Len(c) THEN c[i] ELSE b[i - Len(c)]
    BY <1>5, <1>8, <1>9, ConcatProperties
  <2>2. Len(c) + Len(b) = Len(s) + 1
    BY <1>1, <1>5, <1>8
  <2>3. QED
    BY <1>8, <2>1, <2>2
<1>11. d = S!InsertAt(s, k, v)
  BY <1>2, <1>7, <1>9 DEF S!InsertAt
<1>12. ASSUME NEW i \in 1..(Len(s) + 1)
       PROVE  d[i] = IF i < k THEN s[i] ELSE IF i = k THEN v ELSE s[i - 1]
  <2>1. CASE i < k
    <3>1. i \in 1..k /\ i \in 1..(k - 1)
      BY <1>1, <2>1
    <3>2. QED
      BY <1>1, <1>4, <1>8, <1>10, <2>1, <3>1
  <2>2. CASE i = k
    <3>1. i \in 1..k /\ i - (k - 1) = 1 /\ i <= k /\ ~ (i <= k - 1)
      BY <1>1, <2>2
    <3>2. QED
      BY <1>6, <1>8, <1>10, <2>2, <3>1
  <2>3. CASE i > k
    <3>1. i - k \in 1..(Len(s) - k + 1) /\ k + (i - k) - 1 = i - 1 /\ ~ (i <= k)
      BY <1>1, <2>3
    <3>2. d[i] = b[i - k] /\ b[i - k] = s[k + (i - k) - 1]
      BY <1>5, <1>10, <3>1
    <3>3. QED
      BY <1>1, <2>3, <3>1, <3>2
  <2>4. QED
    BY <1>1, <2>1, <2>2, <2>3
<1>13. QED
  BY <1>10, <1>11, <1>12

\* The array of a Map that got such a last entry.
LEMMA AppendedArray ==
  ASSUME NEW e \in Elements, NEW index \in 0..Len(e),
         NEW x \in [id : Id, position : Position],
         \A i \in 1..Len(e) :
           IF Place(e, i) <= index THEN Before(e[i].position, x.position)
                                   ELSE Before(x.position, e[i].position)
  PROVE  ToArray(Append(e, x)) = S!InsertAt(ToArray(e), index + 1, x.id)
<1>1. PICK a, n : a = Append(e, x) /\ n = Len(e) + 1
  OBVIOUS
<1>2. /\ a \in Elements /\ Len(a) = n /\ a[n] = x
      /\ \A i \in 1..Len(e) : a[i] = e[i]
      /\ \A i \in 1..Len(e) :
           Place(a, i) = IF Place(e, i) <= index THEN Place(e, i) ELSE Place(e, i) + 1
      /\ Place(a, n) = index + 1
  BY <1>1, AppendedPlaces, SMTT(30)
<1>3. Len(e) \in Nat /\ n \in Nat /\ n \in 1..Len(a) /\ \A i \in 1..Len(e) : i \in 1..Len(a)
  <2>1. Len(e) \in Nat
    BY ElementsType
  <2>2. QED
    BY <1>1, <1>2, <2>1
<1>4. /\ ToArray(e) \in Seq(Id) /\ Len(ToArray(e)) = Len(e)
      /\ \A k \in 1..Len(e) : ToArray(e)[k] = e[EntryAt(e, k)].id
      /\ ToArray(a) \in Seq(Id) /\ Len(ToArray(a)) = n
      /\ \A k \in 1..n : ToArray(a)[k] = a[EntryAt(a, k)].id
  BY <1>2, ToArrayFacts
<1>5. PICK w : w = S!InsertAt(ToArray(e), index + 1, x.id)
  OBVIOUS
<1>6. /\ w \in Seq(Id) /\ Len(w) = n
      /\ \A k \in 1..n : w[k] = IF k < index + 1 THEN ToArray(e)[k]
                                ELSE IF k = index + 1 THEN x.id ELSE ToArray(e)[k - 1]
  <2>1. PICK s, k, v : s = ToArray(e) /\ k = index + 1 /\ v = x.id
    OBVIOUS
  <2>2. s \in Seq(Id) /\ Len(s) + 1 = n /\ k \in 1..(Len(s) + 1) /\ v \in Id
    BY <1>1, <1>3, <1>4, <2>1
  <2>3. w = S!InsertAt(s, k, v)
    BY <1>5, <2>1
  <2>4. /\ w \in Seq(Id) /\ Len(w) = Len(s) + 1
        /\ \A i \in 1..(Len(s) + 1) :
             w[i] = IF i < k THEN s[i] ELSE IF i = k THEN v ELSE s[i - 1]
    <3>1. /\ S!InsertAt(s, k, v) \in Seq(Id) /\ Len(S!InsertAt(s, k, v)) = Len(s) + 1
          /\ \A i \in 1..(Len(s) + 1) :
               S!InsertAt(s, k, v)[i] = IF i < k THEN s[i] ELSE IF i = k THEN v ELSE s[i - 1]
      BY <2>2, InsertAtFacts
    <3>2. QED
      BY <2>3, <3>1
  <2>5. QED
    BY <2>1, <2>2, <2>4
<1>7. ASSUME NEW k \in 1..n PROVE ToArray(a)[k] = w[k]
  <2>1. CASE k < index + 1
    <3>1. k \in 1..Len(e) /\ k <= index
      BY <1>3, <2>1
    <3>2. PICK i \in 1..Len(e) : i = EntryAt(e, k) /\ Place(e, i) = k
      BY <3>1, Places
    <3>3. Place(a, i) = k
      BY <1>2, <3>1, <3>2
    <3>4. EntryAt(a, k) = i
      BY <1>2, <1>3, <3>3, Places
    <3>5. ToArray(a)[k] = a[i].id
      BY <1>4, <3>4
    <3>6. a[i] = e[i]
      BY <1>2
    <3>7. w[k] = ToArray(e)[k]
      BY <1>6, <2>1
    <3>8. ToArray(e)[k] = e[i].id
      BY <1>4, <3>1, <3>2
    <3>9. QED
      BY <3>5, <3>6, <3>7, <3>8
  <2>2. CASE k = index + 1
    <3>1. EntryAt(a, k) = n
      BY <1>2, <1>3, <2>2, Places
    <3>2. QED
      BY <1>2, <1>3, <1>4, <1>6, <2>2, <3>1, SMTT(30)
  <2>3. CASE k > index + 1
    <3>1. PICK h \in 1..Len(e) : h = k - 1
      BY <1>1, <1>3, <2>3
    <3>2. PICK i \in 1..Len(e) : i = EntryAt(e, h) /\ Place(e, i) = h
      BY Places
    <3>3. Place(a, i) = k
      <4>1. ~ (h <= index) /\ h + 1 = k
        BY <1>3, <2>3, <3>1
      <4>2. QED
        BY <1>2, <3>2, <4>1
    <3>4. EntryAt(a, k) = i
      BY <1>2, <1>3, <3>3, Places
    <3>5. w[k] = ToArray(e)[h]
      BY <1>3, <1>6, <2>3, <3>1
    <3>6. a[i] = e[i]
      BY <1>2
    <3>7. ToArray(a)[k] = a[i].id
      BY <1>4, <3>4
    <3>8. ToArray(e)[h] = e[i].id
      BY <1>4, <3>2
    <3>9. QED
      BY <3>5, <3>6, <3>7, <3>8
  <2>4. QED
    BY <1>3, <2>1, <2>2, <2>3
<1>8. ToArray(a) = w
  BY <1>4, <1>6, <1>7, SeqEqual
<1>9. QED
  BY <1>1, <1>5, <1>8

\* insertAt at an index between whose neighbours there is room puts the element
\* at that index of the array and leaves the others in their order.
THEOREM InsertedAtIndex ==
  ASSUME NEW e \in Elements, NEW index \in 0..Len(e), NEW id \in Id,
         HasRoom(PositionAt(e, index), PositionAt(e, index + 1))
  PROVE  ToArray(InsertedAt(e, index, id)) = S!InsertAt(ToArray(e), index + 1, id)
<1>1. PICK prev, next, new : /\ prev = PositionAt(e, index) /\ next = PositionAt(e, index + 1)
                             /\ new = NewPosition(prev, next)
  OBVIOUS
<1>2. Len(e) \in Nat /\ index \in Int /\ index + 1 \in Int
  BY ElementsType
<1>3. prev \in Position \cup {None} /\ next \in Position \cup {None}
  BY <1>1, <1>2, PositionAtFacts
<1>4. prev # None /\ next # None => prev = next \/ Before(prev, next)
  <2> SUFFICES ASSUME prev # None, next # None PROVE prev = next \/ Before(prev, next)
    OBVIOUS
  <2>1. index \in 1..Len(e) /\ index + 1 \in 1..Len(e)
    BY <1>1, <1>2, PositionAtFacts
  <2>2. PICK i \in 1..Len(e) : i = EntryAt(e, index) /\ Place(e, i) = index
    BY <2>1, Places
  <2>3. PICK j \in 1..Len(e) : j = EntryAt(e, index + 1) /\ Place(e, j) = index + 1
    BY <2>1, Places
  <2>4. Place(e, i) <= Place(e, j)
    BY <1>2, <2>2, <2>3
  <2>5. e[i].position = e[j].position \/ Before(e[i].position, e[j].position)
    BY <2>4, PlacesOrder
  <2>6. e[i].position = prev /\ e[j].position = next
    BY <1>1, <1>2, <2>1, <2>2, <2>3, PositionAtFacts
  <2>7. QED
    BY <2>5, <2>6
<1>5. HasRoom(prev, next)
  BY <1>1
<1>6. /\ new \in Position
      /\ prev # None => Before(prev, new)
      /\ next # None => Before(new, next)
  BY <1>1, <1>3, <1>4, <1>5, NewPositionBetween
<1>7. PICK x : x = [id |-> id, position |-> new]
  OBVIOUS
<1>8. x \in [id : Id, position : Position] /\ x.id = id /\ x.position = new
  BY <1>6, <1>7
<1>9. ASSUME NEW i \in 1..Len(e)
      PROVE  IF Place(e, i) <= index THEN Before(e[i].position, x.position)
                                     ELSE Before(x.position, e[i].position)
  <2>1. e[i].position \in Seq(Nat) /\ new \in Seq(Nat)
    BY <1>6, ElementsType DEF Position
  <2>2. CASE Place(e, i) <= index
    <3>1. prev # None /\ (e[i].position = prev \/ Before(e[i].position, prev))
      BY <1>1, <2>2, Neighbours
    <3>2. prev \in Seq(Nat)
      BY <1>3, <3>1 DEF Position
    <3>3. Before(e[i].position, new)
      BY <1>6, <2>1, <3>1, <3>2, BeforeTransitive
    <3>4. QED
      BY <1>8, <2>2, <3>3
  <2>3. CASE ~ (Place(e, i) <= index)
    <3>1. Place(e, i) > index
      BY <1>2, <2>3, Places
    <3>2. next # None /\ (e[i].position = next \/ Before(next, e[i].position))
      BY <1>1, <3>1, Neighbours
    <3>3. next \in Seq(Nat)
      BY <1>3, <3>2 DEF Position
    <3>4. Before(new, e[i].position)
      BY <1>6, <2>1, <3>2, <3>3, BeforeTransitive
    <3>5. QED
      BY <1>8, <2>3, <3>4
  <2>4. QED
    BY <2>2, <2>3
<1>10. InsertedAt(e, index, id) = Append(e, x)
  BY <1>1, <1>7 DEF InsertedAt
<1>11. ToArray(Append(e, x)) = S!InsertAt(ToArray(e), index + 1, x.id)
  BY <1>8, <1>9, AppendedArray
<1>12. QED
  BY <1>8, <1>10, <1>11
-----------------------------------------------------------------------------
(* The shape of the state.                                                  *)

LEMMA EntriesAre ==
  \A e : e \in Entries <=> /\ e \in Elements
                           /\ \A i, j \in 1..Len(e) : e[i].id = e[j].id => i = j
<1> SUFFICES ASSUME NEW e
             PROVE  e \in Entries <=> /\ e \in Elements
                                      /\ \A i, j \in 1..Len(e) : e[i].id = e[j].id => i = j
  OBVIOUS
<1>1. e \in Elements => DOMAIN e = 1..Len(e)
  BY ElementsType
<1>2. QED
  BY <1>1 DEF Entries, Elements

LEMMA IdsAre ==
  \A e \in Elements : /\ \A i \in 1..Len(e) : e[i].id \in Ids(e)
                      /\ \A id \in Ids(e) : \E i \in 1..Len(e) : e[i].id = id
                      /\ Ids(e) \subseteq Id
<1> SUFFICES ASSUME NEW e \in Elements
             PROVE  /\ \A i \in 1..Len(e) : e[i].id \in Ids(e)
                    /\ \A id \in Ids(e) : \E i \in 1..Len(e) : e[i].id = id
                    /\ Ids(e) \subseteq Id
  OBVIOUS
<1>1. DOMAIN e = 1..Len(e) /\ \A i \in 1..Len(e) : e[i].id \in Id
  BY ElementsType
<1>2. Ids(e) = {e[i].id : i \in 1..Len(e)}
  BY <1>1 DEF Ids, S!ToSet
<1>3. QED
  BY <1>1, <1>2

LEMMA CellsAre ==
  \A e \in Elements : S!ToSet(e) = {e[i] : i \in 1..Len(e)}
BY ElementsType DEF S!ToSet

\* insertAt makes a Map with one more element.
LEMMA InsertedEntries ==
  ASSUME NEW e \in Entries, NEW index \in 0..Len(e), NEW id \in Id, id \notin Ids(e)
  PROVE  /\ InsertedAt(e, index, id) \in Entries
         /\ Ids(InsertedAt(e, index, id)) \subseteq Ids(e) \cup {id}
         /\ Len(InsertedAt(e, index, id)) = Len(e) + 1
         /\ \E x : x.id = id /\ S!ToSet(InsertedAt(e, index, id)) \subseteq S!ToSet(e) \cup {x}
<1>1. /\ e \in Elements /\ \A i, j \in 1..Len(e) : e[i].id = e[j].id => i = j
      /\ Len(e) \in Nat /\ index \in Int /\ index + 1 \in Int
      /\ \A i \in 1..Len(e) : e[i].id \in Ids(e)
  BY EntriesAre, ElementsType, IdsAre
<1>2. PICK new \in Position : new = NewPosition(PositionAt(e, index), PositionAt(e, index + 1))
  BY <1>1, PositionAtFacts, NewPositionType
<1>3. PICK x, a, n : x = [id |-> id, position |-> new] /\ a = Append(e, x) /\ n = Len(e) + 1
  OBVIOUS
<1>4. x \in [id : Id, position : Position] /\ x.id = id
  BY <1>3
<1>5. /\ a \in Elements /\ Len(a) = n /\ a[n] = x /\ \A i \in 1..Len(e) : a[i] = e[i]
  BY <1>1, <1>3, <1>4, AppendProperties DEF Elements
<1>6. \A i \in 1..n : i \in 1..Len(e) \/ i = n
  BY <1>1, <1>3
<1>7. \A i, j \in 1..n : a[i].id = a[j].id => i = j
  BY <1>1, <1>4, <1>5, <1>6
<1>8. Ids(a) \subseteq Ids(e) \cup {id}
  BY <1>1, <1>4, <1>5, <1>6, IdsAre
<1>9. a = InsertedAt(e, index, id)
  BY <1>2, <1>3 DEF InsertedAt
<1>10. S!ToSet(a) \subseteq S!ToSet(e) \cup {x}
  BY <1>1, <1>5, <1>6, CellsAre
<1>11. QED
  BY <1>3, <1>4, <1>5, <1>7, <1>8, <1>9, <1>10, EntriesAre

\* A sequence without its entry at k.
LEMMA RemoveAtFacts ==
  ASSUME NEW A, NEW s \in Seq(A), NEW k \in 1..Len(s)
  PROVE  /\ S!RemoveAt(s, k) \in Seq(A) /\ Len(S!RemoveAt(s, k)) = Len(s) - 1
         /\ \A i \in 1..(Len(s) - 1) :
              S!RemoveAt(s, k)[i] = IF i < k THEN s[i] ELSE s[i + 1]
<1>1. Len(s) \in Nat /\ k \in Nat /\ k >= 1 /\ k <= Len(s) /\ k + 1 \in Nat
  BY LenProperties
<1>2. PICK a, b, h : a = SubSeq(s, 1, k - 1) /\ b = SubSeq(s, h, Len(s)) /\ h = k + 1
  OBVIOUS
<1>3. \A i \in 1..Len(s) : s[i] \in A
  BY ElementOfSeq
<1>4. a \in Seq(A) /\ Len(a) = k - 1 /\ \A i \in 1..(k - 1) : a[i] = s[i]
  <2>1. \A i \in 1..(k - 1) : s[i] \in A
    BY <1>1, <1>3
  <2>2. QED
    BY <1>1, <1>2, <2>1, SubSeqProperties
<1>5. b \in Seq(A) /\ Len(b) = Len(s) - k /\ \A i \in 1..(Len(s) - k) : b[i] = s[k + i]
  <2>1. h \in Int /\ \A i \in h..Len(s) : s[i] \in A
    BY <1>1, <1>2, <1>3
  <2>2. /\ b \in Seq(A) /\ Len(b) = IF h <= Len(s) THEN Len(s) - h + 1 ELSE 0
        /\ \A i \in 1..(Len(s) - h + 1) : b[i] = s[h + i - 1]
    BY <1>1, <1>2, <2>1, SubSeqProperties
  <2>3. QED
    BY <1>1, <1>2, <2>2
<1>6. PICK d : d = a \o b
  OBVIOUS
<1>7. /\ d \in Seq(A) /\ Len(d) = Len(s) - 1
      /\ \A i \in 1..(Len(s) - 1) : d[i] = IF i <= k - 1 THEN a[i] ELSE b[i - (k - 1)]
  <2>1. /\ d \in Seq(A) /\ Len(d) = Len(a) + Len(b)
        /\ \A i \in 1..(Len(a) + Len(b)) : d[i] = IF i <= Len(a) THEN a[i] ELSE b[i - Len(a)]
    BY <1>4, <1>5, <1>6, ConcatProperties
  <2>2. Len(a) + Len(b) = Len(s) - 1
    BY <1>1, <1>4, <1>5
  <2>3. QED
    BY <1>4, <2>1, <2>2
<1>8. d = S!RemoveAt(s, k)
  BY <1>2, <1>6 DEF S!RemoveAt
<1>9. ASSUME NEW i \in 1..(Len(s) - 1) PROVE d[i] = IF i < k THEN s[i] ELSE s[i + 1]
  <2>1. CASE i < k
    <3>1. i \in 1..(k - 1)
      BY <1>1, <2>1
    <3>2. QED
      BY <1>1, <1>4, <1>7, <2>1, <3>1, SMTT(30)
  <2>2. CASE ~ (i < k)
    <3>1. i - (k - 1) \in 1..(Len(s) - k) /\ k + (i - (k - 1)) = i + 1 /\ ~ (i <= k - 1)
      BY <1>1, <2>2
    <3>2. d[i] = b[i - (k - 1)] /\ b[i - (k - 1)] = s[k + (i - (k - 1))]
      BY <1>5, <1>7, <3>1
    <3>3. QED
      BY <2>2, <3>1, <3>2
  <2>3. QED
    BY <2>1, <2>2
<1>10. QED
  BY <1>7, <1>8, <1>9

\* removeAt makes a Map with some of the elements.
LEMMA RemovedEntries ==
  ASSUME NEW e \in Entries, NEW index \in 0..(Len(e) - 1)
  PROVE  /\ RemovedAt(e, index) \in Entries /\ Ids(RemovedAt(e, index)) \subseteq Ids(e)
         /\ S!ToSet(RemovedAt(e, index)) \subseteq S!ToSet(e)
<1>1. /\ e \in Elements /\ \A i, j \in 1..Len(e) : e[i].id = e[j].id => i = j
      /\ Len(e) \in Nat /\ index + 1 \in 1..Len(e)
      /\ \A i \in 1..Len(e) : e[i].id \in Ids(e)
  BY EntriesAre, ElementsType, IdsAre
<1>2. PICK k \in 1..Len(e) : k = EntryAt(e, index + 1)
  BY <1>1, Places
<1>3. PICK d : d = S!RemoveAt(e, k)
  OBVIOUS
<1>4. /\ d \in Elements /\ Len(d) = Len(e) - 1
      /\ \A i \in 1..(Len(e) - 1) : d[i] = IF i < k THEN e[i] ELSE e[i + 1]
  BY <1>1, <1>3, RemoveAtFacts DEF Elements
<1>5. ASSUME NEW i \in 1..Len(d)
      PROVE  \E h \in 1..Len(e) : d[i] = e[h] /\ h = IF i < k THEN i ELSE i + 1
  <2>1. CASE i < k
    <3>1. i \in 1..Len(e) /\ i \in 1..(Len(e) - 1)
      BY <1>1, <1>4
    <3>2. QED
      BY <1>4, <2>1, <3>1
  <2>2. CASE ~ (i < k)
    <3>1. i + 1 \in 1..Len(e) /\ i \in 1..(Len(e) - 1)
      BY <1>1, <1>4
    <3>2. QED
      BY <1>4, <2>2, <3>1
  <2>3. QED
    BY <2>1, <2>2
<1>6. ASSUME NEW i \in 1..Len(d), NEW j \in 1..Len(d), d[i].id = d[j].id PROVE i = j
  <2>1. PICK h \in 1..Len(e) : d[i] = e[h] /\ h = IF i < k THEN i ELSE i + 1
    BY <1>5
  <2>2. PICK l \in 1..Len(e) : d[j] = e[l] /\ l = IF j < k THEN j ELSE j + 1
    BY <1>5
  <2>3. h = l
    BY <1>1, <1>6, <2>1, <2>2
  <2>4. i \in Nat /\ j \in Nat /\ k \in Nat
    BY <1>1, <1>4
  <2>5. ASSUME NEW u \in Nat, NEW v \in Nat, NEW c \in Nat,
               (IF u < c THEN u ELSE u + 1) = (IF v < c THEN v ELSE v + 1)
        PROVE  u = v
    BY ONLY <2>5
  <2>6. (IF i < k THEN i ELSE i + 1) = (IF j < k THEN j ELSE j + 1)
    BY ONLY <2>1, <2>2, <2>3
  <2>7. QED
    BY ONLY <2>4, <2>5, <2>6
<1>7. Ids(d) \subseteq Ids(e)
  BY <1>1, <1>4, <1>5, IdsAre, SMTT(30)
<1>8. S!ToSet(d) \subseteq S!ToSet(e)
  <2>1. S!ToSet(d) = {d[i] : i \in 1..Len(d)} /\ S!ToSet(e) = {e[i] : i \in 1..Len(e)}
    BY <1>1, <1>4, CellsAre
  <2>2. \A i \in 1..Len(d) : \E h \in 1..Len(e) : d[i] = e[h]
    BY <1>5
  <2>3. QED
    BY <2>1, <2>2
<1>9. d = RemovedAt(e, index)
  BY <1>2, <1>3 DEF RemovedAt
<1>10. QED
  BY <1>4, <1>6, <1>7, <1>8, <1>9, EntriesAre
LEMMA EntryOrder ==
  ASSUME NEW D, D \subseteq Nat, IsFiniteSet(D)
  PROVE  /\ \A k \in 1..Cardinality(D) : NthOf(D, k) \in D
         /\ \A h, k \in 1..Cardinality(D) : NthOf(D, h) = NthOf(D, k) => h = k
         /\ \A j \in D : \E k \in 1..Cardinality(D) : NthOf(D, k) = j
<1>1. PICK up : up = [j \in D |-> {i \in D : i <= j}]
  OBVIOUS
<1>2. \A j \in D : up[j] = {i \in D : i <= j}
  BY <1>1
<1>3. Chain(D, up)
  <2>1. up \in [D -> SUBSET D]
    BY <1>1
  <2>2. \A j \in D : j \in up[j]
    BY <1>2
  <2>3. ASSUME NEW i \in D, NEW j \in D, i # j
        PROVE  \/ up[i] \subseteq up[j] /\ j \notin up[i]
               \/ up[j] \subseteq up[i] /\ i \notin up[j]
    <3>1. ASSUME NEW a \in D, NEW b \in D, a < b PROVE up[a] \subseteq up[b] /\ b \notin up[a]
      <4>1. a \in Nat /\ b \in Nat /\ \A h \in D : h \in Nat
        OBVIOUS
      <4>2. up[a] = {h \in D : h <= a} /\ up[b] = {h \in D : h <= b}
        BY <1>2
      <4>3. ~ (b <= a) /\ \A h \in D : h <= a => h <= b
        BY <3>1, <4>1
      <4>4. QED
        BY <4>2, <4>3
    <3>2. i < j \/ j < i
      BY <2>3
    <3>3. QED
      BY <3>1, <3>2
  <2>4. QED
    BY <2>1, <2>2, <2>3 DEF Chain
<1>4. ASSUME NEW k \in 1..Cardinality(D) PROVE \E j \in D : Cardinality(up[j]) = k
  BY ONLY <1>3, k \in 1..Cardinality(D), ChainPlaces
<1>5. ASSUME NEW k \in 1..Cardinality(D)
      PROVE  NthOf(D, k) \in D /\ Cardinality(up[NthOf(D, k)]) = k
  <2>1. PICK j \in D : Cardinality(up[j]) = k
    BY <1>4
  <2>2. Cardinality({i \in D : i <= j}) = k
    BY <1>2, <2>1
  <2>3. NthOf(D, k) \in D /\ Cardinality({i \in D : i <= NthOf(D, k)}) = k
    BY <2>2 DEF NthOf
  <2>4. QED
    BY <1>2, <2>3
<1>6. ASSUME NEW j \in D PROVE \E k \in 1..Cardinality(D) : NthOf(D, k) = j
  <2>1. PICK k \in 1..Cardinality(D) : Cardinality(up[j]) = k
    BY <1>3, ChainOrder
  <2>2. NthOf(D, k) = j
    BY <1>3, <1>5, <2>1, ChainOrder
  <2>3. QED
    BY <2>2
<1>7. QED
  BY <1>5, <1>6

\* merge makes a Map, which has the ids of both and no other.
THEOREM MergedEntries ==
  ASSUME NEW e \in Entries, NEW m \in Entries
  PROVE  /\ Merged(e, m) \in Entries /\ Ids(Merged(e, m)) = Ids(e) \cup Ids(m)
         /\ S!ToSet(Merged(e, m)) \subseteq S!ToSet(e) \cup S!ToSet(m)
<1>1. /\ e \in Elements /\ \A i, j \in 1..Len(e) : e[i].id = e[j].id => i = j
      /\ m \in Elements /\ \A i, j \in 1..Len(m) : m[i].id = m[j].id => i = j
      /\ Len(e) \in Nat /\ Len(m) \in Nat
  BY EntriesAre, ElementsType
<1>2. PICK D, c : D = NewEntries(e, m) /\ c = Cardinality(D)
  OBVIOUS
<1>3. D = {j \in 1..Len(m) : m[j].id \notin Ids(e)}
  BY <1>1, <1>2, ElementsType DEF NewEntries
<1>4. D \subseteq Nat /\ IsFiniteSet(D) /\ c \in Nat
  <2>1. D \in SUBSET (1..Len(m)) /\ IsFiniteSet(1..Len(m))
    BY <1>1, <1>3, Sorts DEF Chain
  <2>2. IsFiniteSet(D)
    BY <2>1, FS_Subset
  <2>3. QED
    BY <1>2, <2>1, <2>2, FS_CardinalityType
<1>5. /\ \A k \in 1..c : NthOf(D, k) \in D
      /\ \A h, k \in 1..c : NthOf(D, h) = NthOf(D, k) => h = k
      /\ \A j \in D : \E k \in 1..c : NthOf(D, k) = j
  BY <1>2, <1>4, EntryOrder
<1>6. PICK t : t = [k \in 1..c |-> m[NthOf(D, k)]]
  OBVIOUS
<1>7. /\ t \in Elements /\ Len(t) = c
      /\ \A k \in 1..c : t[k] = m[NthOf(D, k)] /\ NthOf(D, k) \in 1..Len(m)
      /\ \A k \in 1..c : t[k].id \notin Ids(e)
  <2>1. \A k \in 1..c : NthOf(D, k) \in 1..Len(m) /\ m[NthOf(D, k)].id \notin Ids(e)
    BY <1>3, <1>5
  <2>2. \A k \in 1..c : m[NthOf(D, k)] \in [id : Id, position : Position]
    BY <1>1, <2>1, ElementsType
  <2>3. t \in [1..c -> [id : Id, position : Position]]
    BY <1>6, <2>2
  <2>4. t \in Elements /\ Len(t) = c
    BY <1>4, <2>3, FunctionSeq DEF Elements
  <2>5. QED
    BY <1>6, <2>1, <2>4
<1>8. PICK a : a = e \o t
  OBVIOUS
<1>9. /\ a \in Elements /\ Len(a) = Len(e) + c
      /\ \A i \in 1..(Len(e) + c) : a[i] = IF i <= Len(e) THEN e[i] ELSE t[i - Len(e)]
  <2>1. /\ a \in Elements /\ Len(a) = Len(e) + Len(t)
        /\ \A i \in 1..(Len(e) + Len(t)) : a[i] = IF i <= Len(e) THEN e[i] ELSE t[i - Len(e)]
    <3>1. e \in Elements /\ t \in Elements
      BY <1>1, <1>7
    <3>2. QED
      BY <1>8, <3>1, ConcatProperties DEF Elements
  <2>2. QED
    BY <1>7, <2>1
<1>10. a = Merged(e, m)
  BY <1>2, <1>6, <1>8 DEF Merged
\* An entry of the result is one of the first or one of the others.
<1>11. ASSUME NEW i \in 1..Len(a)
       PROVE  \/ i \in 1..Len(e) /\ a[i] = e[i] /\ a[i].id \in Ids(e)
              \/ i - Len(e) \in 1..c /\ a[i] = t[i - Len(e)] /\ a[i].id \notin Ids(e)
  <2>1. CASE i <= Len(e)
    <3>1. i \in 1..Len(e) /\ i \in 1..(Len(e) + c)
      BY <1>1, <1>4, <1>9, <2>1
    <3>2. a[i] = e[i]
      BY <1>9, <2>1, <3>1
    <3>3. QED
      BY <1>1, <3>1, <3>2, IdsAre
  <2>2. CASE ~ (i <= Len(e))
    <3>1. i - Len(e) \in 1..c /\ i \in 1..(Len(e) + c)
      BY <1>1, <1>4, <1>9, <2>2
    <3>2. a[i] = t[i - Len(e)]
      BY <1>9, <2>2, <3>1
    <3>3. QED
      BY <1>7, <3>1, <3>2
  <2>3. QED
    BY <2>1, <2>2
<1>12. \A h, k \in 1..c : t[h].id = t[k].id => h = k
  BY <1>1, <1>5, <1>7
<1>13. ASSUME NEW i \in 1..Len(a), NEW j \in 1..Len(a), a[i].id = a[j].id PROVE i = j
  <2>1. CASE a[i].id \in Ids(e)
    BY <1>1, <1>11, <1>13, <2>1
  <2>2. CASE a[i].id \notin Ids(e)
    <3>1. PICK h, k \in 1..c : /\ h = i - Len(e) /\ k = j - Len(e)
                               /\ a[i] = t[h] /\ a[j] = t[k]
      BY <1>11, <1>13, <2>2
    <3>2. h = k
      BY <1>12, <1>13, <3>1
    <3>3. i \in Nat /\ j \in Nat
      BY <1>1, <1>4, <1>9
    <3>4. QED
      BY <1>1, <3>1, <3>2, <3>3
  <2>3. QED
    BY <2>1, <2>2
<1>14. Ids(a) \subseteq Ids(e) \cup Ids(m)
  <2> SUFFICES ASSUME NEW i \in 1..Len(a) PROVE a[i].id \in Ids(e) \cup Ids(m)
    BY <1>9, IdsAre
  <2>1. CASE a[i].id \in Ids(e)
    BY <2>1
  <2>2. CASE a[i].id \notin Ids(e)
    <3>1. PICK k \in 1..c : a[i] = t[k]
      BY <1>11, <2>2
    <3>2. QED
      BY <1>1, <1>7, <3>1, IdsAre
  <2>3. QED
    BY <2>1, <2>2
<1>15. Ids(e) \subseteq Ids(a)
  <2> SUFFICES ASSUME NEW i \in 1..Len(e) PROVE e[i].id \in Ids(a)
    BY <1>1, IdsAre
  <2>1. i \in 1..Len(a) /\ a[i] = e[i]
    BY <1>1, <1>4, <1>9
  <2>2. QED
    BY <1>9, <2>1, IdsAre
<1>16. Ids(m) \subseteq Ids(a)
  <2> SUFFICES ASSUME NEW j \in 1..Len(m), m[j].id \notin Ids(e) PROVE m[j].id \in Ids(a)
    BY <1>1, <1>15, IdsAre
  <2>1. PICK k \in 1..c : NthOf(D, k) = j
    BY <1>3, <1>5
  <2>2. PICK i : i = Len(e) + k
    OBVIOUS
  <2>3. i \in 1..Len(a) /\ i \in 1..(Len(e) + c) /\ ~ (i <= Len(e)) /\ i - Len(e) = k
    BY <1>1, <1>4, <1>9, <2>2
  <2>4. a[i] = m[j]
    BY <1>7, <1>9, <2>1, <2>3
  <2>5. QED
    BY <1>9, <2>3, <2>4, IdsAre
<1>17. S!ToSet(a) \subseteq S!ToSet(e) \cup S!ToSet(m)
  <2> SUFFICES ASSUME NEW i \in 1..Len(a) PROVE a[i] \in S!ToSet(e) \cup S!ToSet(m)
    BY <1>9, CellsAre
  <2>1. CASE a[i].id \in Ids(e)
    BY <1>1, <1>11, <2>1, CellsAre
  <2>2. CASE a[i].id \notin Ids(e)
    <3>1. PICK k \in 1..c : a[i] = t[k]
      BY <1>11, <2>2
    <3>2. QED
      BY <1>1, <1>7, <3>1, CellsAre
  <2>3. QED
    BY <2>1, <2>2
<1>18. QED
  BY <1>9, <1>10, <1>13, <1>14, <1>15, <1>16, <1>17, EntriesAre
-----------------------------------------------------------------------------
(* Two Maps of the same elements.                                           *)

\* Without equal positions only the entry itself sorts up to it and is not before.
LEMMA UpToWithoutTies ==
  ASSUME NEW e \in Elements, NEW i \in 1..Len(e), NEW j \in 1..Len(e),
         \A h, k \in 1..Len(e) : e[h].position = e[k].position => h = k
  PROVE  j \in UpTo(e)[i] <=> Before(e[j].position, e[i].position) \/ j = i
<1>1. i <= i
  BY ElementsType
<1>2. QED
  BY <1>1, UpToAt

LEMMA SameElementsSort ==
  ASSUME NEW e \in Entries, NEW f \in Entries, S!ToSet(e) = S!ToSet(f),
         \A i, j \in 1..Len(e) : e[i].position = e[j].position => i = j
  PROVE  ToArray(e) = ToArray(f)
<1>1. /\ e \in Elements /\ \A i, j \in 1..Len(e) : e[i].id = e[j].id => i = j
      /\ f \in Elements /\ \A i, j \in 1..Len(f) : f[i].id = f[j].id => i = j
  BY EntriesAre
<1>2. PICK p : p = [i \in 1..Len(e) |-> CHOOSE j \in 1..Len(f) : f[j] = e[i]]
  OBVIOUS
<1>3. \A i \in 1..Len(e) : p[i] \in 1..Len(f) /\ f[p[i]] = e[i]
  <2> SUFFICES ASSUME NEW i \in 1..Len(e) PROVE p[i] \in 1..Len(f) /\ f[p[i]] = e[i]
    OBVIOUS
  <2>1. e[i] \in {f[j] : j \in 1..Len(f)}
    <3>1. e[i] \in S!ToSet(e)
      BY <1>1, CellsAre
    <3>2. QED
      BY <1>1, <3>1, CellsAre
  <2>2. QED
    BY <1>2, <2>1
<1>4. \A i, j \in 1..Len(e) : p[i] = p[j] => i = j
  BY <1>1, <1>3
<1>5. \A j \in 1..Len(f) : \E i \in 1..Len(e) : p[i] = j
  <2> SUFFICES ASSUME NEW j \in 1..Len(f) PROVE \E i \in 1..Len(e) : p[i] = j
    OBVIOUS
  <2>1. PICK i \in 1..Len(e) : e[i] = f[j]
    <3>1. f[j] \in S!ToSet(f)
      BY <1>1, CellsAre
    <3>2. f[j] \in {e[i] : i \in 1..Len(e)}
      BY <1>1, <3>1, CellsAre
    <3>3. QED
      BY <3>2
  <2>2. QED
    BY <1>1, <1>3, <2>1
<1>6. Len(f) = Len(e)
  <2>1. p \in Bijection(1..Len(e), 1..Len(f))
    BY <1>2, <1>3, <1>4, <1>5 DEF Bijection, Injection, IsInjective, Surjection
  <2>2. IsFiniteSet(1..Len(e))
    BY <1>1, Sorts DEF Chain
  <2>3. Cardinality(1..Len(f)) = Cardinality(1..Len(e))
    BY <2>1, <2>2, FS_Bijection DEF ExistsBijection
  <2>4. QED
    BY <1>1, <2>3, Sorts
<1>7. \A h, k \in 1..Len(f) : f[h].position = f[k].position => h = k
  <2> SUFFICES ASSUME NEW h \in 1..Len(f), NEW k \in 1..Len(f), f[h].position = f[k].position
               PROVE  h = k
    OBVIOUS
  <2>1. PICK i, j \in 1..Len(e) : p[i] = h /\ p[j] = k
    BY <1>5
  <2>2. QED
    BY <1>3, <2>1
\* What sorts up to an entry is the same, entry by entry.
<1>8. ASSUME NEW i \in 1..Len(e) PROVE Place(f, p[i]) = Place(e, i)
  <2>1. PICK U, V : U = UpTo(e)[i] /\ V = UpTo(f)[p[i]]
    OBVIOUS
  <2>2. U \subseteq 1..Len(e) /\ V \subseteq 1..Len(f)
    BY <1>3, <2>1 DEF UpTo
  <2>3. ASSUME NEW j \in 1..Len(e) PROVE j \in U <=> p[j] \in V
    <3>1. j \in U <=> Before(e[j].position, e[i].position) \/ j = i
      BY <1>1, <2>1, UpToWithoutTies
    <3>2. p[j] \in V <=> Before(f[p[j]].position, f[p[i]].position) \/ p[j] = p[i]
      BY <1>1, <1>3, <1>7, <2>1, UpToWithoutTies
    <3>3. QED
      BY <1>3, <1>4, <3>1, <3>2
  <2>4. PICK g : g = [j \in U |-> p[j]]
    OBVIOUS
  <2>5. g \in Bijection(U, V)
    <3>1. \A j \in U : g[j] = p[j] /\ g[j] \in V
      BY <2>2, <2>3, <2>4
    <3>2. \A j, k \in U : g[j] = g[k] => j = k
      BY <1>4, <2>2, <3>1
    <3>3. \A k \in V : \E j \in U : g[j] = k
      BY <1>5, <2>2, <2>3, <3>1
    <3>4. QED
      BY <2>4, <3>1, <3>2, <3>3 DEF Bijection, Injection, IsInjective, Surjection
  <2>6. IsFiniteSet(U)
    <3>1. IsFiniteSet(1..Len(e))
      BY <1>1, Sorts DEF Chain
    <3>2. QED
      BY <2>2, <3>1, FS_Subset
  <2>7. Cardinality(V) = Cardinality(U)
    BY <2>5, <2>6, FS_Bijection DEF ExistsBijection
  <2>8. QED
    BY <1>1, <1>3, <2>1, <2>7, PlaceIs
<1>9. ASSUME NEW k \in 1..Len(e) PROVE ToArray(f)[k] = ToArray(e)[k]
  <2>1. PICK i \in 1..Len(e) : i = EntryAt(e, k) /\ Place(e, i) = k
    BY <1>1, Places
  <2>2. EntryAt(f, k) = p[i]
    BY <1>1, <1>3, <1>8, <2>1, Places
  <2>3. QED
    BY <1>1, <1>3, <1>6, <2>1, <2>2, ToArrayFacts
<1>10. /\ ToArray(e) \in Seq(Id) /\ Len(ToArray(e)) = Len(e)
       /\ ToArray(f) \in Seq(Id) /\ Len(ToArray(f)) = Len(e)
  BY <1>1, <1>6, ToArrayFacts
<1>11. QED
  BY <1>9, <1>10, SeqEqual

-----------------------------------------------------------------------------
(* The array at the start: Grown is defined by recursion on the length.     *)

\* The first elements, g[i] the array after i of them.
Grows(g, n) ==
  g = [i \in 0..n |-> IF i = 0 THEN <<>> ELSE InsertedAt(g[i - 1], i - 1, <<Author, i>>)]

LEMMA GrowsAt ==
  ASSUME NEW g, NEW n \in Nat, Grows(g, n), NEW i \in 0..n
  PROVE  g[i] = IF i = 0 THEN <<>> ELSE InsertedAt(g[i - 1], i - 1, <<Author, i>>)
BY DEF Grows

LEMMA GrowsAgree ==
  ASSUME NEW g, NEW m \in Nat, Grows(g, m), NEW h, NEW n \in Nat, Grows(h, n),
         NEW i \in Nat, i <= m, i <= n
  PROVE  g[i] = h[i]
<1> DEFINE T == {k \in Nat : k <= m /\ k <= n /\ g[k] # h[k]}
<1> SUFFICES ASSUME T # {} PROVE FALSE
  OBVIOUS
<1>1. PICK k \in T : \A l \in T : k <= l
  <2>1. T \subseteq Nat
    OBVIOUS
  <2> HIDE DEF T
  <2>2. QED
    BY <2>1, Least
<1>2. k \in Nat /\ k \in 0..m /\ k \in 0..n /\ g[k] # h[k]
  OBVIOUS
<1>3. CASE k = 0
  BY <1>2, <1>3, GrowsAt
<1>4. CASE k # 0
  <2>1. k - 1 \in Nat /\ k - 1 <= m /\ k - 1 <= n /\ ~ (k <= k - 1)
    BY <1>2, <1>4
  <2>2. k - 1 \notin T
    BY <1>1, <2>1
  <2>3. g[k - 1] = h[k - 1]
    BY <2>1, <2>2
  <2>4. /\ g[k] = InsertedAt(g[k - 1], k - 1, <<Author, k>>)
        /\ h[k] = InsertedAt(h[k - 1], k - 1, <<Author, k>>)
    BY <1>2, <1>4, GrowsAt
  <2>5. QED
    BY <1>2, <2>3, <2>4
<1>5. QED
  BY <1>3, <1>4

LEMMA GrowsExists == \A n \in Nat : \E g : Grows(g, n)
<1> DEFINE T == {n \in Nat : ~ \E g : Grows(g, n)}
<1> SUFFICES ASSUME T # {} PROVE FALSE
  OBVIOUS
<1>1. PICK n \in T : \A l \in T : n <= l
  <2>1. T \subseteq Nat
    OBVIOUS
  <2> HIDE DEF T
  <2>2. QED
    BY <2>1, Least
<1>2. n \in Nat /\ ~ \E g : Grows(g, n)
  OBVIOUS
<1>3. CASE n = 0
  <2>1. PICK g : g = [i \in 0..n |-> <<>>]
    OBVIOUS
  <2>2. g = [i \in 0..n |-> IF i = 0 THEN <<>> ELSE InsertedAt(g[i - 1], i - 1, <<Author, i>>)]
    <3>1. \A i \in 0..n : i = 0
      BY <1>3
    <3>2. QED
      BY <2>1, <3>1
  <2>3. QED
    BY <1>2, <2>2 DEF Grows
<1>4. CASE n # 0
  <2>1. PICK m \in Nat : m = n - 1
    BY <1>2, <1>4
  <2>2. m \notin T
    BY <1>1, <1>2, <2>1
  <2>3. PICK h : Grows(h, m)
    BY <2>2
  <2>4. PICK x : x = InsertedAt(h[m], m, <<Author, n>>)
    OBVIOUS
  <2>5. PICK g : g = [i \in 0..n |-> IF i = n THEN x ELSE h[i]]
    OBVIOUS
  <2>6. \A i \in 0..n : g[i] = IF i = n THEN x ELSE h[i]
    BY <2>5
  <2>7. ASSUME NEW i \in 0..n
        PROVE  g[i] = IF i = 0 THEN <<>> ELSE InsertedAt(g[i - 1], i - 1, <<Author, i>>)
    <3>1. CASE i = n
      <4>1. i # 0 /\ i - 1 = m /\ m \in 0..n /\ m # n
        BY <1>2, <1>4, <2>1, <3>1
      <4>2. g[m] = h[m]
        BY <2>6, <4>1
      <4>3. g[i] = x
        BY <2>6, <3>1
      <4>4. QED
        BY <2>4, <3>1, <4>1, <4>2, <4>3
    <3>2. CASE i # n /\ i = 0
      <4>1. g[i] = h[i] /\ i \in 0..m
        BY <2>1, <2>6, <3>2
      <4>2. QED
        BY <2>3, <3>2, <4>1, GrowsAt
    <3>3. CASE i # n /\ i # 0
      <4>1. i \in 0..m /\ i - 1 \in 0..n /\ i - 1 # n
        BY <1>2, <2>1, <3>3
      <4>2. g[i] = h[i] /\ g[i - 1] = h[i - 1]
        BY <2>6, <3>3, <4>1
      <4>3. h[i] = InsertedAt(h[i - 1], i - 1, <<Author, i>>)
        BY <2>3, <3>3, <4>1, GrowsAt
      <4>4. QED
        BY <3>3, <4>2, <4>3
    <3>4. QED
      BY <3>1, <3>2, <3>3
  <2>8. g = [i \in 0..n |-> g[i]]
    BY <2>5
  <2>9. g = [i \in 0..n |-> IF i = 0 THEN <<>> ELSE InsertedAt(g[i - 1], i - 1, <<Author, i>>)]
    BY <2>7, <2>8
  <2>10. QED
    BY <1>2, <2>9 DEF Grows
<1>5. QED
  BY <1>3, <1>4

LEMMA GrownIs ==
  ASSUME NEW n \in Nat
  PROVE  Grown[n] = IF n = 0 THEN <<>> ELSE InsertedAt(Grown[n - 1], n - 1, <<Author, n>>)
<1>1. PICK G : G = [k \in Nat |-> CHOOSE g : Grows(g, k)]
  OBVIOUS
<1>2. \A k \in Nat : Grows(G[k], k)
  BY <1>1, GrowsExists
<1>3. PICK f : f = [k \in Nat |-> G[k][k]]
  OBVIOUS
<1>4. ASSUME NEW k \in Nat
      PROVE  f[k] = IF k = 0 THEN <<>> ELSE InsertedAt(f[k - 1], k - 1, <<Author, k>>)
  <2>1. f[k] = G[k][k] /\ k \in 0..k
    BY <1>3
  <2>2. CASE k = 0
    BY <1>2, <2>1, <2>2, GrowsAt
  <2>3. CASE k # 0
    <3>1. PICK j \in Nat : j = k - 1
      BY <2>3
    <3>2. j <= k /\ j <= j
      BY <3>1
    <3>3. G[k][j] = G[j][j]
      BY <1>2, <3>2, GrowsAgree
    <3>4. f[j] = G[j][j]
      BY <1>3
    <3>5. G[k][k] = InsertedAt(G[k][j], j, <<Author, k>>)
      BY <1>2, <2>1, <2>3, <3>1, GrowsAt
    <3>6. QED
      BY <2>1, <2>3, <3>1, <3>3, <3>4, <3>5
  <2>4. QED
    BY <2>2, <2>3
<1>5. f = [k \in Nat |-> f[k]]
  BY <1>3
<1>6. f = [k \in Nat |-> IF k = 0 THEN <<>> ELSE InsertedAt(f[k - 1], k - 1, <<Author, k>>)]
  BY <1>4, <1>5
<1>7. Grown = [k \in Nat |-> IF k = 0 THEN <<>> ELSE InsertedAt(Grown[k - 1], k - 1, <<Author, k>>)]
  BY <1>6 DEF Grown
<1>8. QED
  BY <1>7

LEMMA GrownEntries ==
  ASSUME NEW n \in Nat
  PROVE  /\ Grown[n] \in Entries /\ Len(Grown[n]) = n
         /\ Ids(Grown[n]) \subseteq {<<Author, k>> : k \in 1..n}
<1> DEFINE Good(k) == /\ Grown[k] \in Entries /\ Len(Grown[k]) = k
                      /\ Ids(Grown[k]) \subseteq {<<Author, l>> : l \in 1..k}
           T == {k \in Nat : ~ Good(k)}
<1> SUFFICES ASSUME T # {} PROVE FALSE
  OBVIOUS
<1>1. PICK k \in T : \A l \in T : k <= l
  <2>1. T \subseteq Nat
    OBVIOUS
  <2> HIDE DEF T
  <2>2. QED
    BY <2>1, Least
<1>2. k \in Nat /\ ~ Good(k)
  OBVIOUS
<1>3. CASE k = 0
  <2>1. Grown[k] = <<>>
    BY <1>2, <1>3, GrownIs
  <2>2. <<>> \in Elements /\ Len(<<>>) = 0
    BY EmptySeq DEF Elements
  <2>3. <<>> \in Entries
    BY <2>2, EntriesAre
  <2>4. Ids(<<>>) = {}
    BY <2>2, IdsAre
  <2>5. QED
    BY <1>2, <1>3, <2>1, <2>2, <2>3, <2>4
<1>4. CASE k # 0
  <2>1. PICK j \in Nat : j = k - 1
    BY <1>2, <1>4
  <2>2. j \notin T
    BY <1>1, <1>2, <2>1
  <2>3. PICK e, id : e = Grown[j] /\ id = <<Author, k>>
    OBVIOUS
  <2>4. e \in Entries /\ Len(e) = j /\ Ids(e) \subseteq {<<Author, l>> : l \in 1..j}
    BY <2>2, <2>3
  <2>5. id \in Id /\ id \notin Ids(e) /\ j \in 0..Len(e)
    BY <1>2, <2>1, <2>3, <2>4, AuthorAssumption DEF Id
  <2>6. Grown[k] = InsertedAt(e, j, id)
    BY <1>2, <1>4, <2>1, <2>3, GrownIs
  <2>7. /\ InsertedAt(e, j, id) \in Entries
        /\ Ids(InsertedAt(e, j, id)) \subseteq Ids(e) \cup {id}
        /\ Len(InsertedAt(e, j, id)) = Len(e) + 1
    BY <2>4, <2>5, InsertedEntries
  <2>8. Ids(e) \cup {id} \subseteq {<<Author, l>> : l \in 1..k}
    BY <1>2, <2>1, <2>3, <2>4
  <2>9. QED
    BY <1>2, <2>1, <2>4, <2>6, <2>7, <2>8
<1>5. QED
  BY <1>3, <1>4
-----------------------------------------------------------------------------
(* The invariant.                                                           *)

\* The ids of a Map have numbers their replicas have used.
Used(e, numbers) == \A id \in Ids(e) : id[2] <= numbers[id[1]]

\* Nothing anywhere has the number a replica takes next.
IdsUsed ==
  /\ \A r \in Replica : Used(array[r], made)
  /\ \A m \in sent : Used(m, made)

\* Every element there is.
Everywhere == UNION ({S!ToSet(array[r]) : r \in Replica} \cup {S!ToSet(m) : m \in sent})

\* No id was given twice: what has one id is one element, wherever it is held.
OneElementPerId == \A x, y \in Everywhere : x.id = y.id => x = y

Inv == TypeOK /\ IdsUsed /\ OneElementPerId

LEMMA InvInit == Init => Inv
<1> SUFFICES ASSUME Init PROVE Inv
  OBVIOUS
<1>1. PICK n \in Lengths : /\ array = [r \in Replica |-> Grown[n]]
                           /\ made = [r \in Replica |-> IF r = Author THEN n ELSE 0]
  BY DEF Init
<1>2. n \in Nat /\ steps = 0 /\ sent = {}
  BY LengthAssumption DEF Init
<1>3. /\ Grown[n] \in Entries
      /\ Ids(Grown[n]) \subseteq {<<Author, k>> : k \in 1..n}
  BY <1>2, GrownEntries
<1>4. TypeOK
  BY <1>1, <1>2, <1>3 DEF TypeOK
<1>5. Used(Grown[n], made)
  BY <1>1, <1>2, <1>3, AuthorAssumption DEF Used
<1>6. OneElementPerId
  <2>1. Everywhere = S!ToSet(Grown[n])
    BY <1>1, <1>2, AuthorAssumption DEF Everywhere
  <2>2. PICK e : e = Grown[n]
    OBVIOUS
  <2>3. e \in Elements /\ \A i, j \in 1..Len(e) : e[i].id = e[j].id => i = j
    BY <1>3, <2>2, EntriesAre
  <2>4. Everywhere = {e[i] : i \in 1..Len(e)}
    BY <2>1, <2>2, <2>3, CellsAre
  <2>5. QED
    BY <2>3, <2>4 DEF OneElementPerId
<1>7. QED
  BY <1>1, <1>2, <1>4, <1>5, <1>6 DEF Inv, IdsUsed

LEMMA UsedMore ==
  ASSUME NEW e \in Entries, NEW old \in [Replica -> Nat], NEW new \in [Replica -> Nat],
         Used(e, old), \A r \in Replica : old[r] <= new[r]
  PROVE  Used(e, new)
<1> SUFFICES ASSUME NEW id \in Ids(e) PROVE id[2] <= new[id[1]]
  BY DEF Used
<1>1. id \in Id
  BY EntriesAre, IdsAre
<1>2. id[1] \in Replica /\ id[2] \in Nat
  BY <1>1 DEF Id
<1>3. id[2] <= old[id[1]] /\ old[id[1]] <= new[id[1]]
  BY <1>2 DEF Used
<1>4. old[id[1]] \in Nat /\ new[id[1]] \in Nat
  BY <1>2
<1>5. QED
  BY <1>2, <1>3, <1>4

\* The elements a step may leave.
LEMMA EverywhereGrows ==
  ASSUME TypeOK, NEW r \in Replica, NEW a, NEW X, S!ToSet(a) \subseteq Everywhere \cup X,
         array' = [array EXCEPT ![r] = a], sent' = sent
  PROVE  Everywhere' \subseteq Everywhere \cup X
<1>1. array \in [Replica -> Entries]
  BY DEF TypeOK
<1>2. \A s \in Replica : array'[s] = IF s = r THEN a ELSE array[s]
  BY <1>1
<1>3. \A s \in Replica : S!ToSet(array[s]) \subseteq Everywhere
  BY DEF Everywhere
<1>4. \A m \in sent : S!ToSet(m) \subseteq Everywhere
  BY DEF Everywhere
<1>5. SUFFICES ASSUME NEW x \in Everywhere' PROVE x \in Everywhere \cup X
  OBVIOUS
<1>6. \/ \E s \in Replica : x \in S!ToSet(array'[s])
      \/ \E m \in sent' : x \in S!ToSet(m)
  BY DEF Everywhere, S!ToSet
<1>7. CASE \E s \in Replica : x \in S!ToSet(array'[s])
  <2>1. PICK s \in Replica : x \in S!ToSet(array'[s])
    BY <1>7
  <2>2. CASE s = r
    BY <1>2, <2>1, <2>2 DEF S!ToSet
  <2>3. CASE s # r
    BY <1>2, <1>3, <2>1, <2>3 DEF S!ToSet
  <2>4. QED
    BY <2>2, <2>3
<1>8. CASE \E m \in sent' : x \in S!ToSet(m)
  BY <1>4, <1>8
<1>9. QED
  BY <1>6, <1>7, <1>8

LEMMA InsertAtInv ==
  ASSUME Inv, NEW r \in Replica, NEW index, InsertAt(r, index)
  PROVE  Inv'
<1>1. PICK e, k, a, id : /\ e = array[r] /\ k = made[r] + 1 /\ id = <<r, k>>
                         /\ a = InsertedAt(e, index, id)
  OBVIOUS
<1>2. /\ array \in [Replica -> Entries] /\ made \in [Replica -> Nat]
      /\ steps \in Nat /\ sent \subseteq Entries
      /\ e \in Entries /\ k \in Nat
  BY <1>1 DEF Inv, TypeOK
<1>3. /\ index \in 0..Len(e) /\ array' = [array EXCEPT ![r] = a]
      /\ made' = [made EXCEPT ![r] = k] /\ steps' = steps + 1 /\ sent' = sent
  BY <1>1, <1>2 DEF InsertAt
<1>4. id \in Id /\ id \notin Ids(e)
  <2>1. id \in Id /\ id[1] = r /\ id[2] = k
    BY <1>1, <1>2 DEF Id
  <2>2. ~ (k <= made[r])
    BY <1>1, <1>2
  <2>3. Used(e, made)
    BY <1>1 DEF Inv, IdsUsed
  <2>4. QED
    BY <2>1, <2>2, <2>3 DEF Used
<1>5. /\ a \in Entries /\ Ids(a) \subseteq Ids(e) \cup {id}
      /\ \E x : x.id = id /\ S!ToSet(a) \subseteq S!ToSet(e) \cup {x}
  <2>1. /\ InsertedAt(e, index, id) \in Entries
        /\ Ids(InsertedAt(e, index, id)) \subseteq Ids(e) \cup {id}
        /\ \E x : x.id = id /\ S!ToSet(InsertedAt(e, index, id)) \subseteq S!ToSet(e) \cup {x}
    BY <1>2, <1>3, <1>4, InsertedEntries
  <2>2. QED
    BY <1>1, <2>1
<1>6. TypeOK'
  BY <1>2, <1>3, <1>5 DEF TypeOK
<1>7. /\ made' \in [Replica -> Nat] /\ made'[r] = k
      /\ \A s \in Replica : made[s] <= made'[s]
  BY <1>1, <1>2, <1>3
<1>8. ASSUME NEW m \in Entries, Used(m, made) PROVE Used(m, made')
  <2>1. PICK new : new = made'
    OBVIOUS
  <2>2. Used(m, new)
    BY <1>2, <1>7, <1>8, <2>1, UsedMore
  <2>3. QED
    BY <2>1, <2>2
<1>9. Used(a, made')
  <2>1. Used(e, made')
    BY <1>1, <1>2, <1>8 DEF Inv, IdsUsed
  <2>2. id[2] <= made'[id[1]]
    BY <1>1, <1>2, <1>7
  <2>3. QED
    BY <1>5, <2>1, <2>2 DEF Used
<1>10. ASSUME NEW s \in Replica PROVE Used(array'[s], made')
  BY <1>2, <1>3, <1>8, <1>9 DEF Inv, IdsUsed
<1>11. ASSUME NEW m \in sent' PROVE Used(m, made')
  BY <1>2, <1>3, <1>8 DEF Inv, IdsUsed
<1>12. IdsUsed'
  BY <1>10, <1>11 DEF IdsUsed, Used
<1>13. OneElementPerId'
  <2>1. PICK x : x.id = id /\ S!ToSet(a) \subseteq S!ToSet(e) \cup {x}
    BY <1>5
  <2>2. S!ToSet(e) \subseteq Everywhere /\ TypeOK /\ OneElementPerId
    BY <1>1 DEF Everywhere, Inv
  <2>3. Everywhere' \subseteq Everywhere \cup {x}
    BY <1>3, <2>1, <2>2, EverywhereGrows
  <2>4. ASSUME NEW y \in Everywhere PROVE y.id # id
    <3>1. PICK m \in Entries : y \in S!ToSet(m) /\ Used(m, made)
      BY <1>2 DEF Everywhere, Inv, IdsUsed
    <3>2. y.id \in Ids(m)
      BY <3>1 DEF Ids
    <3>3. id[1] = r /\ id[2] = k /\ ~ (k <= made[r])
      BY <1>1, <1>2
    <3>4. QED
      BY <3>1, <3>2, <3>3 DEF Used
  <2>5. ASSUME NEW y \in Everywhere', NEW z \in Everywhere', y.id = z.id PROVE y = z
    BY <2>1, <2>2, <2>3, <2>4, <2>5 DEF OneElementPerId
  <2>6. QED
    BY <2>5 DEF OneElementPerId
<1>14. QED
  BY <1>6, <1>12, <1>13 DEF Inv

LEMMA CopyInv ==
  ASSUME Inv, NEW r \in Replica, NEW a \in Entries, Used(a, made),
         S!ToSet(a) \subseteq Everywhere,
         array' = [array EXCEPT ![r] = a], made' = made, sent' = sent, steps' \in Nat
  PROVE  Inv'
<1>1. array \in [Replica -> Entries] /\ TypeOK
  BY DEF Inv, TypeOK
<1>2. TypeOK'
  BY <1>1 DEF TypeOK
<1>3. ASSUME NEW s \in Replica PROVE Used(array'[s], made')
  BY <1>1 DEF Inv, IdsUsed
<1>4. ASSUME NEW m \in sent' PROVE Used(m, made')
  BY DEF Inv, IdsUsed
<1>5. IdsUsed'
  BY <1>3, <1>4 DEF IdsUsed, Used
<1>6. OneElementPerId'
  <2>1. PICK X : X = {}
    OBVIOUS
  <2>2. Everywhere' \subseteq Everywhere \cup X
    BY <1>1, <2>1, EverywhereGrows
  <2>3. QED
    BY <2>1, <2>2 DEF OneElementPerId, Inv
<1>7. QED
  BY <1>2, <1>5, <1>6 DEF Inv

LEMMA RemoveAtInv ==
  ASSUME Inv, NEW r \in Replica, NEW index, RemoveAt(r, index)
  PROVE  Inv'
<1>1. PICK e, a : e = array[r] /\ a = RemovedAt(e, index)
  OBVIOUS
<1>2. e \in Entries /\ Used(e, made) /\ steps \in Nat
  BY <1>1 DEF Inv, TypeOK, IdsUsed
<1>3. /\ index \in 0..(Len(e) - 1) /\ array' = [array EXCEPT ![r] = a]
      /\ made' = made /\ sent' = sent /\ steps' = steps + 1
  BY <1>1 DEF RemoveAt
<1>4. /\ a \in Entries /\ Ids(a) \subseteq Ids(e)
      /\ S!ToSet(a) \subseteq Everywhere
  <2>1. /\ a \in Entries /\ Ids(a) \subseteq Ids(e)
        /\ S!ToSet(a) \subseteq S!ToSet(e)
    BY <1>1, <1>2, <1>3, RemovedEntries
  <2>2. S!ToSet(e) \subseteq Everywhere
    BY <1>1 DEF Everywhere
  <2>3. QED
    BY <2>1, <2>2
<1>5. Used(a, made) /\ steps' \in Nat
  BY <1>2, <1>3, <1>4 DEF Used
<1>6. QED
  BY <1>3, <1>4, <1>5, CopyInv

LEMMA SendInv ==
  ASSUME Inv, NEW r \in Replica, Send(r)
  PROVE  Inv'
<1>1. PICK e : e = array[r]
  OBVIOUS
<1>2. array' = array /\ made' = made /\ steps' = steps /\ sent' = sent \cup {e}
  BY <1>1 DEF Send
<1>3. e \in Entries /\ Used(e, made) /\ TypeOK
  BY <1>1 DEF Inv, TypeOK, IdsUsed
<1>4. TypeOK'
  BY <1>2, <1>3 DEF TypeOK
<1>5. ASSUME NEW s \in Replica PROVE Used(array'[s], made')
  BY <1>2 DEF Inv, IdsUsed
<1>6. ASSUME NEW m \in sent' PROVE Used(m, made')
  BY <1>2, <1>3 DEF Inv, IdsUsed
<1>7. IdsUsed'
  BY <1>5, <1>6 DEF IdsUsed, Used
<1>8. OneElementPerId'
  <2>1. Everywhere' = Everywhere
    BY <1>1, <1>2 DEF Everywhere
  <2>2. QED
    BY <2>1 DEF OneElementPerId, Inv
<1>9. QED
  BY <1>4, <1>7, <1>8 DEF Inv

LEMMA ReceiveInv ==
  ASSUME Inv, NEW r \in Replica, NEW m \in sent, Receive(r, m)
  PROVE  Inv'
<1>1. PICK e, a : e = array[r] /\ a = Merged(e, m)
  OBVIOUS
<1>2. e \in Entries /\ Used(e, made) /\ m \in Entries /\ Used(m, made) /\ steps \in Nat
  BY <1>1 DEF Inv, TypeOK, IdsUsed
<1>3. /\ array' = [array EXCEPT ![r] = a]
      /\ made' = made /\ sent' = sent /\ steps' = steps
  BY <1>1 DEF Receive
<1>4. /\ a \in Entries /\ Ids(a) = Ids(e) \cup Ids(m)
      /\ S!ToSet(a) \subseteq Everywhere
  <2>1. /\ a \in Entries /\ Ids(a) = Ids(e) \cup Ids(m)
        /\ S!ToSet(a) \subseteq S!ToSet(e) \cup S!ToSet(m)
    BY <1>1, <1>2, MergedEntries
  <2>2. S!ToSet(e) \subseteq Everywhere /\ S!ToSet(m) \subseteq Everywhere
    BY <1>1 DEF Everywhere
  <2>3. QED
    BY <2>1, <2>2
<1>5. Used(a, made)
  BY <1>2, <1>4 DEF Used
<1>6. QED
  BY <1>2, <1>3, <1>4, <1>5, CopyInv

LEMMA InvStep == Inv /\ [Next]_vars => Inv'
<1> SUFFICES ASSUME Inv, [Next]_vars PROVE Inv'
  OBVIOUS
<1>1. CASE UNCHANGED vars
  BY <1>1 DEF vars, Inv, TypeOK, IdsUsed, Used, OneElementPerId, Everywhere
<1>2. CASE Next
  BY <1>2, InsertAtInv, RemoveAtInv, SendInv, ReceiveInv DEF Next
<1>3. QED
  BY <1>1, <1>2

LEMMA AlwaysInv == Spec => []Inv
BY InvInit, InvStep, PTL DEF Spec

\* A copy stays a Map: whatever is inserted, removed, handed out and merged, in
\* any order and any number of times, no id is in a copy twice and every
\* position made is one.
THEOREM TypeCorrect == Spec => []TypeOK
<1>1. Inv => TypeOK
  BY DEF Inv
<1>2. QED
  BY <1>1, AlwaysInv, PTL

\* Replicas that hold the same elements hold the same array unless two of them
\* have equal positions: the order in which merges bring elements plays no part.
THEOREM OrderedByPosition == Spec => []SameArrayWithoutTies
<1>1. ASSUME Inv, NEW r \in Replica, NEW s \in Replica, Ids(array[r]) = Ids(array[s]),
             \A i, j \in DOMAIN array[r] :
               array[r][i].position = array[r][j].position => i = j
      PROVE  ToArray(array[r]) = ToArray(array[s])
  <2>1. PICK e, f : e = array[r] /\ f = array[s]
    OBVIOUS
  <2>2. e \in Entries /\ f \in Entries
    BY <1>1, <2>1 DEF Inv, TypeOK
  <2>3. e \in Elements /\ f \in Elements /\ DOMAIN e = 1..Len(e)
    BY <2>2, EntriesAre, ElementsType
  <2>4. S!ToSet(e) \subseteq Everywhere /\ S!ToSet(f) \subseteq Everywhere
    BY <2>1 DEF Everywhere
  <2>5. \A x \in S!ToSet(e), y \in S!ToSet(f) : x.id = y.id => x = y
    BY <1>1, <2>4 DEF Inv, OneElementPerId
  <2>6. \A x \in S!ToSet(e) : \E y \in S!ToSet(f) : y.id = x.id
    BY <1>1, <2>1 DEF Ids
  <2>7. \A y \in S!ToSet(f) : \E x \in S!ToSet(e) : x.id = y.id
    BY <1>1, <2>1 DEF Ids
  <2>8. S!ToSet(e) = S!ToSet(f)
    BY <2>5, <2>6, <2>7
  <2>9. QED
    BY <1>1, <2>1, <2>2, <2>3, <2>8, SameElementsSort
<1>2. Inv => SameArrayWithoutTies
  BY <1>1 DEF SameArrayWithoutTies
<1>3. QED
  BY <1>2, AlwaysInv, PTL

\* insertAt and append put the element where they are asked to, wherever the
\* neighbours' positions leave room.
THEOREM GoesWhereAsked == Spec => InsertsWhereAsked
<1> DEFINE A == \A r \in Replica : made'[r] # made[r] =>
                  \A index \in 0..Len(array[r]) :
                    InsertAt(r, index)
                      /\ HasRoom(PositionAt(array[r], index), PositionAt(array[r], index + 1))
                      => ToArray(array'[r]) =
                           S!InsertAt(ToArray(array[r]), index + 1, <<r, made'[r]>>)
<1>1. ASSUME Inv, NEW r \in Replica, NEW index \in 0..Len(array[r]), InsertAt(r, index),
             HasRoom(PositionAt(array[r], index), PositionAt(array[r], index + 1))
      PROVE  ToArray(array'[r]) = S!InsertAt(ToArray(array[r]), index + 1, <<r, made'[r]>>)
  <2>1. PICK e, k, id : e = array[r] /\ k = made[r] + 1 /\ id = <<r, k>>
    OBVIOUS
  <2>2. /\ array \in [Replica -> Entries] /\ made \in [Replica -> Nat]
        /\ e \in Elements /\ k \in Nat /\ id \in Id
    <3>1. array \in [Replica -> Entries] /\ made \in [Replica -> Nat]
      BY <1>1 DEF Inv, TypeOK
    <3>2. QED
      BY <2>1, <3>1, EntriesAre DEF Id
  <2>3. array'[r] = InsertedAt(e, index, id) /\ made'[r] = k
    BY <1>1, <2>1, <2>2 DEF InsertAt
  <2>4. ToArray(InsertedAt(e, index, id)) = S!InsertAt(ToArray(e), index + 1, id)
    BY <1>1, <2>1, <2>2, InsertedAtIndex
  <2>5. PICK b : b = array'[r]
    OBVIOUS
  <2>6. ToArray(b) = S!InsertAt(ToArray(e), index + 1, id)
    BY <2>3, <2>4, <2>5
  <2>7. QED
    BY <2>1, <2>3, <2>5, <2>6
<1>2. Inv => A
  BY <1>1
<1>3. Inv /\ [Next]_vars => [A]_vars
  BY <1>2
<1>4. QED
  BY <1>3, AlwaysInv, PTL DEF Spec, InsertsWhereAsked

=============================================================================
