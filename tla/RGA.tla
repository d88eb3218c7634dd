-------------------------------- MODULE RGA --------------------------------
(***************************************************************************)
(* The class RGA of src/src/Core.ts: an array whose elements carry a       *)
(* position, a string of numbers such as "0.2.5"; the array is what sorting *)
(* by position gives.  A new element gets a position made up from those of *)
(* its neighbours.  A position is modelled by the sequence of its numbers, *)
(* a Map by the sequence of its entries, and an element by its id, which   *)
(* is taken to be unique, and its position.                                *)
(***************************************************************************)
EXTENDS Integers, Sequences, FiniteSets

CONSTANTS
  Replica,     \* the replicas that hold a copy
  Author,      \* the replica that wrote the first elements
  Lengths,     \* how many elements it may have appended before the start
  None,        \* no neighbour (null)
  MaxUpdates,  \* bound: updates
  MaxSent      \* bound: snapshots

ASSUME AuthorAssumption == Author \in Replica
ASSUME LengthAssumption == Lengths \subseteq Nat
ASSUME BoundAssumption == {MaxUpdates, MaxSent} \subseteq Nat

S == INSTANCE SequencesExt

Id == Replica \X Nat
Position == Seq(Nat) \ {<<>>}
ASSUME NoneAssumption == None \notin Position

-----------------------------------------------------------------------------
(* Positions.                                                               *)

\* The rank of n < 100 in the order of decimal strings: 1, 10, 11, .., 19, 2.
Rank(n) == IF n < 10 THEN 11 * n ELSE 11 * (n \div 10) + 1 + (n % 10)

\* p.localeCompare(q) < 0: the dot sorts before the digits.
Before(p, q) ==
  \E i \in DOMAIN q :
    /\ i <= Len(p) + 1
    /\ \A j \in 1..(i - 1) : p[j] = q[j]
    /\ i <= Len(p) => Rank(p[i]) < Rank(q[i])

\* Decrements the last component above zero and clears those behind it.
PositionBefore(p) ==
  LET Positive == {i \in DOMAIN p : p[i] > 0}
      last == CHOOSE i \in Positive : \A j \in Positive : j <= i
  IN IF Positive = {} THEN <<0, 0>>
     ELSE [i \in DOMAIN p |-> IF i < last THEN p[i] ELSE IF i = last THEN p[i] - 1 ELSE 0]

PositionAfter(p) == [p EXCEPT ![Len(p)] = @ + 1]

\* How many components p and q have in common at their beginning.
CommonLength(p, q) == Len(S!LongestCommonPrefix({p, q}))

\* Mutant of PositionBetween: two consecutive numbers have the first between them.
PositionBetweenRounded(p, q) ==
  LET n == CommonLength(p, q)
  IN IF n = Len(p)
       THEN IF n < Len(q) /\ q[n + 1] > 0 THEN p \o <<0>> ELSE p \o <<0, 1>>
     ELSE IF n = Len(q) THEN p \o <<0>>
     ELSE SubSeq(p, 1, n) \o <<(p[n + 1] + q[n + 1]) \div 2>>

PositionBetween(p, q) ==
  LET n == CommonLength(p, q)
  IN IF n = Len(p)
       THEN IF n < Len(q) /\ q[n + 1] > 0 THEN p \o <<0>> ELSE p \o <<0, 1>>
     ELSE IF n = Len(q) THEN p \o <<0>>
     ELSE IF q[n + 1] > p[n + 1] + 1
       THEN SubSeq(p, 1, n) \o <<(p[n + 1] + q[n + 1]) \div 2>>
     ELSE IF n + 1 < Len(p) THEN p \o <<0>>
     ELSE p \o <<5>>

\* generatePositionBetween
NewPosition(prev, next) ==
  CASE prev = None /\ next = None -> <<0, 0>>
    [] prev = None /\ next # None -> PositionBefore(next)
    [] prev # None /\ next = None -> PositionAfter(prev)
    [] prev # None /\ next # None -> PositionBetween(prev, next)

-----------------------------------------------------------------------------
(* Arrays.  "elements" is a Map: its entries in the order of insertion.     *)

Ids(elements) == {e.id : e \in S!ToSet(elements)}

\* Mutant of Place: the array is what the Map iterates over, not sorted.
PlaceInMap(elements, i) == i

\* Array.sort is stable: equal positions stay in the order of the Map.
Place(elements, i) ==
  Cardinality({j \in DOMAIN elements :
                 \/ Before(elements[j].position, elements[i].position)
                 \/ /\ elements[j].position = elements[i].position
                    /\ j <= i})

\* The entry at place k of the sorted array, and its element.
EntryAt(elements, k) == CHOOSE i \in DOMAIN elements : Place(elements, i) = k
Nth(elements, k) == elements[EntryAt(elements, k)]

\* The ids in the order of the array.
ToArray(elements) == [k \in DOMAIN elements |-> Nth(elements, k).id]

PositionAt(elements, k) ==
  IF k \in DOMAIN elements THEN Nth(elements, k).position ELSE None

\* insertAt(index, ..): between the elements at index - 1 and index, counted
\* from 0; append is insertAt at the end.
InsertedAt(elements, index, id) ==
  Append(elements, [id |-> id,
                    position |-> NewPosition(PositionAt(elements, index),
                                             PositionAt(elements, index + 1))])

RemovedAt(elements, index) == S!RemoveAt(elements, EntryAt(elements, index + 1))

\* Mutant of Merged: the entries of the other are added without a look.
MergedTwice(elements, other) == elements \o other

\* The entries of the other whose ids are new, and the k-th of them.
NewEntries(elements, other) == {j \in DOMAIN other : other[j].id \notin Ids(elements)}
NthOf(entries, k) == CHOOSE j \in entries : Cardinality({i \in entries : i <= j}) = k

\* Elements with one id are equal, so the comparison of timestamps decides
\* nothing: new ids enter in the order of the other Map.
Merged(elements, other) ==
  LET new == NewEntries(elements, other)
  IN elements \o [k \in 1..Cardinality(new) |-> other[NthOf(new, k)]]

-----------------------------------------------------------------------------
VARIABLES
  array,   \* array[r]: the elements of the copy replica r holds
  made,    \* how many elements each replica has made
  steps,   \* the updates so far
  sent     \* the snapshots handed out

vars == <<array, made, steps, sent>>

\* n elements appended one after the other.
Grown[n \in Nat] ==
  IF n = 0 THEN <<>> ELSE InsertedAt(Grown[n - 1], n - 1, <<Author, n>>)

Init ==
  /\ \E n \in Lengths : /\ array = [r \in Replica |-> Grown[n]]
                        /\ made = [r \in Replica |-> IF r = Author THEN n ELSE 0]
  /\ steps = 0
  /\ sent = {}

\* insertAt, and append where index is the length.
InsertAt(r, index) ==
  /\ steps < MaxUpdates
  /\ index \in 0..Len(array[r])
  /\ array' = [array EXCEPT ![r] = InsertedAt(@, index, <<r, made[r] + 1>>)]
  /\ made' = [made EXCEPT ![r] = @ + 1]
  /\ steps' = steps + 1
  /\ UNCHANGED sent

RemoveAt(r, index) ==
  /\ steps < MaxUpdates
  /\ index \in 0..(Len(array[r]) - 1)
  /\ array' = [array EXCEPT ![r] = RemovedAt(@, index)]
  /\ steps' = steps + 1
  /\ UNCHANGED <<made, sent>>

Send(r) ==
  /\ Cardinality(sent) < MaxSent
  /\ sent' = sent \cup {array[r]}
  /\ UNCHANGED <<array, made, steps>>

Receive(r, m) ==
  /\ array' = [array EXCEPT ![r] = Merged(@, m)]
  /\ UNCHANGED <<made, steps, sent>>

Next ==
  \/ \E r \in Replica :
       \/ \E index \in 0..Len(array[r]) : InsertAt(r, index) \/ RemoveAt(r, index)
       \/ Send(r)
       \/ \E m \in sent : Receive(r, m)

Spec == Init /\ [][Next]_vars

-----------------------------------------------------------------------------
(* Properties.                                                              *)

Entries == {q \in Seq([id : Id, position : Position]) :
              \A i, j \in DOMAIN q : q[i].id = q[j].id => i = j}

\* The shape of the state: a copy is a Map, so no id is in it twice.
TypeOK ==
  /\ array \in [Replica -> Entries]
  /\ made \in [Replica -> Nat]
  /\ steps \in Nat
  /\ sent \subseteq Entries

\* Between these neighbours the positions leave room: they differ, there is
\* something above zero to decrement, the second does not go on with a zero
\* where the first ends, and no number is about to get a second digit.
HasRoom(prev, next) ==
  /\ \A p \in {prev, next} \ {None} : \A i \in DOMAIN p : p[i] < 9
  /\ prev = None /\ next # None => \E i \in DOMAIN next : next[i] > 0
  /\ prev # None /\ next # None => prev # next /\ ~S!IsPrefix(Append(prev, 0), next)

\* An element goes where it is asked to go, at the end too, and the others keep
\* their order, whatever has been merged into the array before, wherever the
\* positions leave room.
InsertsWhereAsked ==
  [][\A r \in Replica : made'[r] # made[r] =>
       \A index \in 0..Len(array[r]) :
         InsertAt(r, index)
           /\ HasRoom(PositionAt(array[r], index), PositionAt(array[r], index + 1))
           => ToArray(array'[r]) =
                S!InsertAt(ToArray(array[r]), index + 1, <<r, made'[r]>>)]_vars

\* The order of the array is the positions' wherever no two are equal: then the
\* order of the Map, which says in what order merges brought the elements, has no
\* part in it, and replicas that hold the same elements hold the same array.
SameArrayWithoutTies ==
  \A r \in Replica : \A s \in Replica \ {r} :
    /\ Ids(array[r]) = Ids(array[s])
    /\ \A i, j \in DOMAIN array[r] :
         array[r][i].position = array[r][j].position => i = j
    => ToArray(array[r]) = ToArray(array[s])

\* Replicas that hold the same elements hold the same array.
SameElementsSameArray ==
  \A r, s \in Replica :
    Ids(array[r]) = Ids(array[s]) => ToArray(array[r]) = ToArray(array[s])

=============================================================================
