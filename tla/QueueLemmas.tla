----------------------------- MODULE QueueLemmas -----------------------------
(***************************************************************************)
(* Facts about the queues of writes that Firestore keeps on a device,      *)
(* which FruitStore and DetailRecords model as sequences: a write is       *)
(* appended by the code, the oldest one is taken by the server, and a read *)
(* looks for the last write of a document; and about the downloads and     *)
(* uploads of CellPictures and StudentRecords, which may end in any order. *)
(***************************************************************************)
EXTENDS Naturals, Sequences, WellFoundedInduction, TLAPS

(* A set of places in a queue that is not empty has a last one: the CHOOSE *)
(* of a read of a document that has writes finds its last write.           *)
LEMMA LastPlace ==
  ASSUME NEW n \in Nat, NEW S \in SUBSET (1..n), S # {}
  PROVE  \E i \in S : \A j \in S : j =< i
<1> DEFINE T == {n - i : i \in S}
<1>1. T \subseteq Nat /\ T # {}
  <2>1. \A i \in S : i \in 1..n
    OBVIOUS
  <2>2. T \subseteq Nat
    BY <2>1
  <2>3. T # {}
    OBVIOUS
  <2> QED
    BY <2>2, <2>3
<1>2. PICK x \in T : \A y \in T : ~(<<y, x>> \in OpToRel(<, Nat))
  BY <1>1, NatLessThanWellFounded, WFMin
<1>3. PICK i \in S : x = n - i
  BY <1>2
<1>4. ASSUME NEW j \in S PROVE j =< i
  <2>1. n - j \in T /\ n - j \in Nat /\ n - i \in Nat
    BY <1>3
  <2>2. ~(n - j < n - i)
    BY <1>2, <1>3, <2>1 DEF OpToRel
  <2> QED
    BY <2>2
<1> QED
  BY <1>3, <1>4

(* The server takes the oldest write: what is left moves up one place.     *)
LEMMA TailPlaces ==
  ASSUME NEW S, NEW q \in Seq(S), q # <<>>
  PROVE  /\ Head(q) = q[1] /\ 1 \in DOMAIN q
         /\ Tail(q) \in Seq(S)
         /\ DOMAIN Tail(q) = 1..(Len(q) - 1)
         /\ \A i \in DOMAIN Tail(q) : i + 1 \in DOMAIN q /\ Tail(q)[i] = q[i + 1]
OBVIOUS

(* A new write goes to the end of the queue.                               *)
LEMMA AppendPlaces ==
  ASSUME NEW S, NEW q \in Seq(S), NEW w \in S
  PROVE  /\ Append(q, w) \in Seq(S)
         /\ DOMAIN Append(q, w) = (DOMAIN q) \cup {Len(q) + 1}
         /\ \A i \in DOMAIN q : i =< Len(q) /\ Append(q, w)[i] = q[i]
         /\ Append(q, w)[Len(q) + 1] = w
OBVIOUS

(* The line q without the request at place i.  Its parts have names, which *)
(* keep the provers from unfolding them.                                   *)
Part(q, m, n) == SubSeq(q, m, n)
Join(a, b) == a \o b
Cut(q, i) == SubSeq(q, 1, i - 1) \o SubSeq(q, i + 1, Len(q))

(* A part of a line keeps its order.                                       *)
LEMMA PartPlaces ==
  ASSUME NEW S, NEW q \in Seq(S), NEW m \in 1..(Len(q) + 1), NEW n \in 0..Len(q),
         m =< n + 1
  PROVE  /\ Part(q, m, n) \in Seq(S)
         /\ Len(Part(q, m, n)) = n - m + 1
         /\ \A k \in 1..(n - m + 1) : Part(q, m, n)[k] = q[m + k - 1]
BY DEF Part

(* Two lines put together keep their order.                                *)
LEMMA JoinPlaces ==
  ASSUME NEW S, NEW a \in Seq(S), NEW b \in Seq(S)
  PROVE  /\ Join(a, b) \in Seq(S)
         /\ Len(Join(a, b)) = Len(a) + Len(b)
         /\ \A k \in 1..Len(a) : Join(a, b)[k] = a[k]
         /\ \A k \in 1..Len(b) : Join(a, b)[Len(a) + k] = b[k]
BY DEF Join

(* A request in the middle of a line is served: the ones before it keep    *)
(* their places, the ones after it move up.                                *)
LEMMA CutPlaces ==
  ASSUME NEW S, NEW q \in Seq(S), NEW i \in 1..Len(q)
  PROVE  /\ Cut(q, i) \in Seq(S)
         /\ Len(Cut(q, i)) = Len(q) - 1
         /\ \A k \in 1..(Len(q) - 1) :
              Cut(q, i)[k] = IF k < i THEN q[k] ELSE q[k + 1]
<1> DEFINE a == Part(q, 1, i - 1)
           b == Part(q, i + 1, Len(q))
<1>1. a \in Seq(S) /\ Len(a) = i - 1 /\ \A k \in 1..(i - 1) : a[k] = q[k]
  BY PartPlaces
<1>2. b \in Seq(S) /\ Len(b) = Len(q) - i /\ \A k \in 1..(Len(q) - i) : b[k] = q[i + k]
  <2>1. i + 1 \in 1..(Len(q) + 1) /\ Len(q) \in 0..Len(q) /\ i + 1 =< Len(q) + 1
    OBVIOUS
  <2>2. /\ b \in Seq(S) /\ Len(b) = Len(q) - (i + 1) + 1
        /\ \A k \in 1..(Len(q) - (i + 1) + 1) : b[k] = q[(i + 1) + k - 1]
    BY <2>1, PartPlaces
  <2>3. Len(q) - (i + 1) + 1 = Len(q) - i
    OBVIOUS
  <2>4. ASSUME NEW k \in 1..(Len(q) - i) PROVE b[k] = q[i + k]
    <3>1. (i + 1) + k - 1 = i + k
      OBVIOUS
    <3> QED
      BY <2>2, <2>3, <3>1
  <2> QED
    BY <2>2, <2>3, <2>4
<1>3. Cut(q, i) = Join(a, b)
  BY DEF Cut, Join, Part
<1> HIDE DEF a, b
<1>4. /\ Cut(q, i) \in Seq(S) /\ Len(Cut(q, i)) = Len(a) + Len(b)
      /\ \A k \in 1..Len(a) : Cut(q, i)[k] = a[k]
      /\ \A k \in 1..Len(b) : Cut(q, i)[Len(a) + k] = b[k]
  <2>1. a \in Seq(S) /\ b \in Seq(S)
    BY <1>1, <1>2
  <2>2. Join(a, b) \in Seq(S)
    BY <2>1, JoinPlaces
  <2>3. Len(Join(a, b)) = Len(a) + Len(b)
    BY <2>1, JoinPlaces
  <2>4. \A k \in 1..Len(a) : Join(a, b)[k] = a[k]
    BY <2>1, JoinPlaces
  <2>5. \A k \in 1..Len(b) : Join(a, b)[Len(a) + k] = b[k]
    BY <2>1, JoinPlaces
  <2> QED
    BY <2>2, <2>3, <2>4, <2>5, <1>3
<1>5. /\ Len(a) = i - 1
      /\ Len(b) = Len(q) - i
      /\ Len(Cut(q, i)) = Len(q) - 1
  <2>1. Len(a) = i - 1
    BY <1>1
  <2>2. Len(b) = Len(q) - i
    BY <1>2
  <2>3. Len(Cut(q, i)) = Len(a) + Len(b)
    BY <1>4
  <2> QED
    BY <2>1, <2>2, <2>3
<1>6. ASSUME NEW k \in 1..(Len(q) - 1)
      PROVE  Cut(q, i)[k] = IF k < i THEN q[k] ELSE q[k + 1]
  <2>1. CASE k < i
    <3>1. k \in 1..(i - 1)
      BY <2>1
    <3>2. k \in 1..Len(a)
      BY <3>1, <1>5
    <3>3. a[k] = q[k]
      BY <3>1, <1>1
    <3>4. Cut(q, i)[k] = a[k]
      BY <3>2, <1>4
    <3> QED
      BY <2>1, <3>3, <3>4
  <2>2. CASE ~(k < i)
    <3>1. PICK m \in 1..(Len(q) - i) : m = k - (i - 1)
      BY <2>2
    <3>2. m \in 1..Len(b)
      BY <3>1, <1>5
    <3>3. i + m = k + 1
      BY <3>1
    <3>4. Len(a) + m = k
      BY <3>1, <1>5
    <3>5. b[m] = q[i + m]
      BY <3>1, <1>2
    <3>6. Cut(q, i)[Len(a) + m] = b[m]
      BY <3>2, <1>4
    <3> QED
      BY <2>2, <3>3, <3>4, <3>5, <3>6
  <2> QED
    BY <2>1, <2>2
<1> QED
  BY <1>4, <1>5, <1>6

=============================================================================
