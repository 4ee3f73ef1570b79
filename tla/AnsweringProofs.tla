----------------------------- MODULE AnsweringProofs -----------------------------
(***************************************************************************)
(* Proofs about the machines of Answering: Rules, for any inputs of its    *)
(* questions that have their types, and Portal, for any tokens, requests,  *)
(* workers and snapshots.                                                  *)
(*                                                                         *)
(* RulesInv says that an answer is what the code makes of its question; it *)
(* is inductive at once, as a question is answered once. The work is in    *)
(* the lemmas that say what the code makes of a question. PortalInv is     *)
(* described where it is defined.                                          *)
(***************************************************************************)
EXTENDS Answering, FiniteSetTheorems, SequenceTheorems, FunctionTheorems, WellFoundedInduction,
        TLAPS

-----------------------------------------------------------------------------
(***************************************************************************)
(* What the parts are made of: filters, ends of sets of numbers, sequences *)
(* one after the other. No induction theorem with an operator for its      *)
(* hypothesis can be used here, so induction goes over a set of the        *)
(* numbers for which the claim holds (Inducts).                            *)
(***************************************************************************)
\* The operators of the sets and sequences are the same ones in Rules.
LEMMA SameOperators ==
    /\ \A S : RU!Cardinality(S) = Cardinality(S) /\ (RU!IsFiniteSet(S) <=> IsFiniteSet(S))
    /\ \A S, order : RU!Arranged(S, order) = Arranged(S, order)
    /\ \A seqs : RU!FlattenSeq(seqs) = FlattenSeq(seqs)
<1>1. \A S : RU!Cardinality(S) = Cardinality(S) /\ (RU!IsFiniteSet(S) <=> IsFiniteSet(S))
  BY DEF RU!Cardinality, Cardinality, RU!IsFiniteSet, IsFiniteSet
<1>2. \A S, order : RU!Arranged(S, order) = Arranged(S, order)
  BY DEF RU!Arranged, Arranged, RU!Cardinality, Cardinality
<1>3. \A seqs : RU!FlattenSeq(seqs) = FlattenSeq(seqs)
  BY DEF RU!FlattenSeq, FlattenSeq
<1> QED
  BY <1>1, <1>2, <1>3

\* The elements of a set in an order of theirs: each once, and in that order.
LEMMA ArrangedIs ==
    ASSUME NEW S, IsFiniteSet(S), NEW order,
           \A x, y \in S : x # y => <<x, y>> \in order \/ <<y, x>> \in order,
           \A x \in S : <<x, x>> \notin order,
           \A x, y, z \in S : <<x, y>> \in order /\ <<y, z>> \in order => <<x, z>> \in order
    PROVE  /\ Cardinality(S) \in Nat
           /\ Arranged(S, order) \in [1 .. Cardinality(S) -> S]
           /\ \A x \in S : \E n \in 1 .. Cardinality(S) : Arranged(S, order)[n] = x
           /\ \A m, n \in 1 .. Cardinality(S) :
                m < n <=> <<Arranged(S, order)[m], Arranged(S, order)[n]>> \in order
<1> DEFINE Before(x) == {y \in S : <<y, x>> \in order}
           size == Cardinality(S)
           rank == [x \in S |-> Cardinality(Before(x)) + 1]
<1>1. size \in Nat
  BY FS_CardinalityType
<1>2. ASSUME NEW x \in S
      PROVE  IsFiniteSet(Before(x)) /\ Cardinality(Before(x)) \in 0 .. size - 1
  <2>1. Before(x) \in SUBSET S /\ Before(x) # S
    OBVIOUS
  <2>2. /\ IsFiniteSet(Before(x)) /\ Cardinality(Before(x)) <= size
        /\ Cardinality(S) = Cardinality(Before(x)) => S = Before(x)
    BY <2>1, FS_Subset
  <2>3. Cardinality(Before(x)) \in Nat
    BY <2>2, FS_CardinalityType
  <2> QED
    BY <1>1, <2>1, <2>2, <2>3
<1>13. \A x \in S : Cardinality(Before(x)) \in Nat
  BY <1>1, <1>2
<1>3. ASSUME NEW x \in S, NEW y \in S, <<x, y>> \in order
      PROVE  Cardinality(Before(x)) < Cardinality(Before(y))
  <2>1. Before(x) \in SUBSET Before(y) /\ Before(x) # Before(y)
    BY <1>3
  <2>2. /\ Cardinality(Before(x)) <= Cardinality(Before(y))
        /\ Cardinality(Before(y)) = Cardinality(Before(x)) => Before(y) = Before(x)
    BY <2>1, <1>2, FS_Subset
  <2> HIDE DEF Before
  <2> QED
    BY <1>13, <2>1, <2>2
<1> HIDE DEF Before, size
<1>4. rank \in [S -> 1 .. size]
  BY <1>1, <1>2
<1>5. rank \in Injection(S, 1 .. size)
  <2>1. ASSUME NEW x \in S, NEW y \in S, rank[x] = rank[y], x # y PROVE FALSE
    <3>1. Cardinality(Before(x)) = Cardinality(Before(y))
      BY <2>1, <1>13
    <3>2. ~(<<x, y>> \in order) /\ ~(<<y, x>> \in order)
      BY <3>1, <1>13, <1>3
    <3> QED
      BY <2>1, <3>2
  <2> HIDE DEF rank
  <2> QED
    BY <1>4, <2>1, Fun_IsInj
<1>6. rank \in Surjection(S, 1 .. size)
  <2>1. IsFiniteSet(1 .. size) /\ Cardinality(1 .. size) = size
    BY <1>1, FS_Interval
  <2> QED
    BY <1>5, <2>1, FS_Injection DEF size
<1>7. \A n \in 1 .. size : \E x \in S : Cardinality(Before(x)) = n - 1
  <2> TAKE n \in 1 .. size
  <2>1. PICK x \in S : rank[x] = n
    <3> HIDE DEF rank
    <3> QED
      BY <1>6 DEF Surjection
  <2>2. Cardinality(Before(x)) \in Nat
    BY <1>2
  <2> QED
    BY <2>1, <2>2
<1> DEFINE seq == Arranged(S, order)
<1>8. seq = [n \in 1 .. size |-> CHOOSE x \in S : Cardinality(Before(x)) = n - 1]
  BY DEF Arranged, Before, size
<1>9. \A n \in 1 .. size : seq[n] \in S /\ Cardinality(Before(seq[n])) = n - 1
  BY <1>7, <1>8
<1>10. \A x \in S : \E n \in 1 .. size : seq[n] = x
  <2> TAKE x \in S
  <2>1. rank[x] \in 1 .. size
    BY <1>4
  <2>2. seq[rank[x]] \in S /\ Cardinality(Before(seq[rank[x]])) = rank[x] - 1
    BY <2>1, <1>9
  <2>3. rank[seq[rank[x]]] = rank[x]
    BY <2>2, <2>1
  <2> QED
    BY <2>1, <2>2, <2>3, <1>5, Fun_InjectionProperties
<1>11. ASSUME NEW m \in 1 .. size, NEW n \in 1 .. size
       PROVE  m < n <=> <<seq[m], seq[n]>> \in order
  <2>1. /\ seq[m] \in S /\ Cardinality(Before(seq[m])) = m - 1
        /\ seq[n] \in S /\ Cardinality(Before(seq[n])) = n - 1
    BY <1>9
  <2>2. CASE m = n
    BY <2>1, <2>2
  <2>3. CASE m # n
    <3>1. seq[m] # seq[n]
      BY <2>1, <2>3
    <3>2. /\ <<seq[m], seq[n]>> \in order => m < n
          /\ <<seq[n], seq[m]>> \in order => n < m
      BY <2>1, <1>3
    <3> QED
      BY <2>1, <3>1, <3>2
  <2> QED
    BY <2>2, <2>3
<1>12. seq \in [1 .. size -> S]
  BY <1>8, <1>9
<1> QED
  BY <1>1, <1>10, <1>11, <1>12 DEF size

\* The elements of a sequence at some of its places, in their order: what a filter leaves.
Picked(seq, I) == RU!At(seq, RU!Arranged(I, RU!Increasing))

\* A filter leaves just the elements that pass, each as often as it was there, in their order.
LEMMA PickedIs ==
    ASSUME NEW X, NEW seq \in Seq(X), NEW I \in SUBSET DOMAIN seq
    PROVE  /\ IsFiniteSet(I) /\ Cardinality(I) \in 0 .. Len(seq)
           /\ Picked(seq, I) \in Seq(X) /\ Len(Picked(seq, I)) = Cardinality(I)
           /\ RU!Items(Picked(seq, I)) = {seq[i] : i \in I}
           /\ \E places \in [1 .. Cardinality(I) -> I] :
                /\ Picked(seq, I) = [k \in 1 .. Cardinality(I) |-> seq[places[k]]]
                /\ \A m, n \in 1 .. Cardinality(I) : m < n <=> places[m] < places[n]
                /\ \A i \in I : \E k \in 1 .. Cardinality(I) : places[k] = i
<1> DEFINE order == RU!Increasing
           places == RU!Arranged(I, order)
           size == Cardinality(I)
<1>1. I \in SUBSET (1 .. Len(seq)) /\ I \in SUBSET Nat /\ Len(seq) \in Nat
  OBVIOUS
<1>2. IsFiniteSet(I) /\ size \in 0 .. Len(seq)
  <2>1. IsFiniteSet(1 .. Len(seq)) /\ Cardinality(1 .. Len(seq)) = Len(seq)
    <3>1. 1 \in Int /\ Len(seq) \in Int /\ Len(seq) >= 0
      BY <1>1
    <3> HIDE DEF order, places, size
    <3> QED
      BY <3>1, FS_Interval
  <2>2. IsFiniteSet(I) /\ size <= Len(seq)
    BY <1>1, <2>1, FS_Subset
  <2> QED
    BY <1>1, <2>2, FS_CardinalityType
<1>3. /\ \A x, y \in I : x # y => <<x, y>> \in order \/ <<y, x>> \in order
      /\ \A x \in I : <<x, x>> \notin order
      /\ \A x, y, z \in I : <<x, y>> \in order /\ <<y, z>> \in order => <<x, z>> \in order
      /\ \A x, y \in I : <<x, y>> \in order <=> x < y
  BY <1>1 DEF RU!Increasing
<1>4. places = Arranged(I, order)
  BY SameOperators
<1> HIDE DEF order, places, size
<1>5. /\ places \in [1 .. size -> I]
      /\ \A x \in I : \E n \in 1 .. size : places[n] = x
      /\ \A m, n \in 1 .. size : m < n <=> <<places[m], places[n]>> \in order
  BY <1>2, <1>3, <1>4, ArrangedIs DEF size
<1>6. Picked(seq, I) = [k \in 1 .. size |-> seq[places[k]]]
  BY <1>5 DEF Picked, RU!At, places, order
<1>7. \A k \in 1 .. size : seq[places[k]] \in X
  BY <1>1, <1>5
<1>8. Picked(seq, I) \in Seq(X) /\ Len(Picked(seq, I)) = size
  BY <1>2, <1>6, <1>7
<1>9. RU!Items(Picked(seq, I)) = {seq[i] : i \in I}
  <2>1. DOMAIN Picked(seq, I) = 1 .. size
    BY <1>6
  <2>2. RU!Items(Picked(seq, I)) = {Picked(seq, I)[k] : k \in 1 .. size}
    BY <2>1 DEF RU!Items, RU!ToSet
  <2>3. \A k \in 1 .. size : Picked(seq, I)[k] = seq[places[k]] /\ places[k] \in I
    BY <1>5, <1>6
  <2> QED
    BY <1>5, <2>2, <2>3
<1>10. \A m, n \in 1 .. size : m < n <=> places[m] < places[n]
  <2> TAKE m, n \in 1 .. size
  <2>1. places[m] \in I /\ places[n] \in I
    BY <1>5
  <2> QED
    BY <2>1, <1>3, <1>5
<1> QED
  BY <1>2, <1>5, <1>6, <1>8, <1>9, <1>10 DEF size

LEMMA PickedPlaces ==
    ASSUME NEW X, NEW seq \in Seq(X), NEW I \in SUBSET DOMAIN seq
    PROVE  \E places \in [1 .. Cardinality(I) -> I] :
             /\ Picked(seq, I) = [k \in 1 .. Cardinality(I) |-> seq[places[k]]]
             /\ \A m, n \in 1 .. Cardinality(I) : m < n <=> places[m] < places[n]
             /\ \A i \in I : \E k \in 1 .. Cardinality(I) : places[k] = i
  BY PickedIs

\* The least of some natural numbers, and the greatest when they are bounded.
LEMMA LeastIs ==
    ASSUME NEW S \in SUBSET Nat, S # {}
    PROVE  RU!Min(S) \in S /\ \A x \in S : RU!Min(S) <= x
<1>1. PICK m \in S : \A x \in S : ~ (<<x, m>> \in OpToRel(<, Nat))
  BY NatLessThanWellFounded, WFMin
<1>2. \A x \in S : m =< x
  <2> SUFFICES ASSUME NEW x \in S, ~(m =< x) PROVE FALSE
    OBVIOUS
  <2>1. x \in Nat /\ m \in Nat /\ x < m
    OBVIOUS
  <2> QED
    BY <1>1, <2>1 DEF OpToRel
<1> QED
  BY <1>2 DEF RU!Min

LEMMA GreatestIs ==
    ASSUME NEW n \in Nat, NEW S \in SUBSET (0 .. n), S # {}
    PROVE  RU!Max(S) \in S /\ \A x \in S : x <= RU!Max(S)
<1> DEFINE T == {n - x : x \in S}
<1>1. T \in SUBSET Nat /\ T # {}
  OBVIOUS
<1>2. PICK m \in T : \A t \in T : ~ (<<t, m>> \in OpToRel(<, Nat))
  BY <1>1, NatLessThanWellFounded, WFMin
<1>3. PICK g \in S : m = n - g
  BY <1>2
<1>4. \A x \in S : g >= x
  <2> TAKE x \in S
  <2>1. n - x \in T /\ ~(n - x < m)
    BY <1>1, <1>2 DEF OpToRel
  <2> QED
    BY <1>3, <2>1
<1> HIDE DEF T
<1>5. RU!Max(S) \in S /\ \A x \in S : RU!Max(S) >= x
  BY <1>4 DEF RU!Max
<1> QED
  BY <1>5

\* Induction over the beginnings of a sequence.
LEMMA Inducts ==
    ASSUME NEW n \in Nat, NEW G, 0 \in G, \A i \in 1 .. n : i - 1 \in G => i \in G
    PROVE  0 .. n \subseteq G
<1> SUFFICES ASSUME (0 .. n) \ G # {} PROVE FALSE
  OBVIOUS
<1> DEFINE T == (0 .. n) \ G
<1>1. T \in SUBSET Nat
  OBVIOUS
<1>2. PICK m \in T : \A t \in T : ~ (<<t, m>> \in OpToRel(<, Nat))
  BY <1>1, NatLessThanWellFounded, WFMin
<1>3. m \in 1 .. n /\ m - 1 \in 0 .. n /\ m - 1 \in Nat /\ m - 1 < m
  OBVIOUS
<1>4. m - 1 \notin T
  <2> HIDE DEF T
  <2> QED
    BY <1>1, <1>2, <1>3 DEF OpToRel
<1> QED
  BY <1>3, <1>4

\* The items of sequences one after the other, beginning by beginning.
LEMMA FlattenUnfolds ==
    ASSUME NEW X, NEW seqs \in Seq(Seq(X))
    PROVE  \E F \in [0 .. Len(seqs) -> Seq(X)] :
             /\ F[0] = <<>> /\ FlattenSeq(seqs) = F[Len(seqs)]
             /\ \A i \in 1 .. Len(seqs) : F[i] = F[i - 1] \o seqs[i]
<1> DEFINE N == Len(seqs)
           Solves(f, n) == \A i \in 1 .. n : f[i] = IF i = 1 THEN seqs[i] ELSE f[i - 1] \o seqs[i]
           G == {n \in 0 .. N : \E f \in [1 .. n -> Seq(X)] : Solves(f, n)}
<1>1. N \in Nat /\ \A i \in 1 .. N : seqs[i] \in Seq(X)
  OBVIOUS
<1> HIDE DEF N
<1>2. 0 \in G
  <2> DEFINE f == [i \in 1 .. 0 |-> <<>>]
  <2>1. f \in [1 .. 0 -> Seq(X)] /\ Solves(f, 0) /\ 0 \in 0 .. N
    BY <1>1
  <2> QED
    BY <2>1
<1>3. ASSUME NEW n \in 1 .. N, n - 1 \in G PROVE n \in G
  <2>1. PICK f \in [1 .. n - 1 -> Seq(X)] : Solves(f, n - 1)
    BY <1>3
  <2> DEFINE last == IF n = 1 THEN seqs[n] ELSE f[n - 1] \o seqs[n]
             g == [i \in 1 .. n |-> IF i = n THEN last ELSE f[i]]
  <2>2. last \in Seq(X)
    <3>1. n # 1 => f[n - 1] \in Seq(X)
      BY <1>1, <2>1
    <3> QED
      BY <1>1, <3>1
  <2> HIDE DEF last
  <2>3. \A i \in 1 .. n : i # n => i \in 1 .. n - 1 /\ (i # 1 => i - 1 \in 1 .. n - 1)
    BY <1>1
  <2>4. g \in [1 .. n -> Seq(X)]
    BY <2>1, <2>2, <2>3
  <2>5. Solves(g, n)
    <3> SUFFICES ASSUME NEW i \in 1 .. n
                 PROVE  g[i] = IF i = 1 THEN seqs[i] ELSE g[i - 1] \o seqs[i]
      OBVIOUS
    <3>1. i # 1 => i - 1 \in 1 .. n /\ i - 1 # n
      BY <1>1
    <3>2. CASE i = n
      <4>1. i # 1 => g[i - 1] = f[n - 1]
        BY <3>1, <3>2
      <4> QED
        BY <3>2, <4>1 DEF last
    <3>3. CASE i # n
      <4>1. f[i] = IF i = 1 THEN seqs[i] ELSE f[i - 1] \o seqs[i]
        BY <2>1, <2>3, <3>3
      <4>2. g[i] = f[i] /\ (i # 1 => g[i - 1] = f[i - 1])
        BY <3>1, <3>3
      <4> QED
        BY <4>1, <4>2
    <3> QED
      BY <3>2, <3>3
  <2>6. n \in 0 .. N
    BY <1>1
  <2> HIDE DEF g, Solves
  <2> QED
    BY <2>4, <2>5, <2>6
<1> HIDE DEF G
<1>4. N \in G
  <2>1. 0 .. N \subseteq G
    BY <1>1, <1>2, <1>3, Inducts
  <2> QED
    BY <1>1, <2>1
<1>5. PICK f \in [1 .. N -> Seq(X)] : Solves(f, N)
  BY <1>4 DEF G
<1> DEFINE Step(h) == [i \in 1 .. N |-> IF i = 1 THEN seqs[i] ELSE h[i - 1] \o seqs[i]]
           flatten == CHOOSE h : h = Step(h)
<1>6. flatten = Step(flatten)
  <2>1. f = Step(f)
    BY <1>5
  <2> QED
    BY <2>1
<1>7. FlattenSeq(seqs) = IF N = 0 THEN seqs ELSE flatten[N]
  BY DEF FlattenSeq, N
<1> HIDE DEF flatten
<1> DEFINE H == {n \in 0 .. N : \A i \in 1 .. n : flatten[i] \in Seq(X)}
<1>8. N \in H
  <2>1. 0 \in H
    BY <1>1
  <2>2. ASSUME NEW n \in 1 .. N, n - 1 \in H PROVE n \in H
    <3>1. flatten[n] = IF n = 1 THEN seqs[n] ELSE flatten[n - 1] \o seqs[n]
      BY <1>6
    <3>2. n # 1 => flatten[n - 1] \in Seq(X)
      BY <1>1, <2>2
    <3>3. flatten[n] \in Seq(X)
      BY <1>1, <3>1, <3>2
    <3> QED
      BY <1>1, <2>2, <3>3
  <2> HIDE DEF H
  <2>3. 0 .. N \subseteq H
    BY <1>1, <2>1, <2>2, Inducts
  <2> QED
    BY <1>1, <2>3
<1> DEFINE F == [i \in 0 .. N |-> IF i = 0 THEN <<>> ELSE flatten[i]]
<1>9. F \in [0 .. N -> Seq(X)]
  BY <1>1, <1>8
<1>10. \A i \in 1 .. N : F[i] = F[i - 1] \o seqs[i]
  <2> TAKE i \in 1 .. N
  <2>1. flatten[i] = IF i = 1 THEN seqs[i] ELSE flatten[i - 1] \o seqs[i]
    BY <1>6
  <2>2. i - 1 \in 0 .. N /\ i \in 0 .. N /\ i # 0 /\ (i # 1 => i - 1 # 0)
    BY <1>1
  <2>3. <<>> \o seqs[i] = seqs[i]
    BY <1>1
  <2>4. F[i] = flatten[i]
    BY <2>2
  <2>5. CASE i = 1
    <3>1. i - 1 = 0 /\ 0 \in 0 .. N
      BY <2>2, <2>5
    <3>2. F[i - 1] = <<>>
      BY <3>1
    <3> QED
      BY <2>1, <2>3, <2>4, <2>5, <3>2
  <2>6. CASE i # 1
    <3>1. F[i - 1] = flatten[i - 1]
      BY <2>2, <2>6
    <3> QED
      BY <2>1, <2>4, <2>6, <3>1
  <2> QED
    BY <2>5, <2>6
<1>11. N = 0 => seqs = <<>>
  BY DEF N
<1>12. F[0] = <<>> /\ FlattenSeq(seqs) = F[N]
  BY <1>1, <1>7, <1>11
<1> HIDE DEF F
<1>13. /\ F \in [0 .. Len(seqs) -> Seq(X)] /\ F[0] = <<>> /\ FlattenSeq(seqs) = F[Len(seqs)]
       /\ \A i \in 1 .. Len(seqs) : F[i] = F[i - 1] \o seqs[i]
  BY <1>9, <1>10, <1>12 DEF N
<1> QED
  BY <1>13

\* What is in a sequence, and in one after another.
LEMMA ItemsAre ==
    ASSUME NEW X, NEW a \in Seq(X), NEW b \in Seq(X)
    PROVE  /\ RU!Items(a) = {a[i] : i \in 1 .. Len(a)} /\ RU!Items(a) \subseteq X
           /\ RU!Items(a \o b) = RU!Items(a) \cup RU!Items(b)
<1>1. \A seq \in Seq(X) : RU!Items(seq) = {seq[i] : i \in 1 .. Len(seq)}
  BY DEF RU!Items, RU!ToSet
<1>2. RU!Items(a) \subseteq X
  BY <1>1
<1>3. a \o b \in Seq(X) /\ Len(a \o b) = Len(a) + Len(b)
  OBVIOUS
<1>4. ASSUME NEW x \in RU!Items(a \o b) PROVE x \in RU!Items(a) \cup RU!Items(b)
  <2>1. PICK i \in 1 .. Len(a) + Len(b) : x = (a \o b)[i]
    BY <1>1, <1>3
  <2>2. CASE i <= Len(a)
    <3>1. x = a[i] /\ i \in 1 .. Len(a)
      BY <2>1, <2>2
    <3> QED
      BY <3>1, <1>1
  <2>3. CASE ~(i <= Len(a))
    <3>1. x = b[i - Len(a)] /\ i - Len(a) \in 1 .. Len(b)
      BY <2>1, <2>3
    <3> QED
      BY <3>1, <1>1
  <2> QED
    BY <2>2, <2>3
<1>5. ASSUME NEW x \in RU!Items(a) PROVE x \in RU!Items(a \o b)
  <2>1. PICK i \in 1 .. Len(a) : x = a[i]
    BY <1>1
  <2>2. i \in 1 .. Len(a \o b) /\ (a \o b)[i] = x
    BY <2>1, <1>3
  <2> QED
    BY <2>2, <1>1, <1>3
<1>6. ASSUME NEW x \in RU!Items(b) PROVE x \in RU!Items(a \o b)
  <2>1. PICK i \in 1 .. Len(b) : x = b[i]
    BY <1>1
  <2>2. i + Len(a) \in 1 .. Len(a \o b) /\ (a \o b)[i + Len(a)] = x
    BY <2>1, <1>3
  <2> QED
    BY <2>2, <1>1, <1>3
<1> QED
  BY <1>1, <1>2, <1>4, <1>5, <1>6

\* What is in sequences one after the other is what is in one of them.
LEMMA FlattenItems ==
    ASSUME NEW X, NEW seqs \in Seq(Seq(X))
    PROVE  /\ FlattenSeq(seqs) \in Seq(X)
           /\ RU!Items(FlattenSeq(seqs)) = UNION {RU!Items(seqs[i]) : i \in 1 .. Len(seqs)}
<1> DEFINE N == Len(seqs)
<1>1. PICK F \in [0 .. N -> Seq(X)] :
        /\ F[0] = <<>> /\ FlattenSeq(seqs) = F[N]
        /\ \A i \in 1 .. N : F[i] = F[i - 1] \o seqs[i]
  BY FlattenUnfolds
<1>2. N \in Nat /\ \A i \in 1 .. N : seqs[i] \in Seq(X)
  OBVIOUS
<1> HIDE DEF N
<1> DEFINE G == {n \in 0 .. N : RU!Items(F[n]) = UNION {RU!Items(seqs[i]) : i \in 1 .. n}}
<1>3. 0 \in G
  <2>1. RU!Items(<<>>) = {}
    BY DEF RU!Items, RU!ToSet
  <2>2. UNION {RU!Items(seqs[i]) : i \in 1 .. 0} = {} /\ 0 \in 0 .. N
    BY <1>2
  <2> QED
    BY <1>1, <2>1, <2>2
<1>4. ASSUME NEW n \in 1 .. N, n - 1 \in G PROVE n \in G
  <2>a. n - 1 \in 0 .. N
    BY <1>2
  <2>1. F[n - 1] \in Seq(X) /\ seqs[n] \in Seq(X) /\ F[n] = F[n - 1] \o seqs[n]
    BY <1>1, <1>2, <2>a
  <2>2. RU!Items(F[n]) = RU!Items(F[n - 1]) \cup RU!Items(seqs[n])
    BY <2>1, ItemsAre
  <2>3. 1 .. n = (1 .. n - 1) \cup {n} /\ n \in 0 .. N
    BY <1>2
  <2>4. RU!Items(F[n - 1]) = UNION {RU!Items(seqs[i]) : i \in 1 .. n - 1}
    BY <1>4
  <2>5. UNION {RU!Items(seqs[i]) : i \in 1 .. n}
          = (UNION {RU!Items(seqs[i]) : i \in 1 .. n - 1}) \cup RU!Items(seqs[n])
    BY <2>3
  <2> QED
    BY <2>2, <2>3, <2>4, <2>5
<1> HIDE DEF G
<1>5. 0 .. N \subseteq G
  BY <1>2, <1>3, <1>4, Inducts
<1>6. N \in G /\ F[N] \in Seq(X)
  BY <1>1, <1>2, <1>5
<1> QED
  BY <1>1, <1>6 DEF G, N

-----------------------------------------------------------------------------
(***************************************************************************)
(* Rules. An answer is what the code makes of a question that is asked; of *)
(* verdicts, port texts, WMI's tables, identities, patterns, findings and  *)
(* redacted texts it is shown here what that is, of others in              *)
(* ComponentsProofs.                                                       *)
(***************************************************************************)
\* A part of a text that can be read becomes a specification of the ports that it names.
LEMMA PartIsRead ==
    ASSUME RU!RulesAssumption, NEW part \in RU!PortParts
    PROVE  LET spec == RU!ParsePart(part)
           IN  /\ spec # Failed <=> RU!WellFormed(part)
               /\ spec # Failed =>
                    /\ spec \in RU!PartSpecs /\ spec.kind # "list"
                    /\ \A n : RU!PartMatches(spec, n) <=> RU!Names(part, n)
<1>a. Failed \notin RU!PartSpecs /\ Failed \notin Nat /\ RU!Anything \in RU!PartSpecs
      /\ (\A p \in Nat : RU!Single(p) \in RU!PartSpecs)
      /\ (\A a, b \in Nat : RU!PortRange(a, b) \in RU!PartSpecs)
      /\ (\A k \in STRING : RU!Dynamic(k) \in RU!PartSpecs)
  BY DEF RU!RulesAssumption, RU!PortSpecs, RU!PartSpecs, RU!Anything, RU!Single, RU!PortRange,
         RU!Dynamic
<1>1. CASE part.form = "word"
  <2>1. part.word \in STRING
    BY <1>1 DEF RU!PortParts
  <2>2. CASE part.word \in {"*", "any"}
    <3>1. RU!ParsePart(part) = RU!Anything
      BY <1>1, <2>2 DEF RU!ParsePart, RU!Keywords
    <3> QED
      BY <1>a, <1>1, <2>2, <3>1 DEF RU!Anything, RU!WellFormed, RU!Names, RU!PartMatches
  <2>3. CASE part.word \in RU!Keywords
    <3>1. RU!ParsePart(part) = RU!Dynamic(part.word)
      BY <1>1, <2>3 DEF RU!ParsePart, RU!Keywords
    <3> QED
      BY <1>a, <1>1, <2>1, <2>3, <3>1 DEF RU!Dynamic, RU!WellFormed, RU!Names, RU!PartMatches
  <2>4. CASE part.word \notin {"*", "any"} \cup RU!Keywords
    <3>1. RU!ParsePart(part) = Failed
      BY <1>1, <2>4 DEF RU!ParsePart
    <3> QED
      BY <1>1, <2>4, <3>1 DEF RU!WellFormed
  <2> QED
    BY <2>2, <2>3, <2>4
<1>2. CASE part.form = "number"
  <2>1. part.value \in Nat
    BY <1>2 DEF RU!PortParts
  <2>2. CASE part.value \in 1 .. RU!MaxPort
    <3>1. RU!ParsePart(part) = RU!Single(part.value)
      BY <1>a, <1>2, <2>1, <2>2 DEF RU!ParsePart, RU!PortOf
    <3> QED
      BY <1>a, <1>2, <2>1, <2>2, <3>1 DEF RU!Single, RU!WellFormed, RU!Names, RU!PartMatches
  <2>3. CASE part.value \notin 1 .. RU!MaxPort
    <3>1. RU!ParsePart(part) = Failed
      BY <1>2, <2>3 DEF RU!ParsePart, RU!PortOf
    <3> QED
      BY <1>2, <2>3, <3>1 DEF RU!WellFormed
  <2> QED
    BY <2>2, <2>3
<1>3. CASE part.form = "span"
  <2>1. part.start \in Nat /\ part.end \in Nat
    BY <1>3 DEF RU!PortParts
  <2>2. RU!ParsePart(part) = RU!RangeOf(part.start, part.end)
    BY <1>3 DEF RU!ParsePart
  <2>a. RU!WellFormed(part) <=>
            1 =< part.start /\ part.start =< part.end /\ part.end =< RU!MaxPort
    <3>1. part.form # "number" /\ part.form # "word"
      BY <1>3
    <3> QED
      BY <1>3, <3>1 DEF RU!WellFormed
  <2>b. RU!RangeOf(part.start, part.end) =
            IF RU!WellFormed(part) THEN RU!PortRange(part.start, part.end) ELSE Failed
    <3>1. (part.start \in 1 .. RU!MaxPort /\ part.end \in 1 .. RU!MaxPort /\ part.start <= part.end)
            <=> (1 =< part.start /\ part.start =< part.end /\ part.end =< RU!MaxPort)
      <4>1. \A a, b, m \in Nat :
              (a \in 1 .. m /\ b \in 1 .. m /\ a <= b) <=> (1 =< a /\ a =< b /\ b =< m)
        OBVIOUS
      <4>2. RU!MaxPort \in Nat
        BY DEF RU!MaxPort
      <4> QED
        BY <2>1, <4>1, <4>2, Zenon
    <3> QED
      BY <3>1, <2>a DEF RU!RangeOf
  <2>3. CASE RU!WellFormed(part)
    <3>1. RU!ParsePart(part) = RU!PortRange(part.start, part.end)
      BY <2>2, <2>3, <2>b
    <3> QED
      BY <1>a, <1>3, <2>1, <2>3, <3>1 DEF RU!PortRange, RU!Names, RU!PartMatches
  <2>4. CASE ~RU!WellFormed(part)
    <3>1. RU!ParsePart(part) = Failed
      BY <2>2, <2>4, <2>b
    <3> QED
      BY <2>4, <3>1
  <2> QED
    BY <2>3, <2>4
<1> QED
  BY <1>1, <1>2, <1>3 DEF RU!PortParts

\* A text is refused when a part of it is, and else opens what its parts name.
LEMMA TextIsRead ==
    ASSUME RU!RulesAssumption, NEW text \in Seq(RU!PortParts)
    PROVE  LET spec == RU!ParsePortSpec(text)
           IN  /\ spec # Failed <=> \A i \in DOMAIN text : RU!WellFormed(text[i])
               /\ spec # Failed => \A n :
                    RU!SpecMatches(spec, n) <=> \E i \in DOMAIN text : RU!Names(text[i], n)
<1> DEFINE spec == RU!ParsePortSpec(text)
           specs == [i \in DOMAIN text |-> RU!ParsePart(text[i])]
<1>1. \A i \in DOMAIN text : text[i] \in RU!PortParts
  OBVIOUS
<1>2. CASE Len(text) = 1
  <2>1. DOMAIN text = {1}
    BY <1>2
  <2>2. spec = RU!ParsePart(text[1])
    BY <1>2 DEF RU!ParsePortSpec
  <2>3. text[1] \in RU!PortParts
    BY <1>1, <2>1
  <2> QED
    BY <2>1, <2>2, <2>3, PartIsRead DEF RU!SpecMatches
<1>3. CASE Len(text) # 1
  <2>1. spec = IF \E i \in DOMAIN text : specs[i] = Failed THEN Failed ELSE RU!Listed(specs)
    BY <1>3 DEF RU!ParsePortSpec
  <2>2. \A i \in DOMAIN text : specs[i] = Failed <=> ~RU!WellFormed(text[i])
    BY <1>1, PartIsRead
  <2>3. CASE \E i \in DOMAIN text : specs[i] = Failed
    BY <2>1, <2>2, <2>3
  <2>4. CASE \A i \in DOMAIN text : specs[i] # Failed
    <3>1. spec = RU!Listed(specs)
      BY <2>1, <2>4
    <3>2. \A n : \A i \in DOMAIN text :
            RU!PartMatches(specs[i], n) <=> RU!Names(text[i], n)
      BY <1>1, <2>4, PartIsRead
    <3>3. spec.kind = "list" /\ spec.specs = specs
      BY <3>1 DEF RU!Listed
    <3>4. \A i \in DOMAIN text : RU!WellFormed(text[i])
      BY <2>2, <2>4
    <3>5. \A n : RU!SpecMatches(spec, n) <=> \E i \in DOMAIN text : RU!Names(text[i], n)
      BY <3>2, <3>3 DEF RU!SpecMatches
    <3>6. spec # Failed
      <4>1. \A i \in DOMAIN text : specs[i] \in RU!PartSpecs
        BY <1>1, <2>4, PartIsRead
      <4> QED
        BY <3>1, <4>1 DEF RU!RulesAssumption, RU!PortSpecs, RU!Listed
    <3> QED
      BY <3>4, <3>5, <3>6
  <2> QED
    BY <2>3, <2>4
<1> QED
  BY <1>2, <1>3

\* What the rules that apply make of an endpoint.
Concerned(endpoint, list) == {rule \in RU!Items(list) : RU!RuleApplies(rule, endpoint)}

\* A filter, in its own words and in those above.
LEMMA AllowsIs ==
    ASSUME NEW endpoint, NEW list
    PROVE  RU!Allows(endpoint, list) = Picked(list, RU!Applicable(endpoint, list, "Allow"))
BY DEF RU!Allows, RU!Selected, RU!Applicable, Picked

LEMMA InboundAllowsIs ==
    ASSUME NEW list
    PROVE  RU!InboundAllows(list)
             = Picked(list, {i \in DOMAIN list : /\ list[i].enabled /\ list[i].direction = "Inbound"
                                                /\ list[i].action = "Allow"})
BY DEF RU!InboundAllows, RU!Selected, Picked

\* The verdict is a matter of which rules apply, and of no order: a block wins.
LEMMA VerdictIs ==
    ASSUME NEW endpoint, NEW list \in Seq(RU!FirewallRule)
    PROVE  LET said == RU!Evaluate(endpoint, list).reachability
               concerned == Concerned(endpoint, list)
           IN  IF endpoint.exposure = "Loopback" THEN said = "LocalOnly"
               ELSE IF \E rule \in concerned : rule.action = "Block" THEN said = "Blocked"
               ELSE IF concerned = {} THEN said = "DefaultAction"
               ELSE IF \E rule \in concerned : rule.port_spec.kind = "dynamic"
               THEN said = "Indeterminate"
               ELSE said = "Allowed"
<1> DEFINE said == RU!Evaluate(endpoint, list).reachability
           concerned == Concerned(endpoint, list)
           blocks == RU!Applicable(endpoint, list, "Block")
           allows == RU!Applicable(endpoint, list, "Allow")
<1>1. ASSUME NEW i \in DOMAIN list PROVE list[i].action \in {"Allow", "Block"}
  <2>1. list[i] \in RU!FirewallRule
    OBVIOUS
  <2> QED
    BY <2>1 DEF RU!FirewallRule, RU!RuleActions
<1>2. \A rule : rule \in concerned <=> \E i \in blocks \cup allows : rule = list[i]
  BY <1>1 DEF Concerned, RU!Items, RU!ToSet, RU!Applicable
<1>3. (\A i \in blocks : list[i].action = "Block") /\ (\A i \in allows : list[i].action = "Allow")
  BY DEF RU!Applicable
<1>4. blocks # {} <=> \E rule \in concerned : rule.action = "Block"
  BY <1>2, <1>3
<1>5. blocks = {} => (allows = {} <=> concerned = {})
  BY <1>2
<1>6. blocks = {} => ((\E i \in allows : list[i].port_spec.kind = "dynamic")
                        <=> \E rule \in concerned : rule.port_spec.kind = "dynamic")
  BY <1>2
<1>7. endpoint.exposure = "Loopback" => said = "LocalOnly"
  BY DEF RU!Evaluate, RU!Verdict
<1>8. endpoint.exposure # "Loopback" /\ blocks # {} => said = "Blocked"
  BY DEF RU!Evaluate, RU!Verdict
<1>9. endpoint.exposure # "Loopback" /\ blocks = {} /\ allows = {} => said = "DefaultAction"
  BY DEF RU!Evaluate, RU!Verdict
<1>10. endpoint.exposure # "Loopback" /\ blocks = {} /\ allows # {} =>
         said = IF \E i \in allows : list[i].port_spec.kind = "dynamic"
                THEN "Indeterminate" ELSE "Allowed"
  BY DEF RU!Evaluate, RU!Verdict
<1> HIDE DEF said, concerned, blocks, allows
<1>11. IF endpoint.exposure = "Loopback" THEN said = "LocalOnly"
       ELSE IF \E rule \in concerned : rule.action = "Block" THEN said = "Blocked"
       ELSE IF concerned = {} THEN said = "DefaultAction"
       ELSE IF \E rule \in concerned : rule.port_spec.kind = "dynamic" THEN said = "Indeterminate"
       ELSE said = "Allowed"
  BY <1>4, <1>5, <1>6, <1>7, <1>8, <1>9, <1>10
<1> QED
  BY <1>11 DEF said, concerned

\* The same rules apply in the other order.
LEMMA ReversedIs ==
    ASSUME NEW list \in Seq(RU!FirewallRule)
    PROVE  RU!Reverse(list) \in Seq(RU!FirewallRule) /\ RU!Items(RU!Reverse(list)) = RU!Items(list)
<1>1. RU!Reverse(list) \in Seq(RU!FirewallRule) /\ Len(RU!Reverse(list)) = Len(list)
  BY DEF RU!Reverse
<1>2. ASSUME NEW x \in RU!Items(RU!Reverse(list)) PROVE x \in RU!Items(list)
  <2>1. PICK i \in 1 .. Len(list) : x = list[(Len(list) - i) + 1]
    BY <1>1, <1>2 DEF RU!Items, RU!ToSet, RU!Reverse
  <2> QED
    BY <2>1 DEF RU!Items, RU!ToSet
<1>3. ASSUME NEW x \in RU!Items(list) PROVE x \in RU!Items(RU!Reverse(list))
  <2>1. PICK i \in 1 .. Len(list) : x = list[i]
    BY <1>3 DEF RU!Items, RU!ToSet
  <2>2. (Len(list) - i) + 1 \in 1 .. Len(list)
    OBVIOUS
  <2>3. RU!Reverse(list)[(Len(list) - i) + 1] = x
    BY <2>1, <2>2 DEF RU!Reverse
  <2> QED
    BY <1>1, <2>2, <2>3 DEF RU!Items, RU!ToSet
<1> QED
  BY <1>1, <1>2, <1>3

\* What VerdictFollowsFromRules says of a verdict, for any endpoint and rules.
LEMMA VerdictFollows ==
    ASSUME NEW endpoint, NEW list \in Seq(RU!FirewallRule)
    PROVE  LET said == RU!Evaluate(endpoint, list).reachability
               concerned == Concerned(endpoint, list)
               allows == {rule \in concerned : rule.action = "Allow"}
               off_host == endpoint.exposure # "Loopback"
           IN  /\ said = "LocalOnly" <=> ~off_host
               /\ said = "Blocked" <=> off_host /\ concerned # allows
               /\ said = "DefaultAction" <=> off_host /\ concerned = {}
               /\ said \in {"Allowed", "Indeterminate"} <=>
                    off_host /\ concerned = allows /\ concerned # {}
               /\ off_host /\ concerned = allows
                    /\ (\E rule \in allows : rule.port_spec.kind = "dynamic")
                    => said = "Indeterminate"
               /\ said = "Indeterminate" => \E rule \in allows : RU!NamesKeyword(rule.port_spec)
               /\ RU!Evaluate(endpoint, RU!Reverse(list)).reachability = said
<1> DEFINE said == RU!Evaluate(endpoint, list).reachability
           back == RU!Evaluate(endpoint, RU!Reverse(list)).reachability
           concerned == Concerned(endpoint, list)
           blocked == \E rule \in concerned : rule.action = "Block"
           dynamic == \E rule \in concerned : rule.port_spec.kind = "dynamic"
<1>1. IF endpoint.exposure = "Loopback" THEN said = "LocalOnly"
      ELSE IF blocked THEN said = "Blocked"
      ELSE IF concerned = {} THEN said = "DefaultAction"
      ELSE IF dynamic THEN said = "Indeterminate" ELSE said = "Allowed"
  BY VerdictIs
<1>2. RU!Reverse(list) \in Seq(RU!FirewallRule) /\ Concerned(endpoint, RU!Reverse(list)) = concerned
  BY ReversedIs DEF Concerned
<1>3. IF endpoint.exposure = "Loopback" THEN back = "LocalOnly"
      ELSE IF blocked THEN back = "Blocked"
      ELSE IF concerned = {} THEN back = "DefaultAction"
      ELSE IF dynamic THEN back = "Indeterminate" ELSE back = "Allowed"
  BY <1>2, VerdictIs
<1>4. ASSUME NEW rule \in concerned PROVE rule.action \in {"Allow", "Block"}
  <2>1. PICK i \in DOMAIN list : rule = list[i]
    BY <1>4 DEF Concerned, RU!Items, RU!ToSet
  <2>2. list[i] \in RU!FirewallRule
    OBVIOUS
  <2> QED
    BY <2>1, <2>2 DEF RU!FirewallRule, RU!RuleActions
<1> HIDE DEF said, back, concerned
<1> DEFINE allows == {rule \in concerned : rule.action = "Allow"}
<1>5. /\ blocked <=> concerned # allows
      /\ ~blocked => (dynamic <=> \E rule \in allows : rule.port_spec.kind = "dynamic")
  BY <1>4
<1>6. back = said
  BY <1>1, <1>3
<1>7. /\ said = "LocalOnly" <=> ~(endpoint.exposure # "Loopback")
      /\ said = "Blocked" <=> endpoint.exposure # "Loopback" /\ blocked
      /\ said = "DefaultAction" <=> endpoint.exposure # "Loopback" /\ concerned = {}
      /\ said \in {"Allowed", "Indeterminate"} <=>
           endpoint.exposure # "Loopback" /\ ~blocked /\ concerned # {}
      /\ endpoint.exposure # "Loopback" /\ ~blocked /\ dynamic => said = "Indeterminate"
      /\ said = "Indeterminate" => ~blocked /\ dynamic
  BY <1>1
<1>8. dynamic => concerned # {}
  OBVIOUS
<1>9. said = "Indeterminate" => \E rule \in allows : RU!NamesKeyword(rule.port_spec)
  BY <1>5, <1>7 DEF RU!NamesKeyword
<1>10. /\ said = "LocalOnly" <=> ~(endpoint.exposure # "Loopback")
       /\ said = "Blocked" <=> endpoint.exposure # "Loopback" /\ concerned # allows
       /\ said = "DefaultAction" <=> endpoint.exposure # "Loopback" /\ concerned = {}
       /\ said \in {"Allowed", "Indeterminate"} <=>
            endpoint.exposure # "Loopback" /\ concerned = allows /\ concerned # {}
       /\ endpoint.exposure # "Loopback" /\ concerned = allows
            /\ (\E rule \in allows : rule.port_spec.kind = "dynamic") => said = "Indeterminate"
  BY <1>5, <1>7
<1> QED
  BY <1>6, <1>9, <1>10 DEF said, back, concerned

\* The rules that a verdict names are those it follows from.
LEMMA VerdictNames ==
    ASSUME NEW endpoint, NEW list \in Seq(RU!FirewallRule)
    PROVE  LET v == RU!Evaluate(endpoint, list)
               concerned == Concerned(endpoint, list)
           IN  /\ v.reachability \in {"Allowed", "Indeterminate"} =>
                    RU!Items(v.matched) = {rule \in concerned : rule.action = "Allow"}
               /\ v.reachability = "Blocked" =>
                    \E rule \in concerned : rule.action = "Block" /\ v.matched = <<rule>>
               /\ v.reachability \in {"LocalOnly", "DefaultAction"} => v.matched = <<>>
               /\ RU!Items(v.matched) \subseteq concerned
<1> DEFINE v == RU!Evaluate(endpoint, list)
           concerned == Concerned(endpoint, list)
           blocks == RU!Applicable(endpoint, list, "Block")
           allows == RU!Applicable(endpoint, list, "Allow")
           off == endpoint.exposure # "Loopback"
           Goal == /\ v.reachability \in {"Allowed", "Indeterminate"} =>
                        RU!Items(v.matched) = {rule \in concerned : rule.action = "Allow"}
                   /\ v.reachability = "Blocked" =>
                        \E rule \in concerned : rule.action = "Block" /\ v.matched = <<rule>>
                   /\ v.reachability \in {"LocalOnly", "DefaultAction"} => v.matched = <<>>
                   /\ RU!Items(v.matched) \subseteq concerned
<1>1. /\ blocks \in SUBSET DOMAIN list /\ allows \in SUBSET DOMAIN list
      /\ {list[i] : i \in allows} = {rule \in concerned : rule.action = "Allow"}
      /\ \A i \in blocks : list[i] \in concerned /\ list[i].action = "Block"
  BY DEF RU!Applicable, Concerned, RU!Items, RU!ToSet
<1>2. ~off => v = [reachability |-> "LocalOnly", matched |-> <<>>]
  BY DEF RU!Evaluate, RU!Verdict
<1>3. off /\ blocks # {} =>
        v = [reachability |-> "Blocked", matched |-> <<list[RU!Min(blocks)]>>]
  BY DEF RU!Evaluate, RU!Verdict
<1>4. off /\ blocks = {} /\ allows = {} => v = [reachability |-> "DefaultAction", matched |-> <<>>]
  BY DEF RU!Evaluate, RU!Verdict
<1>5. off /\ blocks = {} /\ allows # {} =>
        v = [reachability |-> IF \E i \in allows : list[i].port_spec.kind = "dynamic"
                              THEN "Indeterminate" ELSE "Allowed",
             matched |-> Picked(list, allows)]
  BY AllowsIs DEF RU!Evaluate, RU!Verdict
<1>6. blocks # {} => RU!Min(blocks) \in blocks
  <2>1. blocks \in SUBSET Nat
    BY <1>1
  <2> HIDE DEF blocks
  <2> QED
    BY <2>1, LeastIs
<1>7. RU!Items(Picked(list, allows)) = {rule \in concerned : rule.action = "Allow"}
  <2> HIDE DEF allows, concerned
  <2> QED
    BY <1>1, PickedIs
<1>8. \A x : RU!Items(<<x>>) = {x}
  BY DEF RU!Items, RU!ToSet
<1>9. RU!Items(<<>>) = {}
  BY DEF RU!Items, RU!ToSet
<1> HIDE DEF v, concerned, blocks, allows
<1>10. ASSUME ~off PROVE Goal
  BY <1>2, <1>9, <1>10
<1>11. ASSUME off, blocks # {} PROVE Goal
  <2> DEFINE rule == list[RU!Min(blocks)]
  <2>1. rule \in concerned /\ rule.action = "Block"
    BY <1>1, <1>6, <1>11
  <2>2. v = [reachability |-> "Blocked", matched |-> <<rule>>]
    BY <1>3, <1>11
  <2> HIDE DEF rule
  <2> QED
    BY <2>1, <2>2, <1>8
<1>12. ASSUME off, blocks = {}, allows = {} PROVE Goal
  BY <1>4, <1>9, <1>12
<1>13. ASSUME off, blocks = {}, allows # {} PROVE Goal
  <2>1. /\ v.matched = Picked(list, allows)
        /\ v.reachability \in {"Allowed", "Indeterminate"}
    BY <1>5, <1>13
  <2> QED
    BY <2>1, <1>7
<1>14. Goal
  BY <1>10, <1>11, <1>12, <1>13
<1> QED
  BY <1>14 DEF v, concerned

\* A rule that applies to an endpoint is filtered to its services and its program, if at all.
LEMMA AppliesIs ==
    ASSUME NEW rule, NEW endpoint, RU!RuleApplies(rule, endpoint)
    PROVE  /\ rule.service \subseteq endpoint.services
           /\ rule.program.name \in {RU!NoPath.name, endpoint.process_path.name}
<1>1. rule.service = {} \/ rule.service \subseteq endpoint.services
  BY DEF RU!RuleApplies
<1>2. rule.program = RU!NoPath \/ rule.program.name = endpoint.process_path.name
  BY DEF RU!RuleApplies, RU!ProgramFilterMatches, RU!CompareProgramPaths
<1> QED
  BY <1>1, <1>2

\* A profile lists the enabled inbound allows, each once.
LEMMA ProfileLists ==
    ASSUME NEW list \in Seq(RU!FirewallRule), NEW profiles,
           NEW i \in DOMAIN RU!SummarizeInboundPorts(list, profiles)
    PROVE  Len(RU!SummarizeInboundPorts(list, profiles)[i].allowed)
             = RU!HowMany(list, LAMBDA rule : rule.enabled /\ rule.action = "Allow"
                                              /\ rule.direction = "Inbound")
<1> DEFINE shown == {k \in DOMAIN list : /\ list[k].enabled /\ list[k].direction = "Inbound"
                                         /\ list[k].action = "Allow"}
           allows == Picked(list, shown)
           allowed == [k \in DOMAIN allows |-> [rule |-> allows[k].display_name,
                                                ports |-> RU!DisplayLabel(allows[k].port_spec)]]
<1>1. RU!SummarizeInboundPorts(list, profiles)[i].allowed = allowed
  BY InboundAllowsIs DEF RU!SummarizeInboundPorts
<1>2. allows \in Seq(RU!FirewallRule) /\ Len(allows) = Cardinality(shown)
  <2>1. shown \in SUBSET DOMAIN list
    OBVIOUS
  <2> HIDE DEF shown
  <2> QED
    BY <2>1, PickedIs
<1>3. Len(allowed) = Cardinality(shown)
  <2> HIDE DEF allows, shown
  <2> QED
    BY <1>2
<1>4. shown = {k \in DOMAIN list : list[k].enabled /\ list[k].action = "Allow"
                                   /\ list[k].direction = "Inbound"}
  OBVIOUS
<1> HIDE DEF allowed
<1> QED
  BY <1>1, <1>3, <1>4, SameOperators DEF RU!HowMany

-----------------------------------------------------------------------------
(* Rules: from WMI's tables to rules. *)

\* The filter that an instance is joined with is the last of its rows, if there is one.
LEMMA FilterIs ==
    ASSUME NEW X, NEW table \in Seq(X), NEW id
    PROVE  \/ /\ RU!FilterRow(table, id) = {}
              /\ \A field, default : RU!FilterOf(table, id, field, default) = default
           \/ \E filter \in X :
                /\ RU!FilterRow(table, id) = {filter}
                /\ \A field, default : RU!FilterOf(table, id, field, default) = filter[field]
<1> DEFINE places == {i \in DOMAIN table : table[i].instance_id = id}
           last == RU!Max(places)
<1>1. RU!FilterRow(table, id) = IF places = {} THEN {} ELSE {table[last]}
  BY DEF RU!FilterRow
<1>2. \A field, default : RU!FilterOf(table, id, field, default)
                            = IF places = {} THEN default ELSE table[last][field]
  BY DEF RU!FilterOf
<1>3. places # {} => last \in places
  <2>1. places \in SUBSET (0 .. Len(table)) /\ Len(table) \in Nat
    OBVIOUS
  <2> HIDE DEF places
  <2> QED
    BY <2>1, GreatestIs
<1>4. \A i \in places : table[i] \in X
  OBVIOUS
<1> HIDE DEF places, last
<1> QED
  BY <1>1, <1>2, <1>3, <1>4

\* The tables of WMI are what they are assumed to be.
WmiTables ==
    /\ RU!in.rules \in Seq(RU!RuleRows) /\ RU!in.ports \in Seq(RU!PortRows)
    /\ RU!in.programs \in Seq(RU!ProgramRows) /\ RU!in.services \in Seq(RU!ServiceRows)
    /\ \A i \in DOMAIN RU!in.services : Failed # {RU!in.services[i].service}

\* What a row of the rules' table is assembled to.
Raw(row) ==
    [rule_id |-> row.instance_id, display_name |-> row.display_name,
     direction |-> RU!DirectionText(row.direction), action |-> RU!ActionText(row.action),
     protocol |-> RU!NoneIfAny(RU!FilterOf(RU!in.ports, row.instance_id, "protocol", RU!Absent)),
     local_port_spec |-> LET texts == RU!FilterOf(RU!in.ports, row.instance_id, "local_port", <<>>)
                         IN  IF texts = <<RU!Word("any")>> THEN <<>> ELSE texts,
     program |-> RU!FilterOf(RU!in.programs, row.instance_id, "program", RU!Absent),
     service |-> RU!FilterOf(RU!in.services, row.instance_id, "service", RU!Absent),
     enabled |-> row.enabled # 0,
     policy_store |-> RU!PolicyStoreText(row.policy_store)]

\* The raw rules are those of the durable inbound rows, one for each.
LEMMA RawsAre ==
    ASSUME WmiTables
    PROVE  LET raws == RU!QueryInboundRules(RU!in.rules, RU!in.ports, RU!in.programs,
                                         RU!in.services)
           IN  /\ raws \in Seq({Raw(RU!in.rules[i]) : i \in RU!Durable})
               /\ Len(raws) = Cardinality(RU!Durable)
               /\ RU!Items(raws) = {Raw(RU!in.rules[i]) : i \in RU!Durable}
<1> DEFINE list == RU!in.rules
           kept == {i \in DOMAIN list : list[i].policy_store # 2}
           durable == Picked(list, kept)
           size == Cardinality(kept)
           joined == [k \in DOMAIN durable |-> Raw(durable[k])]
           inbound == {k \in DOMAIN joined : joined[k].direction = "inbound"}
           raws == RU!QueryInboundRules(list, RU!in.ports, RU!in.programs, RU!in.services)
           X == {Raw(list[i]) : i \in RU!Durable}
<1>1. raws = Picked(joined, inbound)
  <2>1. durable = RU!Selected(list, LAMBDA rule : rule.policy_store # 2)
    BY DEF RU!Selected, Picked
  <2>2. RU!AssembleRules(durable, RU!in.ports, RU!in.programs, RU!in.services) = joined
    <3>1. \A row : [RU!RuleFromWmi(row, RU!in.ports) EXCEPT
             !.program = RU!FilterOf(RU!in.programs, row.instance_id, "program", RU!Absent),
             !.service = RU!FilterOf(RU!in.services, row.instance_id, "service", RU!Absent)]
           = Raw(row)
      <4> TAKE row
      <4> DEFINE texts == RU!FilterOf(RU!in.ports, row.instance_id, "local_port", <<>>)
                 ports == IF texts = <<RU!Word("any")>> THEN <<>> ELSE texts
                 protocol == RU!NoneIfAny(RU!FilterOf(RU!in.ports, row.instance_id, "protocol",
                                                      RU!Absent))
                 enabled == row.enabled # 0
                 program == RU!FilterOf(RU!in.programs, row.instance_id, "program", RU!Absent)
                 service == RU!FilterOf(RU!in.services, row.instance_id, "service", RU!Absent)
                 direction == RU!DirectionText(row.direction)
                 action == RU!ActionText(row.action)
                 store == RU!PolicyStoreText(row.policy_store)
      <4>1. RU!RuleFromWmi(row, RU!in.ports) =
              [rule_id |-> row.instance_id, display_name |-> row.display_name,
               direction |-> direction, action |-> action, protocol |-> protocol,
               local_port_spec |-> ports, program |-> RU!Absent, service |-> RU!Absent,
               enabled |-> enabled, policy_store |-> store]
        BY Zenon DEF RU!RuleFromWmi
      <4>2. Raw(row) =
              [rule_id |-> row.instance_id, display_name |-> row.display_name,
               direction |-> direction, action |-> action, protocol |-> protocol,
               local_port_spec |-> ports, program |-> program, service |-> service,
               enabled |-> enabled, policy_store |-> store]
        BY Zenon DEF Raw
      <4> HIDE DEF texts, ports, protocol, enabled, program, service, direction, action, store
      <4> DEFINE base == RU!RuleFromWmi(row, RU!in.ports)
                 filtered == [base EXCEPT !.program = program]
      <4>3. filtered =
              [rule_id |-> row.instance_id, display_name |-> row.display_name,
               direction |-> direction, action |-> action, protocol |-> protocol,
               local_port_spec |-> ports, program |-> program, service |-> RU!Absent,
               enabled |-> enabled, policy_store |-> store]
        BY <4>1
      <4>4. [filtered EXCEPT !.service = service] = Raw(row)
        <5> HIDE DEF filtered
        <5> QED
          BY <4>2, <4>3
      <4>5. [base EXCEPT !.program = program, !.service = service]
              = [filtered EXCEPT !.service = service]
        OBVIOUS
      <4> HIDE DEF filtered
      <4> QED
        BY <4>4, <4>5 DEF program, service
    <3> QED
      BY <3>1 DEF RU!AssembleRules
  <2>3. Picked(joined, inbound) = RU!Selected(joined, LAMBDA raw : raw.direction = "inbound")
    BY DEF RU!Selected, Picked
  <2> HIDE DEF durable, joined, inbound, list
  <2> QED
    BY <2>1, <2>2, <2>3 DEF RU!QueryInboundRules
<1>2. list \in Seq(RU!RuleRows) /\ kept \in SUBSET DOMAIN list
  BY DEF WmiTables
<1>3. RU!Durable = {i \in kept : list[i].direction = 1}
  BY DEF RU!Durable
<1>4. \A n : RU!DirectionText(n) = "inbound" <=> n = 1
  BY DEF RU!DirectionText
<1> HIDE DEF kept
<1>5. /\ size \in Nat
      /\ \E places \in [1 .. size -> kept] :
           /\ durable = [k \in 1 .. size |-> list[places[k]]]
           /\ \A m, n \in 1 .. size : m < n <=> places[m] < places[n]
           /\ \A i \in kept : \E k \in 1 .. size : places[k] = i
  <2> HIDE DEF list
  <2>1. size \in 0 .. Len(list) /\ Len(list) \in Nat
    BY <1>2, PickedIs
  <2>2. \E places \in [1 .. Cardinality(kept) -> kept] :
           /\ Picked(list, kept) = [k \in 1 .. Cardinality(kept) |-> list[places[k]]]
           /\ \A m, n \in 1 .. Cardinality(kept) : m < n <=> places[m] < places[n]
           /\ \A i \in kept : \E k \in 1 .. Cardinality(kept) : places[k] = i
    <3> HIDE DEF durable, size, joined, inbound, raws, X
    <3> QED
      BY <1>2, PickedPlaces
  <2> QED
    BY <2>1, <2>2
<1>6. PICK places \in [1 .. size -> kept] :
           /\ durable = [k \in 1 .. size |-> list[places[k]]]
           /\ \A m, n \in 1 .. size : m < n <=> places[m] < places[n]
           /\ \A i \in kept : \E k \in 1 .. size : places[k] = i
  BY <1>5
<1> HIDE DEF durable, size, list
<1>7. joined = [k \in 1 .. size |-> Raw(list[places[k]])]
  BY <1>6
<1>8. inbound = {k \in 1 .. size : list[places[k]].direction = 1}
  <2>1. \A k \in 1 .. size : joined[k].direction = RU!DirectionText(list[places[k]].direction)
    BY <1>7 DEF Raw
  <2> QED
    BY <1>4, <1>7, <2>1
<1>9. \A k \in inbound : places[k] \in RU!Durable /\ joined[k] = Raw(list[places[k]])
  BY <1>3, <1>6, <1>7, <1>8
<1>10. \A i \in RU!Durable : \E k \in inbound : places[k] = i
  BY <1>3, <1>6, <1>8
<1> HIDE DEF joined, inbound
<1>11. Cardinality(inbound) = Cardinality(RU!Durable)
  <2> DEFINE f == [k \in inbound |-> places[k]]
  <2>1. f \in [inbound -> RU!Durable]
    BY <1>9
  <2>2. \A m, n \in inbound : f[m] = f[n] => m = n
    <3>1. \A m, n \in inbound : m \in 1 .. size /\ n \in 1 .. size
      BY <1>8
    <3>2. \A m, n \in inbound : places[m] = places[n] => ~(m < n) /\ ~(n < m)
      <4>1. \A i \in kept : i \in Nat
        BY <1>2
      <4>2. \A m \in inbound : places[m] \in kept
        BY <3>1, <1>6
      <4> QED
        BY <3>1, <1>6, <4>1, <4>2
    <3> QED
      BY <1>5, <3>1, <3>2
  <2>3. \A i \in RU!Durable : \E k \in inbound : f[k] = i
    BY <1>10
  <2> HIDE DEF f
  <2>4. f \in Injection(inbound, RU!Durable) /\ f \in Surjection(inbound, RU!Durable)
    BY <2>1, <2>2, <2>3, Fun_IsInj, Fun_IsSurj
  <2>5. IsFiniteSet(inbound)
    <3>1. IsFiniteSet(1 .. size)
      BY <1>5, FS_Interval
    <3> QED
      BY <3>1, <1>8, FS_Subset
  <2> QED
    BY <2>4, <2>5, FS_Surjection
<1>12. joined \in Seq({Raw(list[places[k]]) : k \in 1 .. size}) /\ inbound \in SUBSET DOMAIN joined
  <2> DEFINE Y == {Raw(list[places[k]]) : k \in 1 .. size}
  <2>1. \A k \in 1 .. size : Raw(list[places[k]]) \in Y
    OBVIOUS
  <2>2. DOMAIN joined = 1 .. size
    BY <1>7
  <2> HIDE DEF Y
  <2>3. joined \in Seq(Y)
    BY <1>5, <1>7, <2>1
  <2> QED
    BY <1>8, <2>2, <2>3 DEF Y
<1>13. Len(raws) = Cardinality(inbound) /\ RU!Items(raws) = {joined[k] : k \in inbound}
       /\ raws \in Seq({Raw(list[places[k]]) : k \in 1 .. size})
  BY <1>1, <1>12, PickedIs
<1>14. {joined[k] : k \in inbound} = X
  BY <1>9, <1>10
<1>15. raws \in Seq(X)
  <2>1. \A k \in 1 .. Len(raws) : raws[k] \in RU!Items(raws)
    BY <1>13 DEF RU!Items, RU!ToSet
  <2>2. \A k \in 1 .. Len(raws) : raws[k] \in X
    BY <2>1, <1>13, <1>14
  <2> HIDE DEF raws, X
  <2> QED
    BY <2>2, <1>13
<1> QED
  BY <1>11, <1>13, <1>14, <1>15 DEF list

\* A text of ports that can be read is read to a specification.
LEMMA TextIsTyped ==
    ASSUME RU!RulesAssumption, NEW text \in Seq(RU!PortParts), RU!ParsePortSpec(text) # Failed
    PROVE  RU!ParsePortSpec(text) \in RU!PortSpecs
<1> DEFINE specs == [i \in DOMAIN text |-> RU!ParsePart(text[i])]
<1>1. \A i \in DOMAIN text : text[i] \in RU!PortParts
  OBVIOUS
<1>2. CASE Len(text) = 1
  <2>1. RU!ParsePortSpec(text) = RU!ParsePart(text[1]) /\ 1 \in DOMAIN text
    BY <1>2 DEF RU!ParsePortSpec
  <2> QED
    BY <1>1, <2>1, PartIsRead DEF RU!PortSpecs
<1>3. CASE Len(text) # 1
  <2>a. RU!ParsePortSpec(text)
          = IF \E i \in DOMAIN specs : specs[i] = Failed THEN Failed ELSE RU!Listed(specs)
    BY <1>3 DEF RU!ParsePortSpec
  <2>b. DOMAIN specs = DOMAIN text
    OBVIOUS
  <2>1. /\ \A i \in DOMAIN text : specs[i] # Failed
        /\ RU!ParsePortSpec(text) = RU!Listed(specs)
    <3> HIDE DEF specs
    <3> QED
      BY <2>a, <2>b
  <2>2. \A i \in 1 .. Len(text) : specs[i] \in RU!PartSpecs
    BY <1>1, <2>1, PartIsRead
  <2>3. specs \in Seq(RU!PartSpecs)
    <3>a. DOMAIN text = 1 .. Len(text) /\ Len(text) \in Nat
      OBVIOUS
    <3>b. specs = [i \in 1 .. Len(text) |-> specs[i]]
      BY <3>a
    <3> HIDE DEF specs
    <3>1. specs \in [1 .. Len(text) -> RU!PartSpecs] /\ Len(text) \in Nat
      BY <2>2, <3>a, <3>b
    <3> QED
      BY <3>1
  <2> HIDE DEF specs
  <2> QED
    BY <2>1, <2>3 DEF RU!PortSpecs, RU!Listed
<1> QED
  BY <1>2, <1>3

\* The ports of a raw rule.
LEMMA PortsOfRow ==
    ASSUME RU!RulesAssumption, WmiTables, NEW row
    PROVE  LET spec == RU!ParsedPorts(Raw(row))
               filters == RU!FilterRow(RU!in.ports, row.instance_id)
           IN  /\ spec # Failed <=> \A filter \in filters : RU!ParsePortSpec(filter.local_port) # Failed
               /\ spec # Failed =>
                    /\ spec \in RU!PortSpecs
                    /\ \A filter \in filters : filter.local_port # <<>> =>
                         spec = RU!ParsePortSpec(filter.local_port)
<1> DEFINE spec == RU!ParsedPorts(Raw(row))
           filters == RU!FilterRow(RU!in.ports, row.instance_id)
           texts == RU!FilterOf(RU!in.ports, row.instance_id, "local_port", <<>>)
           known == IF texts = <<RU!Word("any")>> THEN <<>> ELSE texts
<1>1. spec = IF known = <<>> THEN RU!Anything ELSE RU!ParsePortSpec(known)
  <2>1. Raw(row).local_port_spec = known
    BY DEF Raw
  <2> HIDE DEF known
  <2> QED
    BY <2>1 DEF RU!ParsedPorts
<1>2. RU!Anything \in RU!PortSpecs /\ Failed \notin RU!PortSpecs
  BY DEF RU!RulesAssumption, RU!PortSpecs, RU!PartSpecs, RU!Anything
<1>3. RU!ParsePortSpec(<<RU!Word("any")>>) = RU!Anything
  <2>1. RU!ParsePart(RU!Word("any")) = RU!Anything
    BY DEF RU!ParsePart, RU!Word, RU!Keywords
  <2> HIDE DEF RU!Word
  <2>2. \A part : Len(<<part>>) = 1 /\ <<part>>[1] = part
    OBVIOUS
  <2> QED
    BY <2>1, <2>2 DEF RU!ParsePortSpec
<1>4. RU!ParsePortSpec(<<>>) # Failed
  <2>1. <<>> \in Seq(RU!PortParts) /\ \A i \in DOMAIN <<>> : FALSE
    OBVIOUS
  <2>2. \A i \in DOMAIN <<>> : RU!WellFormed(<<>>[i])
    BY <2>1
  <2> QED
    BY <2>1, <2>2, TextIsRead, Zenon
<1>5. \/ filters = {} /\ texts = <<>>
      \/ \E filter \in RU!PortRows : filters = {filter} /\ texts = filter.local_port
  <2>1. RU!in.ports \in Seq(RU!PortRows)
    BY DEF WmiTables
  <2>2. \/ /\ filters = {}
           /\ \A field, default :
                RU!FilterOf(RU!in.ports, row.instance_id, field, default) = default
        \/ \E filter \in RU!PortRows :
             /\ filters = {filter}
             /\ \A field, default :
                  RU!FilterOf(RU!in.ports, row.instance_id, field, default) = filter[field]
    BY <2>1, FilterIs
  <2> HIDE DEF filters
  <2> QED
    BY <2>2
<1> HIDE DEF filters, texts, spec
<1>6. CASE filters = {} /\ texts = <<>>
  BY <1>1, <1>2, <1>6 DEF filters, spec
<1>7. CASE \E filter \in RU!PortRows : filters = {filter} /\ texts = filter.local_port
  <2>1. PICK filter \in RU!PortRows : filters = {filter} /\ texts = filter.local_port
    BY <1>7
  <2>2. texts \in Seq(RU!PortParts)
    BY <2>1 DEF RU!PortRows
  <2>3. spec # Failed <=> RU!ParsePortSpec(texts) # Failed
    BY <1>1, <1>2, <1>3, <1>4
  <2>4. spec # Failed => spec \in RU!PortSpecs
    BY <1>1, <1>2, <2>2, TextIsTyped
  <2>5. texts # <<>> => spec = RU!ParsePortSpec(texts)
    BY <1>1, <1>3
  <2> QED
    BY <2>1, <2>3, <2>4, <2>5 DEF filters, spec
<1> QED
  BY <1>5, <1>6, <1>7

\* What the filters of a table name for a row: nothing, or one text.
LEMMA NamedIs ==
    ASSUME NEW X, NEW table \in Seq(X), NEW row, NEW field, NEW Y,
           \A filter \in X : filter[field] \in Y
    PROVE  /\ RU!Filters(table, row, field)
                = {RU!FilterOf(table, row.instance_id, field, RU!Absent)} \ {RU!Absent}
           /\ RU!FilterOf(table, row.instance_id, field, RU!Absent) \in Y \cup {RU!Absent}
<1> DEFINE filters == RU!FilterRow(table, row.instance_id)
           text == RU!FilterOf(table, row.instance_id, field, RU!Absent)
<1>1. \/ filters = {} /\ text = RU!Absent
      \/ \E filter \in X : filters = {filter} /\ text = filter[field]
  <2>1. \/ /\ filters = {}
           /\ \A name, default : RU!FilterOf(table, row.instance_id, name, default) = default
        \/ \E filter \in X :
             /\ filters = {filter}
             /\ \A name, default : RU!FilterOf(table, row.instance_id, name, default) = filter[name]
    BY FilterIs
  <2> HIDE DEF filters
  <2> QED
    BY <2>1
<1>2. RU!Filters(table, row, field) = {filter[field] : filter \in filters} \ {RU!Absent}
  BY DEF RU!Filters
<1> HIDE DEF filters, text
<1>3. /\ RU!Filters(table, row, field) = {text} \ {RU!Absent}
      /\ text \in Y \cup {RU!Absent}
  BY <1>1, <1>2
<1> QED
  BY <1>3 DEF text

\* The program of a raw rule.
LEMMA ProgramOfRow ==
    ASSUME RU!RulesAssumption, WmiTables, NEW row
    PROVE  LET program == RU!ParsedProgram(Raw(row))
               names == RU!Filters(RU!in.programs, row, "program")
           IN  /\ program # Failed <=> "" \notin names
               /\ program # Failed => program \in RU!Paths
               /\ program # Failed => names = IF program = RU!NoPath THEN {} ELSE {program.name}
<1> DEFINE text == RU!FilterOf(RU!in.programs, row.instance_id, "program", RU!Absent)
           program == RU!ParsedProgram(Raw(row))
           names == RU!Filters(RU!in.programs, row, "program")
<1>1. names = {text} \ {RU!Absent} /\ text \in STRING \cup {RU!Absent}
  <2>1. RU!in.programs \in Seq(RU!ProgramRows) /\ \A f \in RU!ProgramRows : f["program"] \in STRING
    BY DEF WmiTables, RU!ProgramRows
  <2>2. /\ names = {text} \ {RU!Absent}
        /\ text \in STRING \cup {RU!Absent}
    <3> HIDE DEF WmiTables
    <3> QED
      BY <2>1, NamedIs
  <2> HIDE DEF names, text
  <2> QED
    BY <2>1, <2>2
<1>2. Failed \notin STRING /\ Failed \notin RU!Paths
  BY DEF RU!RulesAssumption
<1>3. program = IF text = RU!Absent THEN RU!NoPath
                ELSE IF text = "" THEN Failed ELSE RU!Path(text, "lower")
  <2>1. Raw(row).program = text
    BY DEF Raw
  <2>2. RU!ParseName(text) = IF text = "" THEN Failed ELSE text
    BY DEF RU!ParseName
  <2> HIDE DEF text
  <2> QED
    BY <1>1, <1>2, <2>1, <2>2 DEF RU!ParsedProgram
<1>4. /\ RU!NoPath \in RU!Paths /\ (text # RU!Absent => RU!Path(text, "lower") \in RU!Paths)
      /\ RU!Path(text, "lower") # RU!NoPath /\ RU!Path(text, "lower").name = text
  BY <1>1 DEF RU!NoPath, RU!Path, RU!Paths
<1>5. RU!Absent # ""
  BY DEF RU!Absent
<1> HIDE DEF text, program, names
<1>6. /\ program # Failed <=> "" \notin names
      /\ program # Failed => program \in RU!Paths
      /\ program # Failed => names = IF program = RU!NoPath THEN {} ELSE {program.name}
  BY <1>1, <1>2, <1>3, <1>4, <1>5
<1> QED
  BY <1>6 DEF program, names

\* The service of a raw rule.
LEMMA ServiceOfRow ==
    ASSUME RU!RulesAssumption, WmiTables, NEW row
    PROVE  LET service == RU!ParsedService(Raw(row))
               names == RU!Filters(RU!in.services, row, "service")
           IN  /\ service # Failed <=> "" \notin names
               /\ service # Failed => service = names /\ names \in SUBSET STRING
<1> DEFINE text == RU!FilterOf(RU!in.services, row.instance_id, "service", RU!Absent)
           service == RU!ParsedService(Raw(row))
           names == RU!Filters(RU!in.services, row, "service")
           X == {filter \in RU!ServiceRows : Failed # {filter.service}}
<1>1. names = {text} \ {RU!Absent} /\ text \in STRING \cup {RU!Absent}
      /\ (text # RU!Absent => Failed # {text})
  <2>1. RU!in.services \in Seq(X)
    BY DEF WmiTables
  <2>2. \A f \in X : f.service \in STRING /\ Failed # {f.service}
    BY DEF RU!ServiceRows
  <2> HIDE DEF X
  <2> DEFINE Y == {name \in STRING : Failed # {name}}
  <2>a. \A f \in X : f["service"] \in Y
    BY <2>2
  <2>3. names = {text} \ {RU!Absent} /\ text \in Y \cup {RU!Absent}
    <3> HIDE DEF Y
    <3> QED
      BY <2>1, <2>a, NamedIs
  <2> HIDE DEF names, text
  <2> QED
    BY <2>2, <2>3
<1>2. Failed \notin STRING /\ Failed # {}
  BY DEF RU!RulesAssumption
<1>3. service = IF text = RU!Absent THEN {} ELSE IF text = "" THEN Failed ELSE {text}
  <2>1. Raw(row).service = text
    BY DEF Raw
  <2>2. RU!ParseName(text) = IF text = "" THEN Failed ELSE text
    BY DEF RU!ParseName
  <2> HIDE DEF text
  <2> QED
    BY <1>1, <1>2, <2>1, <2>2 DEF RU!ParsedService
<1>4. RU!Absent # ""
  BY DEF RU!Absent
<1> HIDE DEF text, service, names
<1>5. /\ service # Failed <=> "" \notin names
      /\ service # Failed => service = names /\ names \in SUBSET STRING
  BY <1>1, <1>2, <1>3, <1>4
<1> QED
  BY <1>5 DEF service, names

\* The protocols that a raw rule becomes a rule for.
ProtocolsOf(raw) ==
    IF raw.protocol = RU!Absent THEN <<"tcp", "udp">>
    ELSE IF RU!ParseProtocol(raw.protocol) = Failed THEN <<>> ELSE <<raw.protocol>>

LEMMA ProtocolsOfRow ==
    ASSUME RU!RulesAssumption, WmiTables, NEW row
    PROVE  /\ ProtocolsOf(Raw(row)) \in Seq({"tcp", "udp"})
           /\ RU!Items(ProtocolsOf(Raw(row))) = RU!Protocols(row)
<1> DEFINE text == RU!FilterOf(RU!in.ports, row.instance_id, "protocol", RU!Absent)
           names == RU!Filters(RU!in.ports, row, "protocol")
           protocols == ProtocolsOf(Raw(row))
<1>1. names = {text} \ {RU!Absent} /\ text \in STRING \cup {RU!Absent}
  <2>1. RU!in.ports \in Seq(RU!PortRows) /\ \A f \in RU!PortRows : f["protocol"] \in STRING
    BY DEF WmiTables, RU!PortRows
  <2>2. /\ names = {text} \ {RU!Absent}
        /\ text \in STRING \cup {RU!Absent}
    <3> HIDE DEF WmiTables
    <3> QED
      BY <2>1, NamedIs
  <2> HIDE DEF names, text
  <2> QED
    BY <2>1, <2>2
<1>2. Failed \notin STRING /\ Failed # RU!Absent
  BY DEF RU!RulesAssumption
<1>3. Raw(row).protocol = IF text = "any" THEN RU!Absent ELSE text
  BY DEF Raw, RU!NoneIfAny
<1>4. \A t \in STRING : RU!ParseProtocol(t) = Failed <=> t \notin {"tcp", "udp"}
  BY <1>2 DEF RU!ParseProtocol
<1>5. RU!Protocols(row) = IF names \ {"any"} = {} THEN {"tcp", "udp"}
                          ELSE (names \ {"any"}) \cap {"tcp", "udp"}
  BY DEF RU!Protocols
<1>6. RU!Absent \notin {"tcp", "udp", "any"}
  BY DEF RU!Absent
<1> HIDE DEF text, names
<1>7. protocols = IF text \in {"any", RU!Absent} THEN <<"tcp", "udp">>
                  ELSE IF text \in {"tcp", "udp"} THEN <<text>> ELSE <<>>
  BY <1>1, <1>3, <1>4, <1>6 DEF ProtocolsOf
<1>8. /\ RU!Items(<<"tcp", "udp">>) = {"tcp", "udp"} /\ RU!Items(<<text>>) = {text}
      /\ RU!Items(<<>>) = {}
  BY DEF RU!Items, RU!ToSet
<1>9. RU!Items(protocols) = RU!Protocols(row)
  BY <1>1, <1>5, <1>6, <1>7, <1>8
<1>10. protocols \in Seq({"tcp", "udp"})
  <2>1. <<"tcp", "udp">> \in Seq({"tcp", "udp"}) /\ <<>> \in Seq({"tcp", "udp"})
    OBVIOUS
  <2>2. text \in {"tcp", "udp"} => <<text>> \in Seq({"tcp", "udp"})
    OBVIOUS
  <2> QED
    BY <1>7, <2>1, <2>2
<1> QED
  BY <1>9, <1>10

\* A raw rule becomes rules when each of its texts can be read.
LEMMA RawIsRead ==
    ASSUME NEW raw
    PROVE  RU!RulesFromRaw(raw)
             = IF \/ Failed \in {raw.rule_id, raw.display_name, raw.enabled, RU!Absent}
                  \/ RU!ParseDirection(raw.direction) = Failed \/ RU!ParseAction(raw.action) = Failed
                  \/ RU!ParsePolicyStore(raw.policy_store) = Failed
                  \/ RU!ParsedPorts(raw) = Failed \/ RU!ParsedProgram(raw) = Failed
                  \/ RU!ParsedService(raw) = Failed
               THEN Failed
               ELSE [i \in DOMAIN ProtocolsOf(raw) |-> RU!RuleFor(raw, ProtocolsOf(raw)[i])]
<1> DEFINE parsed == RU!RuleFor(raw, RU!Absent)
           fails == \/ Failed \in {raw.rule_id, raw.display_name, raw.enabled, RU!Absent}
                    \/ RU!ParseDirection(raw.direction) = Failed
                    \/ RU!ParseAction(raw.action) = Failed
                    \/ RU!ParsePolicyStore(raw.policy_store) = Failed
                    \/ RU!ParsedPorts(raw) = Failed \/ RU!ParsedProgram(raw) = Failed
                    \/ RU!ParsedService(raw) = Failed
<1>1. /\ DOMAIN parsed = {"rule_id", "display_name", "direction", "action", "protocol", "port_spec",
                          "program", "service", "enabled", "policy_store"}
      /\ parsed["rule_id"] = raw.rule_id /\ parsed["display_name"] = raw.display_name
      /\ parsed["direction"] = RU!ParseDirection(raw.direction)
      /\ parsed["action"] = RU!ParseAction(raw.action)
      /\ parsed["protocol"] = RU!Absent /\ parsed["port_spec"] = RU!ParsedPorts(raw)
      /\ parsed["program"] = RU!ParsedProgram(raw) /\ parsed["service"] = RU!ParsedService(raw)
      /\ parsed["enabled"] = raw.enabled
      /\ parsed["policy_store"] = RU!ParsePolicyStore(raw.policy_store)
  BY DEF RU!RuleFor
<1> HIDE DEF parsed
<1>2. fails <=> \E field \in DOMAIN parsed : parsed[field] = Failed
  BY <1>1
<1> HIDE DEF fails
<1>3. RU!RulesFromRaw(raw)
        = IF \E field \in DOMAIN parsed : parsed[field] = Failed THEN Failed
          ELSE [i \in DOMAIN ProtocolsOf(raw) |-> RU!RuleFor(raw, ProtocolsOf(raw)[i])]
  BY DEF RU!RulesFromRaw, ProtocolsOf, parsed
<1>4. RU!RulesFromRaw(raw)
        = IF fails THEN Failed
          ELSE [i \in DOMAIN ProtocolsOf(raw) |-> RU!RuleFor(raw, ProtocolsOf(raw)[i])]
  BY <1>2, <1>3
<1> QED
  BY <1>4 DEF fails

\* The enumerations of WMI, read.
LEMMA NumbersAreRead ==
    ASSUME RU!RulesAssumption, NEW n \in Nat
    PROVE  /\ RU!ParseAction(RU!ActionText(n)) = IF n = 1 THEN "Allow" ELSE IF n = 2 THEN "Block"
                                                 ELSE Failed
           /\ RU!ParseDirection(RU!DirectionText(1)) = "Inbound"
           /\ n # 2 /\ RU!ParsePolicyStore(RU!PolicyStoreText(n)) # Failed => n \in {0, 1, 3}
           /\ n \in {0, 1, 3} => RU!ParsePolicyStore(RU!PolicyStoreText(n)) \in RU!PolicyStores
<1>1. Failed \notin RU!RuleActions \cup RU!RuleDirections \cup RU!PolicyStores
  BY DEF RU!RulesAssumption
<1>2. RU!ParseAction(RU!ActionText(n)) = IF n = 1 THEN "Allow" ELSE IF n = 2 THEN "Block"
                                         ELSE Failed
  <2>1. RU!ActionText(n) = IF n = 1 THEN "allow" ELSE IF n = 2 THEN "block" ELSE "number"
    BY DEF RU!ActionText
  <2>2. /\ RU!ParseAction("allow") = "Allow" /\ RU!ParseAction("block") = "Block"
        /\ RU!ParseAction("number") = Failed
    BY DEF RU!ParseAction
  <2> QED
    BY <2>1, <2>2
<1>3. RU!ParseDirection(RU!DirectionText(1)) = "Inbound"
  <2>1. RU!DirectionText(1) = "inbound"
    BY DEF RU!DirectionText
  <2> QED
    BY <2>1 DEF RU!ParseDirection
<1>4. RU!PolicyStoreText(n)
        = IF n = 0 THEN "local" ELSE IF n = 1 THEN "grouppolicy" ELSE IF n = 2 THEN "dynamic"
          ELSE IF n = 3 THEN "static" ELSE "number"
  BY DEF RU!PolicyStoreText
<1>5. /\ RU!ParsePolicyStore("local") = "Local"
      /\ RU!ParsePolicyStore("grouppolicy") = "GroupPolicy"
      /\ RU!ParsePolicyStore("static") = "Static" /\ RU!ParsePolicyStore("number") = Failed
  BY DEF RU!ParsePolicyStore
<1>6. {"Local", "GroupPolicy", "Static"} \subseteq RU!PolicyStores
  BY DEF RU!PolicyStores
<1> QED
  BY <1>1, <1>2, <1>3, <1>4, <1>5, <1>6

\* A durable inbound row becomes a rule for each of its protocols when it can be read, and every
\* rule keeps what the row says.
LEMMA RowIsRead ==
    ASSUME RU!RulesAssumption, WmiTables, NEW row \in RU!RuleRows, row.direction = 1,
           row.policy_store # 2
    PROVE  LET read == RU!RulesFromRaw(Raw(row))
           IN  /\ read # Failed <=> RU!Readable(row)
               /\ read # Failed =>
                    /\ read \in Seq(RU!FirewallRule)
                    /\ \A rule \in RU!Items(read) : RU!Keeps(rule, row)
                    /\ {rule.protocol : rule \in RU!Items(read)} = RU!Protocols(row)
<1> DEFINE read == RU!RulesFromRaw(Raw(row))
           raw == Raw(row)
           action == RU!ParseAction(raw.action)
           store == RU!ParsePolicyStore(raw.policy_store)
           spec == RU!ParsedPorts(raw)
           program == RU!ParsedProgram(raw)
           service == RU!ParsedService(raw)
           protocols == ProtocolsOf(raw)
           rules_read == [i \in DOMAIN protocols |-> RU!RuleFor(raw, protocols[i])]
<1>1. /\ row.instance_id \in STRING /\ row.display_name \in STRING
      /\ row.action \in Nat /\ row.policy_store \in Nat
  BY DEF RU!RuleRows
<1>2. /\ raw.rule_id = row.instance_id /\ raw.display_name = row.display_name
      /\ raw.direction = RU!DirectionText(1) /\ raw.action = RU!ActionText(row.action)
      /\ raw.enabled = (row.enabled # 0) /\ raw.policy_store = RU!PolicyStoreText(row.policy_store)
  BY DEF Raw
<1>3. Failed \notin {row.instance_id, row.display_name, row.enabled # 0, RU!Absent}
  BY <1>1 DEF RU!RulesAssumption
<1>4. /\ action = IF row.action = 1 THEN "Allow" ELSE IF row.action = 2 THEN "Block" ELSE Failed
      /\ RU!ParseDirection(raw.direction) = "Inbound"
      /\ store # Failed => row.policy_store \in {0, 1, 3}
      /\ row.policy_store \in {0, 1, 3} => store \in RU!PolicyStores
  BY <1>1, <1>2, NumbersAreRead
<1>5. Failed \notin RU!RuleActions \cup RU!RuleDirections \cup RU!PolicyStores
  BY DEF RU!RulesAssumption
<1>6. /\ spec # Failed <=> \A filter \in RU!FilterRow(RU!in.ports, row.instance_id) :
                             RU!ParsePortSpec(filter.local_port) # Failed
      /\ spec # Failed =>
           /\ spec \in RU!PortSpecs
           /\ \A filter \in RU!FilterRow(RU!in.ports, row.instance_id) : filter.local_port # <<>> =>
                spec = RU!ParsePortSpec(filter.local_port)
  BY PortsOfRow
<1>7. /\ program # Failed <=> "" \notin RU!Filters(RU!in.programs, row, "program")
      /\ program # Failed => program \in RU!Paths
      /\ program # Failed => RU!Filters(RU!in.programs, row, "program")
                               = IF program = RU!NoPath THEN {} ELSE {program.name}
  BY ProgramOfRow
<1>8. /\ service # Failed <=> "" \notin RU!Filters(RU!in.services, row, "service")
      /\ service # Failed => service = RU!Filters(RU!in.services, row, "service")
                               /\ RU!Filters(RU!in.services, row, "service") \in SUBSET STRING
  BY ServiceOfRow
<1>9. protocols \in Seq({"tcp", "udp"}) /\ RU!Items(protocols) = RU!Protocols(row)
  BY ProtocolsOfRow
<1>10. read = IF \/ Failed \in {raw.rule_id, raw.display_name, raw.enabled, RU!Absent}
                 \/ RU!ParseDirection(raw.direction) = Failed \/ action = Failed \/ store = Failed
                 \/ spec = Failed \/ program = Failed \/ service = Failed
              THEN Failed ELSE rules_read
  BY RawIsRead
<1>11. RU!Readable(row) <=> /\ row.action \in {1, 2} /\ row.policy_store \in {0, 1, 3}
                            /\ spec # Failed /\ program # Failed /\ service # Failed
  BY <1>6, <1>7, <1>8 DEF RU!Readable
<1> HIDE DEF raw, action, store, spec, program, service, protocols, read
<1>12. RU!RuleDirections = {"Inbound", "Outbound"} /\ RU!RuleActions = {"Allow", "Block"}
  BY DEF RU!RuleDirections, RU!RuleActions
<1>13. (action # Failed <=> row.action \in {1, 2})
       /\ (store # Failed <=> row.policy_store \in {0, 1, 3})
  BY <1>4, <1>5, <1>12
<1>14. read = IF RU!Readable(row) THEN rules_read ELSE Failed
  BY <1>2, <1>3, <1>4, <1>5, <1>10, <1>11, <1>12, <1>13
<1>15. ASSUME RU!Readable(row), NEW p \in {"tcp", "udp"}
       PROVE  LET rule == RU!RuleFor(raw, p)
              IN  /\ rule \in RU!FirewallRule /\ rule.protocol = p
                  /\ p \in RU!Protocols(row) => RU!Keeps(rule, row)
  <2> DEFINE rule == RU!RuleFor(raw, p)
  <2>1. rule = [rule_id |-> row.instance_id, display_name |-> row.display_name,
                direction |-> "Inbound", action |-> action, protocol |-> p, port_spec |-> spec,
                program |-> program, service |-> service, enabled |-> (row.enabled # 0),
                policy_store |-> store]
    BY <1>2, <1>4 DEF RU!RuleFor, action, spec, program, service, store
  <2>2. action = (IF row.action = 1 THEN "Allow" ELSE "Block") /\ action \in RU!RuleActions
        /\ store \in RU!PolicyStores
    BY <1>4, <1>11, <1>12, <1>15
  <2>3. spec \in RU!PortSpecs /\ program \in RU!Paths /\ service \in SUBSET STRING
    BY <1>6, <1>7, <1>8, <1>11, <1>15
  <2>4. (row.enabled # 0) \in BOOLEAN /\ "Inbound" \in RU!RuleDirections
    BY <1>12
  <2> HIDE DEF rule
  <2>5. rule \in RU!FirewallRule
    BY <1>1, <2>1, <2>2, <2>3, <2>4 DEF RU!FirewallRule
  <2>6. /\ rule.rule_id = row.instance_id /\ rule.enabled = (row.enabled # 0)
        /\ rule.action = action /\ rule.protocol = p /\ rule.port_spec = spec
        /\ rule.program = program /\ rule.service = service
    BY <2>1
  <2>7. p \in RU!Protocols(row) => RU!Keeps(rule, row)
    BY <1>6, <1>7, <1>8, <1>11, <1>15, <2>2, <2>6 DEF RU!Keeps
  <2> QED
    BY <2>5, <2>6, <2>7 DEF rule
<1>16. RU!Items(protocols) = {protocols[i] : i \in DOMAIN protocols}
  BY DEF RU!Items, RU!ToSet
<1>17. ASSUME RU!Readable(row)
       PROVE  /\ rules_read \in Seq(RU!FirewallRule)
              /\ \A rule \in RU!Items(rules_read) : RU!Keeps(rule, row)
              /\ {rule.protocol : rule \in RU!Items(rules_read)} = RU!Protocols(row)
  <2>1. \A i \in DOMAIN protocols : protocols[i] \in {"tcp", "udp"}
                                    /\ protocols[i] \in RU!Protocols(row)
    BY <1>9, <1>16
  <2>2. \A i \in DOMAIN protocols :
          /\ rules_read[i] \in RU!FirewallRule /\ rules_read[i].protocol = protocols[i]
          /\ RU!Keeps(rules_read[i], row)
    BY <1>15, <1>17, <2>1
  <2>3. DOMAIN protocols = 1 .. Len(protocols) /\ Len(protocols) \in Nat
    BY <1>9
  <2>4. RU!Items(rules_read) = {rules_read[i] : i \in DOMAIN protocols}
    BY DEF RU!Items, RU!ToSet
  <2>5. rules_read = [i \in 1 .. Len(protocols) |-> rules_read[i]]
    BY <2>3
  <2> HIDE DEF rules_read
  <2>6. rules_read \in Seq(RU!FirewallRule)
    BY <2>2, <2>3, <2>5
  <2> QED
    BY <1>9, <1>16, <2>2, <2>4, <2>6
<1>18. Failed \notin Seq(RU!FirewallRule)
  BY DEF RU!RulesAssumption
<1> HIDE DEF rules_read
<1>19. /\ read # Failed <=> RU!Readable(row)
       /\ read # Failed =>
            /\ read \in Seq(RU!FirewallRule)
            /\ \A rule \in RU!Items(read) : RU!Keeps(rule, row)
            /\ {rule.protocol : rule \in RU!Items(read)} = RU!Protocols(row)
  BY <1>14, <1>17, <1>18
<1> QED
  BY <1>19 DEF read

\* What RestrictionsSurvive says of the rules that are read from the tables.
LEMMA TablesAreRead ==
    ASSUME RU!RulesAssumption, WmiTables
    PROVE  LET raws == RU!QueryInboundRules(RU!in.rules, RU!in.ports, RU!in.programs,
                                         RU!in.services)
               read == RU!FirewallRulesFromRaw(raws)
               readable == \A i \in RU!Durable : RU!Readable(RU!in.rules[i])
           IN  /\ Len(raws) = Cardinality(RU!Durable)
               /\ read # Failed <=> readable
               /\ readable =>
                    /\ \A rule \in RU!Items(read) : \E i \in RU!Durable : RU!Keeps(rule, RU!in.rules[i])
                    /\ \A i \in RU!Durable :
                         {rule.protocol : rule \in {r \in RU!Items(read) : RU!Keeps(r, RU!in.rules[i])}}
                           = RU!Protocols(RU!in.rules[i])
<1> DEFINE raws == RU!QueryInboundRules(RU!in.rules, RU!in.ports, RU!in.programs, RU!in.services)
           read == RU!FirewallRulesFromRaw(raws)
           row(i) == RU!in.rules[i]
           each == [k \in DOMAIN raws |-> RU!RulesFromRaw(raws[k])]
           readable == \A i \in RU!Durable : RU!Readable(row(i))
<1>1. /\ raws \in Seq({Raw(row(i)) : i \in RU!Durable})
      /\ Len(raws) = Cardinality(RU!Durable)
      /\ RU!Items(raws) = {Raw(row(i)) : i \in RU!Durable}
  BY RawsAre
<1>2. \A i \in RU!Durable :
        row(i) \in RU!RuleRows /\ row(i).direction = 1 /\ row(i).policy_store # 2
  BY DEF RU!Durable, WmiTables
<1>3. read = IF \E k \in DOMAIN each : each[k] = Failed THEN Failed ELSE FlattenSeq(each)
  BY SameOperators DEF RU!FirewallRulesFromRaw
<1>4. /\ DOMAIN raws = 1 .. Len(raws) /\ Len(raws) \in Nat /\ DOMAIN each = 1 .. Len(raws)
      /\ \A k \in 1 .. Len(raws) : each[k] = RU!RulesFromRaw(raws[k])
      /\ each = [k \in 1 .. Len(raws) |-> each[k]]
  BY <1>1
<1> HIDE DEF raws, each, read, row
<1>5. \A k \in 1 .. Len(raws) : \E i \in RU!Durable : raws[k] = Raw(row(i))
  BY <1>1
<1>6. \A i \in RU!Durable : \E k \in 1 .. Len(raws) : raws[k] = Raw(row(i))
  BY <1>1, <1>4 DEF RU!Items, RU!ToSet
<1>7. (\E k \in 1 .. Len(raws) : each[k] = Failed) <=> ~readable
  <2>1. \A i \in RU!Durable : RU!RulesFromRaw(Raw(row(i))) # Failed <=> RU!Readable(row(i))
    BY <1>2, RowIsRead
  <2> QED
    BY <1>4, <1>5, <1>6, <2>1
<1>8. ASSUME readable
      PROVE  /\ read \in Seq(RU!FirewallRule)
             /\ \A rule \in RU!Items(read) : \E i \in RU!Durable : RU!Keeps(rule, row(i))
             /\ \A i \in RU!Durable :
                  {rule.protocol : rule \in {r \in RU!Items(read) : RU!Keeps(r, row(i))}}
                    = RU!Protocols(row(i))
  <2>1. ASSUME NEW i \in RU!Durable
        PROVE  LET part == RU!RulesFromRaw(Raw(row(i)))
               IN  /\ part \in Seq(RU!FirewallRule)
                   /\ \A rule \in RU!Items(part) : RU!Keeps(rule, row(i))
                   /\ {rule.protocol : rule \in RU!Items(part)} = RU!Protocols(row(i))
    <3>1. RU!Readable(row(i))
      BY <1>8
    <3> QED
      BY <1>2, <3>1, RowIsRead
  <2>2. each \in Seq(Seq(RU!FirewallRule)) /\ Len(each) = Len(raws)
    <3>1. \A k \in 1 .. Len(raws) : each[k] \in Seq(RU!FirewallRule)
      BY <1>4, <1>5, <2>1
    <3> QED
      BY <1>4, <3>1
  <2>3. read = FlattenSeq(each)
    BY <1>3, <1>4, <1>7, <1>8
  <2>4. read \in Seq(RU!FirewallRule)
        /\ RU!Items(read) = UNION {RU!Items(each[k]) : k \in 1 .. Len(raws)}
    BY <2>2, <2>3, FlattenItems
  <2>5. \A rule \in RU!Items(read) : \E i \in RU!Durable : RU!Keeps(rule, row(i))
    <3> TAKE rule \in RU!Items(read)
    <3>1. PICK k \in 1 .. Len(raws) : rule \in RU!Items(each[k])
      BY <2>4
    <3>2. PICK i \in RU!Durable : raws[k] = Raw(row(i))
      BY <1>5
    <3> QED
      BY <1>4, <2>1, <3>1, <3>2
  <2>6. ASSUME NEW i \in RU!Durable
        PROVE  {rule.protocol : rule \in {r \in RU!Items(read) : RU!Keeps(r, row(i))}}
                 = RU!Protocols(row(i))
    <3>1. PICK k \in 1 .. Len(raws) : raws[k] = Raw(row(i))
      BY <1>6
    <3>2. each[k] = RU!RulesFromRaw(Raw(row(i))) /\ RU!Items(each[k]) \subseteq RU!Items(read)
      BY <1>4, <2>4, <3>1
    <3>3. \A rule \in RU!Items(each[k]) : RU!Keeps(rule, row(i))
      BY <2>1, <3>2
    <3>4. {rule.protocol : rule \in RU!Items(each[k])} = RU!Protocols(row(i))
      BY <2>1, <3>2
    <3>5. \A rule : RU!Keeps(rule, row(i)) => rule.protocol \in RU!Protocols(row(i))
      BY DEF RU!Keeps
    <3> QED
      BY <3>2, <3>3, <3>4, <3>5
  <2> QED
    BY <2>4, <2>5, <2>6
<1>9. Failed \notin Seq(RU!FirewallRule)
  BY DEF RU!RulesAssumption
<1>10. read # Failed <=> readable
  BY <1>3, <1>4, <1>7, <1>8, <1>9
<1> QED
  BY <1>1, <1>8, <1>10 DEF raws, read, row

\* A symbol is escaped when the one before it is a backslash that is not.
LEMMA EscapedIs ==
    ASSUME NEW p \in Seq(STRING)
    PROVE  /\ ~RU!Escaped(p, 1)
           /\ \A i \in 1 .. Len(p) : RU!Escaped(p, i + 1) <=> p[i] = "\\" /\ ~RU!Escaped(p, i)
<1> DEFINE Run(i) == {k \in 1 .. i - 1 : \A l \in k .. i - 1 : p[l] = "\\"}
<1>1. \A i : RU!Escaped(p, i) <=> Cardinality(Run(i)) % 2 = 1
  BY SameOperators DEF RU!Escaped
<1>2. \A c \in Nat : (c + 1) % 2 = 1 <=> ~(c % 2 = 1)
  OBVIOUS
<1>3. ~RU!Escaped(p, 1)
  <2>1. Run(1) = {}
    OBVIOUS
  <2>2. 0 % 2 # 1
    OBVIOUS
  <2> HIDE DEF Run
  <2> QED
    BY <1>1, <2>1, <2>2, FS_EmptySet
<1>4. ASSUME NEW i \in 1 .. Len(p)
      PROVE  RU!Escaped(p, i + 1) <=> p[i] = "\\" /\ ~RU!Escaped(p, i)
  <2>1. i + 1 - 1 = i /\ i \in Nat /\ i - 1 \in Nat
    OBVIOUS
  <2>2. CASE p[i] # "\\"
    <3>1. Run(i + 1) = {}
      BY <2>1, <2>2
    <3>2. 0 % 2 # 1
      OBVIOUS
    <3> HIDE DEF Run
    <3> QED
      BY <1>1, <2>2, <3>1, <3>2, FS_EmptySet
  <2>3. CASE p[i] = "\\"
    <3>1. Run(i + 1) = Run(i) \cup {i}
      <4>1. \A k \in 1 .. i - 1 : (\A l \in k .. i : p[l] = "\\") <=> (\A l \in k .. i - 1 : p[l] = "\\")
        BY <2>1, <2>3
      <4>2. \A l \in i .. i : p[l] = "\\"
        BY <2>1, <2>3
      <4> QED
        BY <2>1, <4>1, <4>2
    <3>2. IsFiniteSet(Run(i)) /\ i \notin Run(i)
      <4>1. IsFiniteSet(1 .. i - 1)
        BY <2>1, FS_Interval
      <4> QED
        BY <2>1, <4>1, FS_Subset
    <3> HIDE DEF Run
    <3>3. Cardinality(Run(i)) \in Nat /\ Cardinality(Run(i + 1)) = Cardinality(Run(i)) + 1
      BY <3>1, <3>2, FS_AddElement, FS_CardinalityType
    <3> QED
      BY <1>1, <1>2, <2>3, <3>3
  <2> QED
    BY <2>2, <2>3
<1> QED
  BY <1>3, <1>4

\* Each parenthesis changes the depth by one, and nothing else changes it.
LEMMA DepthIs ==
    ASSUME NEW p \in Seq(STRING), NEW g \in 1 .. Len(p)
    PROVE  /\ RU!Depth(p, g, g - 1) = 0
           /\ \A k \in g .. Len(p) :
                /\ RU!Depth(p, g, k) \in Int /\ RU!Depth(p, g, k - 1) \in Int
                /\ RU!Symbol(p, k, "(") => RU!Depth(p, g, k) = RU!Depth(p, g, k - 1) + 1
                /\ RU!Symbol(p, k, ")") => RU!Depth(p, g, k) = RU!Depth(p, g, k - 1) - 1
                /\ ~RU!Symbol(p, k, "(") /\ ~RU!Symbol(p, k, ")")
                     => RU!Depth(p, g, k) = RU!Depth(p, g, k - 1)
<1> DEFINE Those(k, ch) == {l \in g .. k : RU!Symbol(p, l, ch)}
<1>1. \A k : RU!Depth(p, g, k) = Cardinality(Those(k, "(")) - Cardinality(Those(k, ")"))
  BY SameOperators DEF RU!Depth
<1>2. \A ch : Those(g - 1, ch) = {}
  OBVIOUS
<1>3. ASSUME NEW k \in g - 1 .. Len(p), NEW ch
      PROVE  IsFiniteSet(Those(k, ch)) /\ Cardinality(Those(k, ch)) \in Nat
  <2>1. IsFiniteSet(g .. k)
    BY FS_Interval
  <2>2. Those(k, ch) \in SUBSET (g .. k)
    OBVIOUS
  <2> HIDE DEF Those
  <2> QED
    BY <2>1, <2>2, FS_Subset, FS_CardinalityType
<1>4. ASSUME NEW k \in g .. Len(p), NEW ch
      PROVE  Cardinality(Those(k, ch)) = Cardinality(Those(k - 1, ch))
                                           + (IF RU!Symbol(p, k, ch) THEN 1 ELSE 0)
  <2>1. k - 1 \in g - 1 .. Len(p) /\ k \in g - 1 .. Len(p)
    OBVIOUS
  <2>2. k \notin Those(k - 1, ch)
    OBVIOUS
  <2>3. RU!Symbol(p, k, ch) => Those(k, ch) = Those(k - 1, ch) \cup {k}
    OBVIOUS
  <2>4. ~RU!Symbol(p, k, ch) => Those(k, ch) = Those(k - 1, ch)
    OBVIOUS
  <2>5. IsFiniteSet(Those(k - 1, ch)) /\ Cardinality(Those(k - 1, ch)) \in Nat
    BY <1>3, <2>1
  <2> HIDE DEF Those
  <2> QED
    BY <2>2, <2>3, <2>4, <2>5, FS_AddElement
<1>5. \A k : ~(RU!Symbol(p, k, "(") /\ RU!Symbol(p, k, ")"))
  BY DEF RU!Symbol
<1>6. RU!Depth(p, g, g - 1) = 0
  <2> HIDE DEF Those
  <2>1. \A ch : Cardinality(Those(g - 1, ch)) = 0
    BY <1>2, FS_EmptySet
  <2>2. RU!Depth(p, g, g - 1) = Cardinality(Those(g - 1, "(")) - Cardinality(Those(g - 1, ")"))
    BY <1>1
  <2> QED
    BY <2>1, <2>2
<1>7. ASSUME NEW k \in g .. Len(p)
      PROVE  /\ RU!Depth(p, g, k) \in Int /\ RU!Depth(p, g, k - 1) \in Int
             /\ RU!Symbol(p, k, "(") => RU!Depth(p, g, k) = RU!Depth(p, g, k - 1) + 1
             /\ RU!Symbol(p, k, ")") => RU!Depth(p, g, k) = RU!Depth(p, g, k - 1) - 1
             /\ ~RU!Symbol(p, k, "(") /\ ~RU!Symbol(p, k, ")")
                  => RU!Depth(p, g, k) = RU!Depth(p, g, k - 1)
  <2>1. k - 1 \in g - 1 .. Len(p) /\ k \in g - 1 .. Len(p)
    OBVIOUS
  <2>2. \A ch : Cardinality(Those(k, ch)) \in Nat /\ Cardinality(Those(k - 1, ch)) \in Nat
    BY <1>3, <2>1
  <2>3. \A ch : Cardinality(Those(k, ch)) = Cardinality(Those(k - 1, ch))
                                              + (IF RU!Symbol(p, k, ch) THEN 1 ELSE 0)
    BY <1>4
  <2> HIDE DEF Those
  <2> DEFINE a == Cardinality(Those(k - 1, "("))
             b == Cardinality(Those(k - 1, ")"))
             c == Cardinality(Those(k, "("))
             d == Cardinality(Those(k, ")"))
  <2>4. a \in Nat /\ b \in Nat /\ c \in Nat /\ d \in Nat
    BY <2>2
  <2>5. /\ c = a + (IF RU!Symbol(p, k, "(") THEN 1 ELSE 0)
        /\ d = b + (IF RU!Symbol(p, k, ")") THEN 1 ELSE 0)
    BY <2>3
  <2>6. RU!Depth(p, g, k) = c - d /\ RU!Depth(p, g, k - 1) = a - b
    BY <1>1
  <2> HIDE DEF a, b, c, d
  <2> QED
    BY <1>5, <2>4, <2>5, <2>6
<1> QED
  BY <1>6, <1>7

-----------------------------------------------------------------------------
\* What a scan of the first symbols has found out: whether the next one is escaped, whether a
\* group was just opened, the groups that are open with whether each holds a quantifier of its
\* own, and whether one was closed that does and is quantified.
ScanStates == [stack : Seq(BOOLEAN), opened : BOOLEAN, escaped : BOOLEAN, found : BOOLEAN]

IsOpen(p, g, i) == RU!Symbol(p, g, "(") /\ \A k \in g .. i : RU!Depth(p, g, k) > 0

Holds(p, g, i) == \E k \in g + 1 .. i : RU!Quantifies(p, k) /\ RU!Depth(p, g, k) = 1

OpenAt(p, i, places, stack) ==
    /\ places \in Seq(1 .. Len(p)) /\ Len(places) = Len(stack)
    /\ \A m \in 1 .. Len(places) :
         /\ places[m] <= i /\ IsOpen(p, places[m], i)
         /\ RU!Depth(p, places[m], i) = Len(places) - m + 1
         /\ stack[m] <=> Holds(p, places[m], i)
    /\ \A g \in 1 .. i : IsOpen(p, g, i) => \E m \in 1 .. Len(places) : places[m] = g

Nested(p, g) ==
    /\ Holds(p, g[1], g[2] - 1)
    /\ g[2] < Len(p) /\ p[g[2] + 1] \in RU!Quantifiers

Scanned(p, i, state) ==
    /\ state \in ScanStates
    /\ state.escaped <=> RU!Escaped(p, i + 1)
    /\ state.opened <=> i > 0 /\ RU!Symbol(p, i, "(")
    /\ \E places : OpenAt(p, i, places, state.stack)
    /\ state.found <=> \E g \in RU!Groups(p) : g[2] <= i /\ Nested(p, g)

\* A symbol that is no parenthesis leaves the groups as they are; a quantifier marks the last.
LEMMA PlainKeepsOpen ==
    ASSUME NEW p \in Seq(STRING), NEW i \in 1 .. Len(p), NEW places, NEW stack \in Seq(BOOLEAN),
           NEW marked \in Seq(BOOLEAN), OpenAt(p, i - 1, places, stack),
           ~RU!Symbol(p, i, "("), ~RU!Symbol(p, i, ")"), Len(marked) = Len(stack),
           \A m \in 1 .. Len(stack) :
             marked[m] <=> stack[m] \/ (m = Len(stack) /\ RU!Quantifies(p, i))
    PROVE  OpenAt(p, i, places, marked)
<1>1. places \in Seq(1 .. Len(p)) /\ Len(places) = Len(stack) /\ Len(places) \in Nat
  BY DEF OpenAt
<1>2. ASSUME NEW m \in 1 .. Len(places)
      PROVE  /\ places[m] <= i /\ IsOpen(p, places[m], i)
             /\ RU!Depth(p, places[m], i) = Len(places) - m + 1
             /\ marked[m] <=> Holds(p, places[m], i)
  <2> DEFINE g == places[m]
  <2>1. /\ g <= i - 1 /\ IsOpen(p, g, i - 1) /\ RU!Depth(p, g, i - 1) = Len(places) - m + 1
        /\ stack[m] <=> Holds(p, g, i - 1)
    BY DEF OpenAt
  <2>2. g \in 1 .. Len(p) /\ g \in Nat
    BY <1>1
  <2> HIDE DEF g
  <2>3. RU!Depth(p, g, i) = RU!Depth(p, g, i - 1)
    BY <2>1, <2>2, DepthIs
  <2>4. IsOpen(p, g, i)
    <3>1. g .. i = (g .. i - 1) \cup {i}
      BY <2>1, <2>2
    <3>2. RU!Depth(p, g, i) > 0
      BY <1>1, <2>1, <2>3
    <3> QED
      BY <2>1, <3>1, <3>2 DEF IsOpen
  <2>5. Holds(p, g, i) <=> Holds(p, g, i - 1) \/ (RU!Quantifies(p, i) /\ m = Len(places))
    <3>1. g + 1 .. i = (g + 1 .. i - 1) \cup {i}
      BY <2>1, <2>2
    <3>2. RU!Depth(p, g, i) = 1 <=> m = Len(places)
      BY <1>1, <2>1, <2>3
    <3> QED
      BY <3>1, <3>2 DEF Holds
  <2>6. marked[m] <=> stack[m] \/ (m = Len(stack) /\ RU!Quantifies(p, i))
    BY <1>1
  <2> QED
    BY <1>1, <2>1, <2>2, <2>3, <2>4, <2>5, <2>6 DEF g
<1>3. ASSUME NEW g \in 1 .. i, IsOpen(p, g, i) PROVE \E m \in 1 .. Len(places) : places[m] = g
  <2>1. g # i
    BY <1>3 DEF IsOpen
  <2>2. g \in 1 .. i - 1 /\ IsOpen(p, g, i - 1)
    BY <1>3, <2>1 DEF IsOpen
  <2> QED
    BY <2>2 DEF OpenAt
<1> QED
  BY <1>1, <1>2, <1>3 DEF OpenAt

\* An opening parenthesis opens a group that holds nothing yet.
LEMMA OpeningOpens ==
    ASSUME NEW p \in Seq(STRING), NEW i \in 1 .. Len(p), NEW places, NEW stack \in Seq(BOOLEAN),
           OpenAt(p, i - 1, places, stack), RU!Symbol(p, i, "("), ~RU!Quantifies(p, i)
    PROVE  OpenAt(p, i, Append(places, i), Append(stack, FALSE))
<1>1. places \in Seq(1 .. Len(p)) /\ Len(places) = Len(stack) /\ Len(places) \in Nat
  BY DEF OpenAt
<1> DEFINE after == Append(places, i)
           marked == Append(stack, FALSE)
<1>2. /\ after \in Seq(1 .. Len(p)) /\ Len(after) = Len(places) + 1 /\ Len(marked) = Len(after)
      /\ after[Len(after)] = i /\ marked[Len(after)] = FALSE
      /\ \A m \in 1 .. Len(places) : after[m] = places[m] /\ marked[m] = stack[m]
  BY <1>1
<1> HIDE DEF after, marked
<1>3. ASSUME NEW m \in 1 .. Len(places)
      PROVE  /\ places[m] <= i /\ IsOpen(p, places[m], i)
             /\ RU!Depth(p, places[m], i) = Len(places) - m + 2
             /\ stack[m] <=> Holds(p, places[m], i)
  <2> DEFINE g == places[m]
  <2>1. /\ g <= i - 1 /\ IsOpen(p, g, i - 1) /\ RU!Depth(p, g, i - 1) = Len(places) - m + 1
        /\ stack[m] <=> Holds(p, g, i - 1)
    BY DEF OpenAt
  <2>2. g \in 1 .. Len(p) /\ g \in Nat
    BY <1>1
  <2> HIDE DEF g
  <2>3. RU!Depth(p, g, i) = RU!Depth(p, g, i - 1) + 1
    BY <2>1, <2>2, DepthIs
  <2>4. IsOpen(p, g, i)
    <3>1. g .. i = (g .. i - 1) \cup {i}
      BY <2>1, <2>2
    <3>2. RU!Depth(p, g, i) > 0
      BY <1>1, <2>1, <2>3
    <3> QED
      BY <2>1, <3>1, <3>2 DEF IsOpen
  <2>5. Holds(p, g, i) <=> Holds(p, g, i - 1)
    <3>1. g + 1 .. i = (g + 1 .. i - 1) \cup {i}
      BY <2>1, <2>2
    <3> QED
      BY <3>1 DEF Holds
  <2> QED
    BY <1>1, <2>1, <2>2, <2>3, <2>4, <2>5 DEF g
<1>4. i <= i /\ IsOpen(p, i, i) /\ RU!Depth(p, i, i) = 1 /\ ~Holds(p, i, i)
  <2>1. RU!Depth(p, i, i) = RU!Depth(p, i, i - 1) + 1 /\ RU!Depth(p, i, i - 1) = 0
    BY DepthIs
  <2>2. i .. i = {i} /\ i + 1 .. i = {}
    OBVIOUS
  <2> QED
    BY <2>1, <2>2 DEF IsOpen, Holds
<1>5. ASSUME NEW m \in 1 .. Len(after)
      PROVE  /\ after[m] <= i /\ IsOpen(p, after[m], i)
             /\ RU!Depth(p, after[m], i) = Len(after) - m + 1
             /\ marked[m] <=> Holds(p, after[m], i)
  <2>1. CASE m = Len(after)
    BY <1>1, <1>2, <1>4, <2>1
  <2>2. CASE m # Len(after)
    <3>1. m \in 1 .. Len(places) /\ Len(after) - m + 1 = Len(places) - m + 2
      BY <1>1, <1>2, <2>2
    <3>2. after[m] = places[m] /\ marked[m] = stack[m]
      BY <1>2, <3>1
    <3> QED
      BY <1>3, <3>1, <3>2
  <2> QED
    BY <2>1, <2>2
<1>6. ASSUME NEW g \in 1 .. i, IsOpen(p, g, i) PROVE \E m \in 1 .. Len(after) : after[m] = g
  <2>1. CASE g = i
    <3>1. Len(after) \in 1 .. Len(after) /\ after[Len(after)] = g
      BY <1>1, <1>2, <2>1
    <3> QED
      BY <3>1
  <2>2. CASE g # i
    <3>1. g \in 1 .. i - 1 /\ IsOpen(p, g, i - 1)
      BY <1>6, <2>2 DEF IsOpen
    <3>2. PICK m \in 1 .. Len(places) : places[m] = g
      BY <3>1 DEF OpenAt
    <3>3. m \in 1 .. Len(after) /\ after[m] = g
      BY <1>1, <1>2, <3>2
    <3> QED
      BY <3>3
  <2> QED
    BY <2>1, <2>2
<1>7. OpenAt(p, i, after, marked)
  BY <1>2, <1>5, <1>6 DEF OpenAt
<1> QED
  BY <1>7 DEF after, marked

\* A closing parenthesis closes the last group that is open, and only a group that was.
LEMMA ClosingCloses ==
    ASSUME NEW p \in Seq(STRING), NEW i \in 1 .. Len(p), NEW places, NEW stack \in Seq(BOOLEAN),
           OpenAt(p, i - 1, places, stack), RU!Symbol(p, i, ")"), ~RU!Quantifies(p, i)
    PROVE  /\ stack = <<>> => /\ OpenAt(p, i, places, stack)
                              /\ \A g \in RU!Groups(p) : g[2] # i
           /\ stack # <<>> =>
                /\ OpenAt(p, i, SubSeq(places, 1, Len(places) - 1),
                          SubSeq(stack, 1, Len(stack) - 1))
                /\ <<places[Len(places)], i>> \in RU!Groups(p)
                /\ \A g \in RU!Groups(p) : g[2] = i => g = <<places[Len(places)], i>>
                /\ stack[Len(stack)] <=> Holds(p, places[Len(places)], i - 1)
<1>1. /\ places \in Seq(1 .. Len(p)) /\ Len(places) = Len(stack) /\ Len(places) \in Nat
      /\ i \in Nat /\ i - 1 \in Nat
  BY DEF OpenAt
<1>2. ASSUME NEW m \in 1 .. Len(places)
      PROVE  /\ places[m] \in 1 .. i - 1 /\ IsOpen(p, places[m], i - 1)
             /\ RU!Depth(p, places[m], i) = Len(places) - m
             /\ stack[m] <=> Holds(p, places[m], i - 1)
             /\ m # Len(places) => IsOpen(p, places[m], i) /\ (stack[m] <=> Holds(p, places[m], i))
  <2> DEFINE g == places[m]
  <2>1. /\ g <= i - 1 /\ IsOpen(p, g, i - 1) /\ RU!Depth(p, g, i - 1) = Len(places) - m + 1
        /\ stack[m] <=> Holds(p, g, i - 1)
    BY DEF OpenAt
  <2>2. g \in 1 .. Len(p) /\ g \in Nat
    BY <1>1
  <2> HIDE DEF g
  <2>3. RU!Depth(p, g, i) = RU!Depth(p, g, i - 1) - 1
    BY <2>1, <2>2, DepthIs
  <2>4. m # Len(places) => IsOpen(p, g, i)
    <3>1. g .. i = (g .. i - 1) \cup {i}
      BY <2>1, <2>2
    <3>2. m # Len(places) => RU!Depth(p, g, i) > 0
      BY <1>1, <2>1, <2>3
    <3> QED
      BY <2>1, <3>1, <3>2 DEF IsOpen
  <2>5. Holds(p, g, i) <=> Holds(p, g, i - 1)
    <3>1. g + 1 .. i = (g + 1 .. i - 1) \cup {i}
      BY <2>1, <2>2
    <3> QED
      BY <3>1 DEF Holds
  <2> QED
    BY <1>1, <2>1, <2>2, <2>3, <2>4, <2>5 DEF g
<1>3. ASSUME NEW g \in 1 .. i - 1, IsOpen(p, g, i - 1)
      PROVE  \E m \in 1 .. Len(places) : places[m] = g
  BY <1>3 DEF OpenAt
<1>4. ~IsOpen(p, i, i) /\ \A g \in 1 .. i : IsOpen(p, g, i) => g # i /\ IsOpen(p, g, i - 1)
  <2>1. ~RU!Symbol(p, i, "(")
    BY DEF RU!Symbol
  <2>2. \A g \in 1 .. i : g .. i - 1 \subseteq g .. i
    BY <1>1
  <2> QED
    BY <2>1, <2>2 DEF IsOpen
<1>5. \A g \in RU!Groups(p) : g[2] = i =>
        /\ g = <<g[1], i>> /\ g[1] \in 1 .. i - 1 /\ IsOpen(p, g[1], i - 1)
        /\ RU!Depth(p, g[1], i) = 0
  BY <1>1 DEF RU!Groups, IsOpen
<1>6. ASSUME stack = <<>>
      PROVE  OpenAt(p, i, places, stack) /\ \A g \in RU!Groups(p) : g[2] # i
  <2>1. Len(places) = 0
    BY <1>1, <1>6
  <2>2. \A g \in 1 .. i : ~IsOpen(p, g, i)
    BY <1>1, <1>3, <1>4, <2>1
  <2>3. \A g \in RU!Groups(p) : g[2] # i
    BY <1>3, <1>5, <2>1
  <2>4. OpenAt(p, i, places, stack)
    BY <1>1, <2>1, <2>2 DEF OpenAt
  <2> QED
    BY <2>3, <2>4
<1>7. ASSUME stack # <<>>
      PROVE  /\ OpenAt(p, i, SubSeq(places, 1, Len(places) - 1), SubSeq(stack, 1, Len(stack) - 1))
             /\ <<places[Len(places)], i>> \in RU!Groups(p)
             /\ \A g \in RU!Groups(p) : g[2] = i => g = <<places[Len(places)], i>>
             /\ stack[Len(stack)] <=> Holds(p, places[Len(places)], i - 1)
  <2> DEFINE top == Len(places)
             after == SubSeq(places, 1, top - 1)
             marked == SubSeq(stack, 1, top - 1)
  <2>1. top \in Nat /\ top > 0 /\ top \in 1 .. Len(places)
    BY <1>1, <1>7
  <2>2. /\ after \in Seq(1 .. Len(p)) /\ Len(after) = top - 1 /\ Len(marked) = top - 1
        /\ \A m \in 1 .. top - 1 : after[m] = places[m] /\ marked[m] = stack[m]
    BY <1>1, <2>1
  <2> HIDE DEF after, marked, top
  <2>3. /\ places[top] \in 1 .. i - 1 /\ IsOpen(p, places[top], i - 1)
        /\ RU!Depth(p, places[top], i) = 0
        /\ stack[top] <=> Holds(p, places[top], i - 1)
    BY <1>2, <2>1 DEF top
  <2>4. <<places[top], i>> \in RU!Groups(p)
    <3>1. places[top] \in DOMAIN p /\ i \in DOMAIN p /\ places[top] < i
      BY <1>1, <2>3
    <3> QED
      BY <2>3, <3>1 DEF RU!Groups, IsOpen
  <2>5. ASSUME NEW g \in RU!Groups(p), g[2] = i PROVE g = <<places[top], i>>
    <3>1. g = <<g[1], i>> /\ g[1] \in 1 .. i - 1 /\ IsOpen(p, g[1], i - 1)
          /\ RU!Depth(p, g[1], i) = 0
      BY <1>5, <2>5
    <3>2. PICK m \in 1 .. Len(places) : places[m] = g[1]
      BY <1>3, <3>1
    <3>3. m = top
      BY <1>1, <1>2, <3>1, <3>2 DEF top
    <3> QED
      BY <3>1, <3>2, <3>3
  <2>6. ASSUME NEW m \in 1 .. Len(after)
        PROVE  /\ after[m] <= i /\ IsOpen(p, after[m], i)
               /\ RU!Depth(p, after[m], i) = Len(after) - m + 1
               /\ marked[m] <=> Holds(p, after[m], i)
    <3>1. m \in 1 .. Len(places) /\ m # Len(places) /\ m \in 1 .. top - 1
      BY <2>1, <2>2 DEF top
    <3>2. /\ places[m] \in 1 .. i - 1 /\ IsOpen(p, places[m], i)
          /\ RU!Depth(p, places[m], i) = top - m
          /\ stack[m] <=> Holds(p, places[m], i)
      BY <1>2, <3>1 DEF top
    <3>3. after[m] = places[m] /\ marked[m] = stack[m]
      BY <2>2, <3>1
    <3>4. Len(after) - m + 1 = top - m /\ \A n \in 1 .. i - 1 : n <= i
      BY <1>1, <2>1, <2>2, <3>1
    <3> QED
      BY <3>2, <3>3, <3>4
  <2>7. ASSUME NEW g \in 1 .. i, IsOpen(p, g, i) PROVE \E m \in 1 .. Len(after) : after[m] = g
    <3>1. g \in 1 .. i - 1 /\ IsOpen(p, g, i - 1)
      BY <1>1, <1>4, <2>7
    <3>2. PICK m \in 1 .. Len(places) : places[m] = g
      BY <1>3, <3>1
    <3>3. m # top
      <4>1. RU!Depth(p, g, i) > 0
        BY <2>7, <1>1 DEF IsOpen
      <4> QED
        BY <2>3, <3>2, <4>1
    <3>4. m \in 1 .. Len(after) /\ after[m] = places[m]
      BY <2>1, <2>2, <3>2, <3>3 DEF top
    <3> QED
      BY <3>2, <3>4
  <2>8. OpenAt(p, i, after, marked)
    BY <2>2, <2>6, <2>7 DEF OpenAt
  <2>9. Len(stack) = top
    BY <1>1 DEF top
  <2> QED
    BY <2>3, <2>4, <2>5, <2>8, <2>9 DEF after, marked, top
<1> QED
  BY <1>6, <1>7

\* What a symbol makes of what was found out before it.
LEMMA ScanIs ==
    ASSUME NEW p \in Seq(STRING), NEW i \in 1 .. Len(p), NEW state \in ScanStates
    PROVE  LET next == RU!ScanSymbol(p, state, i)
               Is(ch) == ~state.escaped /\ p[i] = ch
               stack == state.stack
           IN  /\ next \in ScanStates
               /\ next.escaped <=> Is("\\")
               /\ next.opened <=> Is("(")
               /\ Is("(") => next.stack = Append(stack, FALSE)
               /\ Is(")") => next.stack = IF stack = <<>> THEN stack
                                          ELSE SubSeq(stack, 1, Len(stack) - 1)
               /\ Is("*") \/ (Is("?") /\ ~state.opened) =>
                    next.stack = IF stack = <<>> THEN stack
                                 ELSE Append(SubSeq(stack, 1, Len(stack) - 1), TRUE)
               /\ ~Is("(") /\ ~Is(")") /\ ~Is("*") /\ ~(Is("?") /\ ~state.opened) => next.stack = stack
               /\ Is(")") => (next.found <=> state.found \/ (/\ stack # <<>> /\ stack[Len(stack)]
                                                             /\ i < Len(p)
                                                             /\ p[i + 1] \in RU!Quantifiers))
               /\ ~Is(")") => next.found = state.found
<1> DEFINE next == RU!ScanSymbol(p, state, i)
           Is(ch) == ~state.escaped /\ p[i] = ch
           stack == state.stack
           plain == [state EXCEPT !.opened = FALSE]
           had == stack # <<>> /\ stack[Len(stack)]
           follows == i < Len(p) /\ p[i + 1] \in RU!Quantifiers
           popped == IF stack = <<>> THEN stack ELSE SubSeq(stack, 1, Len(stack) - 1)
           marked == IF stack = <<>> THEN stack ELSE Append(SubSeq(stack, 1, Len(stack) - 1), TRUE)
<1>1. /\ stack \in Seq(BOOLEAN) /\ state.opened \in BOOLEAN /\ state.escaped \in BOOLEAN
      /\ state.found \in BOOLEAN
      /\ state = [stack |-> stack, opened |-> state.opened, escaped |-> state.escaped,
                  found |-> state.found]
  BY DEF ScanStates
<1>2. popped \in Seq(BOOLEAN) /\ marked \in Seq(BOOLEAN) /\ Append(stack, FALSE) \in Seq(BOOLEAN)
  <2>1. CASE stack = <<>>
    BY <1>1, <2>1
  <2>2. CASE stack # <<>>
    <3>1. SubSeq(stack, 1, Len(stack) - 1) \in Seq(BOOLEAN)
      BY <1>1, <2>2
    <3> QED
      BY <1>1, <2>2, <3>1
  <2> QED
    BY <2>1, <2>2
<1>3. plain = [stack |-> stack, opened |-> FALSE, escaped |-> state.escaped, found |-> state.found]
  <2>1. \A x : [state EXCEPT !.opened = x]
                = [stack |-> stack, opened |-> x, escaped |-> state.escaped, found |-> state.found]
    BY DEF ScanStates
  <2> QED
    BY <2>1
<1>4. RU!MarkQuantifier(stack) = marked
  BY DEF RU!MarkQuantifier, RU!Front
<1>6. /\ "\\" # "(" /\ "\\" # ")" /\ "\\" # "*" /\ "\\" # "?" /\ "(" # ")" /\ "(" # "*" /\ "(" # "?"
      /\ ")" # "*" /\ ")" # "?" /\ "*" # "?"
  OBVIOUS
<1> DEFINE Told(r) ==
             /\ r \in ScanStates
             /\ r.escaped <=> Is("\\")
             /\ r.opened <=> Is("(")
             /\ Is("(") => r.stack = Append(stack, FALSE)
             /\ Is(")") => r.stack = popped
             /\ Is("*") \/ (Is("?") /\ ~state.opened) => r.stack = marked
             /\ ~Is("(") /\ ~Is(")") /\ ~Is("*") /\ ~(Is("?") /\ ~state.opened) => r.stack = stack
             /\ Is(")") => (r.found <=> state.found \/ (had /\ follows))
             /\ ~Is(")") => r.found = state.found
<1>5. plain.stack = stack /\ plain.found = state.found
  BY <1>3
<1>7. ASSUME state.escaped PROVE Told(next)
  <2>1. next = [plain EXCEPT !.escaped = FALSE]
    BY <1>7 DEF RU!ScanSymbol
  <2> HIDE DEF next, popped, marked, plain, had, follows, stack
  <2>2. next = [stack |-> stack, opened |-> FALSE, escaped |-> FALSE, found |-> state.found]
    BY <1>3, <2>1
  <2> QED
    BY <1>1, <1>7, <2>2 DEF ScanStates
<1>8. ASSUME Is("\\") PROVE Told(next)
  <2>1. next = [plain EXCEPT !.escaped = TRUE]
    BY <1>8 DEF RU!ScanSymbol
  <2> HIDE DEF next, popped, marked, plain, had, follows, stack
  <2>2. next = [stack |-> stack, opened |-> FALSE, escaped |-> TRUE, found |-> state.found]
    BY <1>3, <2>1
  <2> QED
    BY <1>1, <1>6, <1>8, <2>2 DEF ScanStates
<1>9. ASSUME Is("(") PROVE Told(next)
  <2>1. next = [state EXCEPT !.stack = Append(stack, FALSE), !.opened = TRUE]
    BY <1>6, <1>9 DEF RU!ScanSymbol
  <2> HIDE DEF next, popped, marked, plain, had, follows, stack
  <2>2. next = [stack |-> Append(stack, FALSE), opened |-> TRUE, escaped |-> FALSE,
                found |-> state.found]
    <3>1. state.escaped = FALSE
      BY <1>1, <1>9
    <3> QED
      BY <1>1, <2>1, <3>1
  <2> QED
    BY <1>1, <1>2, <1>6, <1>9, <2>2 DEF ScanStates
<1>10. ASSUME Is(")") PROVE Told(next)
  <2>1. next = [plain EXCEPT !.stack = IF @ = <<>> THEN @ ELSE RU!Front(@),
                             !.found = @ \/ (/\ state.stack # <<>> /\ RU!Last(state.stack)
                                             /\ i < Len(p) /\ p[i + 1] \in RU!Quantifiers)]
    BY <1>6, <1>10 DEF RU!ScanSymbol
  <2>2. next = [plain EXCEPT !.stack = popped, !.found = state.found \/ (had /\ follows)]
    <3>1. popped = IF plain.stack = <<>> THEN plain.stack ELSE RU!Front(plain.stack)
      BY <1>5 DEF RU!Front
    <3>2. (state.stack # <<>> /\ RU!Last(state.stack)) <=> had
      BY DEF RU!Last
    <3> HIDE DEF next, popped, plain, had
    <3> QED
      BY <1>5, <2>1, <3>1, <3>2
  <2> HIDE DEF next, popped, marked, plain, had, follows, stack
  <2>3. next = [stack |-> popped, opened |-> FALSE, escaped |-> FALSE,
                found |-> state.found \/ (had /\ follows)]
    <3>1. state.escaped = FALSE
      BY <1>1, <1>10
    <3> QED
      BY <1>3, <2>2, <3>1
  <2> QED
    BY <1>1, <1>2, <1>6, <1>10, <2>3 DEF ScanStates
<1>11. ASSUME Is("*") \/ (Is("?") /\ ~state.opened) PROVE Told(next)
  <2>1. next = [plain EXCEPT !.stack = RU!MarkQuantifier(@)]
    BY <1>6, <1>11 DEF RU!ScanSymbol
  <2>2. next = [plain EXCEPT !.stack = marked]
    <3> HIDE DEF next, marked, plain, stack
    <3> QED
      BY <1>4, <1>5, <2>1
  <2> HIDE DEF next, popped, marked, plain, had, follows, stack
  <2>3. next = [stack |-> marked, opened |-> FALSE, escaped |-> FALSE, found |-> state.found]
    <3>1. state.escaped = FALSE
      BY <1>1, <1>11
    <3> QED
      BY <1>3, <2>2, <3>1
  <2> QED
    BY <1>1, <1>2, <1>6, <1>11, <2>3 DEF ScanStates
<1>12. ASSUME ~state.escaped, ~Is("\\"), ~Is("("), ~Is(")"),
              ~(Is("*") \/ (Is("?") /\ ~state.opened))
       PROVE  Told(next)
  <2>1. next = plain
    BY <1>12 DEF RU!ScanSymbol
  <2> HIDE DEF next, popped, marked, plain, had, follows, stack
  <2>2. next = [stack |-> stack, opened |-> FALSE, escaped |-> FALSE, found |-> state.found]
    <3>1. state.escaped = FALSE
      BY <1>1, <1>12
    <3> QED
      BY <1>3, <2>1, <3>1
  <2> QED
    BY <1>1, <1>6, <1>12, <2>2 DEF ScanStates
<1>13. Told(next)
  BY <1>7, <1>8, <1>9, <1>10, <1>11, <1>12
<1> HIDE DEF next
<1> QED
  BY <1>13 DEF next

\* A sequence with another last.
LEMMA LastReplaced ==
    ASSUME NEW X, NEW seq \in Seq(X), seq # <<>>, NEW x \in X
    PROVE  LET after == Append(SubSeq(seq, 1, Len(seq) - 1), x)
           IN  /\ after \in Seq(X) /\ Len(after) = Len(seq) /\ after[Len(seq)] = x
               /\ \A m \in 1 .. Len(seq) - 1 : after[m] = seq[m]
<1> DEFINE size == Len(seq)
           front == SubSeq(seq, 1, size - 1)
<1>1. size \in Nat /\ size > 0 /\ size = Len(seq)
  OBVIOUS
<1> HIDE DEF size
<1>2. front \in Seq(X) /\ Len(front) = size - 1
  BY <1>1
<1>3. \A m \in 1 .. size - 1 : front[m] = seq[m]
  BY <1>1
<1> HIDE DEF front
<1>4. Append(front, x) \in Seq(X) /\ Len(Append(front, x)) = size
  BY <1>1, <1>2
<1>5. Append(front, x)[size] = x
  BY <1>1, <1>2
<1>6. \A m \in 1 .. size - 1 : Append(front, x)[m] = seq[m]
  BY <1>1, <1>2, <1>3
<1> QED
  BY <1>4, <1>5, <1>6 DEF front, size

\* What was found out stays true from one symbol to the next.
LEMMA ScanKeeps ==
    ASSUME NEW p \in Seq(STRING), NEW i \in 1 .. Len(p), NEW state, Scanned(p, i - 1, state)
    PROVE  Scanned(p, i, RU!ScanSymbol(p, state, i))
<1> DEFINE next == RU!ScanSymbol(p, state, i)
           Is(ch) == ~state.escaped /\ p[i] = ch
           stack == state.stack
<1>1. /\ state \in ScanStates /\ stack \in Seq(BOOLEAN) /\ i \in Nat /\ i - 1 \in Nat
      /\ state.escaped <=> RU!Escaped(p, i)
      /\ state.opened <=> i - 1 > 0 /\ RU!Symbol(p, i - 1, "(")
      /\ state.found <=> \E g \in RU!Groups(p) : g[2] <= i - 1 /\ Nested(p, g)
  BY DEF Scanned, ScanStates
<1>2. PICK places : OpenAt(p, i - 1, places, stack)
  BY DEF Scanned
<1>3. \A ch : Is(ch) <=> RU!Symbol(p, i, ch)
  BY <1>1 DEF RU!Symbol
<1>4. RU!Quantifies(p, i) <=> Is("*") \/ (Is("?") /\ ~state.opened)
  <2>1. i - 1 > 0 <=> i > 1
    BY <1>1
  <2> HIDE DEF Is
  <2> QED
    BY <1>1, <1>3, <2>1 DEF RU!Quantifies
<1>5. /\ next \in ScanStates
      /\ next.escaped <=> Is("\\")
      /\ next.opened <=> Is("(")
      /\ Is("(") => next.stack = Append(stack, FALSE)
      /\ Is(")") => next.stack = IF stack = <<>> THEN stack ELSE SubSeq(stack, 1, Len(stack) - 1)
      /\ RU!Quantifies(p, i) =>
           next.stack = IF stack = <<>> THEN stack
                        ELSE Append(SubSeq(stack, 1, Len(stack) - 1), TRUE)
      /\ ~Is("(") /\ ~Is(")") /\ ~RU!Quantifies(p, i) => next.stack = stack
      /\ Is(")") => (next.found <=> state.found \/ (/\ stack # <<>> /\ stack[Len(stack)]
                                                    /\ i < Len(p) /\ p[i + 1] \in RU!Quantifiers))
      /\ ~Is(")") => next.found = state.found
  <2>1. /\ next \in ScanStates
        /\ next.escaped <=> Is("\\")
        /\ next.opened <=> Is("(")
        /\ Is("(") => next.stack = Append(stack, FALSE)
        /\ Is(")") => next.stack = IF stack = <<>> THEN stack ELSE SubSeq(stack, 1, Len(stack) - 1)
        /\ Is("*") \/ (Is("?") /\ ~state.opened) =>
             next.stack = IF stack = <<>> THEN stack
                          ELSE Append(SubSeq(stack, 1, Len(stack) - 1), TRUE)
        /\ ~Is("(") /\ ~Is(")") /\ ~Is("*") /\ ~(Is("?") /\ ~state.opened) => next.stack = stack
        /\ Is(")") => (next.found <=> state.found \/ (/\ stack # <<>> /\ stack[Len(stack)]
                                                      /\ i < Len(p) /\ p[i + 1] \in RU!Quantifiers))
        /\ ~Is(")") => next.found = state.found
    BY <1>1, ScanIs
  <2> HIDE DEF next, Is, stack
  <2> QED
    BY <1>4, <2>1
<1>6. ~(Is("(") /\ Is(")")) /\ ~(Is("(") /\ RU!Quantifies(p, i)) /\ ~(Is(")") /\ RU!Quantifies(p, i))
  BY <1>4
<1>7. next.escaped <=> RU!Escaped(p, i + 1)
  BY <1>1, <1>5, EscapedIs
<1>8. \A g \in RU!Groups(p) : g[2] = i => Is(")")
  BY <1>3 DEF RU!Groups
<1>9. \A g \in RU!Groups(p) : (g[2] <= i <=> g[2] <= i - 1 \/ g[2] = i) /\ ~(g[2] <= i - 1 /\ g[2] = i)
  <2>1. \A g \in RU!Groups(p) : g[2] \in Nat
    BY DEF RU!Groups
  <2> QED
    BY <1>1, <2>1
<1> HIDE DEF next, stack, Is
<1>10. CASE Is("(")
  <2>1. RU!Symbol(p, i, "(") /\ ~RU!Quantifies(p, i) /\ ~Is(")")
    BY <1>3, <1>6, <1>10
  <2>2. OpenAt(p, i, Append(places, i), Append(stack, FALSE))
    BY <1>1, <1>2, <2>1, OpeningOpens
  <2>3. next.stack = Append(stack, FALSE) /\ next.found = state.found
    BY <1>5, <1>10, <2>1
  <2>4. next.found <=> \E g \in RU!Groups(p) : g[2] <= i /\ Nested(p, g)
    BY <1>1, <1>8, <1>9, <2>1, <2>3
  <2>5. next.opened <=> i > 0 /\ RU!Symbol(p, i, "(")
    BY <1>3, <1>5
  <2>6. \E open : OpenAt(p, i, open, next.stack)
    BY <2>2, <2>3
  <2> QED
    BY <1>5, <1>7, <2>4, <2>5, <2>6 DEF Scanned, next
<1>11. CASE Is(")")
  <2>1. RU!Symbol(p, i, ")") /\ ~RU!Quantifies(p, i)
    BY <1>3, <1>6, <1>11
  <2>2. /\ stack = <<>> => OpenAt(p, i, places, stack) /\ \A g \in RU!Groups(p) : g[2] # i
        /\ stack # <<>> =>
             /\ OpenAt(p, i, SubSeq(places, 1, Len(places) - 1), SubSeq(stack, 1, Len(stack) - 1))
             /\ <<places[Len(places)], i>> \in RU!Groups(p)
             /\ \A g \in RU!Groups(p) : g[2] = i => g = <<places[Len(places)], i>>
             /\ stack[Len(stack)] <=> Holds(p, places[Len(places)], i - 1)
    BY <1>1, <1>2, <2>1, ClosingCloses
  <2>3. /\ next.stack = IF stack = <<>> THEN stack ELSE SubSeq(stack, 1, Len(stack) - 1)
        /\ next.found <=> state.found \/ (/\ stack # <<>> /\ stack[Len(stack)]
                                          /\ i < Len(p) /\ p[i + 1] \in RU!Quantifiers)
    BY <1>5, <1>11
  <2>4. next.found <=> \E g \in RU!Groups(p) : g[2] <= i /\ Nested(p, g)
    <3>1. CASE stack = <<>>
      BY <1>1, <1>9, <2>2, <2>3, <3>1
    <3>2. CASE stack # <<>>
      <4> DEFINE last == <<places[Len(places)], i>>
      <4>1. Nested(p, last) <=> stack[Len(stack)] /\ i < Len(p) /\ p[i + 1] \in RU!Quantifiers
        BY <2>2, <3>2 DEF Nested
      <4>2. last \in RU!Groups(p) /\ last[2] = i /\ \A g \in RU!Groups(p) : g[2] = i => g = last
        BY <2>2, <3>2
      <4> HIDE DEF last
      <4> QED
        BY <1>1, <1>9, <2>3, <3>2, <4>1, <4>2
    <3> QED
      BY <3>1, <3>2
  <2>5. next.opened <=> i > 0 /\ RU!Symbol(p, i, "(")
    BY <1>3, <1>5, <1>1
  <2>6. \E open : OpenAt(p, i, open, next.stack)
    BY <2>2, <2>3
  <2> QED
    BY <1>5, <1>7, <2>4, <2>5, <2>6 DEF Scanned, next
<1>12. CASE ~Is("(") /\ ~Is(")")
  <2>1. ~RU!Symbol(p, i, "(") /\ ~RU!Symbol(p, i, ")")
    BY <1>3, <1>12
  <2> DEFINE marked == IF stack = <<>> THEN stack ELSE Append(SubSeq(stack, 1, Len(stack) - 1), TRUE)
  <2>2. /\ RU!Quantifies(p, i) => next.stack = marked
        /\ ~RU!Quantifies(p, i) => next.stack = stack
        /\ next.found = state.found
    BY <1>5, <1>12
  <2>3. /\ marked \in Seq(BOOLEAN) /\ Len(marked) = Len(stack)
        /\ \A m \in 1 .. Len(stack) : marked[m] <=> stack[m] \/ m = Len(stack)
    <3>1. CASE stack = <<>>
      BY <1>1, <3>1
    <3>2. CASE stack # <<>>
      <4>1. Len(stack) \in Nat
        BY <1>1
      <4>2. /\ marked \in Seq(BOOLEAN) /\ Len(marked) = Len(stack) /\ marked[Len(stack)] = TRUE
            /\ \A m \in 1 .. Len(stack) - 1 : marked[m] = stack[m]
        <5>1. \A x \in BOOLEAN :
                LET after == Append(SubSeq(stack, 1, Len(stack) - 1), x)
                IN  /\ after \in Seq(BOOLEAN) /\ Len(after) = Len(stack) /\ after[Len(stack)] = x
                    /\ \A m \in 1 .. Len(stack) - 1 : after[m] = stack[m]
          BY <1>1, <3>2, LastReplaced
        <5> QED
          BY <3>2, <5>1
      <4> HIDE DEF marked
      <4>3. \A m \in 1 .. Len(stack) : m = Len(stack) \/ m \in 1 .. Len(stack) - 1
        BY <4>1
      <4>4. \A m \in 1 .. Len(stack) - 1 : m # Len(stack)
        BY <4>1
      <4> QED
        BY <4>2, <4>3, <4>4
    <3> QED
      BY <3>1, <3>2
  <2> HIDE DEF marked
  <2>4. /\ next.stack \in Seq(BOOLEAN) /\ Len(next.stack) = Len(stack)
        /\ \A m \in 1 .. Len(stack) :
             next.stack[m] <=> stack[m] \/ (m = Len(stack) /\ RU!Quantifies(p, i))
    <3>1. CASE RU!Quantifies(p, i)
      BY <2>2, <2>3, <3>1
    <3>2. CASE ~RU!Quantifies(p, i)
      BY <1>1, <2>2, <3>2
    <3> QED
      BY <3>1, <3>2
  <2>5. OpenAt(p, i, places, next.stack)
    BY <1>1, <1>2, <2>1, <2>4, PlainKeepsOpen
  <2>6. next.found <=> \E g \in RU!Groups(p) : g[2] <= i /\ Nested(p, g)
    BY <1>1, <1>8, <1>9, <1>12, <2>2
  <2>7. next.opened <=> i > 0 /\ RU!Symbol(p, i, "(")
    BY <1>3, <1>5, <1>12
  <2> QED
    BY <1>5, <1>7, <2>5, <2>6, <2>7 DEF Scanned, next
<1> QED
  BY <1>10, <1>11, <1>12

LEMMA ScanStarts == ASSUME NEW p \in Seq(STRING) PROVE Scanned(p, 0, RU!Unscanned)
<1>1. RU!Unscanned \in ScanStates
  BY DEF RU!Unscanned, ScanStates
<1>2. ~RU!Escaped(p, 1) /\ 0 + 1 = 1
  BY EscapedIs
<1>3. OpenAt(p, 0, <<>>, <<>>)
  BY DEF OpenAt
<1>4. \A g \in RU!Groups(p) : ~(g[2] <= 0)
  BY DEF RU!Groups
<1>5. RU!Unscanned.stack = <<>> /\ ~RU!Unscanned.escaped /\ ~RU!Unscanned.opened /\ ~RU!Unscanned.found
  BY DEF RU!Unscanned
<1>6. \E places : OpenAt(p, 0, places, RU!Unscanned.stack)
  BY <1>3, <1>5
<1>7. ~(0 > 0)
  OBVIOUS
<1> QED
  BY <1>1, <1>2, <1>4, <1>5, <1>6, <1>7 DEF Scanned

\* What goes from one number to the next by steps of its own can be defined that way.
Recursive(f, n, X, base, step) ==
    /\ f \in [0 .. n -> X] /\ f[0] = base
    /\ \A i \in 1 .. n : f[i] = step[i][f[i - 1]]

LEMMA Recurses ==
    ASSUME NEW X, NEW n \in Nat, NEW base \in X, NEW step \in [1 .. n -> [X -> X]]
    PROVE  \E f : Recursive(f, n, X, base, step)
<1> DEFINE Solves(f, k) == f[0] = base /\ \A i \in 1 .. k : f[i] = step[i][f[i - 1]]
           G == {k \in 0 .. n : \E f \in [0 .. k -> X] : Solves(f, k)}
<1>1. 0 \in G
  <2> DEFINE f == [i \in 0 .. 0 |-> base]
  <2>1. f \in [0 .. 0 -> X] /\ f[0] = base
    OBVIOUS
  <2>2. 1 .. 0 = {} /\ 0 \in 0 .. n
    OBVIOUS
  <2> HIDE DEF f
  <2> QED
    BY <2>1, <2>2
<1>2. ASSUME NEW k \in 1 .. n, k - 1 \in G PROVE k \in G
  <2>1. PICK f \in [0 .. k - 1 -> X] : Solves(f, k - 1)
    BY <1>2
  <2> DEFINE last == step[k][f[k - 1]]
             g == [i \in 0 .. k |-> IF i = k THEN last ELSE f[i]]
  <2>2. last \in X
    <3>1. f[k - 1] \in X
      BY <2>1
    <3> QED
      BY <3>1
  <2> HIDE DEF last
  <2>3. \A i \in 0 .. k : i # k => i \in 0 .. k - 1
    OBVIOUS
  <2>4. g \in [0 .. k -> X]
    BY <2>1, <2>2, <2>3
  <2>5. g[0] = base
    BY <2>1
  <2>6. ASSUME NEW i \in 1 .. k PROVE g[i] = step[i][g[i - 1]]
    <3>1. i - 1 \in 0 .. k - 1 /\ i - 1 \in 0 .. k /\ i - 1 # k /\ i \in 0 .. k
      OBVIOUS
    <3>2. g[i - 1] = f[i - 1]
      BY <3>1
    <3>3. CASE i = k
      BY <3>1, <3>2, <3>3 DEF last
    <3>4. CASE i # k
      <4>1. i \in 1 .. k - 1 /\ g[i] = f[i]
        BY <3>1, <3>4
      <4> QED
        BY <2>1, <3>2, <4>1
    <3> QED
      BY <3>3, <3>4
  <2>7. k \in 0 .. n
    OBVIOUS
  <2> HIDE DEF g
  <2> QED
    BY <2>4, <2>5, <2>6, <2>7
<1> HIDE DEF G
<1>3. n \in G
  <2>1. 0 .. n \subseteq G
    BY <1>1, <1>2, Inducts
  <2> QED
    BY <2>1
<1> QED
  BY <1>3 DEF G, Recursive

\* The check of a pattern.
LEMMA PatternIsChecked ==
    ASSUME NEW p \in Seq(STRING)
    PROVE  RU!CheckComplexity(p) <=>
             Len(p) <= RU!MAX_PATTERN_LEN /\ \A g \in RU!Groups(p) : ~Nested(p, g)
<1> DEFINE n == Len(p)
           step == [i \in 1 .. n |-> [s \in ScanStates |-> RU!ScanSymbol(p, s, i)]]
           Next(f) == [i \in 0 .. n |-> IF i = 0 THEN RU!Unscanned
                                        ELSE RU!ScanSymbol(p, f[i - 1], i)]
           scanned == CHOOSE f : f = Next(f)
<1>1. n \in Nat /\ n = Len(p)
  OBVIOUS
<1>2. step \in [1 .. n -> [ScanStates -> ScanStates]]
  BY ScanIs
<1>3. RU!Unscanned \in ScanStates
  BY DEF RU!Unscanned, ScanStates
<1>4. RU!HasNestedUnboundedQuantifier(p) = scanned[n].found
  BY DEF RU!HasNestedUnboundedQuantifier
<1> HIDE DEF n
<1>5. scanned = Next(scanned)
  <2>0. PICK f : Recursive(f, n, ScanStates, RU!Unscanned, step)
    <3> HIDE DEF step, Next, scanned
    <3> QED
      BY <1>1, <1>2, <1>3, Recurses
  <2>1. /\ f \in [0 .. n -> ScanStates] /\ f[0] = RU!Unscanned
        /\ \A i \in 1 .. n : f[i] = RU!ScanSymbol(p, f[i - 1], i)
    <3>1. \A i \in 1 .. n : i - 1 \in 0 .. n
      BY <1>1
    <3> QED
      BY <2>0, <3>1 DEF Recursive
  <2>2. \A i \in 0 .. n : i # 0 => i \in 1 .. n /\ i - 1 \in 0 .. n
    BY <1>1
  <2>3. \A i \in 0 .. n : f[i] = IF i = 0 THEN RU!Unscanned ELSE RU!ScanSymbol(p, f[i - 1], i)
    BY <2>1, <2>2
  <2>4. f = Next(f)
    <3> HIDE DEF scanned
    <3> QED
      BY <2>1, <2>3
  <2> HIDE DEF Next
  <2> QED
    BY <2>4
<1> HIDE DEF scanned
<1> DEFINE G == {i \in 0 .. n : Scanned(p, i, scanned[i])}
<1>6. 0 \in G
  <2>1. scanned[0] = RU!Unscanned
    BY <1>1, <1>5
  <2> QED
    BY <1>1, <2>1, ScanStarts
<1>7. ASSUME NEW i \in 1 .. n, i - 1 \in G PROVE i \in G
  <2>1. i \in 0 .. n /\ i # 0
    BY <1>1
  <2>2. scanned[i] = RU!ScanSymbol(p, scanned[i - 1], i)
    BY <1>5, <2>1
  <2>3. Scanned(p, i, scanned[i])
    BY <1>1, <1>7, <2>2, ScanKeeps
  <2> QED
    BY <2>1, <2>3
<1>8. Scanned(p, n, scanned[n])
  <2> HIDE DEF G
  <2>1. 0 .. n \subseteq G
    BY <1>1, <1>6, <1>7, Inducts
  <2>2. n \in G
    BY <1>1, <2>1
  <2> QED
    BY <2>2 DEF G
<1>9. scanned[n].found <=> \E g \in RU!Groups(p) : Nested(p, g)
  <2>1. \A g \in RU!Groups(p) : g[2] <= n
    BY <1>1 DEF RU!Groups
  <2> QED
    BY <1>8, <2>1 DEF Scanned
<1> QED
  BY <1>1, <1>4, <1>9 DEF RU!CheckComplexity

\* The promise of a pattern's check is kept by what the code makes of a pattern.
LEMMA PatternsKept ==
    ASSUME NEW p \in Seq(STRING)
    PROVE  RU!CheckComplexity(p) <=>
             /\ Len(p) <= RU!MAX_PATTERN_LEN
             /\ \A g \in RU!Groups(p) :
                  ~ /\ \E k \in g[1] + 1 .. g[2] - 1 : RU!Quantifies(p, k) /\ RU!Depth(p, g[1], k) = 1
                    /\ g[2] < Len(p) /\ p[g[2] + 1] \in RU!Quantifiers
  BY PatternIsChecked DEF Nested, Holds

\* A sequence is one of its own items.
LEMMA OfItems ==
    ASSUME NEW X, NEW seq \in Seq(X)
    PROVE  seq \in Seq(RU!Items(seq))
<1> DEFINE E == RU!Items(seq)
           n == Len(seq)
           same == [i \in 1 .. n |-> seq[i]]
<1>1. n \in Nat /\ \A i \in 1 .. n : seq[i] \in E
  BY DEF RU!Items, RU!ToSet
<1>2. seq = same
  OBVIOUS
<1> HIDE DEF E, n
<1>3. same \in Seq(E)
  BY <1>1
<1> QED
  BY <1>2, <1>3 DEF E

\* An item is not taken twice, and none is taken that was not there.
LEMMA PushesItems ==
    ASSUME NEW X, NEW seq \in Seq(X), NEW x \in X
    PROVE  RU!PushUnique(seq, x) \in Seq(X)
  BY DEF RU!PushUnique

\* What an entry's matchers match is of the evidence.
LEMMA MatchedIs ==
    ASSUME NEW entry \in RU!CatalogueRows, NEW evidence \in Seq(RU!EvidenceRows)
    PROVE  /\ RU!MatchedBy(entry, evidence) \in Seq(RU!EvidenceRows)
           /\ RU!Items(RU!MatchedBy(entry, evidence)) \subseteq RU!Items(evidence)
<1> DEFINE M == [kind : STRING, name : STRING, stems : SUBSET STRING]
           E == RU!Items(evidence)
           kinds == [k \in DOMAIN RU!MatcherKinds |->
                       RU!Selected(entry.matchers, LAMBDA m : m.kind = RU!MatcherKinds[k])]
           ordered == RU!FlattenSeq(kinds)
           each == [m \in DOMAIN ordered |->
                      RU!Selected(evidence, LAMBDA e : RU!Matches(ordered[m], e))]
           hits == RU!FlattenSeq(each)
           n == Len(hits)
           Next(f) == [i \in 0 .. n |-> IF i = 0 THEN <<>> ELSE RU!PushUnique(f[i - 1], hits[i])]
           matched == CHOOSE f : f = Next(f)
<1>1. RU!MatchedBy(entry, evidence) = matched[n]
  BY DEF RU!MatchedBy
<1> HIDE DEF Next, matched, n
<1>2. ordered \in Seq(M)
  <2>1. entry.matchers \in Seq(M)
    BY DEF RU!CatalogueRows
  <2>2. DOMAIN RU!MatcherKinds = 1 .. 6
    BY DEF RU!MatcherKinds
  <2>3. ASSUME NEW k \in 1 .. 6 PROVE kinds[k] \in Seq(M)
    <3> DEFINE I == {i \in DOMAIN entry.matchers : entry.matchers[i].kind = RU!MatcherKinds[k]}
    <3>1. kinds[k] = Picked(entry.matchers, I)
      BY <2>2 DEF RU!Selected, Picked
    <3>2. I \in SUBSET DOMAIN entry.matchers
      OBVIOUS
    <3> HIDE DEF I, M
    <3> QED
      BY <2>1, <3>1, <3>2, PickedIs
  <2>4. kinds = [k \in 1 .. 6 |-> kinds[k]]
    BY <2>2
  <2> HIDE DEF kinds, M
  <2>5. kinds \in Seq(Seq(M))
    BY <2>3, <2>4
  <2> QED
    BY <2>5, FlattenItems, SameOperators
<1> HIDE DEF ordered, M
<1>3. hits \in Seq(E) /\ E \subseteq RU!EvidenceRows
  <2>0. evidence \in Seq(E) /\ E \subseteq RU!EvidenceRows
    BY ItemsAre, OfItems
  <2>1. DOMAIN ordered = 1 .. Len(ordered) /\ Len(ordered) \in Nat
    BY <1>2
  <2> HIDE DEF E
  <2>2. ASSUME NEW m \in 1 .. Len(ordered) PROVE each[m] \in Seq(E)
    <3> DEFINE I == {i \in DOMAIN evidence : RU!Matches(ordered[m], evidence[i])}
    <3>1. each[m] = Picked(evidence, I)
      BY <2>1 DEF RU!Selected, Picked
    <3>2. I \in SUBSET DOMAIN evidence
      OBVIOUS
    <3> HIDE DEF I
    <3> QED
      BY <2>0, <3>1, <3>2, PickedIs
  <2>3. each = [m \in 1 .. Len(ordered) |-> each[m]]
    BY <2>1
  <2> HIDE DEF each
  <2>4. each \in Seq(Seq(E))
    BY <2>1, <2>2, <2>3
  <2> QED
    BY <2>0, <2>4, FlattenItems, SameOperators
<1> HIDE DEF hits, E
<1>4. n \in Nat /\ \A i \in 1 .. n : hits[i] \in E
  BY <1>3 DEF n
<1> DEFINE step == [i \in 1 .. n |-> [s \in Seq(E) |-> RU!PushUnique(s, hits[i])]]
<1>5. step \in [1 .. n -> [Seq(E) -> Seq(E)]] /\ <<>> \in Seq(E)
  BY <1>4, PushesItems
<1>6. matched = Next(matched)
  <2>1. PICK f : Recursive(f, n, Seq(E), <<>>, step)
    <3> HIDE DEF step
    <3> QED
      BY <1>4, <1>5, Recurses
  <2>2. /\ f \in [0 .. n -> Seq(E)] /\ f[0] = <<>>
        /\ \A i \in 1 .. n : f[i] = RU!PushUnique(f[i - 1], hits[i])
    <3>1. \A i \in 1 .. n : i - 1 \in 0 .. n
      BY <1>4
    <3> QED
      BY <2>1, <3>1 DEF Recursive
  <2>3. \A i \in 0 .. n : i # 0 => i \in 1 .. n
    BY <1>4
  <2>4. \A i \in 0 .. n : f[i] = IF i = 0 THEN <<>> ELSE RU!PushUnique(f[i - 1], hits[i])
    BY <2>2, <2>3
  <2>5. f = Next(f)
    BY <2>2, <2>4 DEF Next
  <2> QED
    BY <2>5 DEF matched
<1> DEFINE G == {i \in 0 .. n : matched[i] \in Seq(E)}
<1>7. 0 \in G
  BY <1>4, <1>6 DEF Next
<1>8. ASSUME NEW i \in 1 .. n, i - 1 \in G PROVE i \in G
  <2>1. i \in 0 .. n /\ i # 0
    BY <1>4
  <2>2. matched[i] = RU!PushUnique(matched[i - 1], hits[i])
    BY <1>6, <2>1 DEF Next
  <2> QED
    BY <1>4, <1>8, <2>1, <2>2, PushesItems
<1>9. matched[n] \in Seq(E)
  <2> HIDE DEF G
  <2>1. 0 .. n \subseteq G
    BY <1>4, <1>7, <1>8, Inducts
  <2>2. n \in G
    BY <1>4, <2>1
  <2> QED
    BY <2>2 DEF G
<1>10. RU!Items(matched[n]) \subseteq E
  BY <1>9, ItemsAre
<1>11. matched[n] \in Seq(RU!EvidenceRows)
  BY <1>3, <1>9
<1> QED
  BY <1>1, <1>10, <1>11 DEF E

\* Above "assigned" is everything else.
LEMMA TiersAre ==
    \A c \in RU!ToSet(RU!Tiers) : c # "Assigned" => RU!Tier(c) > RU!Tier("Assigned")
<1>1. /\ DOMAIN RU!Tiers = 1 .. 4 /\ RU!Tiers[1] = "Assigned" /\ RU!Tiers[2] = "Heuristic"
      /\ RU!Tiers[3] = "Probable" /\ RU!Tiers[4] = "Confirmed"
  BY DEF RU!Tiers
<1>2. 1 .. 4 = {1, 2, 3, 4}
  OBVIOUS
<1>3. \A c \in RU!ToSet(RU!Tiers) : RU!Tier(c) \in 1 .. 4 /\ RU!Tiers[RU!Tier(c)] = c
  <2>1. \A c \in RU!ToSet(RU!Tiers) : \E i \in DOMAIN RU!Tiers : RU!Tiers[i] = c
    BY DEF RU!ToSet
  <2> QED
    BY <1>1, <2>1 DEF RU!Tier
<1>4. "Assigned" \in RU!ToSet(RU!Tiers)
  BY <1>1, <1>2 DEF RU!ToSet
<1>5. RU!Tier("Assigned") = 1
  BY <1>1, <1>2, <1>3, <1>4
<1>6. ASSUME NEW c \in RU!ToSet(RU!Tiers), c # "Assigned" PROVE RU!Tier(c) > 1
  <2>1. RU!Tier(c) # 1
    BY <1>1, <1>3, <1>6
  <2> QED
    BY <1>3, <2>1
<1> QED
  BY <1>5, <1>6

\* An identity has evidence, of something better than a port if it says more than the port's.
LEMMA IdentityIs ==
    ASSUME NEW name, NEW category, NEW confidence \in RU!ToSet(RU!Tiers), NEW evidence,
           NEW id \in RU!NewIdentity(name, category, confidence, evidence)
    PROVE  /\ id = [name |-> name, category |-> category, version |-> RU!Unset,
                    confidence |-> confidence, evidence |-> evidence]
           /\ evidence # <<>>
           /\ confidence # "Assigned" =>
                \E e \in RU!Items(evidence) : ~RU!IsPortAssignmentOnly(e)
<1>1. ~ \/ evidence = <<>>
        \/ /\ RU!Tier(confidence) > RU!Tier("Assigned")
           /\ \A i \in DOMAIN evidence : RU!IsPortAssignmentOnly(evidence[i])
  BY DEF RU!NewIdentity, RU!Unset
<1>2. id = [name |-> name, category |-> category, version |-> RU!Unset,
            confidence |-> confidence, evidence |-> evidence]
  BY <1>1 DEF RU!NewIdentity
<1>3. \A i \in DOMAIN evidence : evidence[i] \in RU!Items(evidence)
  BY DEF RU!Items, RU!ToSet
<1> QED
  BY <1>1, <1>2, <1>3, TiersAre

\* A version is a word of one of the texts, and not an empty one.
LEMMA VersionIs ==
    ASSUME NEW matched \in Seq(RU!EvidenceRows), NEW stem, NEW v \in RU!ExtractVersion(stem, matched)
    PROVE  v # "" /\ \E e \in RU!Items(matched) : \E word \in e.text : word[2] = v
<1> DEFINE I == {i \in DOMAIN matched : /\ matched[i].kind \in {"header", "body", "banner", "tls"}
                                        /\ RU!Captured(stem, matched[i]) # {}}
           texts == Picked(matched, I)
<1>1. RU!Selected(matched, LAMBDA e : /\ e.kind \in {"header", "body", "banner", "tls"}
                                      /\ RU!Captured(stem, e) # {}) = texts
  BY DEF RU!Selected, Picked
<1>2. texts \in Seq(RU!EvidenceRows) /\ RU!Items(texts) = {matched[i] : i \in I}
  <2>1. I \in SUBSET DOMAIN matched
    OBVIOUS
  <2> HIDE DEF I
  <2> QED
    BY <2>1, PickedIs
<1> HIDE DEF texts
<1>3. texts # <<>> /\ v = CHOOSE value \in RU!Captured(stem, texts[1]) : TRUE
  BY <1>1 DEF RU!ExtractVersion, RU!Unset
<1>4. texts[1] \in RU!Items(texts)
  <2>1. 1 \in DOMAIN texts
    BY <1>2, <1>3
  <2> QED
    BY <2>1 DEF RU!Items, RU!ToSet
<1>5. PICK i \in I : texts[1] = matched[i]
  BY <1>2, <1>4
<1>6. RU!Captured(stem, texts[1]) # {}
  BY <1>5
<1>7. v \in RU!Captured(stem, texts[1])
  BY <1>3, <1>6
<1>8. texts[1] \in RU!Items(matched)
  BY <1>5 DEF RU!Items, RU!ToSet
<1> QED
  BY <1>7, <1>8 DEF RU!Captured

\* What the catalogue makes of the evidence.
LEMMA NamesAre ==
    ASSUME RU!RulesAssumption, NEW evidence \in Seq(RU!EvidenceRows)
    PROVE  LET names == RU!Fingerprint(evidence)
           IN  \A name \in RU!Items(names) :
                 /\ name.evidence # <<>> /\ RU!Items(name.evidence) \subseteq RU!Items(evidence)
                 /\ name.confidence # "Assigned" =>
                      \E e \in RU!Items(name.evidence) : ~RU!IsPortAssignmentOnly(e)
                 /\ \A v \in name.version : v # "" /\
                      \E e \in RU!Items(name.evidence) : \E word \in e.text : word[2] = v
<1> DEFINE names == RU!Fingerprint(evidence)
           compiled == RU!CompiledCatalogue
           hits == RU!Selected(compiled, LAMBDA entry : RU!TryMatch(entry, evidence) # {})
<1>1. compiled \in Seq(RU!CatalogueRows)
  <2> DEFINE I == {i \in DOMAIN Catalogue : RU!Compiles(Catalogue[i])}
  <2>1. compiled = Picked(Catalogue, I)
    BY DEF RU!CompiledCatalogue, RU!Selected, Picked
  <2>2. Catalogue \in Seq(RU!CatalogueRows) /\ I \in SUBSET DOMAIN Catalogue
    BY DEF RU!RulesAssumption
  <2> HIDE DEF I
  <2> QED
    BY <2>1, <2>2, PickedIs
<1> HIDE DEF compiled
<1>2. hits \in Seq(RU!CatalogueRows)
      /\ \A i \in DOMAIN hits : RU!TryMatch(hits[i], evidence) # {}
  <2> DEFINE I == {i \in DOMAIN compiled : RU!TryMatch(compiled[i], evidence) # {}}
  <2>1. hits = Picked(compiled, I)
    BY DEF RU!Selected, Picked
  <2>2. I \in SUBSET DOMAIN compiled /\ \A i \in I : RU!TryMatch(compiled[i], evidence) # {}
    OBVIOUS
  <2> HIDE DEF I, hits
  <2>3. hits \in Seq(RU!CatalogueRows) /\ RU!Items(hits) = {compiled[i] : i \in I}
    BY <1>1, <2>1, <2>2, PickedIs
  <2>4. \A i \in DOMAIN hits : hits[i] \in RU!Items(hits)
    BY DEF RU!Items, RU!ToSet
  <2> QED
    BY <2>2, <2>3, <2>4
<1>3. names = [i \in DOMAIN hits |-> CHOOSE id \in RU!TryMatch(hits[i], evidence) : TRUE]
  BY DEF RU!Fingerprint, compiled
<1> HIDE DEF names, hits
<1>4. \A i \in DOMAIN hits : hits[i] \in RU!CatalogueRows /\ names[i] \in RU!TryMatch(hits[i], evidence)
  BY <1>2, <1>3
<1>5. ASSUME NEW name \in RU!Items(names)
      PROVE  /\ name.evidence # <<>> /\ RU!Items(name.evidence) \subseteq RU!Items(evidence)
             /\ name.confidence # "Assigned" =>
                  \E e \in RU!Items(name.evidence) : ~RU!IsPortAssignmentOnly(e)
             /\ \A v \in name.version : v # "" /\
                  \E e \in RU!Items(name.evidence) : \E word \in e.text : word[2] = v
  <2>1. PICK i \in DOMAIN hits : name = names[i]
    BY <1>3 DEF RU!Items, RU!ToSet
  <2> DEFINE entry == hits[i]
             matched == RU!MatchedBy(entry, evidence)
             version == UNION {RU!ExtractVersion(stem, matched) : stem \in entry.version_capture}
  <2>2. entry \in RU!CatalogueRows /\ name \in RU!TryMatch(entry, evidence)
    BY <1>4, <2>1
  <2> HIDE DEF entry
  <2>3. PICK id \in RU!NewIdentity(entry.name, entry.category, entry.confidence, matched) :
               name = [id EXCEPT !.version = version]
    BY <2>2 DEF RU!TryMatch
  <2>4. matched \in Seq(RU!EvidenceRows) /\ RU!Items(matched) \subseteq RU!Items(evidence)
    BY <2>2, MatchedIs
  <2>5. entry.confidence \in RU!ToSet(RU!Tiers)
    BY <2>2 DEF RU!CatalogueRows
  <2> HIDE DEF matched
  <2>6. /\ id = [name |-> entry.name, category |-> entry.category, version |-> RU!Unset,
                 confidence |-> entry.confidence, evidence |-> matched]
        /\ matched # <<>>
        /\ entry.confidence # "Assigned" => \E e \in RU!Items(matched) : ~RU!IsPortAssignmentOnly(e)
    BY <2>3, <2>5, IdentityIs
  <2>7. \A v \in version : v # "" /\ \E e \in RU!Items(matched) : \E word \in e.text : word[2] = v
    <3>1. ASSUME NEW v \in version
          PROVE  v # "" /\ \E e \in RU!Items(matched) : \E word \in e.text : word[2] = v
      <4>1. PICK stem \in entry.version_capture : v \in RU!ExtractVersion(stem, matched)
        BY <3>1
      <4> QED
        BY <2>4, <4>1, VersionIs
    <3> QED
      BY <3>1
  <2> HIDE DEF version
  <2>8. name.evidence = matched /\ name.confidence = entry.confidence /\ name.version = version
    BY <2>3, <2>6
  <2> QED
    BY <2>4, <2>6, <2>7, <2>8
<1> QED
  BY <1>5 DEF names

\* What the registry makes of a port is one assigned identity at most.
LEMMA AssignedIs ==
    ASSUME NEW port, NEW protocol
    PROVE  \A a, b \in RU!IdentityForPort(port, protocol) :
             /\ a = b /\ a.confidence = "Assigned"
             /\ \A e \in RU!Items(a.evidence) : RU!IsPortAssignmentOnly(e)
<1> DEFINE name == RU!RegistryName(port, protocol)
           evidence == <<RU!PortAssignment(name)>>
<1>1. \A a \in RU!IdentityForPort(port, protocol) :
        a \in RU!NewIdentity(name, "Other", "Assigned", evidence)
  BY DEF RU!IdentityForPort, RU!Unset
<1>2. "Assigned" \in RU!ToSet(RU!Tiers)
  <2>1. 1 \in DOMAIN RU!Tiers /\ RU!Tiers[1] = "Assigned"
    BY DEF RU!Tiers
  <2> QED
    BY <2>1 DEF RU!ToSet
<1>3. \A e \in RU!Items(evidence) : RU!IsPortAssignmentOnly(e)
  <2>1. \A e \in RU!Items(evidence) : e = RU!PortAssignment(name)
    <3> HIDE DEF name
    <3> QED
      BY DEF RU!Items, RU!ToSet
  <2> QED
    BY <2>1 DEF RU!IsPortAssignmentOnly, RU!PortAssignment, RU!Evidence
<1> HIDE DEF name, evidence
<1>4. \A a \in RU!IdentityForPort(port, protocol) :
        a = [name |-> name, category |-> "Other", version |-> RU!Unset,
             confidence |-> "Assigned", evidence |-> evidence]
  BY <1>1, <1>2, IdentityIs
<1>5. \A a \in RU!IdentityForPort(port, protocol) :
        a.confidence = "Assigned" /\ a.evidence = evidence
  BY <1>4
<1> QED
  BY <1>3, <1>4, <1>5

\* What the host says of itself beside what was found.
LEMMA ReconciledIs ==
    ASSUME NEW local \in RU!LocalIdentities, NEW names,
           local.kind = "Authoritative" => \A n, o \in local.service_name : n = o
    PROVE  LET both == RU!Reconcile(local, names)
           IN  /\ both.local = local /\ both.remote = names
               /\ local.kind = "Inferred" => both.local_identity = RU!Unset /\ ~both.conflict
               /\ names = <<>> => ~both.conflict
               /\ both.conflict => both.local_identity \cap both.remote_identity = {}
<1> DEFINE ours == RU!LocalIdentityLabel(local)
           theirs == IF names = <<>> THEN RU!Unset ELSE {names[1].name}
           conflict == ours # RU!Unset /\ theirs # RU!Unset /\ ours # theirs
           both == RU!Reconcile(local, names)
<1>1. both = [local |-> local, local_identity |-> ours, remote |-> names,
              remote_identity |-> theirs, conflict |-> conflict]
  BY DEF RU!Reconcile
<1>2. local.kind = "Inferred" => ours = RU!Unset
  BY DEF RU!LocalIdentityLabel
<1>3. local.kind \in {"Inferred", "Authoritative"}
  BY DEF RU!LocalIdentities
<1>4. \A n, o \in ours : n = o
  <2>1. CASE local.kind = "Inferred"
    BY <1>2, <2>1 DEF RU!Unset
  <2>2. CASE local.kind = "Authoritative" /\ local.service_name = RU!Unset
    <3>1. ours = {local.process_path}
      BY <2>2 DEF RU!LocalIdentityLabel
    <3> HIDE DEF ours
    <3> QED
      BY <3>1
  <2>3. CASE local.kind = "Authoritative" /\ local.service_name # RU!Unset
    <3>1. ours = local.service_name
      BY <2>3 DEF RU!LocalIdentityLabel
    <3> HIDE DEF ours
    <3> QED
      BY <2>3, <3>1
  <2> QED
    BY <1>3, <2>1, <2>2, <2>3
<1>5. \A n, o \in theirs : n = o
  BY DEF RU!Unset
<1>6. names = <<>> => ~conflict
  OBVIOUS
<1>7. local.kind = "Inferred" => ~conflict
  BY <1>2
<1>8. conflict => ours \cap theirs = {}
  <2> HIDE DEF ours, theirs
  <2> QED
    BY <1>4, <1>5 DEF RU!Unset
<1> HIDE DEF ours, theirs, conflict, both
<1>9. /\ both.local = local /\ both.remote = names /\ both.local_identity = ours
      /\ both.remote_identity = theirs /\ both.conflict = conflict
  BY <1>1
<1> QED
  BY <1>2, <1>6, <1>7, <1>8, <1>9 DEF both

\* The sizes of two sets are the same when the members of one are those of the other in turn.
LEMMA SameSize ==
    ASSUME NEW S, NEW T, IsFiniteSet(T), NEW f \in [S -> T],
           \A x, y \in S : f[x] = f[y] => x = y, \A t \in T : \E x \in S : f[x] = t
    PROVE  IsFiniteSet(S) /\ Cardinality(S) = Cardinality(T)
<1>1. f \in Injection(S, T)
  BY Fun_IsInj
<1>2. f \in Surjection(S, T)
  BY DEF Surjection
<1> QED
  BY <1>1, <1>2, FS_Injection

\* The places of findings of a kind, and how many there are.
Tagged(seq, what) == {i \in DOMAIN seq : seq[i][1] = what}

LEMMA TaggedIs ==
    ASSUME NEW X, NEW seq \in Seq(X), NEW what
    PROVE  IsFiniteSet(Tagged(seq, what)) /\ Cardinality(Tagged(seq, what)) \in Nat
<1>1. Tagged(seq, what) \in SUBSET DOMAIN seq
  BY DEF Tagged
<1> QED
  BY <1>1, PickedIs

\* As many as in the one and in the other.
LEMMA TaggedAdds ==
    ASSUME NEW X, NEW a \in Seq(X), NEW b \in Seq(X), NEW what
    PROVE  Cardinality(Tagged(a \o b, what))
             = Cardinality(Tagged(a, what)) + Cardinality(Tagged(b, what))
<1> DEFINE m == Len(a)
           n == Len(b)
           A == Tagged(a, what)
           B == Tagged(b, what)
           C == {m + i : i \in B}
           shift == [i \in B |-> m + i]
<1>0. /\ m \in Nat /\ n \in Nat /\ DOMAIN a = 1 .. m /\ DOMAIN b = 1 .. n
      /\ DOMAIN (a \o b) = 1 .. m + n
      /\ \A i \in 1 .. m : (a \o b)[i] = a[i]
      /\ \A i \in 1 .. n : (a \o b)[m + i] = b[i]
  OBVIOUS
<1> HIDE DEF m, n
<1>1. A \subseteq 1 .. m /\ B \subseteq 1 .. n
  BY <1>0 DEF Tagged
<1>2. Tagged(a \o b, what) = A \cup C
  <2>1. ASSUME NEW i \in Tagged(a \o b, what) PROVE i \in A \cup C
    <3>1. i \in 1 .. m + n /\ (a \o b)[i][1] = what
      BY <1>0, <2>1 DEF Tagged
    <3>2. CASE i <= m
      <4>1. i \in 1 .. m
        BY <1>0, <3>1, <3>2
      <4> QED
        BY <1>0, <3>1, <4>1 DEF Tagged
    <3>3. CASE ~(i <= m)
      <4>1. i - m \in 1 .. n /\ i = m + (i - m)
        BY <1>0, <3>1, <3>3
      <4>2. (a \o b)[i] = b[i - m]
        BY <1>0, <4>1
      <4>3. i - m \in B
        BY <1>0, <3>1, <4>1, <4>2 DEF Tagged
      <4> QED
        BY <4>1, <4>3
    <3> QED
      BY <3>2, <3>3
  <2>2. ASSUME NEW i \in A PROVE i \in Tagged(a \o b, what)
    <3>1. i \in 1 .. m /\ i \in 1 .. m + n /\ a[i][1] = what
      BY <1>0, <1>1 DEF Tagged
    <3> QED
      BY <1>0, <3>1 DEF Tagged
  <2>3. ASSUME NEW i \in B PROVE m + i \in Tagged(a \o b, what)
    <3>1. i \in 1 .. n /\ m + i \in 1 .. m + n /\ b[i][1] = what
      BY <1>0, <1>1 DEF Tagged
    <3> QED
      BY <1>0, <3>1 DEF Tagged
  <2> QED
    BY <2>1, <2>2, <2>3
<1>3. /\ IsFiniteSet(A) /\ IsFiniteSet(B) /\ Cardinality(A) \in Nat /\ Cardinality(B) \in Nat
  BY TaggedIs
<1> HIDE DEF A, B
<1>4. IsFiniteSet(C) /\ Cardinality(C) = Cardinality(B)
  <2>1. shift \in [B -> C] /\ \A c \in C : \E i \in B : shift[i] = c
    OBVIOUS
  <2>2. \A i, j \in B : shift[i] = shift[j] => i = j
    BY <1>0, <1>1
  <2>3. shift \in Injection(B, C)
    BY <2>1, <2>2, Fun_IsInj
  <2>4. shift \in Surjection(B, C)
    BY <2>1 DEF Surjection
  <2> HIDE DEF shift, C
  <2> QED
    BY <1>3, <2>3, <2>4, FS_Surjection
<1>5. A \cap C = {}
  BY <1>0, <1>1
<1> HIDE DEF C
<1>6. Cardinality(A \cup C) = Cardinality(A) + Cardinality(C) - Cardinality({})
  BY <1>3, <1>4, <1>5, FS_Union
<1> QED
  BY <1>2, <1>3, <1>4, <1>6, FS_EmptySet DEF A, B

\* None in nothing, and one of its kind in one.
Only(seq, finding) == seq = <<finding>> \/ seq = <<>>

LEMMA TaggedOne ==
    ASSUME NEW finding, NEW seq, Only(seq, finding)
    PROVE  /\ \A what : what # finding[1] => Cardinality(Tagged(seq, what)) = 0
           /\ seq # <<>> => Cardinality(Tagged(seq, finding[1])) = 1
           /\ seq = <<>> => Cardinality(Tagged(seq, finding[1])) = 0
           /\ \A X : finding \in X => seq \in Seq(X)
<1>1. \A X : <<>> \in Seq(X) /\ (finding \in X => <<finding>> \in Seq(X))
  OBVIOUS
<1>2. \A what : Cardinality(Tagged(<<>>, what)) = 0
  <2>1. \A what : Tagged(<<>>, what) = {}
    BY DEF Tagged
  <2> QED
    BY <2>1, FS_EmptySet
<1>3. Cardinality(Tagged(<<finding>>, finding[1])) = 1
  <2>1. Tagged(<<finding>>, finding[1]) = {1}
    BY DEF Tagged
  <2> QED
    BY <2>1, FS_Singleton
<1>4. \A what : what # finding[1] => Cardinality(Tagged(<<finding>>, what)) = 0
  <2>1. \A what : what # finding[1] => Tagged(<<finding>>, what) = {}
    BY DEF Tagged
  <2> QED
    BY <2>1, FS_EmptySet
<1>5. CASE seq = <<>>
  <2>1. <<>> # <<finding>>
    OBVIOUS
  <2> QED
    BY <1>1, <1>2, <1>5, <2>1
<1>6. CASE seq = <<finding>>
  <2>1. <<>> # <<finding>>
    OBVIOUS
  <2> QED
    BY <1>1, <1>3, <1>4, <1>6, <2>1
<1> QED
  BY <1>5, <1>6 DEF Only

\* As many as there are sequences with one, when none has more.
Ones(X, seqs, C, what) ==
    /\ seqs \in Seq(Seq(X)) /\ C \in SUBSET DOMAIN seqs
    /\ \A i \in C : Cardinality(Tagged(seqs[i], what)) = 1
    /\ \A i \in DOMAIN seqs \ C : Cardinality(Tagged(seqs[i], what)) = 0

LEMMA TaggedFlatten ==
    ASSUME NEW X, NEW seqs, NEW what, NEW C, Ones(X, seqs, C, what)
    PROVE  Cardinality(Tagged(FlattenSeq(seqs), what)) = Cardinality(C)
<1>0. /\ seqs \in Seq(Seq(X)) /\ C \in SUBSET DOMAIN seqs
      /\ \A i \in C : Cardinality(Tagged(seqs[i], what)) = 1
      /\ \A i \in DOMAIN seqs \ C : Cardinality(Tagged(seqs[i], what)) = 0
  BY DEF Ones
<1> DEFINE N == Len(seqs)
           Upto(n) == {i \in 1 .. n : i \in C}
<1>1. PICK F \in [0 .. N -> Seq(X)] :
        /\ F[0] = <<>> /\ FlattenSeq(seqs) = F[N]
        /\ \A i \in 1 .. N : F[i] = F[i - 1] \o seqs[i]
  BY <1>0, FlattenUnfolds
<1>2. N \in Nat /\ (\A i \in 1 .. N : seqs[i] \in Seq(X)) /\ DOMAIN seqs = 1 .. N
  BY <1>0
<1> HIDE DEF N
<1> DEFINE G == {n \in 0 .. N : /\ IsFiniteSet(Upto(n)) /\ Cardinality(Upto(n)) \in Nat
                                /\ Cardinality(Tagged(F[n], what)) = Cardinality(Upto(n))}
<1>3. 0 \in G
  <2>1. Tagged(<<>>, what) = {} /\ Upto(0) = {} /\ 0 \in 0 .. N
    BY <1>2 DEF Tagged
  <2> HIDE DEF Upto
  <2>2. Tagged(F[0], what) = {}
    BY <1>1, <2>1
  <2>3. IsFiniteSet({}) /\ Cardinality({}) = 0 /\ 0 \in Nat
    BY FS_EmptySet
  <2> QED
    BY <2>1, <2>2, <2>3
<1>4. ASSUME NEW n \in 1 .. N, n - 1 \in G PROVE n \in G
  <2>1. n - 1 \in 0 .. N /\ n \in 0 .. N
    BY <1>2
  <2>2. F[n - 1] \in Seq(X) /\ seqs[n] \in Seq(X) /\ F[n] = F[n - 1] \o seqs[n]
    BY <1>1, <1>2, <2>1
  <2>3. Cardinality(Tagged(F[n], what))
          = Cardinality(Tagged(F[n - 1], what)) + Cardinality(Tagged(seqs[n], what))
    BY <2>2, TaggedAdds
  <2>4. n \notin Upto(n - 1)
    BY <1>2
  <2>5. n \in C => Upto(n) = Upto(n - 1) \cup {n}
    BY <1>2
  <2>6. n \notin C => Upto(n) = Upto(n - 1)
    BY <1>2
  <2>7. /\ IsFiniteSet(Upto(n - 1)) /\ Cardinality(Upto(n - 1)) \in Nat
        /\ Cardinality(Tagged(F[n - 1], what)) = Cardinality(Upto(n - 1))
    BY <1>4
  <2> HIDE DEF Upto
  <2>8. CASE n \in C
    <3>0. /\ IsFiniteSet(Upto(n - 1) \cup {n})
          /\ Cardinality(Upto(n - 1) \cup {n}) = Cardinality(Upto(n - 1)) + 1
      BY <2>4, <2>7, FS_AddElement
    <3>1. IsFiniteSet(Upto(n)) /\ Cardinality(Upto(n)) = Cardinality(Upto(n - 1)) + 1
      BY <2>5, <2>8, <3>0
    <3>2. Cardinality(Tagged(seqs[n], what)) = 1
      BY <1>0, <1>2, <2>8
    <3> QED
      BY <2>1, <2>3, <2>7, <3>1, <3>2
  <2>9. CASE n \notin C
    <3>1. Cardinality(Tagged(seqs[n], what)) = 0
      BY <1>0, <1>2, <2>9
    <3> QED
      BY <2>1, <2>3, <2>6, <2>7, <2>9, <3>1
  <2> QED
    BY <2>8, <2>9
<1> HIDE DEF G
<1>5. N \in G
  <2>1. 0 .. N \subseteq G
    BY <1>2, <1>3, <1>4, Inducts
  <2> QED
    BY <1>2, <2>1
<1>6. Upto(N) = C
  BY <1>0, <1>2
<1> HIDE DEF Upto
<1> QED
  BY <1>1, <1>5, <1>6 DEF G

\* What is found in a chain: notes, names that are not the one that was asked for, and keys.
Found(chain) ==
    {RU!Note(what) : what \in {"self-signed", "expired", "expiring", "weak-signature",
                               "incomplete-chain"}}
      \cup {RU!About("hostname-mismatch", chain[i].san) : i \in DOMAIN chain}
      \cup {RU!About("weak-key", chain[i].key_size_bits) : i \in DOMAIN chain}

\* What certificates become, and their chain.
CertificateRecords == {RU!RecordOf(cert) : cert \in RU!CertificateRows}

\* The leaf is expired or expiring and not both, and its findings are of no other kind.
LEMMA LeafIs ==
    ASSUME NEW X, NEW leaf \in CertificateRecords, NEW probed,
           RU!Note("self-signed") \in X, RU!Note("expired") \in X, RU!Note("expiring") \in X,
           RU!About("hostname-mismatch", leaf.san) \in X
    PROVE  LET told == RU!LeafFindings(leaf, probed)
           IN  /\ told \in Seq(X)
               /\ Cardinality(Tagged(told, "weak-key")) = 0
               /\ Cardinality(Tagged(told, "incomplete-chain")) = 0
               /\ Cardinality(Tagged(told, "expired")) + Cardinality(Tagged(told, "expiring")) <= 1
               /\ Cardinality(Tagged(told, "expired")) \in Nat
               /\ Cardinality(Tagged(told, "expiring")) \in Nat
<1> DEFINE own == leaf.self_signed
           over == leaf.not_after < 0
           soon == leaf.not_after >= 0 /\ leaf.not_after < RU!EXPIRING_WINDOW
           other == leaf.san # {} /\ probed \notin leaf.san
           a == RU!When(own, RU!Note("self-signed"))
           b == RU!When(over, RU!Note("expired"))
           c == RU!When(soon, RU!Note("expiring"))
           d == RU!When(other, RU!About("hostname-mismatch", leaf.san))
<1>1. leaf.not_after \in Int
  BY DEF CertificateRecords, RU!RecordOf, RU!CertificateRows
<1>2. ~(over /\ soon)
  BY <1>1
<1>3. RU!LeafFindings(leaf, probed) = ((a \o b) \o c) \o d
  BY DEF RU!LeafFindings
<1>4. /\ RU!Note("self-signed")[1] = "self-signed" /\ RU!Note("expired")[1] = "expired"
      /\ RU!Note("expiring")[1] = "expiring"
      /\ RU!About("hostname-mismatch", leaf.san)[1] = "hostname-mismatch"
  BY DEF RU!Note, RU!About
<1>22. (~over => b = <<>>) /\ (~soon => c = <<>>)
  BY DEF RU!When
<1> HIDE DEF own, over, soon, other
<1>20. /\ Only(a, RU!Note("self-signed")) /\ Only(b, RU!Note("expired"))
       /\ Only(c, RU!Note("expiring")) /\ Only(d, RU!About("hostname-mismatch", leaf.san))
  BY DEF RU!When, Only
<1>21. b = <<>> \/ c = <<>>
  BY <1>2, <1>22
<1> HIDE DEF a, b, c, d
<1>5. a \in Seq(X) /\ \A what : what # "self-signed" => Cardinality(Tagged(a, what)) = 0
  BY <1>4, <1>20, TaggedOne
<1>6. /\ b \in Seq(X) /\ \A what : what # "expired" => Cardinality(Tagged(b, what)) = 0
      /\ Cardinality(Tagged(b, "expired")) = 0 \/ Cardinality(Tagged(b, "expired")) = 1
      /\ b = <<>> => Cardinality(Tagged(b, "expired")) = 0
  BY <1>4, <1>20, TaggedOne
<1>7. /\ c \in Seq(X) /\ \A what : what # "expiring" => Cardinality(Tagged(c, what)) = 0
      /\ Cardinality(Tagged(c, "expiring")) = 0 \/ Cardinality(Tagged(c, "expiring")) = 1
      /\ c = <<>> => Cardinality(Tagged(c, "expiring")) = 0
  BY <1>4, <1>20, TaggedOne
<1>8. d \in Seq(X) /\ \A what : what # "hostname-mismatch" => Cardinality(Tagged(d, what)) = 0
  BY <1>4, <1>20, TaggedOne
<1> DEFINE ab == a \o b
           abc == ab \o c
           all == abc \o d
<1>9. ab \in Seq(X) /\ \A what : Cardinality(Tagged(ab, what))
                                   = Cardinality(Tagged(a, what)) + Cardinality(Tagged(b, what))
  BY <1>5, <1>6, TaggedAdds
<1> HIDE DEF ab
<1>10. abc \in Seq(X) /\ \A what : Cardinality(Tagged(abc, what))
                                     = Cardinality(Tagged(ab, what)) + Cardinality(Tagged(c, what))
  BY <1>7, <1>9, TaggedAdds
<1> HIDE DEF abc
<1>11. all \in Seq(X) /\ \A what : Cardinality(Tagged(all, what))
                                     = Cardinality(Tagged(abc, what)) + Cardinality(Tagged(d, what))
  BY <1>8, <1>10, TaggedAdds
<1> HIDE DEF all
<1>12. \A what : Cardinality(Tagged(all, what))
                   = ((Cardinality(Tagged(a, what)) + Cardinality(Tagged(b, what)))
                       + Cardinality(Tagged(c, what))) + Cardinality(Tagged(d, what))
  <2> TAKE what
  <2>1. Cardinality(Tagged(all, what))
          = Cardinality(Tagged(abc, what)) + Cardinality(Tagged(d, what))
    BY <1>11
  <2>2. Cardinality(Tagged(abc, what))
          = Cardinality(Tagged(ab, what)) + Cardinality(Tagged(c, what))
    BY <1>10
  <2>3. Cardinality(Tagged(ab, what))
          = Cardinality(Tagged(a, what)) + Cardinality(Tagged(b, what))
    BY <1>9
  <2> QED
    BY <2>1, <2>2, <2>3, Zenon
<1>13. Cardinality(Tagged(all, "weak-key")) = 0 /\ Cardinality(Tagged(all, "incomplete-chain")) = 0
  <2>1. Cardinality(Tagged(all, "weak-key")) = ((0 + 0) + 0) + 0
    BY <1>5, <1>6, <1>7, <1>8, <1>12
  <2>2. Cardinality(Tagged(all, "incomplete-chain")) = ((0 + 0) + 0) + 0
    BY <1>5, <1>6, <1>7, <1>8, <1>12
  <2> QED
    BY <2>1, <2>2
<1>14. Cardinality(Tagged(all, "expired")) = Cardinality(Tagged(b, "expired"))
  <2>1. Cardinality(Tagged(all, "expired")) = ((0 + Cardinality(Tagged(b, "expired"))) + 0) + 0
    BY <1>5, <1>7, <1>8, <1>12
  <2> QED
    BY <1>6, <2>1
<1>15. Cardinality(Tagged(all, "expiring")) = Cardinality(Tagged(c, "expiring"))
  <2>1. Cardinality(Tagged(all, "expiring")) = ((0 + 0) + Cardinality(Tagged(c, "expiring"))) + 0
    BY <1>5, <1>6, <1>8, <1>12
  <2> QED
    BY <1>7, <2>1
<1>16. /\ Cardinality(Tagged(all, "expired")) \in Nat /\ Cardinality(Tagged(all, "expiring")) \in Nat
       /\ Cardinality(Tagged(all, "expired")) + Cardinality(Tagged(all, "expiring")) <= 1
  BY <1>6, <1>7, <1>14, <1>15, <1>21
<1> QED
  BY <1>3, <1>11, <1>13, <1>16 DEF all, abc, ab

\* Of a certificate is found whether its key is weak, and whether its signature is.
LEMMA KeysAre ==
    ASSUME NEW X, NEW cert,
           RU!About("weak-key", cert.key_size_bits) \in X, RU!Note("weak-signature") \in X
    PROVE  LET told == RU!KeyFindings(cert)
               weak == RU!IsWeakKey(cert.key_algorithm, cert.key_size_bits)
           IN  /\ told \in Seq(X)
               /\ weak => Cardinality(Tagged(told, "weak-key")) = 1
               /\ ~weak => Cardinality(Tagged(told, "weak-key")) = 0
               /\ Cardinality(Tagged(told, "incomplete-chain")) = 0
               /\ Cardinality(Tagged(told, "expired")) = 0
               /\ Cardinality(Tagged(told, "expiring")) = 0
<1> DEFINE weak == RU!IsWeakKey(cert.key_algorithm, cert.key_size_bits)
           sha == cert.signature_algorithm = "sha1"
           a == RU!When(weak, RU!About("weak-key", cert.key_size_bits))
           b == RU!When(sha, RU!Note("weak-signature"))
<1>2. RU!KeyFindings(cert) = a \o b
  BY DEF RU!KeyFindings
<1>3. /\ RU!Note("weak-signature")[1] = "weak-signature"
      /\ RU!About("weak-key", cert.key_size_bits)[1] = "weak-key"
  BY DEF RU!Note, RU!About
<1>1. Only(a, RU!About("weak-key", cert.key_size_bits)) /\ Only(b, RU!Note("weak-signature"))
  BY DEF RU!When, Only
<1>10. /\ weak => a = <<RU!About("weak-key", cert.key_size_bits)>>
       /\ ~weak => a = <<>>
  BY DEF RU!When
<1> HIDE DEF weak, sha, a, b
<1>4. /\ a \in Seq(X) /\ \A what : what # "weak-key" => Cardinality(Tagged(a, what)) = 0
      /\ a # <<>> => Cardinality(Tagged(a, "weak-key")) = 1
      /\ a = <<>> => Cardinality(Tagged(a, "weak-key")) = 0
  BY <1>1, <1>3, TaggedOne
<1>5. b \in Seq(X) /\ \A what : what # "weak-signature" => Cardinality(Tagged(b, what)) = 0
  BY <1>1, <1>3, TaggedOne
<1>6. a \o b \in Seq(X)
  BY <1>4, <1>5
<1>7. \A what : Cardinality(Tagged(a \o b, what))
                  = Cardinality(Tagged(a, what)) + Cardinality(Tagged(b, what))
  BY <1>4, <1>5, TaggedAdds
<1>8. /\ Cardinality(Tagged(a \o b, "incomplete-chain")) = 0
      /\ Cardinality(Tagged(a \o b, "expired")) = 0 /\ Cardinality(Tagged(a \o b, "expiring")) = 0
  BY <1>4, <1>5, <1>7
<1>9. /\ a # <<>> => Cardinality(Tagged(a \o b, "weak-key")) = 1
      /\ a = <<>> => Cardinality(Tagged(a \o b, "weak-key")) = 0
  BY <1>4, <1>5, <1>7
<1>11. <<RU!About("weak-key", cert.key_size_bits)>> # <<>>
  OBVIOUS
<1> QED
  BY <1>2, <1>6, <1>8, <1>9, <1>10, <1>11 DEF weak

\* Findings of a chain, kind by kind.
LEMMA FindingsAre ==
    ASSUME NEW chain \in Seq(CertificateRecords), NEW probed
    PROVE  LET told == RU!DeriveFindings(chain, probed)
           IN  /\ told \in Seq(Found(chain))
               /\ Cardinality(Tagged(told, "weak-key"))
                    = Cardinality({i \in DOMAIN chain :
                                     RU!IsWeakKey(chain[i].key_algorithm, chain[i].key_size_bits)})
               /\ chain = <<>> => told = <<>>
               /\ Cardinality(Tagged(told, "expired")) + Cardinality(Tagged(told, "expiring")) <= 1
               /\ Cardinality(Tagged(told, "incomplete-chain")) = 1 <=> RU!IncompleteChain(chain)
<1> DEFINE X == Found(chain)
           N == Len(chain)
           leaf == IF chain = <<>> THEN <<>> ELSE RU!LeafFindings(chain[1], probed)
           pieces == [i \in DOMAIN chain |-> RU!KeyFindings(chain[i])]
           keys == FlattenSeq(pieces)
           broken == RU!IncompleteChain(chain)
           link == RU!When(broken, RU!Note("incomplete-chain"))
           weak == {i \in DOMAIN chain :
                      RU!IsWeakKey(chain[i].key_algorithm, chain[i].key_size_bits)}
<1>1. RU!DeriveFindings(chain, probed) = (leaf \o keys) \o link
  BY SameOperators DEF RU!DeriveFindings
<1>2. /\ RU!Note("self-signed") \in X /\ RU!Note("expired") \in X /\ RU!Note("expiring") \in X
      /\ RU!Note("weak-signature") \in X /\ RU!Note("incomplete-chain") \in X
      /\ \A i \in DOMAIN chain : /\ RU!About("hostname-mismatch", chain[i].san) \in X
                                 /\ RU!About("weak-key", chain[i].key_size_bits) \in X
  BY DEF Found
<1>3. N \in Nat /\ DOMAIN chain = 1 .. N /\ \A i \in 1 .. N : chain[i] \in CertificateRecords
  OBVIOUS
<1>4. chain # <<>> => 1 \in 1 .. N
  OBVIOUS
<1> HIDE DEF X, N
<1>5. /\ leaf \in Seq(X) /\ Cardinality(Tagged(leaf, "weak-key")) = 0
      /\ Cardinality(Tagged(leaf, "incomplete-chain")) = 0
      /\ Cardinality(Tagged(leaf, "expired")) + Cardinality(Tagged(leaf, "expiring")) <= 1
      /\ Cardinality(Tagged(leaf, "expired")) \in Nat
      /\ Cardinality(Tagged(leaf, "expiring")) \in Nat
  <2>1. CASE chain = <<>>
    <3>1. leaf = <<>>
      BY <2>1
    <3> HIDE DEF leaf
    <3>2. \A what : Tagged(leaf, what) = {}
      BY <3>1 DEF Tagged
    <3>3. \A what : Cardinality(Tagged(leaf, what)) = 0
      BY <3>2, FS_EmptySet
    <3>4. leaf \in Seq(X)
      BY <3>1
    <3> QED
      BY <3>3, <3>4
  <2>2. CASE chain # <<>>
    <3>1. leaf = RU!LeafFindings(chain[1], probed)
      BY <2>2
    <3> HIDE DEF leaf
    <3> QED
      BY <1>2, <1>3, <1>4, <2>2, <3>1, LeafIs
  <2> QED
    BY <2>1, <2>2
<1>6. \A i \in 1 .. N :
        /\ pieces[i] \in Seq(X)
        /\ i \in weak => Cardinality(Tagged(pieces[i], "weak-key")) = 1
        /\ i \notin weak => Cardinality(Tagged(pieces[i], "weak-key")) = 0
        /\ Cardinality(Tagged(pieces[i], "incomplete-chain")) = 0
        /\ Cardinality(Tagged(pieces[i], "expired")) = 0
        /\ Cardinality(Tagged(pieces[i], "expiring")) = 0
  <2> TAKE i \in 1 .. N
  <2>1. pieces[i] = RU!KeyFindings(chain[i])
    BY <1>3
  <2>2. i \in weak <=> RU!IsWeakKey(chain[i].key_algorithm, chain[i].key_size_bits)
    BY <1>3
  <2> HIDE DEF pieces, weak
  <2> QED
    BY <1>2, <1>3, <2>1, <2>2, KeysAre
<1>7. pieces \in Seq(Seq(X)) /\ DOMAIN pieces = 1 .. N
  <2>1. pieces = [i \in 1 .. N |-> pieces[i]]
    BY <1>3
  <2> HIDE DEF pieces
  <2> QED
    BY <1>3, <1>6, <2>1
<1>8. weak \in SUBSET (1 .. N) /\ {} \in SUBSET (1 .. N)
  BY <1>3
<1> HIDE DEF leaf, pieces, weak
<1>9. /\ keys \in Seq(X) /\ Cardinality(Tagged(keys, "weak-key")) = Cardinality(weak)
      /\ Cardinality(Tagged(keys, "incomplete-chain")) = 0
      /\ Cardinality(Tagged(keys, "expired")) = 0 /\ Cardinality(Tagged(keys, "expiring")) = 0
  <2>1. keys \in Seq(X)
    BY <1>7, FlattenItems
  <2>2. Cardinality(Tagged(keys, "weak-key")) = Cardinality(weak)
    <3>1. Ones(X, pieces, weak, "weak-key")
      BY <1>6, <1>7, <1>8 DEF Ones
    <3> QED
      BY <3>1, TaggedFlatten
  <2>3. ASSUME NEW what \in {"incomplete-chain", "expired", "expiring"}
        PROVE  Cardinality(Tagged(keys, what)) = Cardinality({})
    <3>1. Ones(X, pieces, {}, what)
      BY <1>6, <1>7 DEF Ones
    <3> QED
      BY <3>1, TaggedFlatten
  <2> QED
    BY <2>1, <2>2, <2>3, FS_EmptySet
<1>19. Only(link, RU!Note("incomplete-chain")) /\ (link # <<>> <=> broken)
  <2>1. <<RU!Note("incomplete-chain")>> # <<>>
    OBVIOUS
  <2> HIDE DEF broken
  <2> QED
    BY <2>1 DEF RU!When, Only
<1>10. /\ link \in Seq(X) /\ \A what : what # "incomplete-chain" => Cardinality(Tagged(link, what)) = 0
       /\ link # <<>> => Cardinality(Tagged(link, "incomplete-chain")) = 1
       /\ link = <<>> => Cardinality(Tagged(link, "incomplete-chain")) = 0
  <2>2. RU!Note("incomplete-chain")[1] = "incomplete-chain"
    BY DEF RU!Note
  <2> HIDE DEF link
  <2> QED
    BY <1>2, <1>19, <2>2, TaggedOne
<1>11. chain = <<>> => (leaf \o keys) \o link = <<>>
  <2> SUFFICES ASSUME chain = <<>> PROVE (leaf \o keys) \o link = <<>>
    OBVIOUS
  <2>1. leaf = <<>>
    BY DEF leaf
  <2>2. pieces = <<>>
    BY DEF pieces
  <2>3. keys = <<>>
    BY <2>2 DEF FlattenSeq
  <2>4. link = <<>>
    <3>1. ~broken
      BY DEF RU!IncompleteChain
    <3> HIDE DEF broken
    <3> QED
      BY <3>1 DEF RU!When
  <2> HIDE DEF keys, link
  <2> QED
    BY <2>1, <2>3, <2>4
<1> HIDE DEF keys, link, broken
<1>12. leaf \o keys \in Seq(X) /\ (leaf \o keys) \o link \in Seq(X)
  BY <1>5, <1>9, <1>10
<1>13. \A what : Cardinality(Tagged((leaf \o keys) \o link, what))
                   = (Cardinality(Tagged(leaf, what)) + Cardinality(Tagged(keys, what)))
                       + Cardinality(Tagged(link, what))
  <2> TAKE what
  <2>1. Cardinality(Tagged(leaf \o keys, what))
          = Cardinality(Tagged(leaf, what)) + Cardinality(Tagged(keys, what))
    BY <1>5, <1>9, TaggedAdds
  <2> DEFINE both == leaf \o keys
  <2>3. both \in Seq(X)
    BY <1>12
  <2> HIDE DEF both
  <2>4. Cardinality(Tagged(both \o link, what))
          = Cardinality(Tagged(both, what)) + Cardinality(Tagged(link, what))
    BY <1>10, <2>3, TaggedAdds
  <2>2. Cardinality(Tagged((leaf \o keys) \o link, what))
          = Cardinality(Tagged(leaf \o keys, what)) + Cardinality(Tagged(link, what))
    BY <2>4 DEF both
  <2> QED
    BY <2>1, <2>2
<1>14. Cardinality(weak) \in Nat
  <2>1. weak \in SUBSET DOMAIN chain
    BY <1>3, <1>8
  <2> QED
    BY <1>3, <2>1, PickedIs
<1>15. Cardinality(Tagged((leaf \o keys) \o link, "weak-key")) = Cardinality(weak)
  BY <1>5, <1>9, <1>10, <1>13, <1>14
<1>16. /\ Cardinality(Tagged((leaf \o keys) \o link, "expired"))
            = Cardinality(Tagged(leaf, "expired"))
       /\ Cardinality(Tagged((leaf \o keys) \o link, "expiring"))
            = Cardinality(Tagged(leaf, "expiring"))
  BY <1>5, <1>9, <1>10, <1>13
<1>17. Cardinality(Tagged((leaf \o keys) \o link, "incomplete-chain"))
         = Cardinality(Tagged(link, "incomplete-chain"))
  <2>1. Cardinality(Tagged(link, "incomplete-chain")) \in Nat
    BY <1>10, <1>19
  <2> QED
    BY <1>5, <1>9, <1>13, <2>1
<1>18. Cardinality(Tagged((leaf \o keys) \o link, "incomplete-chain")) = 1 <=> broken
  BY <1>10, <1>17, <1>19
<1> QED
  BY <1>1, <1>5, <1>11, <1>12, <1>15, <1>16, <1>18 DEF X, weak, broken

\* A key is weak by its record just when it is one of the certificate's.
WeakCertificate(cert) ==
    \/ cert.key_algorithm = "rsa" /\ cert.key_bits < RU!MIN_RSA_KEY_BITS
    \/ cert.key_algorithm = "ec" /\ cert.key_bits < RU!MIN_EC_KEY_BITS
    \/ cert.key_algorithm \in {"rsa", "ec"} /\ ~cert.key_parses

LEMMA WeakIs ==
    ASSUME NEW cert \in RU!CertificateRows
    PROVE  LET record == RU!RecordOf(cert)
           IN  /\ record \in CertificateRecords
               /\ RU!IsWeakKey(record.key_algorithm, record.key_size_bits) <=> WeakCertificate(cert)
<1> DEFINE record == RU!RecordOf(cert)
<1>1. record \in CertificateRecords
  BY DEF CertificateRecords
<1>2. /\ record.key_algorithm = cert.key_algorithm
      /\ cert.key_parses => record.key_size_bits = cert.key_bits
      /\ ~cert.key_parses => record.key_size_bits = 0
  BY DEF RU!RecordOf
<1>3. cert.key_bits \in Nat /\ cert.key_parses \in BOOLEAN
  BY DEF RU!CertificateRows
<1> HIDE DEF record
<1>4. ASSUME cert.key_parses
      PROVE  RU!IsWeakKey(record.key_algorithm, record.key_size_bits) <=> WeakCertificate(cert)
  <2>1. WeakCertificate(cert) <=> RU!IsWeakKey(cert.key_algorithm, cert.key_bits)
    BY <1>4, Zenon DEF RU!IsWeakKey, WeakCertificate
  <2> QED
    BY <1>2, <1>4, <2>1
<1>5. ASSUME ~cert.key_parses
      PROVE  RU!IsWeakKey(record.key_algorithm, record.key_size_bits) <=> WeakCertificate(cert)
  <2>1. RU!IsWeakKey(cert.key_algorithm, 0) <=> cert.key_algorithm \in {"rsa", "ec"}
    BY DEF RU!IsWeakKey, RU!MIN_RSA_KEY_BITS, RU!MIN_EC_KEY_BITS
  <2>2. WeakCertificate(cert) <=> cert.key_algorithm \in {"rsa", "ec"}
    BY <1>5, Zenon DEF WeakCertificate
  <2> QED
    BY <1>2, <1>5, <2>1, <2>2
<1> QED
  BY <1>1, <1>4, <1>5 DEF record

\* A chain has a record of each certificate that parses, so as many weak keys as they have.
LEMMA ChainIs ==
    ASSUME NEW certs \in Seq(RU!CertificateRows)
    PROVE  LET chain == RU!ChainOf(certs)
           IN  /\ chain \in Seq(CertificateRecords)
               /\ Cardinality({k \in DOMAIN chain :
                                 RU!IsWeakKey(chain[k].key_algorithm, chain[k].key_size_bits)})
                    = Cardinality({i \in DOMAIN certs : certs[i].parses /\ WeakCertificate(certs[i])})
<1> DEFINE I == {i \in DOMAIN certs : certs[i].parses}
           size == Cardinality(I)
           chain == RU!ChainOf(certs)
           parsed == Picked(certs, I)
           W == {k \in DOMAIN chain : RU!IsWeakKey(chain[k].key_algorithm, chain[k].key_size_bits)}
           D == {i \in DOMAIN certs : certs[i].parses /\ WeakCertificate(certs[i])}
<1>1. I \in SUBSET DOMAIN certs /\ D \in SUBSET DOMAIN certs
  OBVIOUS
<1>2. chain = [k \in DOMAIN parsed |-> RU!RecordOf(parsed[k])]
  BY DEF RU!ChainOf, RU!Selected, Picked
<1>3. D \subseteq I /\ \A i \in I : i \in D <=> WeakCertificate(certs[i])
  OBVIOUS
<1> HIDE DEF I, D, parsed, chain, size
<1>4. size \in Nat /\ IsFiniteSet(D)
  BY <1>1, PickedIs DEF size
<1>5. PICK places \in [1 .. size -> I] :
        /\ parsed = [k \in 1 .. size |-> certs[places[k]]]
        /\ \A m, n \in 1 .. size : m < n <=> places[m] < places[n]
        /\ \A i \in I : \E k \in 1 .. size : places[k] = i
  BY <1>1, PickedPlaces DEF parsed, size
<1>6. \A k \in 1 .. size : places[k] \in I /\ certs[places[k]] \in RU!CertificateRows
  BY <1>1, <1>5
<1>7. DOMAIN chain = 1 .. size /\ \A k \in 1 .. size : chain[k] = RU!RecordOf(certs[places[k]])
  BY <1>2, <1>5
<1>8. chain = [k \in 1 .. size |-> chain[k]]
  BY <1>2, <1>5
<1>9. \A k \in 1 .. size :
        /\ chain[k] \in CertificateRecords
        /\ RU!IsWeakKey(chain[k].key_algorithm, chain[k].key_size_bits) <=> places[k] \in D
  <2> TAKE k \in 1 .. size
  <2>1. chain[k] = RU!RecordOf(certs[places[k]]) /\ certs[places[k]] \in RU!CertificateRows
    BY <1>6, <1>7
  <2>2. places[k] \in D <=> WeakCertificate(certs[places[k]])
    BY <1>3, <1>6
  <2> QED
    BY <2>1, <2>2, WeakIs
<1>10. chain \in Seq(CertificateRecords)
  <2> HIDE DEF W
  <2>1. \A k \in 1 .. size : chain[k] \in CertificateRecords
    BY <1>9
  <2> QED
    BY <1>4, <1>8, <2>1
<1>11. W = {k \in 1 .. size : places[k] \in D}
  BY <1>7, <1>9
<1> HIDE DEF W
<1> DEFINE f == [k \in W |-> places[k]]
<1>12. f \in [W -> D]
  BY <1>11
<1>13. \A x, y \in W : f[x] = f[y] => x = y
  <2> TAKE x, y \in W
  <2>1. x \in 1 .. size /\ y \in 1 .. size /\ f[x] = places[x] /\ f[y] = places[y]
    BY <1>11
  <2>2. places[x] \in Int
    BY <1>1, <1>6, <2>1
  <2>3. places[x] = places[y] => ~(x < y) /\ ~(y < x)
    BY <1>5, <2>1, <2>2
  <2> QED
    BY <1>4, <2>1, <2>3
<1>14. \A i \in D : \E k \in W : f[k] = i
  <2> TAKE i \in D
  <2>1. PICK k \in 1 .. size : places[k] = i
    BY <1>3, <1>5
  <2> QED
    BY <1>11, <2>1
<1> HIDE DEF f
<1>15. Cardinality(W) = Cardinality(D)
  BY <1>4, <1>12, <1>13, <1>14, SameSize
<1> QED
  BY <1>10, <1>15 DEF W, D, chain

\* What is in the evidence of a handshake before its findings.
Before(record) ==
    {[kind |-> "tls", text |-> RU!Note(record.certificates[1].subject)],
     RU!Banner(RU!Note(record.protocol_version)), RU!Banner(RU!Note(record.cipher_suite)),
     RU!Banner(RU!Note(record.alpn)), [kind |-> "alpn", text |-> RU!Note(record.alpn)]}

\* The findings of a chain are all in the evidence.
Repeats(evidence, findings) ==
    \A i \in DOMAIN findings : \E j \in DOMAIN evidence : evidence[j] = RU!Banner(findings[i])

LEMMA EvidenceIs ==
    ASSUME NEW record, record.certificates \in Seq(CertificateRecords), NEW probed
    PROVE  Repeats(RU!EvidenceFromRecord(record, probed),
                   RU!DeriveFindings(record.certificates, probed))
<1> DEFINE Y == Before(record)
           told == RU!DeriveFindings(record.certificates, probed)
           version == RU!ProtocolVersionFinding(record.protocol_version)
           findings == told \o version
           a == RU!When(record.certificates # <<>>,
                        [kind |-> "tls", text |-> RU!Note(record.certificates[1].subject)])
           b == <<RU!Banner(RU!Note(record.protocol_version)), RU!Banner(RU!Note(record.cipher_suite))>>
           c == RU!When(record.alpn # "none", RU!Banner(RU!Note(record.alpn)))
           d == RU!When(RU!IsHttp2OrGrpc(record.alpn), [kind |-> "alpn", text |-> RU!Note(record.alpn)])
           tail == [i \in DOMAIN findings |-> RU!Banner(findings[i])]
           before == ((a \o b) \o c) \o d
<1>1. RU!EvidenceFromRecord(record, probed) = before \o tail
  BY DEF RU!EvidenceFromRecord
<1>2. before \in Seq(Y)
  <2>1. a \in Seq(Y)
    <3>1. Only(a, [kind |-> "tls", text |-> RU!Note(record.certificates[1].subject)])
      BY DEF RU!When, Only
    <3> HIDE DEF a
    <3> QED
      BY <3>1, TaggedOne DEF Before
  <2>2. b \in Seq(Y)
    <3>1. /\ RU!Banner(RU!Note(record.protocol_version)) \in Y
          /\ RU!Banner(RU!Note(record.cipher_suite)) \in Y
      BY DEF Before
    <3> HIDE DEF Y
    <3> QED
      BY <3>1
  <2>3. c \in Seq(Y)
    <3>1. Only(c, RU!Banner(RU!Note(record.alpn)))
      BY DEF RU!When, Only
    <3> HIDE DEF c
    <3> QED
      BY <3>1, TaggedOne DEF Before
  <2>4. d \in Seq(Y)
    <3>1. Only(d, [kind |-> "alpn", text |-> RU!Note(record.alpn)])
      BY DEF RU!When, Only
    <3> HIDE DEF d
    <3> QED
      BY <3>1, TaggedOne DEF Before
  <2> HIDE DEF a, b, c, d, Y
  <2> QED
    BY <2>1, <2>2, <2>3, <2>4
<1>3. \E X : told \in Seq(X) /\ version \in Seq(X)
  <2> DEFINE X == Found(record.certificates) \cup {RU!About("weak-protocol", record.protocol_version)}
  <2>1. told \in Seq(Found(record.certificates))
    BY FindingsAre
  <2>2. version \in Seq(X)
    <3>1. Only(version, RU!About("weak-protocol", record.protocol_version))
      BY DEF RU!ProtocolVersionFinding, RU!When, Only
    <3>2. RU!About("weak-protocol", record.protocol_version) \in X
      OBVIOUS
    <3> HIDE DEF version, X
    <3> QED
      BY <3>1, <3>2, TaggedOne
  <2> HIDE DEF told, version
  <2>3. told \in Seq(X)
    <3>1. Found(record.certificates) \subseteq X
      OBVIOUS
    <3> HIDE DEF X
    <3> QED
      BY <2>1, <3>1
  <2> QED
    BY <2>2, <2>3
<1> HIDE DEF before, told, version, Y
<1>4. PICK X : told \in Seq(X) /\ version \in Seq(X)
  BY <1>3
<1>5. /\ DOMAIN findings = 1 .. Len(told) + Len(version)
      /\ \A i \in DOMAIN told : i \in DOMAIN findings /\ findings[i] = told[i]
      /\ Len(told) + Len(version) \in Nat
  BY <1>4
<1> HIDE DEF findings
<1>6. tail \in Seq({RU!Banner(findings[i]) : i \in DOMAIN findings})
  BY <1>5
<1>7. \A i \in DOMAIN tail : /\ Len(before) + i \in DOMAIN (before \o tail)
                             /\ (before \o tail)[Len(before) + i] = tail[i]
  <2> HIDE DEF tail
  <2> QED
    BY <1>2, <1>6
<1>8. \A i \in DOMAIN told : i \in DOMAIN tail /\ tail[i] = RU!Banner(told[i])
  BY <1>5
<1> HIDE DEF tail
<1>9. \A i \in DOMAIN told : \E j \in DOMAIN (before \o tail) : (before \o tail)[j] = RU!Banner(told[i])
  BY <1>7, <1>8
<1> QED
  BY <1>1, <1>9 DEF told, Repeats

-----------------------------------------------------------------------------
(* Redaction: the order of claims, and what is left of a text. *)

\* The stable sort by a number: all of the sequence, with the numbers going up.
Precedes(key, i, j) ==
    \/ key[i] < key[j]
    \/ i < j /\ ~(key[j] < key[i])

Ordered(seq, key) ==
    RU!At(seq, RU!Arranged(DOMAIN seq, {p \in (DOMAIN seq) \X (DOMAIN seq) :
                                          Precedes(key, p[1], p[2])}))

\* The places of a sequence in the order of the numbers.
Orders(seq, key, places) ==
    /\ places \in [1 .. Len(seq) -> 1 .. Len(seq)]
    /\ Ordered(seq, key) = [k \in 1 .. Len(seq) |-> seq[places[k]]]
    /\ \A k, l \in 1 .. Len(seq) :
         /\ places[k] = places[l] => k = l
         /\ k < l => key[places[k]] <= key[places[l]]
    /\ \A i \in 1 .. Len(seq) : \E k \in 1 .. Len(seq) : places[k] = i

\* A stable sort gives every place once, in the order of the numbers.
LEMMA OrderedIs ==
    ASSUME NEW X, NEW seq \in Seq(X), NEW key \in [DOMAIN seq -> Int]
    PROVE  \E places : Orders(seq, key, places)
<1> DEFINE n == Len(seq)
           S == DOMAIN seq
           order == {p \in S \X S : Precedes(key, p[1], p[2])}
           places == RU!Arranged(S, order)
<1>1. n \in Nat /\ S = 1 .. n /\ \A i \in S : key[i] \in Int
  OBVIOUS
<1>2. \A i, j \in S : <<i, j>> \in order <=> Precedes(key, i, j)
  OBVIOUS
<1>3. Ordered(seq, key) = RU!At(seq, places)
  BY DEF Ordered
<1>4. places = Arranged(S, order)
  BY SameOperators
<1> HIDE DEF n, S, order, places
<1>5. IsFiniteSet(S) /\ Cardinality(S) = n
  <2>1. 1 \in Int /\ n \in Int /\ n >= 0
    BY <1>1
  <2>2. IsFiniteSet(1 .. n) /\ Cardinality(1 .. n) = n
    BY <2>1, FS_Interval
  <2> QED
    BY <1>1, <2>2
<1>6. /\ \A x, y \in S : x # y => <<x, y>> \in order \/ <<y, x>> \in order
      /\ \A x \in S : <<x, x>> \notin order
      /\ \A x, y, z \in S : <<x, y>> \in order /\ <<y, z>> \in order => <<x, z>> \in order
  <2>1. S \subseteq Int
    BY <1>1
  <2>2. \A x, y \in S : x # y => Precedes(key, x, y) \/ Precedes(key, y, x)
    BY <1>1, <2>1 DEF Precedes
  <2>3. \A x \in S : ~Precedes(key, x, x)
    BY <1>1, <2>1 DEF Precedes
  <2>4. \A x, y, z \in S : Precedes(key, x, y) /\ Precedes(key, y, z) => Precedes(key, x, z)
    BY <1>1, <2>1 DEF Precedes
  <2> QED
    BY <1>2, <2>2, <2>3, <2>4
<1>7. /\ places \in [1 .. n -> S]
      /\ \A x \in S : \E k \in 1 .. n : places[k] = x
      /\ \A k, l \in 1 .. n : k < l <=> <<places[k], places[l]>> \in order
  BY <1>4, <1>5, <1>6, ArrangedIs
<1>8. ASSUME NEW k \in 1 .. n, NEW l \in 1 .. n
      PROVE  (places[k] = places[l] => k = l) /\ (k < l => key[places[k]] <= key[places[l]])
  <2>1. places[k] \in S /\ places[l] \in S
    BY <1>7
  <2>2. k < l => Precedes(key, places[k], places[l])
    BY <1>2, <1>7, <2>1
  <2>3. k # l => <<places[k], places[l]>> \in order \/ <<places[l], places[k]>> \in order
    <3>1. k # l => k < l \/ l < k
      BY <1>1
    <3> QED
      BY <3>1, <1>7
  <2>4. key[places[k]] \in Int /\ key[places[l]] \in Int
    BY <1>1, <2>1
  <2> QED
    BY <1>6, <2>1, <2>2, <2>3, <2>4 DEF Precedes
<1>9. Ordered(seq, key) = [k \in 1 .. n |-> seq[places[k]]]
  <2>1. DOMAIN places = 1 .. n
    BY <1>7
  <2> QED
    BY <1>3, <2>1 DEF RU!At
<1>10. places \in [1 .. Len(seq) -> 1 .. Len(seq)]
  BY <1>1, <1>7 DEF n
<1>11. Orders(seq, key, places)
  BY <1>1, <1>7, <1>8, <1>9, <1>10 DEF n, Orders
<1> QED
  BY <1>11

\* What is claimed of a text so far: nothing twice, and every match so far at least touched.
Meets(a, b) == a.start < b.end /\ b.start < a.end
Apart(claims) == \A i, j \in 1 .. Len(claims) : i # j => ~Meets(claims[i], claims[j])
Covered(span, claims) == \E i \in 1 .. Len(claims) : span = claims[i] \/ Meets(span, claims[i])
Covers(claims, spans, k) == \A l \in 1 .. k : Covered(spans[l], claims)

\* A claim overlaps none before it, and takes none away.
LEMMA ClaimKeeps ==
    ASSUME NEW n \in Nat, NEW claims \in Seq(RU!MatchesIn(n)), NEW span \in RU!MatchesIn(n),
           Apart(claims)
    PROVE  /\ RU!Claim(claims, span) \in Seq(RU!MatchesIn(n)) /\ Apart(RU!Claim(claims, span))
           /\ Covered(span, RU!Claim(claims, span))
           /\ \A s : Covered(s, claims) => Covered(s, RU!Claim(claims, span))
<1> DEFINE M == RU!MatchesIn(n)
<1>1. CASE \E i \in DOMAIN claims : RU!RangesOverlap(span, claims[i])
  <2>1. RU!Claim(claims, span) = claims
    BY <1>1 DEF RU!Claim
  <2>2. Covered(span, claims)
    BY <1>1 DEF Covered, Meets, RU!RangesOverlap
  <2> QED
    BY <2>1, <2>2
<1>2. CASE ~ \E i \in DOMAIN claims : RU!RangesOverlap(span, claims[i])
  <2> DEFINE joined == Append(claims, span)
             m == Len(claims)
  <2>1. RU!Claim(claims, span) = joined
    BY <1>2 DEF RU!Claim
  <2>2. /\ m \in Nat /\ Len(joined) = m + 1 /\ joined[m + 1] = span /\ joined \in Seq(M)
        /\ \A i \in 1 .. m : joined[i] = claims[i]
    OBVIOUS
  <2>3. \A i \in 1 .. m : ~Meets(span, claims[i]) /\ ~Meets(claims[i], span)
    BY <1>2 DEF Meets, RU!RangesOverlap
  <2> HIDE DEF joined, m
  <2>4. \A i \in 1 .. m + 1 : i \in 1 .. m \/ i = m + 1
    BY <2>2
  <2>5. Apart(joined)
    <3>1. \A i, j \in 1 .. m : i # j => ~Meets(claims[i], claims[j])
      BY DEF Apart, m
    <3> QED
      BY <2>2, <2>3, <2>4, <3>1 DEF Apart
  <2>6. Covered(span, joined) /\ \A s : Covered(s, claims) => Covered(s, joined)
    <3>1. 1 .. m \subseteq 1 .. Len(joined) /\ m + 1 \in 1 .. Len(joined)
      BY <2>2
    <3>2. \A s : Covered(s, claims) =>
            \E i \in 1 .. m : s = claims[i] \/ Meets(s, claims[i])
      BY DEF Covered, m
    <3> QED
      BY <2>2, <3>1, <3>2 DEF Covered
  <2> QED
    BY <2>1, <2>2, <2>5, <2>6
<1> QED
  BY <1>1, <1>2

\* The claims on a text stand one behind the other.
Rising(claims) ==
    \A i, j \in 1 .. Len(claims) : i < j => claims[i].end <= claims[j].start

\* The claims on a text stand one behind the other, and every match is claimed or meets a claim.
LEMMA ClaimsAre ==
    ASSUME NEW n \in Nat, NEW matches \in Seq(Seq(RU!MatchesIn(n)))
    PROVE  /\ RU!Claimed(matches) \in Seq(RU!MatchesIn(n)) /\ Rising(RU!Claimed(matches))
           /\ \A span \in RU!Items(FlattenSeq(matches)) : Covered(span, RU!Claimed(matches))
<1> DEFINE M == RU!MatchesIn(n)
           spans == RU!FlattenSeq(matches)
           N == Len(spans)
           Unfold(f) == [i \in 0 .. N |-> IF i = 0 THEN <<>> ELSE RU!Claim(f[i - 1], spans[i])]
           claimed == CHOOSE f : f = Unfold(f)
           last == claimed[N]
           Less(i, j) == \/ last[i].start < last[j].start
                         \/ i < j /\ ~(last[j].start < last[i].start)
<1>1. RU!Claimed(matches) =
        RU!At(last, RU!Arranged(DOMAIN last, {p \in (DOMAIN last) \X (DOMAIN last) : Less(p[1], p[2])}))
  BY DEF RU!Claimed, RU!Sorted, RU!ArrangedBy
<1>2. spans \in Seq(M) /\ spans = FlattenSeq(matches)
  <2> HIDE DEF M
  <2> QED
    BY FlattenItems, SameOperators DEF M
<1> HIDE DEF spans
<1>3. N \in Nat /\ \A i \in 1 .. N : spans[i] \in M
  BY <1>2
<1> HIDE DEF Unfold, claimed, N, last, M
<1> DEFINE turn == [i \in 1 .. N |->
                      [s \in {c \in Seq(M) : Apart(c)} |-> RU!Claim(s, spans[i])]]
           C == {c \in Seq(M) : Apart(c)}
<1>4. turn \in [1 .. N -> [C -> C]] /\ <<>> \in C
  <2>1. <<>> \in Seq(M) /\ Apart(<<>>)
    BY DEF Apart
  <2>2. ASSUME NEW i \in 1 .. N, NEW c \in C PROVE RU!Claim(c, spans[i]) \in C
    BY <1>3, ClaimKeeps DEF M
  <2> QED
    BY <2>1, <2>2
<1>5. claimed = Unfold(claimed)
  <2>1. PICK f : Recursive(f, N, C, <<>>, turn)
    <3> HIDE DEF turn, C
    <3> QED
      BY <1>3, <1>4, Recurses
  <2>2. \A i \in 1 .. N : i - 1 \in 0 .. N
    BY <1>3
  <2>3. /\ f \in [0 .. N -> C] /\ f[0] = <<>>
        /\ \A i \in 1 .. N : f[i] = RU!Claim(f[i - 1], spans[i])
    BY <2>1, <2>2 DEF Recursive
  <2>4. \A i \in 0 .. N : i # 0 => i \in 1 .. N
    BY <1>3
  <2>5. \A i \in 0 .. N : f[i] = IF i = 0 THEN <<>> ELSE RU!Claim(f[i - 1], spans[i])
    BY <2>3, <2>4
  <2>6. f = Unfold(f)
    BY <2>3, <2>5 DEF Unfold
  <2> QED
    BY <2>6 DEF claimed
<1> HIDE DEF turn
<1> DEFINE G == {i \in 0 .. N : claimed[i] \in C /\ Covers(claimed[i], spans, i)}
<1>6. 0 \in G
  BY <1>3, <1>4, <1>5 DEF Unfold, Covers
<1>7. ASSUME NEW i \in 1 .. N, i - 1 \in G PROVE i \in G
  <2>1. i \in 0 .. N /\ i # 0 /\ \A l \in 1 .. i : l \in 1 .. i - 1 \/ l = i
    BY <1>3
  <2>2. claimed[i] = RU!Claim(claimed[i - 1], spans[i])
    BY <1>5, <2>1 DEF Unfold
  <2>3. claimed[i - 1] \in Seq(M) /\ Apart(claimed[i - 1]) /\ spans[i] \in M
        /\ Covers(claimed[i - 1], spans, i - 1)
    BY <1>3, <1>7
  <2>4. /\ claimed[i] \in C /\ Covered(spans[i], claimed[i])
        /\ \A s : Covered(s, claimed[i - 1]) => Covered(s, claimed[i])
    BY <2>2, <2>3, ClaimKeeps DEF M
  <2>5. Covers(claimed[i], spans, i)
    BY <2>1, <2>3, <2>4 DEF Covers
  <2> QED
    BY <2>1, <2>4, <2>5
<1>8. last \in Seq(M) /\ Apart(last) /\ Covers(last, spans, N)
  <2> HIDE DEF G
  <2>1. 0 .. N \subseteq G
    BY <1>3, <1>6, <1>7, Inducts
  <2>2. N \in G
    BY <1>3, <2>1
  <2> QED
    BY <2>2 DEF G, last
<1> DEFINE key == [i \in DOMAIN last |-> last[i].start]
           claims == RU!Claimed(matches)
           m == Len(last)
<1>9. /\ m \in Nat /\ DOMAIN last = 1 .. m
      /\ \A i \in 1 .. m : /\ last[i] \in M /\ last[i].start \in Int /\ last[i].end \in Int
                           /\ last[i].start < last[i].end
  <2>1. m \in Nat /\ DOMAIN last = 1 .. m /\ \A i \in 1 .. m : last[i] \in M
    BY <1>8
  <2>2. \A x \in M : x.start \in Int /\ x.end \in Int /\ x.start < x.end
    BY DEF M, RU!MatchesIn
  <2> QED
    BY <2>1, <2>2
<1>10. claims = Ordered(last, key)
  <2>1. \A i, j \in DOMAIN last : Less(i, j) <=> Precedes(key, i, j)
    BY DEF Precedes
  <2> HIDE DEF Less
  <2>2. {p \in (DOMAIN last) \X (DOMAIN last) : Less(p[1], p[2])}
          = {p \in (DOMAIN last) \X (DOMAIN last) : Precedes(key, p[1], p[2])}
    BY <2>1
  <2> QED
    BY <1>1, <2>2 DEF Ordered
<1> HIDE DEF claims, Less
<1>11. key \in [DOMAIN last -> Int]
  BY <1>9
<1>12. \A i \in 1 .. m : key[i] = last[i].start
  BY <1>9
<1> HIDE DEF key
<1>13. PICK places \in [1 .. m -> 1 .. m] :
         /\ Ordered(last, key) = [k \in 1 .. m |-> last[places[k]]]
         /\ \A k, l \in 1 .. m :
              /\ places[k] = places[l] => k = l
              /\ k < l => key[places[k]] <= key[places[l]]
         /\ \A i \in 1 .. m : \E k \in 1 .. m : places[k] = i
  <2>1. PICK places : Orders(last, key, places)
    BY <1>8, <1>11, OrderedIs
  <2> QED
    BY <2>1 DEF Orders
<1>14. claims \in Seq(M) /\ Len(claims) = m /\ \A k \in 1 .. m : claims[k] = last[places[k]]
  <2>1. claims = [k \in 1 .. m |-> last[places[k]]]
    BY <1>10, <1>13
  <2> HIDE DEF m
  <2> QED
    BY <1>9, <1>13, <2>1
<1>15. Rising(claims)
  <2> SUFFICES ASSUME NEW i \in 1 .. m, NEW j \in 1 .. m, i < j
               PROVE  claims[i].end <= claims[j].start
    BY <1>14 DEF Rising
  <2>1. /\ places[i] \in 1 .. m /\ places[j] \in 1 .. m /\ places[i] # places[j]
        /\ key[places[i]] <= key[places[j]]
    <3>1. i # j
      BY <1>9
    <3> QED
      BY <1>13, <3>1
  <2>2. last[places[i]].start <= last[places[j]].start
    BY <1>12, <2>1
  <2>3. ~Meets(last[places[i]], last[places[j]])
    BY <1>8, <2>1 DEF Apart
  <2>4. last[places[i]].end <= last[places[j]].start
    BY <1>9, <2>1, <2>2, <2>3 DEF Meets
  <2> QED
    BY <1>14, <2>4
<1>16. ASSUME NEW span \in RU!Items(spans) PROVE Covered(span, claims)
  <2>1. PICK l \in 1 .. N : span = spans[l]
    <3>1. RU!Items(spans) = {spans[i] : i \in 1 .. N}
      BY <1>2, ItemsAre DEF N
    <3> QED
      BY <3>1
  <2>2. PICK i \in 1 .. m : span = last[i] \/ Meets(span, last[i])
    BY <1>8, <2>1 DEF Covers, Covered
  <2>3. PICK k \in 1 .. m : places[k] = i
    BY <1>13
  <2> QED
    BY <1>14, <2>2, <2>3 DEF Covered
<1> QED
  BY <1>2, <1>14, <1>15, <1>16 DEF claims, M

\* Numbers that go up are in one order only.
GoesUp(seq) == \A i, j \in 1 .. Len(seq) : i < j => seq[i] < seq[j]
Holding(seq) == {seq[i] : i \in 1 .. Len(seq)}

\* Of two such orders of the same numbers, neither goes on when the other ends.
LEMMA UpTo ==
    ASSUME NEW a \in Seq(Int), NEW b \in Seq(Int), GoesUp(a), GoesUp(b), Holding(a) = Holding(b)
    PROVE  Len(a) <= Len(b) /\ \A k \in 1 .. Len(a) : a[k] = b[k]
<1> DEFINE m == Len(a)
           n == Len(b)
           G == {k \in 0 .. m : k <= n /\ \A j \in 1 .. k : a[j] = b[j]}
<1>1. /\ m \in Nat /\ n \in Nat /\ \A i \in 1 .. m : a[i] \in Int
      /\ \A i \in 1 .. n : b[i] \in Int
  OBVIOUS
<1>2. /\ \A i, j \in 1 .. m : i < j => a[i] < a[j]
      /\ \A i, j \in 1 .. n : i < j => b[i] < b[j]
      /\ \A i \in 1 .. m : \E j \in 1 .. n : a[i] = b[j]
      /\ \A j \in 1 .. n : \E i \in 1 .. m : b[j] = a[i]
  <2>1. {a[i] : i \in 1 .. m} = {b[i] : i \in 1 .. n}
    BY DEF Holding
  <2>2. /\ \A i, j \in 1 .. m : i < j => a[i] < a[j]
        /\ \A i, j \in 1 .. n : i < j => b[i] < b[j]
    BY DEF GoesUp
  <2> HIDE DEF m, n
  <2> QED
    BY <2>1, <2>2
<1> HIDE DEF m, n
<1>3. 0 \in G
  BY <1>1
<1>4. ASSUME NEW k \in 1 .. m, k - 1 \in G PROVE k \in G
  <2>1. k - 1 <= n /\ (\A j \in 1 .. k - 1 : a[j] = b[j]) /\ k \in 0 .. m
    BY <1>1, <1>4
  <2>2. PICK l \in 1 .. n : a[k] = b[l]
    BY <1>2
  <2>3. l >= k
    <3> SUFFICES ASSUME ~(l >= k) PROVE FALSE
      OBVIOUS
    <3>1. l \in 1 .. k - 1 /\ l \in 1 .. m /\ l < k
      BY <1>1
    <3>2. a[l] = b[l] /\ a[l] < a[k]
      BY <1>2, <2>1, <3>1
    <3> QED
      BY <1>1, <2>2, <3>1, <3>2
  <2>4. k \in 1 .. n
    BY <1>1, <2>3
  <2>5. b[k] <= a[k]
    <3>1. k = l \/ k < l
      BY <1>1, <2>3
    <3>2. k < l => b[k] < b[l]
      BY <1>2, <2>4
    <3> QED
      BY <1>1, <2>2, <2>4, <3>1, <3>2
  <2>6. PICK o \in 1 .. m : b[k] = a[o]
    BY <1>2, <2>4
  <2>7. o >= k
    <3> SUFFICES ASSUME ~(o >= k) PROVE FALSE
      OBVIOUS
    <3>1. o \in 1 .. k - 1 /\ o \in 1 .. n /\ o < k
      BY <1>1, <2>4
    <3>2. a[o] = b[o] /\ b[o] < b[k]
      BY <1>2, <2>1, <2>4, <3>1
    <3> QED
      BY <1>1, <2>4, <2>6, <3>1, <3>2
  <2>8. a[k] <= b[k]
    <3>1. k = o \/ k < o
      BY <1>1, <2>7
    <3>2. k < o => a[k] < a[o]
      BY <1>2
    <3> QED
      BY <1>1, <2>4, <2>6, <3>1, <3>2
  <2>9. a[k] = b[k]
    BY <1>1, <2>4, <2>5, <2>8
  <2>10. \A j \in 1 .. k : a[j] = b[j]
    <3>1. \A j \in 1 .. k : j \in 1 .. k - 1 \/ j = k
      BY <1>1
    <3> QED
      BY <2>1, <2>9, <3>1
  <2>11. k <= n
    BY <2>4
  <2> QED
    BY <2>1, <2>10, <2>11
<1>5. m \in G
  <2> HIDE DEF G
  <2>1. 0 .. m \subseteq G
    BY <1>1, <1>3, <1>4, Inducts
  <2> QED
    BY <1>1, <2>1
<1> QED
  BY <1>5 DEF m, n

\* Numbers that go up are in one order only.
LEMMA UpAlike ==
    ASSUME NEW a \in Seq(Int), NEW b \in Seq(Int), GoesUp(a), GoesUp(b), Holding(a) = Holding(b)
    PROVE  a = b
<1>1. Len(a) <= Len(b) /\ \A k \in 1 .. Len(a) : a[k] = b[k]
  BY UpTo
<1>2. Len(b) <= Len(a)
  BY UpTo
<1>3. Len(a) = Len(b) /\ a = [i \in 1 .. Len(a) |-> a[i]] /\ b = [i \in 1 .. Len(b) |-> b[i]]
  BY <1>1, <1>2
<1> QED
  BY <1>1, <1>3

\* What is written of a text: positions of it and marks in place of others.
Written == ({"text"} \X Int) \cup ({"mark"} \X STRING)
Places(out) == {out[i][2] : i \in Tagged(out, "text")}
TextRises(out) ==
    \A i, j \in Tagged(out, "text") : i < j => out[i][2] < out[j][2]

\* What is written after what stands before it.
LEMMA WritingGoesOn ==
    ASSUME NEW a \in Seq(Written), NEW b \in Seq(Written), TextRises(a), TextRises(b),
           \A x \in Places(a), y \in Places(b) : x < y
    PROVE  TextRises(a \o b) /\ Places(a \o b) = Places(a) \cup Places(b)
<1> DEFINE m == Len(a)
           n == Len(b)
           c == a \o b
<1>1. /\ m \in Nat /\ n \in Nat /\ DOMAIN a = 1 .. m /\ DOMAIN b = 1 .. n
      /\ DOMAIN c = 1 .. m + n
      /\ \A i \in 1 .. m : c[i] = a[i]
      /\ \A i \in 1 .. n : c[m + i] = b[i]
  OBVIOUS
<1> HIDE DEF m, n, c
<1>2. \A i \in 1 .. m + n : i \in 1 .. m \/ (i - m \in 1 .. n /\ i = m + (i - m))
  BY <1>1
<1>3. \A i \in 1 .. m : i \in Tagged(c, "text") <=> i \in Tagged(a, "text")
  BY <1>1 DEF Tagged
<1>4. \A i \in 1 .. n : m + i \in Tagged(c, "text") <=> i \in Tagged(b, "text")
  BY <1>1 DEF Tagged
<1>5. Tagged(c, "text") \subseteq 1 .. m + n /\ Tagged(a, "text") \subseteq 1 .. m
      /\ Tagged(b, "text") \subseteq 1 .. n
  BY <1>1 DEF Tagged
<1>6. Places(c) = Places(a) \cup Places(b)
  <2>1. ASSUME NEW i \in Tagged(c, "text") PROVE c[i][2] \in Places(a) \cup Places(b)
    <3>1. CASE i \in 1 .. m
      <4>1. i \in Tagged(a, "text") /\ c[i] = a[i]
        BY <1>1, <1>3, <3>1
      <4> QED
        BY <4>1 DEF Places
    <3>2. CASE i \notin 1 .. m
      <4>1. i - m \in 1 .. n /\ i = m + (i - m)
        BY <1>2, <1>5, <3>2
      <4>2. i - m \in Tagged(b, "text") /\ c[i] = b[i - m]
        BY <1>1, <1>4, <4>1
      <4> QED
        BY <4>2 DEF Places
    <3> QED
      BY <3>1, <3>2
  <2>2. ASSUME NEW i \in Tagged(a, "text") PROVE a[i][2] \in Places(c)
    <3>1. i \in Tagged(c, "text") /\ c[i] = a[i]
      BY <1>1, <1>3, <1>5
    <3> QED
      BY <3>1 DEF Places
  <2>3. ASSUME NEW i \in Tagged(b, "text") PROVE b[i][2] \in Places(c)
    <3>1. m + i \in Tagged(c, "text") /\ c[m + i] = b[i]
      BY <1>1, <1>4, <1>5
    <3> QED
      BY <3>1 DEF Places
  <2> QED
    BY <2>1, <2>2, <2>3 DEF Places
<1>7. TextRises(c)
  <2> SUFFICES ASSUME NEW i \in Tagged(c, "text"), NEW j \in Tagged(c, "text"), i < j
               PROVE  c[i][2] < c[j][2]
    BY DEF TextRises
  <2>1. i \in 1 .. m + n /\ j \in 1 .. m + n
    BY <1>5
  <2>2. CASE j \in 1 .. m
    <3>1. i \in 1 .. m
      BY <1>1, <2>1, <2>2
    <3>2. i \in Tagged(a, "text") /\ j \in Tagged(a, "text") /\ c[i] = a[i] /\ c[j] = a[j]
      BY <1>1, <1>3, <2>2, <3>1
    <3> QED
      BY <3>2 DEF TextRises
  <2>3. CASE j \notin 1 .. m /\ i \in 1 .. m
    <3>1. j - m \in 1 .. n /\ j = m + (j - m)
      BY <1>2, <2>1, <2>3
    <3>2. /\ i \in Tagged(a, "text") /\ c[i] = a[i]
          /\ j - m \in Tagged(b, "text") /\ c[j] = b[j - m]
      BY <1>1, <1>3, <1>4, <2>3, <3>1
    <3>3. a[i][2] \in Places(a) /\ b[j - m][2] \in Places(b)
      BY <3>2 DEF Places
    <3> QED
      BY <3>2, <3>3
  <2>4. CASE j \notin 1 .. m /\ i \notin 1 .. m
    <3>1. /\ j - m \in 1 .. n /\ j = m + (j - m) /\ i - m \in 1 .. n /\ i = m + (i - m)
          /\ i - m < j - m
      BY <1>1, <1>2, <2>1, <2>4
    <3>2. /\ i - m \in Tagged(b, "text") /\ c[i] = b[i - m]
          /\ j - m \in Tagged(b, "text") /\ c[j] = b[j - m]
      BY <1>1, <1>4, <3>1
    <3> QED
      BY <3>1, <3>2 DEF TextRises
  <2> QED
    BY <2>2, <2>3, <2>4
<1> QED
  BY <1>6, <1>7 DEF c

\* A stretch of the text, as it is; and a mark, which is none of it.
Stretch(f, u) == [k \in 1 .. u - f |-> <<"text", f + k - 1>>]

\* A stretch of a text goes up, holds just its positions, and marks nothing.
LEMMA StretchIs ==
    ASSUME NEW f \in Nat, NEW u \in Nat, f <= u
    PROVE  /\ Stretch(f, u) \in Seq(Written) /\ TextRises(Stretch(f, u))
           /\ Places(Stretch(f, u)) = f .. u - 1
           /\ Cardinality(Tagged(Stretch(f, u), "mark")) = 0
<1> DEFINE piece == Stretch(f, u)
<1>1. u - f \in Nat /\ DOMAIN piece = 1 .. u - f /\ piece = [k \in 1 .. u - f |-> piece[k]]
  BY DEF Stretch
<1>2. \A k \in 1 .. u - f : piece[k] \in Written /\ piece[k][1] = "text" /\ piece[k][2] = f + k - 1
  BY DEF Written, Stretch
<1> HIDE DEF piece
<1>3. piece \in Seq(Written)
  BY <1>1, <1>2
<1>4. Tagged(piece, "text") = 1 .. u - f /\ Tagged(piece, "mark") = {}
  BY <1>1, <1>2 DEF Tagged
<1>5. TextRises(piece)
  BY <1>2, <1>4 DEF TextRises
<1>6. Places(piece) = f .. u - 1
  <2>1. ASSUME NEW x \in f .. u - 1 PROVE x \in Places(piece)
    <3>1. x - f + 1 \in 1 .. u - f /\ piece[x - f + 1][2] = x
      BY <1>2
    <3> QED
      BY <1>4, <3>1 DEF Places
  <2>2. ASSUME NEW k \in 1 .. u - f PROVE piece[k][2] \in f .. u - 1
    BY <1>2
  <2> QED
    BY <1>4, <2>1, <2>2 DEF Places
<1> QED
  BY <1>3, <1>4, <1>5, <1>6, FS_EmptySet DEF piece

\* A mark is one, and holds no position.
LEMMA MarkIs ==
    ASSUME NEW mark, mark = <<>> \/ \E c \in STRING : mark = <<<<"mark", c>>>>
    PROVE  /\ mark \in Seq(Written) /\ TextRises(mark) /\ Places(mark) = {}
           /\ mark # <<>> => Cardinality(Tagged(mark, "mark")) = 1
           /\ mark = <<>> => Cardinality(Tagged(mark, "mark")) = 0
<1>1. CASE mark = <<>>
  <2>1. Tagged(mark, "text") = {} /\ Tagged(mark, "mark") = {} /\ mark \in Seq(Written)
    BY <1>1 DEF Tagged
  <2> QED
    BY <1>1, <2>1, FS_EmptySet DEF TextRises, Places
<1>2. ASSUME NEW c \in STRING, mark = <<<<"mark", c>>>>
      PROVE  /\ mark \in Seq(Written) /\ TextRises(mark) /\ Places(mark) = {}
             /\ mark # <<>> /\ Cardinality(Tagged(mark, "mark")) = 1
  <2>1. <<"mark", c>> \in Written /\ <<"mark", c>>[1] = "mark" /\ "mark" # "text"
    BY DEF Written
  <2>2. Only(mark, <<"mark", c>>) /\ mark # <<>>
    BY <1>2 DEF Only
  <2>3. Tagged(mark, "text") = {}
    BY <1>2, <2>1 DEF Tagged
  <2>4. mark \in Seq(Written) /\ Cardinality(Tagged(mark, "mark")) = 1
    <3>1. \E finding : finding = <<"mark", c>> /\ Only(mark, finding)
      BY <2>2
    <3> QED
      BY <2>1, <2>2, <3>1, TaggedOne
  <2> QED
    BY <2>2, <2>3, <2>4 DEF TextRises, Places
<1> QED
  BY <1>1, <1>2

Hidden(claims) == UNION {claims[i].start .. claims[i].end - 1 : i \in 1 .. Len(claims)}

\* The text is written stretch by stretch, and what is claimed of it is left out.
From(claims, i) == IF i = 1 THEN 0 ELSE claims[i - 1].end
Until(n, claims, i) == IF i > Len(claims) THEN n ELSE claims[i].start
Done(n, claims, i) == IF i = 0 THEN 0 ELSE IF i > Len(claims) THEN n ELSE claims[i].end
Mark(claims, i) == IF i > Len(claims) THEN <<>> ELSE <<<<"mark", claims[i].category>>>>

Parts(n, claims) ==
    [i \in 1 .. Len(claims) + 1 |->
       Stretch(From(claims, i), Until(n, claims, i)) \o Mark(claims, i)]

\* What is written goes up, is just what is not hidden, and has a mark for each claim.
LEMMA OutputIs ==
    ASSUME NEW n \in Nat, NEW claims \in Seq(RU!MatchesIn(n)), Rising(claims)
    PROVE  /\ FlattenSeq(Parts(n, claims)) \in Seq(Written)
           /\ TextRises(FlattenSeq(Parts(n, claims)))
           /\ Places(FlattenSeq(Parts(n, claims))) = (0 .. n - 1) \ Hidden(claims)
           /\ Cardinality(Tagged(FlattenSeq(Parts(n, claims)), "mark")) = Len(claims)
<1> DEFINE m == Len(claims)
           from(i) == From(claims, i)
           until(i) == Until(n, claims, i)
           done(i) == Done(n, claims, i)
           piece(i) == Stretch(from(i), until(i))
           mark(i) == Mark(claims, i)
           hidden == Hidden(claims)
           parts == Parts(n, claims)
<1>1. m \in Nat /\ DOMAIN parts = 1 .. m + 1 /\ parts = [i \in 1 .. m + 1 |-> parts[i]]
      /\ \A i \in 1 .. m + 1 : parts[i] = piece(i) \o mark(i)
  BY DEF Parts
<1>0. /\ \A i : from(i) = IF i = 1 THEN 0 ELSE claims[i - 1].end
      /\ \A i : until(i) = IF i > m THEN n ELSE claims[i].start
      /\ \A i : done(i) = IF i = 0 THEN 0 ELSE IF i > m THEN n ELSE claims[i].end
      /\ \A i : mark(i) = IF i > m THEN <<>> ELSE <<<<"mark", claims[i].category>>>>
  BY DEF From, Until, Done, Mark
<1>2. /\ \A i \in 1 .. m : /\ claims[i].start \in Nat /\ claims[i].end \in Nat
                           /\ claims[i].start < claims[i].end /\ claims[i].end <= n
                           /\ claims[i].category \in STRING
      /\ \A i, j \in 1 .. m : i < j => claims[i].end <= claims[j].start
  <2>1. \A i \in 1 .. m : claims[i] \in RU!MatchesIn(n)
    OBVIOUS
  <2>2. \A c \in RU!MatchesIn(n) :
          /\ c.start \in Nat /\ c.end \in Nat /\ c.start < c.end /\ c.end <= n
          /\ c.category \in STRING
    BY DEF RU!MatchesIn
  <2> QED
    BY <2>1, <2>2 DEF Rising
<1>3. hidden = UNION {claims[i].start .. claims[i].end - 1 : i \in 1 .. m}
  BY DEF Hidden
<1> HIDE DEF m, hidden, parts, from, until, done, piece, mark
<1>4. ASSUME NEW i \in 1 .. m + 1
      PROVE  /\ i - 1 \in 0 .. m /\ from(i) = done(i - 1) /\ from(i) \in Nat /\ until(i) \in Nat
             /\ done(i) \in Nat /\ from(i) <= until(i) /\ until(i) <= done(i)
  <2>1. i - 1 \in 0 .. m /\ (i # 1 => i - 1 \in 1 .. m /\ i - 1 < i /\ i - 1 # 0 /\ ~(i - 1 > m))
        /\ (i = 1 => i - 1 = 0) /\ (~(i > m) => i \in 1 .. m) /\ i # 0
    BY <1>1
  <2>2. from(i) = done(i - 1)
    BY <1>0, <2>1
  <2>3. from(i) \in Nat /\ from(i) <= n
    BY <1>0, <1>2, <2>1
  <2>4. until(i) \in Nat /\ done(i) \in Nat /\ until(i) <= done(i)
    BY <1>0, <1>2, <2>1
  <2>5. from(i) <= until(i)
    <3>1. CASE i > m
      BY <1>0, <2>3, <3>1
    <3>2. CASE ~(i > m) /\ i = 1
      BY <1>0, <2>4, <3>2
    <3>3. CASE ~(i > m) /\ i # 1
      <4>1. claims[i - 1].end <= claims[i].start
        BY <1>2, <2>1, <3>3
      <4> QED
        BY <1>0, <3>3, <4>1
    <3> QED
      BY <3>1, <3>2, <3>3
  <2> QED
    BY <2>1, <2>2, <2>3, <2>4, <2>5
<1>5. ASSUME NEW i \in 1 .. m + 1, NEW x \in from(i) .. until(i) - 1 PROVE x \notin hidden
  <2> SUFFICES ASSUME NEW j \in 1 .. m, x \in claims[j].start .. claims[j].end - 1 PROVE FALSE
    BY <1>3
  <2>1. CASE j < i
    <3>1. i # 1 /\ i - 1 \in 1 .. m /\ from(i) = claims[i - 1].end
      BY <1>0, <1>1, <2>1
    <3>2. j = i - 1 \/ j < i - 1
      BY <1>1, <2>1
    <3>3. claims[j].end <= claims[i - 1].end
      <4>1. j < i - 1 => claims[j].end <= claims[i - 1].start
        BY <1>2, <3>1
      <4> QED
        BY <1>2, <3>1, <3>2, <4>1
    <3> QED
      BY <1>2, <1>4, <3>1, <3>3
  <2>2. CASE ~(j < i)
    <3>1. i \in 1 .. m /\ ~(i > m) /\ until(i) = claims[i].start
      BY <1>0, <1>1, <2>2
    <3>2. i = j \/ i < j
      BY <1>1, <2>2
    <3>3. claims[i].start <= claims[j].start
      <4>1. i < j => claims[i].end <= claims[j].start
        BY <1>2, <3>1
      <4> QED
        BY <1>2, <3>1, <3>2, <4>1
    <3> QED
      BY <1>2, <1>4, <3>1, <3>3
  <2> QED
    BY <2>1, <2>2
<1>6. ASSUME NEW i \in 1 .. m + 1, NEW x \in until(i) .. done(i) - 1 PROVE x \in hidden
  <2>1. i > m => until(i) = n /\ done(i) = n
    BY <1>0, <1>1
  <2>2. ~(i > m)
    BY <1>4, <2>1
  <2>3. i \in 1 .. m /\ until(i) = claims[i].start /\ done(i) = claims[i].end
    BY <1>0, <1>1, <2>2
  <2> QED
    BY <1>3, <2>3
<1>7. ASSUME NEW i \in 1 .. m + 1
      PROVE  /\ parts[i] \in Seq(Written) /\ TextRises(parts[i])
             /\ Places(parts[i]) = from(i) .. until(i) - 1
             /\ i \in 1 .. m => Cardinality(Tagged(parts[i], "mark")) = 1
             /\ i \notin 1 .. m => Cardinality(Tagged(parts[i], "mark")) = 0
  <2>1. /\ piece(i) \in Seq(Written) /\ TextRises(piece(i))
        /\ Places(piece(i)) = from(i) .. until(i) - 1
        /\ Cardinality(Tagged(piece(i), "mark")) = 0
    <3>1. from(i) \in Nat /\ until(i) \in Nat /\ from(i) <= until(i)
      BY <1>4
    <3> QED
      BY <3>1, StretchIs DEF piece
  <2>2. /\ mark(i) \in Seq(Written) /\ TextRises(mark(i)) /\ Places(mark(i)) = {}
        /\ i \in 1 .. m => Cardinality(Tagged(mark(i), "mark")) = 1
        /\ i \notin 1 .. m => Cardinality(Tagged(mark(i), "mark")) = 0
    <3>1. mark(i) = <<>> \/ \E c \in STRING : mark(i) = <<<<"mark", c>>>>
      <4>1. ~(i > m) => i \in 1 .. m
        BY <1>1
      <4> QED
        BY <1>0, <1>2, <4>1
    <3>2. (i \in 1 .. m => mark(i) # <<>>) /\ (i \notin 1 .. m => mark(i) = <<>>)
      BY <1>0, <1>1
    <3> QED
      BY <3>1, <3>2, MarkIs
  <2>3. parts[i] = piece(i) \o mark(i)
    BY <1>1
  <2>4. parts[i] \in Seq(Written)
    BY <2>1, <2>2, <2>3
  <2>5. TextRises(parts[i]) /\ Places(parts[i]) = Places(piece(i)) \cup Places(mark(i))
    BY <2>1, <2>2, <2>3, WritingGoesOn
  <2>6. Cardinality(Tagged(parts[i], "mark"))
          = Cardinality(Tagged(piece(i), "mark")) + Cardinality(Tagged(mark(i), "mark"))
    BY <2>1, <2>2, <2>3, TaggedAdds
  <2> QED
    BY <2>1, <2>2, <2>4, <2>5, <2>6
<1>8. parts \in Seq(Seq(Written)) /\ Len(parts) = m + 1
  <2> DEFINE X == Seq(Written)
  <2>1. \A i \in 1 .. m + 1 : parts[i] \in X
    BY <1>7
  <2>2. m + 1 \in Nat
    BY <1>1
  <2> HIDE DEF X
  <2>3. parts \in Seq(X) /\ Len(parts) = m + 1
    BY <1>1, <2>1, <2>2
  <2> QED
    BY <2>3 DEF X
<1>9. PICK F \in [0 .. m + 1 -> Seq(Written)] :
        /\ F[0] = <<>> /\ FlattenSeq(parts) = F[m + 1]
        /\ \A i \in 1 .. m + 1 : F[i] = F[i - 1] \o parts[i]
  <2>1. \E F \in [0 .. Len(parts) -> Seq(Written)] :
          /\ F[0] = <<>> /\ FlattenSeq(parts) = F[Len(parts)]
          /\ \A i \in 1 .. Len(parts) : F[i] = F[i - 1] \o parts[i]
    BY <1>8, FlattenUnfolds
  <2> QED
    BY <1>8, <2>1
<1> DEFINE G == {i \in 0 .. m + 1 : /\ TextRises(F[i])
                                    /\ Places(F[i]) = (0 .. done(i) - 1) \ hidden}
<1>10. 0 \in G
  <2>1. Tagged(<<>>, "text") = {}
    BY DEF Tagged
  <2>2. TextRises(<<>>) /\ Places(<<>>) = {}
    BY <2>1 DEF TextRises, Places
  <2>3. done(0) = 0 /\ 0 .. 0 - 1 = {} /\ 0 \in 0 .. m + 1
    BY <1>0, <1>1
  <2> QED
    BY <1>9, <2>2, <2>3
<1>11. ASSUME NEW i \in 1 .. m + 1, i - 1 \in G PROVE i \in G
  <2>1. i - 1 \in 0 .. m + 1 /\ i \in 0 .. m + 1
    BY <1>1
  <2>2. /\ F[i - 1] \in Seq(Written) /\ F[i] = F[i - 1] \o parts[i]
        /\ TextRises(F[i - 1]) /\ Places(F[i - 1]) = (0 .. done(i - 1) - 1) \ hidden
    BY <1>9, <1>11, <2>1
  <2>3. /\ from(i) = done(i - 1) /\ from(i) \in Nat /\ until(i) \in Nat
        /\ done(i) \in Nat /\ from(i) <= until(i) /\ until(i) <= done(i)
    BY <1>4
  <2>4. /\ \A x \in from(i) .. until(i) - 1 : x \notin hidden
        /\ \A x \in until(i) .. done(i) - 1 : x \in hidden
    BY <1>5, <1>6
  <2>5. /\ parts[i] \in Seq(Written) /\ TextRises(parts[i])
        /\ Places(parts[i]) = from(i) .. until(i) - 1
    BY <1>7
  <2>6. \A x \in Places(F[i - 1]), y \in Places(parts[i]) : x < y
    BY <2>2, <2>3, <2>5
  <2>7. TextRises(F[i]) /\ Places(F[i]) = Places(F[i - 1]) \cup Places(parts[i])
    BY <2>2, <2>5, <2>6, WritingGoesOn
  <2>8. Places(F[i]) = (0 .. done(i) - 1) \ hidden
    BY <2>2, <2>3, <2>4, <2>5, <2>7
  <2> QED
    BY <2>1, <2>7, <2>8
<1>12. m + 1 \in G
  <2> HIDE DEF G
  <2> DEFINE N == m + 1
  <2>1. N \in Nat
    BY <1>1
  <2>2. \A i \in 1 .. N : i - 1 \in G => i \in G
    BY <1>11
  <2> HIDE DEF N
  <2>3. 0 .. N \subseteq G
    BY <1>10, <2>1, <2>2, Inducts
  <2>4. N \in G
    BY <2>1, <2>3
  <2> QED
    BY <2>4 DEF N
<1>13. TextRises(F[m + 1]) /\ Places(F[m + 1]) = (0 .. n - 1) \ hidden
       /\ F[m + 1] \in Seq(Written)
  <2>1. done(m + 1) = n /\ m + 1 \in 0 .. m + 1
    BY <1>0, <1>1
  <2> QED
    BY <1>9, <1>12, <2>1
<1>14. Cardinality(Tagged(FlattenSeq(parts), "mark")) = m
  <2> DEFINE C == 1 .. m
  <2>1. Ones(Written, parts, C, "mark")
    BY <1>1, <1>7, <1>8 DEF Ones
  <2>2. Cardinality(C) = m
    <3>1. 1 \in Int /\ m \in Int /\ m >= 0
      BY <1>1
    <3> QED
      BY <3>1, FS_Interval
  <2> HIDE DEF C
  <2> QED
    BY <2>1, <2>2, TaggedFlatten
<1> QED
  BY <1>9, <1>13, <1>14 DEF m, hidden, parts

\* What is promised of a redaction.
TakenOut(n, matches, said) ==
    LET claims == RU!Claimed(matches)
        hidden == UNION {c.start .. c.end - 1 : c \in RU!Items(claims)}
        left == RU!Selected(said.output, LAMBDA x : x[1] = "text")
    IN  /\ \A i, j \in DOMAIN claims : i < j => claims[i].end <= claims[j].start
        /\ \A span \in RU!Items(RU!FlattenSeq(matches)) :
             \/ span \in RU!Items(claims)
             \/ (span.start .. span.end - 1) \cap hidden # {}
        /\ [i \in DOMAIN left |-> left[i][2]]
             = RU!Selected([k \in 1 .. n |-> k - 1], LAMBDA k : k \notin hidden)
        /\ Len(said.output) = Len(left) + Len(claims)
        /\ Len(said.markers) = Len(claims)

\* The positions of the text that are left, from what was written.
LEMMA LeftIs ==
    ASSUME NEW out \in Seq(Written), TextRises(out)
    PROVE  LET left == Picked(out, Tagged(out, "text"))
               texts == [i \in DOMAIN left |-> left[i][2]]
           IN  /\ texts \in Seq(Int) /\ GoesUp(texts) /\ Holding(texts) = Places(out)
               /\ Len(out) = Len(left) + Cardinality(Tagged(out, "mark"))
<1> DEFINE I == Tagged(out, "text")
           J == Tagged(out, "mark")
           left == Picked(out, I)
           size == Cardinality(I)
           texts == [i \in DOMAIN left |-> left[i][2]]
<1>1. /\ DOMAIN out = 1 .. Len(out) /\ Len(out) \in Nat
      /\ \A i \in 1 .. Len(out) : out[i] \in Written
  OBVIOUS
<1>2. /\ I \in SUBSET DOMAIN out /\ J \in SUBSET DOMAIN out /\ I \cap J = {}
      /\ \A i \in 1 .. Len(out) : i \in I \/ i \in J
      /\ \A i \in I : out[i][2] \in Int
  BY <1>1 DEF Tagged, Written
<1> HIDE DEF I, J
<1>3. /\ IsFiniteSet(I) /\ size \in 0 .. Len(out) /\ Len(left) = size /\ left \in Seq(Written)
      /\ \E places \in [1 .. size -> I] :
           /\ left = [k \in 1 .. size |-> out[places[k]]]
           /\ \A m, n \in 1 .. size : m < n <=> places[m] < places[n]
           /\ \A i \in I : \E k \in 1 .. size : places[k] = i
  BY <1>2, PickedIs
<1>4. PICK places \in [1 .. size -> I] :
        /\ left = [k \in 1 .. size |-> out[places[k]]]
        /\ \A m, n \in 1 .. size : m < n <=> places[m] < places[n]
        /\ \A i \in I : \E k \in 1 .. size : places[k] = i
  BY <1>3
<1> HIDE DEF left, size
<1>5. /\ size \in Nat /\ DOMAIN left = 1 .. size
      /\ \A k \in 1 .. size : places[k] \in I /\ left[k] = out[places[k]]
  BY <1>3, <1>4
<1>6. /\ DOMAIN texts = 1 .. size /\ texts = [k \in 1 .. size |-> texts[k]]
      /\ \A k \in 1 .. size : texts[k] = out[places[k]][2]
  BY <1>5
<1> HIDE DEF texts
<1>7. texts \in Seq(Int) /\ Len(texts) = size
  <2>1. \A k \in 1 .. size : texts[k] \in Int
    BY <1>2, <1>5, <1>6
  <2>2. texts \in [1 .. size -> Int]
    BY <1>6, <2>1
  <2>3. texts \in Seq(Int)
    BY <1>5, <2>2
  <2> QED
    BY <1>5, <1>6, <2>3
<1>8. GoesUp(texts)
  <2> SUFFICES ASSUME NEW i \in 1 .. size, NEW j \in 1 .. size, i < j
               PROVE  texts[i] < texts[j]
    BY <1>7 DEF GoesUp
  <2>1. places[i] \in I /\ places[j] \in I /\ places[i] < places[j]
    BY <1>4, <1>5
  <2> QED
    BY <1>6, <2>1 DEF TextRises, I
<1>9. Holding(texts) = Places(out)
  <2>1. Holding(texts) = {texts[k] : k \in 1 .. size}
    BY <1>7 DEF Holding
  <2>2. Places(out) = {out[i][2] : i \in I}
    BY DEF Places, I
  <2>3. \A k \in 1 .. size : places[k] \in I /\ texts[k] = out[places[k]][2]
    BY <1>5, <1>6
  <2> QED
    BY <1>4, <2>1, <2>2, <2>3
<1>10. Len(out) = Len(left) + Cardinality(J)
  <2>1. IsFiniteSet(J) /\ IsFiniteSet(I) /\ Cardinality(J) \in Nat /\ Cardinality(I) \in Nat
    <3>1. IsFiniteSet(J) /\ Cardinality(J) \in 0 .. Len(out)
      BY <1>2, PickedIs
    <3> QED
      BY <1>3, <1>5, <3>1 DEF size
  <2>2. I \cup J = 1 .. Len(out)
    BY <1>1, <1>2
  <2>3. Cardinality(I \cup J) = Cardinality(I) + Cardinality(J) - Cardinality(I \cap J)
    BY <2>1, FS_Union
  <2>4. Cardinality(1 .. Len(out)) = Len(out)
    <3>1. 1 \in Int /\ Len(out) \in Int /\ Len(out) >= 0
      BY <1>1
    <3>2. \A k \in Int : k >= 0 => Cardinality(1 .. k) = k
      BY FS_Interval
    <3> QED
      BY <3>1, <3>2
  <2>5. Cardinality(I \cap J) = 0
    BY <1>2, FS_EmptySet
  <2>6. Cardinality(I \cup J) = Len(out)
    BY <2>2, <2>4
  <2>7. Len(left) = Cardinality(I)
    BY <1>3 DEF size
  <2> QED
    BY <1>1, <2>1, <2>3, <2>5, <2>6, <2>7
<1> QED
  BY <1>7, <1>8, <1>9, <1>10 DEF left, texts, I, J

\* Numbers that are left of a count, in their order.
LEMMA CountIs ==
    ASSUME NEW n \in Nat, NEW hidden
    PROVE  LET rest == RU!Selected([k \in 1 .. n |-> k - 1], LAMBDA k : k \notin hidden)
           IN  rest \in Seq(Int) /\ GoesUp(rest) /\ Holding(rest) = (0 .. n - 1) \ hidden
<1> DEFINE nums == [k \in 1 .. n |-> k - 1]
           I == {i \in DOMAIN nums : nums[i] \notin hidden}
           rest == RU!Selected(nums, LAMBDA k : k \notin hidden)
           size == Cardinality(I)
<1>1. rest = Picked(nums, I)
  BY DEF RU!Selected, Picked
<1>2. /\ nums \in Seq(Int) /\ I \in SUBSET DOMAIN nums /\ DOMAIN nums = 1 .. n
      /\ \A k \in 1 .. n : nums[k] = k - 1
  OBVIOUS
<1>3. I = {i \in 1 .. n : i - 1 \notin hidden}
  BY <1>2
<1> HIDE DEF nums, I, rest
<1>4. /\ rest \in Seq(Int) /\ Len(rest) = size /\ size \in 0 .. Len(nums)
      /\ \E places \in [1 .. size -> I] :
           /\ rest = [k \in 1 .. size |-> nums[places[k]]]
           /\ \A m, o \in 1 .. size : m < o <=> places[m] < places[o]
           /\ \A i \in I : \E k \in 1 .. size : places[k] = i
  <2> DEFINE picked == Picked(nums, I)
  <2>1. picked \in Seq(Int) /\ Len(picked) = size /\ size \in 0 .. Len(nums)
    BY <1>2, PickedIs
  <2>2. \E places \in [1 .. size -> I] :
          /\ picked = [k \in 1 .. size |-> nums[places[k]]]
          /\ \A m, o \in 1 .. size : m < o <=> places[m] < places[o]
          /\ \A i \in I : \E k \in 1 .. size : places[k] = i
    BY <1>2, PickedPlaces
  <2> QED
    BY <1>1, <2>1, <2>2
<1>5. PICK places \in [1 .. size -> I] :
           /\ rest = [k \in 1 .. size |-> nums[places[k]]]
           /\ \A m, o \in 1 .. size : m < o <=> places[m] < places[o]
           /\ \A i \in I : \E k \in 1 .. size : places[k] = i
  BY <1>4
<1> HIDE DEF size
<1>6. \A k \in 1 .. size : places[k] \in I /\ places[k] \in 1 .. n /\ rest[k] = places[k] - 1
  BY <1>2, <1>3, <1>5
<1>7. GoesUp(rest)
  <2> SUFFICES ASSUME NEW i \in 1 .. size, NEW j \in 1 .. size, i < j
               PROVE  rest[i] < rest[j]
    BY <1>4 DEF GoesUp
  <2>1. places[i] < places[j] /\ places[i] \in 1 .. n /\ places[j] \in 1 .. n
    BY <1>5, <1>6
  <2> QED
    BY <1>6, <2>1
<1>8. Holding(rest) = (0 .. n - 1) \ hidden
  <2>1. Holding(rest) = {rest[k] : k \in 1 .. size}
    BY <1>4 DEF Holding
  <2>2. ASSUME NEW x \in (0 .. n - 1) \ hidden PROVE x \in Holding(rest)
    <3>1. x + 1 \in I
      BY <1>3
    <3>2. PICK k \in 1 .. size : places[k] = x + 1
      BY <1>5, <3>1
    <3>3. rest[k] = x
      BY <1>6, <3>2
    <3> QED
      BY <2>1, <3>3
  <2>3. ASSUME NEW k \in 1 .. size PROVE rest[k] \in (0 .. n - 1) \ hidden
    BY <1>3, <1>6
  <2> QED
    BY <2>1, <2>2, <2>3
<1> QED
  BY <1>4, <1>7, <1>8 DEF rest, nums

\* A text is shown without what is claimed of it.
LEMMA SecretsLeave ==
    ASSUME NEW n \in Nat, NEW matches \in Seq(Seq(RU!MatchesIn(n)))
    PROVE  TakenOut(n, matches, RU!Redact(n, matches))
<1> DEFINE claims == RU!Claimed(matches)
           hidden == UNION {c.start .. c.end - 1 : c \in RU!Items(claims)}
           said == RU!Redact(n, matches)
           out == FlattenSeq(Parts(n, claims))
           left == RU!Selected(said.output, LAMBDA x : x[1] = "text")
           texts == [i \in DOMAIN left |-> left[i][2]]
           rest == RU!Selected([k \in 1 .. n |-> k - 1], LAMBDA k : k \notin hidden)
<1>1. /\ said.output = out /\ DOMAIN said.markers = DOMAIN claims
  <2>1. /\ said.output = RU!FlattenSeq([i \in 1 .. Len(claims) + 1 |->
             [k \in 1 .. (IF i > Len(claims) THEN n ELSE claims[i].start)
                            - (IF i = 1 THEN 0 ELSE claims[i - 1].end)
                 |-> <<"text", (IF i = 1 THEN 0 ELSE claims[i - 1].end) + k - 1>>]
             \o (IF i > Len(claims) THEN <<>> ELSE <<<<"mark", claims[i].category>>>>)])
        /\ said.markers = [i \in DOMAIN claims |-> [category |-> claims[i].category,
                                                    offset |-> claims[i].start]]
    BY DEF RU!Redact
  <2> HIDE DEF said, claims
  <2>2. said.output = RU!FlattenSeq(Parts(n, claims))
    BY <2>1 DEF Parts, Stretch, From, Until, Mark
  <2> QED
    BY <2>1, <2>2, SameOperators
<1>2. /\ claims \in Seq(RU!MatchesIn(n)) /\ Rising(claims)
      /\ \A span \in RU!Items(FlattenSeq(matches)) : Covered(span, claims)
  BY ClaimsAre
<1> HIDE DEF said, claims
<1>3. /\ out \in Seq(Written) /\ TextRises(out) /\ Places(out) = (0 .. n - 1) \ Hidden(claims)
      /\ Cardinality(Tagged(out, "mark")) = Len(claims)
  BY <1>2, OutputIs
<1>4. RU!Items(claims) = {claims[i] : i \in 1 .. Len(claims)} /\ DOMAIN claims = 1 .. Len(claims)
  BY <1>2, ItemsAre
<1>5. Hidden(claims) = hidden
  BY <1>4 DEF Hidden
<1> HIDE DEF hidden, out
<1>6. left = Picked(out, Tagged(out, "text"))
  BY <1>1 DEF RU!Selected, Picked, Tagged
<1>7. /\ texts \in Seq(Int) /\ GoesUp(texts) /\ Holding(texts) = Places(out)
      /\ Len(out) = Len(left) + Cardinality(Tagged(out, "mark"))
  <2> HIDE DEF left
  <2> QED
    BY <1>3, <1>6, LeftIs
<1>8. rest \in Seq(Int) /\ GoesUp(rest) /\ Holding(rest) = (0 .. n - 1) \ hidden
  BY CountIs
<1>9. texts = rest
  <2> HIDE DEF texts, rest
  <2> QED
    BY <1>3, <1>5, <1>7, <1>8, UpAlike
<1>10. Len(said.output) = Len(left) + Len(claims)
  <2> HIDE DEF left
  <2> QED
    BY <1>1, <1>3, <1>7
<1>11. Len(said.markers) = Len(claims)
  BY <1>1, <1>2
<1>12. ASSUME NEW span \in RU!Items(RU!FlattenSeq(matches))
       PROVE  span \in RU!Items(claims) \/ (span.start .. span.end - 1) \cap hidden # {}
  <2>1. Covered(span, claims)
    BY <1>2, <1>12, SameOperators
  <2>2. PICK i \in 1 .. Len(claims) : span = claims[i] \/ Meets(span, claims[i])
    BY <2>1 DEF Covered
  <2>3. CASE span = claims[i]
    BY <1>4, <2>3
  <2>4. CASE Meets(span, claims[i])
    <3>1. /\ span.start \in Nat /\ span.end \in Nat /\ span.start < span.end
          /\ claims[i].start \in Nat /\ claims[i].end \in Nat /\ claims[i].start < claims[i].end
      <4>1. span \in RU!MatchesIn(n) /\ claims[i] \in RU!MatchesIn(n)
        <5>1. FlattenSeq(matches) \in Seq(RU!MatchesIn(n))
          BY FlattenItems
        <5>2. RU!Items(FlattenSeq(matches)) \subseteq RU!MatchesIn(n)
          BY <5>1, ItemsAre
        <5> QED
          BY <1>2, <1>12, <5>2, SameOperators
      <4>2. \A c \in RU!MatchesIn(n) : c.start \in Nat /\ c.end \in Nat /\ c.start < c.end
        BY DEF RU!MatchesIn
      <4> QED
        BY <4>1, <4>2
    <3> DEFINE x == IF span.start <= claims[i].start THEN claims[i].start ELSE span.start
    <3>2. x \in span.start .. span.end - 1 /\ x \in claims[i].start .. claims[i].end - 1
      BY <2>4, <3>1 DEF Meets
    <3> HIDE DEF x
    <3>3. x \in hidden
      BY <1>5, <3>2 DEF Hidden
    <3> QED
      BY <3>2, <3>3
  <2> QED
    BY <2>2, <2>3, <2>4
<1>13. \A i, j \in DOMAIN claims : i < j => claims[i].end <= claims[j].start
  BY <1>2, <1>4 DEF Rising
<1> QED
  BY <1>9, <1>10, <1>11, <1>12, <1>13 DEF TakenOut, claims, hidden, said

-----------------------------------------------------------------------------
(* Rules: questions and answers. *)

\* What the code makes of the evidence of a service, and of a handshake.
Identified(asked, told) ==
    /\ told.names = RU!Fingerprint(asked.evidence)
    /\ told.assigned = RU!IdentityForPort(asked.port, "tcp")
    /\ told.claimed = UNION {RU!NewIdentity("claimed", "Other", tier, asked.evidence) :
                               tier \in RU!ToSet(RU!Tiers)}
    /\ told.mismatches = UNION {RU!DetectMismatch(asked.port, a, told.names[i]) :
                                  a \in told.assigned, i \in DOMAIN told.names}
    /\ told.reconciled = RU!Reconcile(asked.local, told.names)

Seen(asked, told) ==
    /\ told.chain = RU!ChainOf(asked.certs)
    /\ told.findings = RU!DeriveFindings(told.chain, asked.probed)
    /\ told.evidence = RU!EvidenceFromRecord(
         [certificates |-> told.chain, protocol_version |-> asked.version,
          cipher_suite |-> "suite", alpn |-> asked.alpn], asked.probed)

\* A question is one that is asked, and its answer what the code makes of it.
RulesInv ==
    /\ RU!TypeOK
    /\ question.topic \in DOMAIN Questions /\ question.input \in Questions[question.topic]
    /\ RU!Told("verdict") =>
         LET in == question.input
         IN  /\ answer.verdict = RU!Evaluate(in.endpoint, in.rules)
             /\ answer.reversed = RU!Evaluate(in.endpoint, RU!Reverse(in.rules))
             /\ answer.profiles = RU!SummarizeInboundPorts(in.rules, in.profiles)
    /\ RU!Told("ports") => answer.spec = RU!ParsePortSpec(question.input.text)
    /\ RU!Told("mapping") =>
         LET in == question.input
         IN  /\ answer.raws = RU!QueryInboundRules(in.rules, in.ports, in.programs, in.services)
             /\ answer.rules = RU!FirewallRulesFromRaw(answer.raws)
    /\ RU!Told("identify") => Identified(question.input, answer)
    /\ RU!Told("pattern") => answer = RU!CheckComplexity(question.input)
    /\ RU!Told("tls") => Seen(question.input, answer)

\* A question is answered once, and by the code it is for.
LEMMA RulesReply ==
    RU!Next =>
        \/ /\ UNCHANGED question /\ answered' = TRUE
           /\ question.topic = "verdict" => RU!Judge
           /\ question.topic = "ports" => RU!ReadPorts
           /\ question.topic = "mapping" => RU!MapRules
           /\ question.topic = "identify" => RU!Identify
           /\ question.topic = "pattern" => RU!CheckPattern
           /\ question.topic = "tls" => RU!Handshake
        \/ UNCHANGED RU!vars
<1> DEFINE Replied == /\ UNCHANGED question /\ answered' = TRUE
                      /\ question.topic = "verdict" => RU!Judge
                      /\ question.topic = "ports" => RU!ReadPorts
                      /\ question.topic = "mapping" => RU!MapRules
                      /\ question.topic = "identify" => RU!Identify
                      /\ question.topic = "pattern" => RU!CheckPattern
                      /\ question.topic = "tls" => RU!Handshake
<1>1. \A topic, value : RU!Reply(topic, value) =>
        UNCHANGED question /\ answered' = TRUE /\ question.topic = topic
  BY DEF RU!Reply
<1>2. RU!Judge => Replied
  <2> SUFFICES ASSUME RU!Judge PROVE Replied
    OBVIOUS
  <2>1. UNCHANGED question /\ answered' = TRUE /\ question.topic = "verdict"
    BY <1>1 DEF RU!Judge
  <2> QED
    BY <2>1
<1>3. RU!ReadPorts => Replied
  <2> SUFFICES ASSUME RU!ReadPorts PROVE Replied
    OBVIOUS
  <2>1. UNCHANGED question /\ answered' = TRUE /\ question.topic = "ports"
    BY <1>1 DEF RU!ReadPorts
  <2> QED
    BY <2>1
<1>4. RU!MapRules => Replied
  <2> SUFFICES ASSUME RU!MapRules PROVE Replied
    OBVIOUS
  <2>1. UNCHANGED question /\ answered' = TRUE /\ question.topic = "mapping"
    BY <1>1 DEF RU!MapRules
  <2> QED
    BY <2>1
<1>5. RU!ReadNetfilter => Replied
  BY <1>1 DEF RU!ReadNetfilter
<1>6. RU!ReadProc => Replied
  BY <1>1 DEF RU!ReadProc
<1>7. RU!ReadPayload => Replied
  BY <1>1 DEF RU!ReadPayload
<1>8. RU!Handshake => Replied
  <2> SUFFICES ASSUME RU!Handshake PROVE Replied
    OBVIOUS
  <2>1. UNCHANGED question /\ answered' = TRUE /\ question.topic = "tls"
    BY <1>1 DEF RU!Handshake
  <2> QED
    BY <2>1
<1>9. RU!ReadResponse => Replied
  BY <1>1 DEF RU!ReadResponse
<1>10. RU!CheckPattern => Replied
  <2> SUFFICES ASSUME RU!CheckPattern PROVE Replied
    OBVIOUS
  <2>1. UNCHANGED question /\ answered' = TRUE /\ question.topic = "pattern"
    BY <1>1 DEF RU!CheckPattern
  <2> QED
    BY <2>1
<1>11. RU!Identify => Replied
  <2> SUFFICES ASSUME RU!Identify PROVE Replied
    OBVIOUS
  <2>1. UNCHANGED question /\ answered' = TRUE /\ question.topic = "identify"
    BY <1>1 DEF RU!Identify
  <2> QED
    BY <2>1
<1>12. RU!TakeOutSecrets => Replied
  BY <1>1 DEF RU!TakeOutSecrets
<1>13. RU!Gather => Replied
  BY <1>1 DEF RU!Gather
<1>14. RU!Compare => Replied
  <2> SUFFICES ASSUME RU!Compare PROVE Replied
    OBVIOUS
  <2>1. UNCHANGED question /\ answered' = TRUE /\ question.topic = "compare"
    BY <1>1 DEF RU!Compare
  <2> QED
    BY <2>1
<1>15. RU!Report => Replied
  BY <1>1 DEF RU!Report
<1>16. RU!LoadConfig => Replied
  BY <1>1 DEF RU!LoadConfig
<1>17. RU!ValidateInventory => Replied
  BY <1>1 DEF RU!ValidateInventory
<1>18. RU!Release => Replied
  BY <1>1 DEF RU!Release
<1>19. RU!ReadScorecard => Replied
  BY <1>1 DEF RU!ReadScorecard
<1>20. RU!Exclude => Replied
  BY <1>1 DEF RU!Exclude
<1>21. RU!Draw => Replied
  <2> SUFFICES ASSUME RU!Draw PROVE Replied
    OBVIOUS
  <2>1. UNCHANGED question /\ answered' = TRUE /\ question.topic = "draw"
    BY <1>1 DEF RU!Draw
  <2> QED
    BY <2>1
<1> HIDE DEF Replied
<1>22. RU!Next => Replied \/ UNCHANGED RU!vars
  BY <1>2, <1>3, <1>4, <1>5, <1>6, <1>7, <1>8, <1>9, <1>10, <1>11, <1>12, <1>13, <1>14, <1>15,
       <1>16, <1>17, <1>18, <1>19, <1>20, <1>21
     DEF RU!Next, RU!Done
<1> QED
  BY <1>22 DEF Replied

\* A question is asked and not answered.
LEMMA RulesInit == RU!RulesAssumption /\ RU!Init => RulesInv
<1> SUFFICES ASSUME RU!RulesAssumption, RU!Init PROVE RulesInv
  OBVIOUS
<1>1. PICK topic \in DOMAIN Questions :
          \E input \in Questions[topic] : question = [topic |-> topic, input |-> input]
  BY DEF RU!Init
<1>2. topic \in STRING
  BY DEF RU!RulesAssumption
<1>3. question.topic = topic /\ question.input \in Questions[topic]
  BY <1>1
<1>4. answered = FALSE /\ answer = "none"
  BY DEF RU!Init
<1> QED
  BY <1>2, <1>3, <1>4 DEF RulesInv, RU!TypeOK, RU!Told

\* An answer stays what it is.
LEMMA RulesNext == RulesInv /\ (RU!Next \/ UNCHANGED rules_all) => RulesInv'
<1> SUFFICES ASSUME RulesInv, RU!Next \/ UNCHANGED rules_all
             PROVE  RulesInv'
  OBVIOUS
<1>1. CASE /\ UNCHANGED question /\ answered' = TRUE
           /\ question.topic = "verdict" => RU!Judge
           /\ question.topic = "ports" => RU!ReadPorts
           /\ question.topic = "mapping" => RU!MapRules
           /\ question.topic = "identify" => RU!Identify
           /\ question.topic = "pattern" => RU!CheckPattern
           /\ question.topic = "tls" => RU!Handshake
  <2>1. RU!TypeOK' /\ question'.topic \in DOMAIN Questions
        /\ question'.input \in Questions[question'.topic]
    BY <1>1 DEF RulesInv, RU!TypeOK
  <2>2. ASSUME RU!Told("verdict")'
        PROVE  /\ answer'.verdict = RU!Evaluate(question'.input.endpoint, question'.input.rules)
               /\ answer'.reversed =
                    RU!Evaluate(question'.input.endpoint, RU!Reverse(question'.input.rules))
               /\ answer'.profiles =
                    RU!SummarizeInboundPorts(question'.input.rules, question'.input.profiles)
    <3>1. RU!Judge
      BY <1>1, <2>2 DEF RU!Told
    <3> QED
      BY <1>1, <3>1 DEF RU!Judge, RU!Reply, RU!in
  <2>3. ASSUME RU!Told("ports")'
        PROVE  answer'.spec = RU!ParsePortSpec(question'.input.text)
    <3>1. RU!ReadPorts
      BY <1>1, <2>3 DEF RU!Told
    <3> QED
      BY <1>1, <3>1 DEF RU!ReadPorts, RU!Reply, RU!in
  <2>4. ASSUME RU!Told("mapping")'
        PROVE  /\ answer'.raws =
                    RU!QueryInboundRules(question'.input.rules, question'.input.ports,
                                         question'.input.programs, question'.input.services)
               /\ answer'.rules = RU!FirewallRulesFromRaw(answer'.raws)
    <3>1. RU!MapRules
      BY <1>1, <2>4 DEF RU!Told
    <3> QED
      BY <1>1, <3>1 DEF RU!MapRules, RU!Reply, RU!in
  <2>5. ASSUME RU!Told("identify")'
        PROVE  Identified(question'.input, answer')
    <3>1. RU!Identify
      BY <1>1, <2>5 DEF RU!Told
    <3> QED
      BY <1>1, <3>1 DEF RU!Identify, RU!Reply, RU!in, Identified
  <2>6. ASSUME RU!Told("pattern")'
        PROVE  answer' = RU!CheckComplexity(question'.input)
    <3>1. RU!CheckPattern
      BY <1>1, <2>6 DEF RU!Told
    <3> QED
      BY <1>1, <3>1 DEF RU!CheckPattern, RU!Reply, RU!in
  <2>7. ASSUME RU!Told("tls")'
        PROVE  Seen(question'.input, answer')
    <3>1. RU!Handshake
      BY <1>1, <2>7 DEF RU!Told
    <3> QED
      BY <1>1, <3>1 DEF RU!Handshake, RU!Reply, RU!in, Seen
  <2> QED
    BY <2>1, <2>2, <2>3, <2>4, <2>5, <2>6, <2>7 DEF RulesInv
<1>2. CASE UNCHANGED <<question, answered, answer>>
  BY <1>2 DEF RulesInv, RU!TypeOK, RU!Told
<1> QED
  BY <1>1, <1>2, RulesReply DEF rules_all, RU!vars

\* The invariant gives what is promised of names, of patterns and of handshakes.
LEMMA NamesInvIsEnough ==
    RU!RulesAssumption /\ RulesInv => RU!NamesAreEarned
<1> SUFFICES ASSUME RU!RulesAssumption, RulesInv
             PROVE  RU!NamesAreEarned
  OBVIOUS
<1>1. ASSUME RU!Told("identify") PROVE RU!IdentitiesStandOnEvidence /\ RU!BothViewsStand
  <2> DEFINE asked == question.input
  <2>1. question.topic = "identify"
    BY <1>1 DEF RU!Told
  <2>2. question.input \in Questions.identify /\ "identify" \in DOMAIN Questions
    BY <2>1 DEF RulesInv
  <2>3. /\ asked.evidence \in Seq(RU!EvidenceRows) /\ asked.local \in RU!LocalIdentities
        /\ asked.local.kind = "Authoritative" => \A n, o \in asked.local.service_name : n = o
    BY <2>2 DEF RU!RulesAssumption
  <2>4. Identified(asked, answer)
    BY <1>1 DEF RulesInv
  <2>5. \A name \in RU!Items(answer.names) :
          /\ name.evidence # <<>> /\ RU!Items(name.evidence) \subseteq RU!Items(asked.evidence)
          /\ name.confidence # "Assigned" =>
               \E e \in RU!Items(name.evidence) : ~RU!IsPortAssignmentOnly(e)
          /\ \A v \in name.version : v # "" /\
               \E e \in RU!Items(name.evidence) : \E word \in e.text : word[2] = v
    BY <2>3, <2>4, NamesAre DEF Identified
  <2>6. \A a, b \in answer.assigned :
          /\ a = b /\ a.confidence = "Assigned"
          /\ \A e \in RU!Items(a.evidence) : RU!IsPortAssignmentOnly(e)
    BY <2>4, AssignedIs DEF Identified
  <2>7. answer.mismatches = UNION {RU!DetectMismatch(asked.port, a, answer.names[i]) :
                                     a \in answer.assigned, i \in DOMAIN answer.names}
    BY <2>4 DEF Identified
  <2> HIDE DEF asked
  <2>8. answer.assigned = {} => answer.mismatches = {}
    BY <2>7
  <2>9. ASSUME NEW a \in answer.assigned, NEW name \in RU!Items(answer.names)
        PROVE  (\E m \in answer.mismatches : m.observed = name) <=> a.name # name.name
    <3>1. PICK i \in DOMAIN answer.names : name = answer.names[i]
      BY DEF RU!Items, RU!ToSet
    <3>2. ASSUME a.name # name.name PROVE \E m \in answer.mismatches : m.observed = name
      <4> DEFINE m == [port |-> asked.port, assigned |-> a, observed |-> name]
      <4>1. m \in RU!DetectMismatch(asked.port, a, answer.names[i])
        BY <3>1, <3>2 DEF RU!DetectMismatch
      <4>2. m.observed = name
        OBVIOUS
      <4> HIDE DEF m
      <4> QED
        BY <2>7, <4>1, <4>2
    <3>3. ASSUME NEW m \in answer.mismatches, m.observed = name PROVE a.name # name.name
      <4>1. PICK b \in answer.assigned, k \in DOMAIN answer.names :
              m \in RU!DetectMismatch(asked.port, b, answer.names[k])
        BY <2>7
      <4>2. b.name # answer.names[k].name /\ m.observed = answer.names[k]
        BY <4>1 DEF RU!DetectMismatch, RU!Unset
      <4>3. b = a
        BY <2>6
      <4> QED
        BY <3>3, <4>2, <4>3
    <3> QED
      BY <3>2, <3>3
  <2>10. ASSUME NEW name \in answer.claimed
         PROVE  /\ name.evidence # <<>>
                /\ name.confidence # "Assigned" =>
                     \E e \in RU!Items(name.evidence) : ~RU!IsPortAssignmentOnly(e)
    <3>1. PICK tier \in RU!ToSet(RU!Tiers) :
            name \in RU!NewIdentity("claimed", "Other", tier, asked.evidence)
      BY <2>4 DEF Identified
    <3> QED
      BY <3>1, IdentityIs
  <2>11. RU!IdentitiesStandOnEvidence
    BY <2>5, <2>6, <2>8, <2>9, <2>10 DEF RU!IdentitiesStandOnEvidence, RU!in, asked
  <2>12. RU!BothViewsStand
    BY <2>3, <2>4, ReconciledIs DEF RU!BothViewsStand, RU!in, asked, Identified
  <2> QED
    BY <2>11, <2>12
<1>2. ASSUME RU!Told("pattern") PROVE RU!NestedQuantifiersAreFound
  <2>1. question.topic = "pattern"
    BY <1>2 DEF RU!Told
  <2>2. question.input \in Questions.pattern /\ "pattern" \in DOMAIN Questions
    BY <2>1 DEF RulesInv
  <2>3. question.input \in Seq(STRING)
    BY <2>2 DEF RU!RulesAssumption
  <2>4. answer = RU!CheckComplexity(question.input)
    BY <1>2 DEF RulesInv
  <2> QED
    BY <2>3, <2>4, PatternsKept DEF RU!NestedQuantifiersAreFound, RU!in
<1>3. ASSUME RU!Told("tls") PROVE RU!FindingsAreComplete
  <2> DEFINE asked == question.input
             record == [certificates |-> answer.chain, protocol_version |-> asked.version,
                        cipher_suite |-> "suite", alpn |-> asked.alpn]
  <2>1. question.topic = "tls"
    BY <1>3 DEF RU!Told
  <2>2. question.input \in Questions.tls /\ "tls" \in DOMAIN Questions
    BY <2>1 DEF RulesInv
  <2>3. asked.certs \in Seq(RU!CertificateRows)
    BY <2>2 DEF RU!RulesAssumption
  <2>4. /\ answer.chain = RU!ChainOf(asked.certs)
        /\ answer.findings = RU!DeriveFindings(answer.chain, asked.probed)
        /\ answer.evidence = RU!EvidenceFromRecord(record, asked.probed)
    BY <1>3 DEF RulesInv, Seen
  <2> HIDE DEF asked
  <2>5. /\ answer.chain \in Seq(CertificateRecords)
        /\ Cardinality({k \in DOMAIN answer.chain :
                          RU!IsWeakKey(answer.chain[k].key_algorithm, answer.chain[k].key_size_bits)})
             = Cardinality({i \in DOMAIN asked.certs :
                              asked.certs[i].parses /\ WeakCertificate(asked.certs[i])})
    BY <2>3, <2>4, ChainIs
  <2>6. record.certificates = answer.chain /\ record.certificates \in Seq(CertificateRecords)
    BY <2>5
  <2> HIDE DEF record
  <2>7. \A i \in DOMAIN answer.findings : \E j \in DOMAIN answer.evidence :
          answer.evidence[j] = RU!Banner(answer.findings[i])
    <3>1. answer.findings = RU!DeriveFindings(record.certificates, asked.probed)
      BY <2>4, <2>6
    <3>2. Repeats(RU!EvidenceFromRecord(record, asked.probed),
                  RU!DeriveFindings(record.certificates, asked.probed))
      BY <2>6, EvidenceIs
    <3> QED
      BY <2>4, <3>1, <3>2 DEF Repeats
  <2>8. /\ Cardinality(Tagged(answer.findings, "weak-key"))
             = Cardinality({k \in DOMAIN answer.chain :
                 RU!IsWeakKey(answer.chain[k].key_algorithm, answer.chain[k].key_size_bits)})
        /\ answer.chain = <<>> => answer.findings = <<>>
        /\ Cardinality(Tagged(answer.findings, "expired"))
             + Cardinality(Tagged(answer.findings, "expiring")) <= 1
        /\ Cardinality(Tagged(answer.findings, "incomplete-chain")) = 1
             <=> RU!IncompleteChain(answer.chain)
    BY <2>4, <2>5, FindingsAre
  <2>9. \A what : RU!HowManyFindings(answer.findings, what)
                    = Cardinality(Tagged(answer.findings, what))
    BY SameOperators DEF RU!HowManyFindings, RU!HowMany, Tagged
  <2>10. \A S : RU!Cardinality(S) = Cardinality(S)
    BY SameOperators
  <2>11. RU!HowManyFindings(answer.findings, "weak-key")
           = Cardinality({i \in DOMAIN asked.certs :
                            asked.certs[i].parses /\ WeakCertificate(asked.certs[i])})
    BY <2>5, <2>8, <2>9
  <2>12. /\ RU!HowManyFindings(answer.findings, "expired")
              + RU!HowManyFindings(answer.findings, "expiring") <= 1
         /\ RU!HowManyFindings(answer.findings, "incomplete-chain") = 1
              <=> \E i \in 1 .. Len(answer.chain) - 1 :
                    answer.chain[i].issuer # answer.chain[i + 1].subject
    BY <2>8, <2>9 DEF RU!IncompleteChain
  <2> QED
    BY <2>7, <2>8, <2>10, <2>11, <2>12
       DEF RU!FindingsAreComplete, RU!in, asked, WeakCertificate
<1>4. RU!IdentitiesStandOnEvidence /\ RU!BothViewsStand
  BY <1>1 DEF RU!IdentitiesStandOnEvidence, RU!BothViewsStand
<1>5. RU!NestedQuantifiersAreFound /\ RU!FindingsAreComplete
  BY <1>2, <1>3 DEF RU!NestedQuantifiersAreFound, RU!FindingsAreComplete
<1> QED
  BY <1>4, <1>5 DEF RU!NamesAreEarned

\* The invariant gives what is promised of verdicts, of port texts and of WMI's tables.
LEMMA RulesInvIsEnough ==
    RU!RulesAssumption /\ RulesInv => RU!TypeOK /\ RU!VerdictsAreSound
<1> SUFFICES ASSUME RU!RulesAssumption, RulesInv
             PROVE  RU!TypeOK /\ RU!VerdictsAreSound
  OBVIOUS
<1>1. ASSUME RU!Told("verdict") PROVE RU!VerdictFollowsFromRules /\ RU!VerdictNamesItsRules
  <2>1. question.topic = "verdict"
    BY <1>1 DEF RU!Told
  <2>2. question.input \in Questions.verdict /\ "verdict" \in DOMAIN Questions
    BY <2>1 DEF RulesInv
  <2> DEFINE asked == question.input
             said == RU!Evaluate(asked.endpoint, asked.rules)
             concerned == Concerned(asked.endpoint, asked.rules)
  <2>3. asked.rules \in Seq(RU!FirewallRule)
    BY <2>2 DEF RU!RulesAssumption
  <2>4. /\ answer.verdict = said
        /\ answer.reversed = RU!Evaluate(asked.endpoint, RU!Reverse(asked.rules))
        /\ answer.profiles = RU!SummarizeInboundPorts(asked.rules, asked.profiles)
    BY <1>1 DEF RulesInv
  <2>5. RU!VerdictFollowsFromRules
    BY <2>3, <2>4, VerdictFollows DEF RU!VerdictFollowsFromRules, RU!in, Concerned
  <2>6. /\ said.reachability \in {"Allowed", "Indeterminate"} =>
             RU!Items(said.matched) = {rule \in concerned : rule.action = "Allow"}
        /\ said.reachability = "Blocked" =>
             \E rule \in concerned : rule.action = "Block" /\ said.matched = <<rule>>
        /\ said.reachability \in {"LocalOnly", "DefaultAction"} => said.matched = <<>>
        /\ RU!Items(said.matched) \subseteq concerned
    BY <2>3, VerdictNames
  <2>7. \A rule \in RU!Items(said.matched) :
          /\ rule.service \subseteq asked.endpoint.services
          /\ rule.program.name \in {RU!NoPath.name, asked.endpoint.process_path.name}
    <3> HIDE DEF said
    <3> QED
      BY <2>6, AppliesIs DEF Concerned
  <2>8. \A i \in DOMAIN answer.profiles :
          Len(answer.profiles[i].allowed)
            = RU!HowMany(asked.rules, LAMBDA rule : rule.enabled /\ rule.action = "Allow"
                                                    /\ rule.direction = "Inbound")
    BY <2>3, <2>4, ProfileLists
  <2>9. concerned = {rule \in RU!Items(asked.rules) : RU!RuleApplies(rule, asked.endpoint)}
    BY DEF Concerned
  <2> HIDE DEF said, concerned
  <2>10. RU!VerdictNamesItsRules
    BY <2>4, <2>6, <2>7, <2>8, <2>9 DEF RU!VerdictNamesItsRules, RU!in
  <2> QED
    BY <2>5, <2>10
<1>2. ASSUME RU!Told("ports") PROVE RU!PortsAreRead
  <2>1. question.topic = "ports"
    BY <1>2 DEF RU!Told
  <2>2. question.input \in Questions.ports /\ "ports" \in DOMAIN Questions
    BY <2>1 DEF RulesInv
  <2>3. question.input.text \in Seq(RU!PortParts)
    BY <2>2 DEF RU!RulesAssumption
  <2>4. answer.spec = RU!ParsePortSpec(question.input.text)
    BY <1>2 DEF RulesInv
  <2> QED
    BY <2>3, <2>4, TextIsRead DEF RU!PortsAreRead, RU!in
<1>3. ASSUME RU!Told("mapping") PROVE RU!RestrictionsSurvive
  <2>1. question.topic = "mapping"
    BY <1>3 DEF RU!Told
  <2>2. question.input \in Questions.mapping /\ "mapping" \in DOMAIN Questions
    BY <2>1 DEF RulesInv
  <2>3. WmiTables
    BY <2>2 DEF RU!RulesAssumption, WmiTables, RU!in
  <2>4. /\ answer.raws = RU!QueryInboundRules(RU!in.rules, RU!in.ports, RU!in.programs,
                                              RU!in.services)
        /\ answer.rules = RU!FirewallRulesFromRaw(answer.raws)
    BY <1>3 DEF RulesInv, RU!in
  <2> DEFINE asked == RU!QueryInboundRules(RU!in.rules, RU!in.ports, RU!in.programs, RU!in.services)
             readable == \A i \in RU!Durable : RU!Readable(RU!in.rules[i])
             Survive(raws, read) ==
               /\ Len(raws) = Cardinality(RU!Durable)
               /\ read # Failed <=> readable
               /\ readable =>
                    /\ \A rule \in RU!Items(read) : \E i \in RU!Durable : RU!Keeps(rule, RU!in.rules[i])
                    /\ \A i \in RU!Durable :
                         {rule.protocol : rule \in {r \in RU!Items(read) : RU!Keeps(r, RU!in.rules[i])}}
                           = RU!Protocols(RU!in.rules[i])
  <2>5. Survive(asked, RU!FirewallRulesFromRaw(asked))
    BY <2>3, TablesAreRead
  <2>6. Survive(answer.raws, answer.rules)
    <3> HIDE DEF Survive
    <3> QED
      BY <2>4, <2>5
  <2>7. Cardinality(RU!Durable) = RU!Cardinality(RU!Durable)
    BY SameOperators
  <2> QED
    BY <2>6, <2>7 DEF RU!RestrictionsSurvive
<1>4. RU!VerdictFollowsFromRules /\ RU!VerdictNamesItsRules
  BY <1>1 DEF RU!VerdictFollowsFromRules, RU!VerdictNamesItsRules
<1>5. RU!PortsAreRead /\ RU!RestrictionsSurvive
  BY <1>2, <1>3 DEF RU!PortsAreRead, RU!RestrictionsSurvive
<1> QED
  BY <1>4, <1>5 DEF RulesInv, RU!VerdictsAreSound

-----------------------------------------------------------------------------
(***************************************************************************)
(* Portal. Tokens are the configured ones while anybody is served          *)
(* (ConfigInv); what a handler has got and what it still has to get are     *)
(* together what was on file of its host when it listed (ReadingInv), so    *)
(* that each answer is scoped and complete (AnswersInv); and, per bucket,   *)
(* the counter and the window's start bound the requests admitted before    *)
(* and after that start (BucketsInv).                                       *)
(***************************************************************************)
\* The sizes of sets in Portal are those that FiniteSetTheorems is about.
LEMMA PortalSizes ==
    \A S : PO!Cardinality(S) = Cardinality(S) /\ (PO!IsFiniteSet(S) <=> IsFiniteSet(S))
BY DEF PO!Cardinality, Cardinality, PO!IsFiniteSet, IsFiniteSet

LEMMA PO_CardinalityType ==
    ASSUME NEW S, PO!IsFiniteSet(S) PROVE PO!Cardinality(S) \in Nat
BY PortalSizes, FS_CardinalityType

LEMMA PO_Interval ==
    ASSUME NEW n \in Nat PROVE PO!IsFiniteSet(1 .. n) /\ PO!Cardinality(1 .. n) = n
<1>1. IsFiniteSet(1 .. n) /\ Cardinality(1 .. n) = n
  BY FS_Interval
<1> QED
  BY <1>1, PortalSizes

LEMMA PO_Injection ==
    ASSUME NEW S, NEW T, NEW f \in Injection(S, T), PO!IsFiniteSet(T)
    PROVE  PO!Cardinality(S) = PO!Cardinality(T) <=> f \in Surjection(S, T)
<1>1. IsFiniteSet(T)
  BY PortalSizes
<1>2. Cardinality(S) = Cardinality(T) <=> f \in Surjection(S, T)
  BY <1>1, FS_Injection
<1> QED
  BY <1>2, PortalSizes

LEMMA PO_EmptySet == PO!IsFiniteSet({}) /\ PO!Cardinality({}) = 0
BY PortalSizes, FS_EmptySet

LEMMA PO_Subset ==
    ASSUME NEW S, PO!IsFiniteSet(S), NEW T \in SUBSET S
    PROVE  PO!IsFiniteSet(T) /\ PO!Cardinality(T) <= PO!Cardinality(S)
<1>1. IsFiniteSet(T) /\ Cardinality(T) <= Cardinality(S)
  BY PortalSizes, FS_Subset
<1> QED
  BY <1>1, PortalSizes

LEMMA PO_AddElement ==
    ASSUME NEW S, NEW x, PO!IsFiniteSet(S)
    PROVE  /\ PO!IsFiniteSet(S \cup {x})
           /\ PO!Cardinality(S \cup {x})
                = IF x \in S THEN PO!Cardinality(S) ELSE PO!Cardinality(S) + 1
<1>1. /\ IsFiniteSet(S \cup {x})
      /\ Cardinality(S \cup {x}) = IF x \in S THEN Cardinality(S) ELSE Cardinality(S) + 1
  BY PortalSizes, FS_AddElement
<1> QED
  BY <1>1, PortalSizes

LEMMA PO_Union ==
    ASSUME NEW S, PO!IsFiniteSet(S), NEW T, PO!IsFiniteSet(T)
    PROVE  PO!Cardinality(S \cup T)
             = PO!Cardinality(S) + PO!Cardinality(T) - PO!Cardinality(S \cap T)
<1>1. IsFiniteSet(S) /\ IsFiniteSet(T)
  BY PortalSizes
<1>2. Cardinality(S \cup T) = Cardinality(S) + Cardinality(T) - Cardinality(S \cap T)
  BY <1>1, FS_Union
<1> QED
  BY <1>2, PortalSizes

LEMMA PO_Intersection ==
    ASSUME NEW S, PO!IsFiniteSet(S), NEW T PROVE PO!IsFiniteSet(S \cap T)
<1>1. IsFiniteSet(S \cap T)
  BY PortalSizes, FS_Intersection
<1> QED
  BY <1>1, PortalSizes

Loaded == [i \in DOMAIN TokenConfig |->
              [id |-> TokenConfig[i].id, hosts |-> TokenConfig[i].hosts,
               secret |-> environment[TokenConfig[i].secret_env]]]

\* Nobody is served before the tokens are loaded, and then they are the configured ones.
ConfigInv ==
    /\ phase \in {"starting", "serving", "refused"}
    /\ phase = "serving" => tokens = Loaded
    /\ phase # "serving" => \A w \in Worker : pc[w] = "idle"

OnFile == {r.snap : r \in recorded}

StoreInv == recorded \subseteq PO!Store!Record /\ PO!IsFiniteSet(OnFile)

\* The shape of the workers' data.
WorkersInv ==
    /\ now \in 0 .. MAX_TIME /\ arrivals \in 0 .. MAX_ARRIVALS
    /\ pc \in [Worker -> PO!Places]
    /\ req \in [Worker -> Request \union {<<>>}]
    /\ \A w \in Worker : pc[w] # "idle" => req[w] \in Request
    /\ stamp \in [Worker -> 0 .. now]
    /\ ids \in [Worker -> SUBSET ScanId]
    /\ found \in [Worker -> SUBSET Snapshot]
    /\ onFile \in [Worker -> SUBSET Snapshot]
    /\ DOMAIN response = Worker

\* A handler has got, or has the id of, everything that was on file of its host, and nothing else.
Reading(w) ==
    /\ pc[w] \in {"list", "get", "gets"} => PO!Authenticate(req[w].bearer) # PO!NoToken
    /\ pc[w] = "list" => req[w].route \in {"fragment", "drift"}
    /\ pc[w] = "get" => req[w].route = "scan"
    /\ pc[w] = "gets" =>
         /\ req[w].route \in {"fragment", "drift"} /\ PO!Scoped(w)
         /\ onFile[w] \subseteq OnFile /\ \A s \in onFile[w] : HostOf[s] = req[w].host
         /\ found[w] \subseteq onFile[w]
         /\ \A id \in ids[w] : \E s \in onFile[w] : ScanOf[s] = id
         /\ \A s \in onFile[w] : s \in found[w] \/ ScanOf[s] \in ids[w]

ReadingInv == \A w \in Worker : Reading(w)

\* What ReadsAreScoped and ViewsAreComplete say of one answer.
ScopedAnswer(q, a) ==
    /\ \A i \in DOMAIN a.snaps :
        HostOf[a.snaps[i]] = q.host /\ HostOf[a.snaps[i]] \in PO!Granted(q.bearer)
    /\ a.hosts \subseteq PO!Granted(q.bearer)

Pair(snaps, all) ==
    /\ Len(snaps) = (IF PO!Cardinality(all) < 2 THEN 0 ELSE 2)
    /\ Len(snaps) = 2 =>
         /\ ~(CollectedAt[snaps[2]] > CollectedAt[snaps[1]])
         /\ \A s \in all \ {snaps[i] : i \in DOMAIN snaps} : ~(CollectedAt[s] > CollectedAt[snaps[2]])

CompleteAnswer(q, a, all) ==
    /\ (a.status = 200 /\ q.route = "fragment") => {a.snaps[i] : i \in DOMAIN a.snaps} = all
    /\ (a.status = 200 /\ q.route = "drift") => Pair(a.snaps, all)
    /\ (q.route = "scan" /\ a.status = 404) => \A s \in all : ScanOf[s] = q.scan => HostOf[s] # q.host

AnswersInv ==
    \A w \in Worker : PO!Answered(w) =>
        /\ ScopedAnswer(req[w], response[w].answer)
        /\ CompleteAnswer(req[w], response[w].answer, onFile[w])

\* Who was admitted within the last window, and when.
AdmittedInv ==
    /\ PO!IsFiniteSet(admitted)
    /\ \A a \in admitted :
        /\ a.at \in Nat /\ a.at =< now /\ now < a.at + WINDOW
        /\ a.nth \in Nat /\ (a.at = now => a.nth < PO!Cardinality(admitted))
        /\ a.caller \in DOMAIN buckets

Prompt(k) == {a \in admitted : a.caller = k /\ a.prompt}
Since(k, start) == {a \in admitted : a.caller = k /\ a.at >= start}

\* A bucket counts the prompt requests since its window's start, and before it there was at
\* most a budget of them; and it counts nothing that is not there.
Bucket(k, bucket) ==
    LET start == bucket.window_start
        count == bucket.count
    IN  /\ bucket \in [window_start : 0 .. now, count : 0 .. BUDGET]
        /\ \A a \in Prompt(k) : a.at < start + WINDOW
        /\ PO!Cardinality({a \in Prompt(k) : a.at >= start}) =< count
        /\ PO!Cardinality({a \in Prompt(k) : a.at < start}) =< BUDGET
        /\ now < start + WINDOW => count =< PO!Cardinality(Since(k, start))

BucketsInv == \A k \in DOMAIN buckets : Bucket(k, buckets[k])

PortalInv ==
    /\ ConfigInv /\ StoreInv /\ WorkersInv /\ ReadingInv /\ AnswersInv
    /\ AdmittedInv /\ BucketsInv

-----------------------------------------------------------------------------
(* Facts about the operators *)

\* A set of numbers with a bound has a largest one.
LEMMA MaxIsIn ==
    ASSUME NEW S \in SUBSET Nat, S # {}, NEW n \in Nat, \A i \in S : i =< n
    PROVE  PO!Max(S) \in S
<1> DEFINE T == {m \in Nat : \E i \in S : m = n - i}
<1>1. T # {}
  <2>1. PICK i \in S : TRUE
    OBVIOUS
  <2>2. n - i \in Nat
    BY <2>1
  <2> QED
    BY <2>1, <2>2
<1>2. PICK m \in T : \A j \in T : ~ (<<j, m>> \in OpToRel(<, Nat))
  BY <1>1, NatLessThanWellFounded, WFMin
<1>3. PICK i \in S : m = n - i
  BY <1>2
<1>4. \A j \in S : j =< i
  <2> SUFFICES ASSUME NEW j \in S, ~(j =< i) PROVE FALSE
    OBVIOUS
  <2>1. n - j \in T /\ n - j < m
    BY <1>3
  <2> QED
    BY <1>2, <2>1 DEF OpToRel
<1>5. \A j \in S : i >= j
  BY <1>4
<1> QED
  BY <1>5 DEF PO!Max

\* The last entry that is configured with a secret is an entry.
LEMMA LastEntryIs ==
    ASSUME PO!PortalAssumption, NEW b, PO!Entries(b) # {}
    PROVE  PO!Max(PO!Entries(b)) \in PO!Entries(b) /\ PO!Max(PO!Entries(b)) \in DOMAIN TokenConfig
<1>1. DOMAIN TokenConfig = 1 .. Len(TokenConfig) /\ Len(TokenConfig) \in Nat
  BY DEF PO!PortalAssumption
<1>2. PO!Entries(b) \in SUBSET Nat /\ \A i \in PO!Entries(b) : i =< Len(TokenConfig)
  BY <1>1 DEF PO!Entries
<1>3. PO!Max(PO!Entries(b)) \in PO!Entries(b)
  BY <1>1, <1>2, MaxIsIn
<1> QED
  BY <1>3 DEF PO!Entries

\* What authenticate makes of a secret, once the tokens are loaded: the last entry of the
\* configuration that has it.
LEMMA AuthenticateIs ==
    ASSUME PO!PortalAssumption, tokens = Loaded, NEW b
    PROVE  /\ PO!Entries(b) = {} => PO!Authenticate(b) = PO!NoToken
           /\ PO!Entries(b) # {} =>
                /\ PO!Authenticate(b) # PO!NoToken
                /\ PO!Authenticate(b).id = TokenConfig[PO!Max(PO!Entries(b))].id
                /\ PO!Authenticate(b).hosts = TokenConfig[PO!Max(PO!Entries(b))].hosts
                /\ PO!Authenticate(b).hosts \subseteq PO!Granted(b)
<1>1. {i \in DOMAIN tokens : tokens[i].secret = b} = PO!Entries(b)
  BY DEF Loaded, PO!Entries
<1>2. PO!Entries(b) = {} => PO!Authenticate(b) = PO!NoToken
  BY <1>1 DEF PO!Authenticate
<1>3. ASSUME PO!Entries(b) # {}
      PROVE  /\ PO!Authenticate(b) # PO!NoToken
             /\ PO!Authenticate(b).id = TokenConfig[PO!Max(PO!Entries(b))].id
             /\ PO!Authenticate(b).hosts = TokenConfig[PO!Max(PO!Entries(b))].hosts
             /\ PO!Authenticate(b).hosts \subseteq PO!Granted(b)
  <2> DEFINE m == PO!Max(PO!Entries(b))
  <2>1. m \in PO!Entries(b) /\ m \in DOMAIN TokenConfig
    BY <1>3, LastEntryIs
  <2>2. PO!Authenticate(b) = tokens[m]
    BY <1>1, <1>3 DEF PO!Authenticate
  <2> HIDE DEF m
  <2>3. PO!Authenticate(b) = [id |-> TokenConfig[m].id, hosts |-> TokenConfig[m].hosts,
                           secret |-> environment[TokenConfig[m].secret_env]]
    BY <2>1, <2>2 DEF Loaded
  <2>4. PO!Authenticate(b) # PO!NoToken
    <3>1. "id" \in DOMAIN PO!Authenticate(b)
      BY <2>3
    <3>2. "id" \notin DOMAIN <<>>
      OBVIOUS
    <3> QED
      BY <3>1, <3>2 DEF PO!NoToken
  <2>5. TokenConfig[m].hosts \subseteq PO!Granted(b)
    BY <2>1 DEF PO!Granted
  <2> QED
    BY <2>3, <2>4, <2>5 DEF m
<1> QED
  BY <1>2, <1>3

\* The bucket of a request is the caller's.
LEMMA BudgetKeyIs ==
    ASSUME PO!PortalAssumption, tokens = Loaded, NEW q
    PROVE  PO!BudgetKey(q) = PO!Caller(q)
<1>1. CASE PO!Entries(q.bearer) = {}
  BY <1>1, AuthenticateIs DEF PO!BudgetKey, PO!Caller
<1>2. CASE PO!Entries(q.bearer) # {}
  BY <1>2, AuthenticateIs DEF PO!BudgetKey, PO!Caller
<1> QED
  BY <1>1, <1>2

\* Snapshots in an order are all of them, once each.
LEMMA SortedIs ==
    ASSUME NEW S, PO!IsFiniteSet(S), NEW snaps \in PO!Sorted(S)
    PROVE  /\ snaps \in Seq(S) /\ Len(snaps) = PO!Cardinality(S) /\ PO!Cardinality(S) \in Nat
           /\ {snaps[i] : i \in DOMAIN snaps} = S
           /\ \A i, j \in DOMAIN snaps : i < j => CollectedAt[snaps[i]] >= CollectedAt[snaps[j]]
<1> DEFINE n == PO!Cardinality(S)
<1>1. n \in Nat /\ PO!IsFiniteSet(1 .. n) /\ PO!Cardinality(1 .. n) = n
  BY PO_CardinalityType, PO_Interval
<1>2. snaps \in [1 .. n -> S] /\ \A i, j \in 1 .. n : snaps[i] = snaps[j] => i = j
  BY DEF PO!Sorted
<1>3. snaps \in Injection(1 .. n, S)
  BY <1>2 DEF Injection, IsInjective
<1>4. snaps \in Surjection(1 .. n, S)
  BY <1>1, <1>3, PO_Injection
<1>5. {snaps[i] : i \in DOMAIN snaps} = S
  BY <1>2, <1>4 DEF Surjection
<1> HIDE DEF n
<1>6. snaps \in Seq(S) /\ Len(snaps) = n
  BY <1>1, <1>2
<1> QED
  BY <1>1, <1>5, <1>6 DEF PO!Sorted, n

-----------------------------------------------------------------------------
(* What a step leaves as it is *)

\* What a handler reads is its own, but for the store, which only grows.
LEMMA ReadingKept ==
    ASSUME NEW w, Reading(w), pc'[w] = pc[w], req'[w] = req[w], ids'[w] = ids[w],
           found'[w] = found[w], onFile'[w] = onFile[w],
           recorded \subseteq recorded', UNCHANGED tokens
    PROVE  Reading(w)'
<1>1. OnFile \subseteq OnFile'
  BY DEF OnFile
<1> QED
  BY <1>1 DEF Reading, PO!Scoped, PO!Authenticate

\* An answer stays what it is until it is sent.
LEMMA AnswersKept ==
    ASSUME AnswersInv, UNCHANGED environment, NEW w,
           \A v \in Worker \ {w} : /\ pc'[v] = pc[v] /\ req'[v] = req[v] /\ response'[v] = response[v]
                                   /\ onFile'[v] = onFile[v],
           (PO!Answered(w) => /\ ScopedAnswer(req[w], response[w].answer)
                           /\ CompleteAnswer(req[w], response[w].answer, onFile[w]))'
    PROVE  AnswersInv'
<1> SUFFICES ASSUME NEW v \in Worker
             PROVE  (PO!Answered(v) => /\ ScopedAnswer(req[v], response[v].answer)
                                    /\ CompleteAnswer(req[v], response[v].answer, onFile[v]))'
  BY DEF AnswersInv
<1>1. CASE v = w
  BY <1>1
<1>2. CASE v # w
  <2>1. /\ pc'[v] = pc[v] /\ req'[v] = req[v] /\ response'[v] = response[v]
        /\ onFile'[v] = onFile[v]
    BY <1>2
  <2>2. \A b : PO!Granted(b)' = PO!Granted(b)
    BY DEF PO!Granted, PO!Entries
  <2>3. SUFFICES ASSUME PO!Answered(v)
                 PROVE  (/\ ScopedAnswer(req[v], response[v].answer)
                         /\ CompleteAnswer(req[v], response[v].answer, onFile[v]))'
    BY <2>1 DEF PO!Answered
  <2>4. /\ ScopedAnswer(req[v], response[v].answer)
        /\ CompleteAnswer(req[v], response[v].answer, onFile[v])
    BY <2>3 DEF AnswersInv
  <2>5. ScopedAnswer(req[v], response[v].answer)'
    BY <2>1, <2>2, <2>4 DEF ScopedAnswer
  <2>6. CompleteAnswer(req[v], response[v].answer, onFile[v])'
    BY <2>1, <2>4 DEF CompleteAnswer, Pair
  <2> QED
    BY <2>5, <2>6
<1> QED
  BY <1>1, <1>2

\* An answer that was given stays as it is, and so does what it may show.
LEMMA AnswersUntouched ==
    ASSUME AnswersInv, UNCHANGED <<environment, pc, req, response, onFile>>
    PROVE  AnswersInv'
<1>1. \A q, a : ScopedAnswer(q, a)' <=> ScopedAnswer(q, a)
  BY DEF ScopedAnswer, PO!Granted, PO!Entries
<1>2. \A w : PO!Answered(w)' <=> PO!Answered(w)
  BY DEF PO!Answered
<1> QED
  BY <1>1, <1>2 DEF AnswersInv

\* Requests are counted only in Enforce, and forgotten only by the clock.
LEMMA LimitKept ==
    ASSUME AdmittedInv, BucketsInv, UNCHANGED <<now, PO!limit>>
    PROVE  AdmittedInv' /\ BucketsInv'
BY DEF AdmittedInv, BucketsInv, Bucket, Prompt, Since, PO!limit

\* A worker answers.
LEMMA AnswersKeep ==
    ASSUME PO!PortalAssumption, ConfigInv, StoreInv, WorkersInv, ReadingInv, AnswersInv,
           NEW w \in Worker, NEW a, pc[w] # "idle", PO!Respond(w, a),
           UNCHANGED <<PO!config, recorded, now, arrivals, req>>,
           onFile' \in [Worker -> SUBSET Snapshot],
           \A v \in Worker \ {w} : onFile'[v] = onFile[v],
           ScopedAnswer(req[w], a), CompleteAnswer(req[w], a, onFile'[w])
    PROVE  ConfigInv' /\ StoreInv' /\ WorkersInv' /\ ReadingInv' /\ AnswersInv'
<1>a. /\ pc' = [pc EXCEPT ![w] = "answered"]
      /\ response' = [response EXCEPT ![w] = [answer |-> a, hsts |-> req[w].https]]
      /\ ids' = [ids EXCEPT ![w] = {}] /\ found' = [found EXCEPT ![w] = {}]
      /\ stamp' = [stamp EXCEPT ![w] = 0]
  BY DEF PO!Respond
<1>1. ConfigInv' /\ StoreInv'
  BY <1>a DEF ConfigInv, StoreInv, WorkersInv, PO!config, Loaded, OnFile
<1>2. WorkersInv'
  <2>1. 0 \in 0 .. now
    BY DEF WorkersInv, PO!PortalAssumption
  <2> QED
    BY <1>a, <2>1 DEF WorkersInv, PO!Places
<1>3. \A v \in Worker \ {w} : /\ pc'[v] = pc[v] /\ req'[v] = req[v] /\ ids'[v] = ids[v]
                              /\ found'[v] = found[v] /\ response'[v] = response[v]
  BY <1>a DEF WorkersInv
<1>4. pc'[w] = "answered" /\ response'[w].answer = a /\ req'[w] = req[w]
  BY <1>a DEF WorkersInv
<1>5. ReadingInv'
  <2> SUFFICES ASSUME NEW v \in Worker PROVE Reading(v)'
    BY DEF ReadingInv
  <2>1. CASE v = w
    BY <1>4, <2>1 DEF Reading
  <2>2. CASE v # w
    BY <1>3, <2>2, ReadingKept DEF ReadingInv, PO!config
  <2> QED
    BY <2>1, <2>2
<1>6. AnswersInv'
  <2>1. ScopedAnswer(req[w], a) /\ CompleteAnswer(req[w], a, onFile'[w]) /\ UNCHANGED environment
    BY DEF PO!config
  <2>2. (PO!Answered(w) => /\ ScopedAnswer(req[w], response[w].answer)
                        /\ CompleteAnswer(req[w], response[w].answer, onFile[w]))'
    BY <1>4, <2>1 DEF ScopedAnswer, CompleteAnswer, Pair, PO!Granted, PO!Entries
  <2> QED
    BY <1>3, <2>1, <2>2, AnswersKept
<1> QED
  BY <1>1, <1>2, <1>5, <1>6

\* A status is an answer without content.
LEMMA StatusIs ==
    ASSUME NEW q, NEW code, NEW all,
           code # 200 \/ q.route \notin {"fragment", "drift"},
           code # 404 \/ q.route # "scan" \/ \A s \in all : ScanOf[s] = q.scan => HostOf[s] # q.host
    PROVE  LET a == [PO!Empty EXCEPT !.status = code]
           IN  ScopedAnswer(q, a) /\ CompleteAnswer(q, a, all)
<1> DEFINE a == [PO!Empty EXCEPT !.status = code]
<1>1. a.status = code /\ a.hosts = {} /\ a.snaps = <<>>
  BY DEF PO!Empty
<1> HIDE DEF a
<1>2. ScopedAnswer(q, a)
  BY <1>1 DEF ScopedAnswer
<1>3. CompleteAnswer(q, a, all)
  BY <1>1 DEF CompleteAnswer
<1> QED
  BY <1>2, <1>3 DEF a

\* Who is busy is served.
LEMMA Served ==
    ASSUME ConfigInv, NEW w \in Worker, pc[w] # "idle"
    PROVE  phase = "serving" /\ tokens = Loaded
BY DEF ConfigInv

-----------------------------------------------------------------------------
(* The inductive invariant *)

\* The portal starts with no worker busy, no answer given and no bucket filled.
LEMMA PortalInit == PO!PortalAssumption /\ PO!Init => PortalInv
<1> SUFFICES ASSUME PO!PortalAssumption, PO!Init PROVE PortalInv
  OBVIOUS
<1>1. ConfigInv
  BY DEF PO!Init, ConfigInv
<1>2. StoreInv
  <2>1. OnFile = AtStart
    <3>1. recorded = {[key |-> KeyOf[s], snap |-> s] : s \in AtStart}
      BY DEF PO!Init
    <3>2. \A s \in AtStart : [key |-> KeyOf[s], snap |-> s] \in recorded
      BY <3>1
    <3>3. ASSUME NEW s \in AtStart PROVE s \in OnFile
      <4>1. PICK r \in recorded : r = [key |-> KeyOf[s], snap |-> s]
        BY <3>2
      <4>2. r.snap = s
        BY <4>1
      <4> QED
        BY <4>1, <4>2 DEF OnFile
    <3>4. \A r \in recorded : r.snap \in AtStart
      BY <3>1
    <3> QED
      BY <3>3, <3>4 DEF OnFile
  <2>2. recorded \subseteq PO!Store!Record
    BY DEF PO!Init, PO!Store!Record, PO!PortalAssumption
  <2> QED
    BY <2>1, <2>2 DEF StoreInv, PO!PortalAssumption
<1>3. WorkersInv
  BY DEF PO!Init, WorkersInv, PO!Places, PO!PortalAssumption
<1>4. ReadingInv /\ AnswersInv
  BY DEF PO!Init, ReadingInv, Reading, AnswersInv, PO!Answered
<1>5. AdmittedInv /\ BucketsInv
  BY PO_EmptySet DEF PO!Init, AdmittedInv, BucketsInv
<1> QED
  BY <1>1, <1>2, <1>3, <1>4, <1>5 DEF PortalInv

-----------------------------------------------------------------------------
(* Each action keeps the invariant *)

\* While the portal serves, its environment and tokens are those of the start.
LEMMA ConfigKept ==
    ASSUME ConfigInv, UNCHANGED PO!config, phase = "serving"
    PROVE  ConfigInv' /\ phase' = "serving"
BY DEF ConfigInv, PO!config, Loaded

\* A worker goes on, without an answer.
LEMMA PortalMoves ==
    ASSUME ReadingInv, AnswersInv, NEW w \in Worker, UNCHANGED <<PO!config, recorded>>,
           \A v \in Worker \ {w} : /\ pc'[v] = pc[v] /\ req'[v] = req[v] /\ ids'[v] = ids[v]
                                   /\ found'[v] = found[v] /\ onFile'[v] = onFile[v]
                                   /\ response'[v] = response[v],
           pc'[w] # "answered", Reading(w)'
    PROVE  ReadingInv' /\ AnswersInv'
<1>1. ReadingInv'
  <2> SUFFICES ASSUME NEW v \in Worker PROVE Reading(v)'
    BY DEF ReadingInv
  <2>1. CASE v = w
    BY <2>1
  <2>2. CASE v # w
    BY <2>2, ReadingKept DEF ReadingInv, PO!config
  <2> QED
    BY <2>1, <2>2
<1>2. AnswersInv'
  <2>1. UNCHANGED environment
    BY DEF PO!config
  <2>2. (PO!Answered(w) => /\ ScopedAnswer(req[w], response[w].answer)
                        /\ CompleteAnswer(req[w], response[w].answer, onFile[w]))'
    BY DEF PO!Answered
  <2> QED
    BY <2>1, <2>2, AnswersKept
<1> QED
  BY <1>1, <1>2

\* The portal starts to serve with the tokens as configured, or refuses to.
LEMMA LoadKeeps ==
    ASSUME PortalInv, PO!Load
    PROVE  PortalInv'
<1> USE DEF PortalInv, PO!Load
<1>1. \A w \in Worker : pc[w] = "idle" /\ pc'[w] = "idle"
  BY DEF ConfigInv
<1>2. ConfigInv'
  BY <1>1 DEF ConfigInv, Loaded
<1>3. StoreInv'
  BY DEF StoreInv, OnFile
<1>4. WorkersInv'
  BY DEF WorkersInv, PO!reads
<1>5. ReadingInv' /\ AnswersInv'
  BY <1>1 DEF ReadingInv, Reading, AnswersInv, PO!Answered
<1>6. AdmittedInv' /\ BucketsInv'
  BY LimitKept
<1> QED
  BY <1>2, <1>3, <1>4, <1>5, <1>6

\* Time goes on: what was admitted a window ago no longer counts.
LEMMA TickKeeps ==
    ASSUME PO!PortalAssumption, PortalInv, PO!Tick
    PROVE  PortalInv'
<1> USE DEF PortalInv
<1>1. /\ phase = "serving" /\ now < MAX_TIME /\ now' = now + 1
      /\ admitted' = {a \in admitted : a.at + WINDOW > now'}
      /\ UNCHANGED <<PO!config, recorded, buckets, arrivals, pc, req, stamp, PO!reads, response>>
  BY DEF PO!Tick
<1>2. now \in Nat /\ MAX_TIME \in Nat /\ WINDOW \in Nat /\ now' \in 0 .. MAX_TIME
  BY <1>1 DEF WorkersInv, PO!PortalAssumption
<1>3. ConfigInv'
  BY <1>1 DEF ConfigInv, PO!config, Loaded
<1>4. StoreInv'
  BY <1>1 DEF StoreInv, OnFile
<1>5. WorkersInv'
  <2>1. stamp \in [Worker -> 0 .. now']
    BY <1>1, <1>2 DEF WorkersInv
  <2> QED
    BY <1>1, <1>2, <2>1 DEF WorkersInv, PO!reads
<1>6. ReadingInv'
  BY <1>1, ReadingKept DEF ReadingInv, PO!config, PO!reads
<1>7. AnswersInv'
  BY <1>1, AnswersUntouched DEF PO!config, PO!reads
<1>8. admitted' \subseteq admitted /\ PO!IsFiniteSet(admitted) /\ PO!IsFiniteSet(admitted')
  BY <1>1, PO_Subset DEF AdmittedInv
<1>9. AdmittedInv'
  <2> SUFFICES ASSUME NEW a \in admitted'
               PROVE  /\ a.at \in Nat /\ a.at =< now' /\ now' < a.at + WINDOW
                      /\ a.nth \in Nat /\ (a.at = now' => a.nth < PO!Cardinality(admitted'))
                      /\ a.caller \in DOMAIN buckets'
    BY <1>8 DEF AdmittedInv
  <2>1. a \in admitted /\ a.at + WINDOW > now' /\ buckets' = buckets
    BY <1>1
  <2> QED
    BY <1>1, <1>2, <2>1 DEF AdmittedInv
<1>10. BucketsInv'
  <2> SUFFICES ASSUME NEW k \in DOMAIN buckets PROVE Bucket(k, buckets[k])'
    BY <1>1 DEF BucketsInv
  <2> DEFINE start == buckets[k].window_start
             count == buckets[k].count
  <2>1. Bucket(k, buckets[k]) /\ UNCHANGED buckets
    BY <1>1 DEF BucketsInv
  <2>2. buckets[k] \in [window_start : 0 .. now, count : 0 .. BUDGET]
    BY <2>1 DEF Bucket
  <2>3. start \in Nat /\ start =< now /\ count \in Nat /\ BUDGET \in Nat
    BY <1>2, <2>2 DEF PO!PortalAssumption
  <2>4. \A a \in admitted : a.at \in Nat
    BY DEF AdmittedInv
  <2>5. Prompt(k)' \subseteq Prompt(k) /\ PO!IsFiniteSet(Prompt(k))
    <3>1. Prompt(k) \subseteq admitted
      BY DEF Prompt
    <3> QED
      BY <1>8, <3>1, PO_Subset DEF Prompt
  <2>6. PO!Cardinality({a \in Prompt(k)' : a.at >= start}) =< count
    <3> DEFINE A == {a \in Prompt(k)' : a.at >= start}
               B == {a \in Prompt(k) : a.at >= start}
    <3>1. A \subseteq B /\ PO!IsFiniteSet(B)
      BY <2>5, PO_Subset
    <3>2. PO!Cardinality(A) \in Nat /\ PO!Cardinality(B) \in Nat
          /\ PO!Cardinality(A) =< PO!Cardinality(B)
      BY <3>1, PO_Subset, PO_CardinalityType
    <3>3. PO!Cardinality(B) =< count
      BY <2>1 DEF Bucket
    <3> HIDE DEF A, B, count
    <3> QED
      BY <2>3, <3>2, <3>3 DEF A
  <2>7. PO!Cardinality({a \in Prompt(k)' : a.at < start}) =< BUDGET
    <3> DEFINE A == {a \in Prompt(k)' : a.at < start}
               B == {a \in Prompt(k) : a.at < start}
    <3>1. A \subseteq B /\ PO!IsFiniteSet(B)
      BY <2>5, PO_Subset
    <3>2. PO!Cardinality(A) \in Nat /\ PO!Cardinality(B) \in Nat
          /\ PO!Cardinality(A) =< PO!Cardinality(B)
      BY <3>1, PO_Subset, PO_CardinalityType
    <3>3. PO!Cardinality(B) =< BUDGET
      BY <2>1 DEF Bucket
    <3> HIDE DEF A, B
    <3> QED
      BY <2>3, <3>2, <3>3 DEF A
  <2>8. now' < start + WINDOW => count =< PO!Cardinality(Since(k, start)')
    <3> SUFFICES ASSUME now' < start + WINDOW PROVE count =< PO!Cardinality(Since(k, start)')
      OBVIOUS
    <3>1. now < start + WINDOW
      BY <1>1, <1>2, <2>3
    <3>2. \A a \in admitted : a.at >= start => a \in admitted'
      BY <1>1, <1>2, <2>3, <2>4
    <3>3. Since(k, start)' = Since(k, start)
      BY <1>8, <2>1, <3>2 DEF Since
    <3> QED
      BY <2>1, <3>1, <3>3 DEF Bucket
  <2>9. \A a \in Prompt(k)' : a.at < start + WINDOW
    BY <2>1, <2>5 DEF Bucket
  <2>10. buckets[k] \in [window_start : 0 .. now', count : 0 .. BUDGET]
    <3>1. 0 .. now \subseteq 0 .. now'
      BY <1>1, <1>2
    <3> QED
      BY <2>2, <3>1
  <2> QED
    BY <2>1, <2>6, <2>7, <2>8, <2>9, <2>10 DEF Bucket
<1> QED
  BY <1>3, <1>4, <1>5, <1>6, <1>7, <1>9, <1>10

\* A scan records a snapshot while workers are in the middle of reading.
LEMMA PutKeeps ==
    ASSUME PO!PortalAssumption, PortalInv, NEW s \in Snapshot, PO!Put(s)
    PROVE  PortalInv'
<1> USE DEF PortalInv
<1>1. /\ recorded' = recorded \union {[key |-> KeyOf[s], snap |-> s]}
      /\ UNCHANGED <<PO!config, now, PO!limit, arrivals, pc, req, stamp, PO!reads, response>>
  BY DEF PO!Put, PO!Store!Commit
<1>2. ConfigInv' /\ WorkersInv'
  BY <1>1 DEF ConfigInv, PO!config, Loaded, WorkersInv, PO!reads
<1>3. StoreInv'
  <2>1. recorded' \subseteq PO!Store!Record
    BY <1>1 DEF StoreInv, PO!Store!Record, PO!PortalAssumption
  <2>2. OnFile' \subseteq OnFile \union {s}
    BY <1>1 DEF OnFile
  <2>3. PO!IsFiniteSet(OnFile')
    BY <2>2, PO_AddElement, PO_Subset DEF StoreInv
  <2> QED
    BY <2>1, <2>3 DEF StoreInv
<1>4. ReadingInv'
  BY <1>1, ReadingKept DEF ReadingInv, PO!config, PO!reads
<1>5. AnswersInv'
  BY <1>1, AnswersUntouched DEF PO!config, PO!reads
<1>6. AdmittedInv' /\ BucketsInv'
  BY <1>1, LimitKept
<1> QED
  BY <1>2, <1>3, <1>4, <1>5, <1>6

\* A request comes in at an idle worker, which takes its time stamp.
LEMMA ArriveKeeps ==
    ASSUME PO!PortalAssumption, PortalInv, NEW w \in Worker, NEW q \in Request, PO!Arrive(w, q)
    PROVE  PortalInv'
<1> USE DEF PortalInv
<1>1. /\ phase = "serving" /\ arrivals < MAX_ARRIVALS /\ arrivals' = arrivals + 1
      /\ req' = [req EXCEPT ![w] = q] /\ stamp' = [stamp EXCEPT ![w] = now]
      /\ pc' = [pc EXCEPT ![w] = "limit"]
      /\ UNCHANGED <<PO!config, recorded, now, PO!limit, PO!reads, response>>
  BY DEF PO!Arrive
<1>2. ConfigInv'
  BY <1>1, ConfigKept
<1>3. StoreInv'
  BY <1>1 DEF StoreInv, OnFile
<1>4. WorkersInv'
  <2>1. arrivals' \in 0 .. MAX_ARRIVALS /\ now \in 0 .. now
    BY <1>1 DEF WorkersInv, PO!PortalAssumption
  <2> QED
    BY <1>1, <2>1 DEF WorkersInv, PO!Places, PO!reads
<1>5. ReadingInv' /\ AnswersInv'
  <2>1. \A v \in Worker \ {w} : /\ pc'[v] = pc[v] /\ req'[v] = req[v] /\ ids'[v] = ids[v]
                                /\ found'[v] = found[v] /\ onFile'[v] = onFile[v]
                                /\ response'[v] = response[v]
    BY <1>1 DEF WorkersInv, PO!reads
  <2>2. pc'[w] = "limit"
    BY <1>1 DEF WorkersInv
  <2>3. Reading(w)'
    BY <2>2 DEF Reading
  <2> QED
    BY <1>1, <2>1, <2>2, <2>3, PortalMoves
<1>6. AdmittedInv' /\ BucketsInv'
  BY <1>1, LimitKept
<1> QED
  BY <1>2, <1>3, <1>4, <1>5, <1>6

\* A worker sends its answer and is idle again.
LEMMA DeliverKeeps ==
    ASSUME PO!PortalAssumption, PortalInv, NEW w \in Worker, PO!Deliver(w)
    PROVE  PortalInv'
<1> USE DEF PortalInv
<1>1. /\ pc[w] = "answered" /\ pc' = [pc EXCEPT ![w] = "idle"]
      /\ response' = [response EXCEPT ![w] = <<>>] /\ req' = [req EXCEPT ![w] = <<>>]
      /\ onFile' = [onFile EXCEPT ![w] = {}]
      /\ UNCHANGED <<PO!config, recorded, now, PO!limit, arrivals, stamp, ids, found>>
  BY DEF PO!Deliver, PO!Goto
<1>2. ConfigInv'
  BY <1>1, ConfigKept, Served
<1>3. StoreInv'
  BY <1>1 DEF StoreInv, OnFile
<1>4. WorkersInv'
  BY <1>1 DEF WorkersInv, PO!Places
<1>5. ReadingInv' /\ AnswersInv'
  <2>1. \A v \in Worker \ {w} : /\ pc'[v] = pc[v] /\ req'[v] = req[v] /\ ids'[v] = ids[v]
                                /\ found'[v] = found[v] /\ onFile'[v] = onFile[v]
                                /\ response'[v] = response[v]
    BY <1>1 DEF WorkersInv
  <2>2. pc'[w] = "idle"
    BY <1>1 DEF WorkersInv
  <2>3. Reading(w)'
    BY <2>2 DEF Reading
  <2> QED
    BY <1>1, <2>1, <2>2, <2>3, PortalMoves
<1>6. AdmittedInv' /\ BucketsInv'
  BY <1>1, LimitKept
<1> QED
  BY <1>2, <1>3, <1>4, <1>5, <1>6

\* A worker answers with a status and reads nothing.
LEMMA StatusKeeps ==
    ASSUME PO!PortalAssumption, PortalInv, NEW w \in Worker, NEW code, PO!Status(w, code),
           UNCHANGED <<PO!config, recorded, now, PO!limit, arrivals, req, onFile>>,
           pc[w] # "idle", code # 404 \/ req[w].route # "scan",
           code # 200 \/ req[w].route \notin {"fragment", "drift"}
    PROVE  PortalInv'
<1> USE DEF PortalInv
<1> DEFINE a == [PO!Empty EXCEPT !.status = code]
<1>1. PO!Respond(w, a)
  BY DEF PO!Status
<1>2. ScopedAnswer(req[w], a) /\ CompleteAnswer(req[w], a, onFile'[w])
  BY StatusIs
<1> HIDE DEF a
<1>3. ConfigInv' /\ StoreInv' /\ WorkersInv' /\ ReadingInv' /\ AnswersInv'
  <2>1. onFile' \in [Worker -> SUBSET Snapshot] /\ \A v \in Worker \ {w} : onFile'[v] = onFile[v]
    BY DEF WorkersInv
  <2> QED
    BY <1>1, <1>2, <2>1, AnswersKeep
<1>4. AdmittedInv' /\ BucketsInv'
  BY LimitKept
<1> QED
  BY <1>3, <1>4

\* A request is answered without the store, or goes on to a read of its host.
LEMMA RouteKeeps ==
    ASSUME PO!PortalAssumption, PortalInv, NEW w \in Worker, PO!Route(w)
    PROVE  PortalInv'
<1> USE DEF PortalInv
<1> DEFINE ctx == PO!Authenticate(req[w].bearer)
<1>a. pc[w] = "route" /\ UNCHANGED <<PO!config, recorded, now, PO!limit, arrivals, req, onFile>>
  BY DEF PO!Route
<1>b. phase = "serving" /\ tokens = Loaded
  BY <1>a, Served
<1>1. CASE req[w].route = "unknown" /\ PO!Status(w, 404)
  BY <1>a, <1>1, StatusKeeps
<1>2. CASE PO!Status(w, 401)
  BY <1>a, <1>2, StatusKeeps
<1>3. CASE req[w].route = "asset" /\ PO!Status(w, 200)
  BY <1>a, <1>3, StatusKeeps
<1>4. CASE PO!Status(w, 400)
  BY <1>a, <1>4, StatusKeeps
<1>5. CASE /\ ctx # PO!NoToken /\ req[w].route = "index"
           /\ PO!Respond(w, [PO!Empty EXCEPT !.status = 200, !.hosts = ctx.hosts])
  <2> DEFINE a == [PO!Empty EXCEPT !.status = 200, !.hosts = ctx.hosts]
  <2>1. a.hosts = ctx.hosts /\ a.snaps = <<>> /\ a.status = 200
    BY DEF PO!Empty
  <2>2. PO!Respond(w, a)
    BY <1>5
  <2> HIDE DEF a
  <2>3. ctx.hosts \subseteq PO!Granted(req[w].bearer)
    BY <1>b, <1>5, AuthenticateIs
  <2>4. ScopedAnswer(req[w], a)
    BY <2>1, <2>3 DEF ScopedAnswer
  <2>5. CompleteAnswer(req[w], a, onFile'[w])
    BY <1>5, <2>1 DEF CompleteAnswer
  <2>6. onFile' \in [Worker -> SUBSET Snapshot] /\ \A v \in Worker \ {w} : onFile'[v] = onFile[v]
    BY <1>a DEF WorkersInv
  <2>7. ConfigInv' /\ StoreInv' /\ WorkersInv' /\ ReadingInv' /\ AnswersInv'
    BY <1>a, <2>2, <2>4, <2>5, <2>6, AnswersKeep
  <2> QED
    BY <1>a, <2>7, LimitKept
<1>6. ASSUME NEW there, ctx # PO!NoToken, PO!Goto(w, there),
             UNCHANGED <<response, ids, found, stamp>>,
             \/ there = "list" /\ req[w].route \in {"fragment", "drift"}
             \/ there = "get" /\ req[w].route = "scan"
      PROVE  PortalInv'
  <2>1. pc' = [pc EXCEPT ![w] = there] /\ there \in {"list", "get"}
    BY <1>6 DEF PO!Goto
  <2>2. ConfigInv'
    BY <1>a, <1>b, ConfigKept
  <2>3. StoreInv'
    BY <1>a DEF StoreInv, OnFile
  <2>4. WorkersInv'
    BY <1>a, <1>6, <2>1 DEF WorkersInv, PO!Places
  <2>5. \A v \in Worker \ {w} : /\ pc'[v] = pc[v] /\ req'[v] = req[v] /\ ids'[v] = ids[v]
                                /\ found'[v] = found[v] /\ onFile'[v] = onFile[v]
                                /\ response'[v] = response[v]
    BY <1>a, <1>6, <2>1 DEF WorkersInv
  <2>6. pc'[w] = there
    BY <2>1 DEF WorkersInv
  <2>7. Reading(w)'
    BY <1>a, <1>6, <2>6 DEF Reading, PO!Authenticate, PO!config
  <2>8. ReadingInv' /\ AnswersInv'
    BY <1>a, <2>1, <2>5, <2>6, <2>7, PortalMoves
  <2> QED
    BY <1>a, <2>2, <2>3, <2>4, <2>8, LimitKept
<1> QED
  BY <1>1, <1>2, <1>3, <1>4, <1>5, <1>6 DEF PO!Route

\* A host that was not granted is refused before the store is read.
LEMMA ForbidKeeps ==
    ASSUME PO!PortalAssumption, PortalInv, NEW w \in Worker, PO!Forbid(w)
    PROVE  PortalInv'
BY StatusKeeps DEF PO!Forbid

\* A failure of the store or of a template shows nothing.
LEMMA FailKeeps ==
    ASSUME PO!PortalAssumption, PortalInv, NEW w \in Worker, PO!Fail(w)
    PROVE  PortalInv'
BY StatusKeeps DEF PO!Fail

\* What is listed of a host is what was on file of it.
LEMMA ListForHostKeeps ==
    ASSUME PO!PortalAssumption, PortalInv, NEW w \in Worker, PO!ListForHost(w)
    PROVE  PortalInv'
<1> USE DEF PortalInv
<1> DEFINE ofHost == {r \in recorded : HostOf[r.snap] = req[w].host}
           listed == {ScanOf[r.snap] : r \in ofHost}
           snaps == {r.snap : r \in ofHost}
<1>a. /\ pc[w] = "list" /\ PO!Scoped(w)
      /\ ids' = [ids EXCEPT ![w] = listed] /\ onFile' = [onFile EXCEPT ![w] = snaps]
      /\ found' = [found EXCEPT ![w] = {}] /\ pc' = [pc EXCEPT ![w] = "gets"]
      /\ UNCHANGED <<PO!config, recorded, now, PO!limit, arrivals, req, stamp, response>>
  BY DEF PO!ListForHost, PO!Goto
<1>1. \A r \in recorded : r.snap \in Snapshot /\ ScanOf[r.snap] \in ScanId
  BY DEF StoreInv, PO!Store!Record, PO!PortalAssumption
<1>2. snaps \subseteq Snapshot /\ listed \subseteq ScanId
  BY <1>1
<1>3. ConfigInv'
  BY <1>a, ConfigKept, Served
<1>4. StoreInv'
  BY <1>a DEF StoreInv, OnFile
<1>5. WorkersInv'
  BY <1>a, <1>2 DEF WorkersInv, PO!Places
<1>6. \A v \in Worker \ {w} : /\ pc'[v] = pc[v] /\ req'[v] = req[v] /\ ids'[v] = ids[v]
                              /\ found'[v] = found[v] /\ onFile'[v] = onFile[v]
                              /\ response'[v] = response[v]
  BY <1>a DEF WorkersInv
<1>7. /\ pc'[w] = "gets" /\ ids'[w] = listed /\ onFile'[w] = snaps /\ found'[w] = {}
      /\ req'[w] = req[w]
  BY <1>a DEF WorkersInv
<1>8. /\ snaps \subseteq OnFile /\ \A s \in snaps : HostOf[s] = req[w].host
      /\ \A id \in listed : \E s \in snaps : ScanOf[s] = id
      /\ \A s \in snaps : ScanOf[s] \in listed
  BY DEF OnFile
<1> HIDE DEF snaps, listed
<1>9. Reading(w)'
  <2>1. UNCHANGED <<OnFile, PO!Scoped(w), PO!Authenticate(req[w].bearer)>>
    BY <1>a DEF OnFile, PO!Scoped, PO!Authenticate, PO!config
  <2>2. req[w].route \in {"fragment", "drift"} /\ PO!Authenticate(req[w].bearer) # PO!NoToken
    BY <1>a DEF ReadingInv, Reading
  <2> QED
    BY <1>a, <1>7, <1>8, <2>1, <2>2 DEF Reading
<1>10. ReadingInv' /\ AnswersInv'
  BY <1>a, <1>6, <1>7, <1>9, PortalMoves
<1> QED
  BY <1>a, <1>3, <1>4, <1>5, <1>10, LimitKept

\* A listed scan is got: it moves from what is to be got to what was.
LEMMA GetNextKeeps ==
    ASSUME PO!PortalAssumption, PortalInv, NEW w \in Worker, PO!GetNext(w)
    PROVE  PortalInv'
<1> USE DEF PortalInv
<1>1. PICK id \in ids[w] :
          /\ found' = [found EXCEPT ![w] = @ \union PO!GetForHost(req[w].host, id)]
          /\ ids' = [ids EXCEPT ![w] = @ \ {id}]
  BY DEF PO!GetNext
<1>a. /\ pc[w] = "gets"
      /\ UNCHANGED <<PO!config, recorded, now, PO!limit, arrivals, pc, req, stamp, onFile,
                     response>>
  BY DEF PO!GetNext
<1> DEFINE got == PO!GetForHost(req[w].host, id)
<1>b. Reading(w) /\ onFile[w] \subseteq Snapshot
  BY DEF ReadingInv, WorkersInv
<1>2. got \subseteq onFile[w]
  <2> SUFFICES ASSUME NEW r \in recorded, ScanOf[r.snap] = id
               PROVE  r.snap \in onFile[w]
    BY DEF PO!GetForHost
  <2>1. PICK s \in onFile[w] : ScanOf[s] = id
    BY <1>1, <1>a, <1>b DEF Reading
  <2>2. r.snap \in Snapshot /\ s \in Snapshot
    BY <1>b, <2>1 DEF StoreInv, PO!Store!Record
  <2> QED
    BY <2>1, <2>2 DEF PO!PortalAssumption
<1>3. ASSUME NEW s \in onFile[w], ScanOf[s] = id PROVE s \in got
  <2>1. s \in OnFile /\ HostOf[s] = req[w].host
    BY <1>a, <1>b DEF Reading
  <2>2. PICK r \in recorded : r.snap = s
    BY <2>1 DEF OnFile
  <2> QED
    BY <1>3, <2>1, <2>2 DEF PO!GetForHost
<1> HIDE DEF got
<1>4. ConfigInv'
  BY <1>a, ConfigKept, Served
<1>5. StoreInv'
  BY <1>a DEF StoreInv, OnFile
<1>6. found' = [found EXCEPT ![w] = found[w] \union got] /\ ids' = [ids EXCEPT ![w] = ids[w] \ {id}]
  BY <1>1 DEF got, WorkersInv
<1>7. WorkersInv'
  <2>1. found[w] \union got \subseteq Snapshot /\ ids[w] \ {id} \subseteq ScanId
    BY <1>b, <1>2 DEF WorkersInv
  <2> QED
    BY <1>a, <1>6, <2>1 DEF WorkersInv
<1>8. \A v \in Worker \ {w} : /\ pc'[v] = pc[v] /\ req'[v] = req[v] /\ ids'[v] = ids[v]
                              /\ found'[v] = found[v] /\ onFile'[v] = onFile[v]
                              /\ response'[v] = response[v]
  BY <1>a, <1>6 DEF WorkersInv
<1>9. Reading(w)'
  <2>1. UNCHANGED <<OnFile, PO!Scoped(w), PO!Authenticate(req[w].bearer), pc, req, onFile>>
    BY <1>a DEF OnFile, PO!Scoped, PO!Authenticate, PO!config
  <2>2. found'[w] = found[w] \union got /\ ids'[w] = ids[w] \ {id}
    BY <1>6 DEF WorkersInv
  <2> QED
    BY <1>a, <1>b, <1>2, <1>3, <2>1, <2>2 DEF Reading
<1>10. ReadingInv' /\ AnswersInv'
  BY <1>a, <1>8, <1>9, PortalMoves
<1> QED
  BY <1>a, <1>4, <1>5, <1>7, <1>10, LimitKept

\* All that was on file was got, and is shown in its order.
LEMMA RenderRecentKeeps ==
    ASSUME PO!PortalAssumption, PortalInv, NEW w \in Worker, PO!RenderRecent(w)
    PROVE  PortalInv'
<1> USE DEF PortalInv
<1>1. PICK q \in PO!Sorted(found[w]) :
          PO!Respond(w, [PO!Empty EXCEPT !.status = 200,
                      !.snaps = IF req[w].route = "fragment" THEN q
                                ELSE IF Len(q) >= 2 THEN SubSeq(q, 1, 2) ELSE <<>>])
  BY DEF PO!RenderRecent
<1> DEFINE shown == IF req[w].route = "fragment" THEN q
                    ELSE IF Len(q) >= 2 THEN SubSeq(q, 1, 2) ELSE <<>>
           a == [PO!Empty EXCEPT !.status = 200, !.snaps = shown]
           all == onFile[w]
<1>a. pc[w] = "gets" /\ ids[w] = {}
      /\ UNCHANGED <<PO!config, recorded, now, PO!limit, arrivals, req, onFile>>
  BY DEF PO!RenderRecent
<1>2. Reading(w) /\ all \subseteq Snapshot
  BY DEF ReadingInv, WorkersInv
<1>3. /\ found[w] = all /\ all \subseteq OnFile /\ \A s \in all : HostOf[s] = req[w].host
      /\ req[w].route \in {"fragment", "drift"} /\ PO!Scoped(w)
      /\ PO!Authenticate(req[w].bearer) # PO!NoToken
  BY <1>a, <1>2 DEF Reading
<1>4. PO!IsFiniteSet(all)
  BY <1>3, PO_Subset DEF StoreInv
<1>5. /\ q \in Seq(all) /\ Len(q) = PO!Cardinality(all) /\ PO!Cardinality(all) \in Nat
      /\ {q[i] : i \in DOMAIN q} = all
      /\ \A i, j \in DOMAIN q : i < j => CollectedAt[q[i]] >= CollectedAt[q[j]]
  BY <1>3, <1>4, SortedIs
<1>6. shown = q \/ (Len(q) >= 2 /\ shown = SubSeq(q, 1, 2)) \/ shown = <<>>
  OBVIOUS
<1>7. a.snaps = shown /\ a.hosts = {} /\ a.status = 200
  BY DEF PO!Empty
<1>8. PO!Respond(w, a)
  BY <1>1
<1>9. Len(q) >= 2 => /\ Len(SubSeq(q, 1, 2)) = 2 /\ DOMAIN SubSeq(q, 1, 2) = 1 .. 2
                     /\ SubSeq(q, 1, 2)[1] = q[1] /\ SubSeq(q, 1, 2)[2] = q[2]
  BY <1>5
<1>10. \A i \in DOMAIN shown : shown[i] \in all
  <2>1. CASE shown = q
    BY <1>5, <2>1
  <2>2. CASE Len(q) >= 2 /\ shown = SubSeq(q, 1, 2)
    BY <1>5, <1>9, <2>2
  <2>3. CASE shown = <<>>
    BY <2>3
  <2> QED
    BY <1>6, <2>1, <2>2, <2>3
<1>11. req[w].route = "fragment" => {shown[i] : i \in DOMAIN shown} = all
  BY <1>5
<1>12. req[w].route = "drift" => Pair(shown, all)
  <2> SUFFICES ASSUME req[w].route = "drift" PROVE Pair(shown, all)
    OBVIOUS
  <2>1. CASE Len(q) < 2
    <3>1. shown = <<>>
      BY <1>5, <2>1
    <3> QED
      BY <1>5, <2>1, <3>1 DEF Pair
  <2>2. CASE ~(Len(q) < 2)
    <3>1. /\ Len(shown) = 2 /\ DOMAIN shown = 1 .. 2 /\ shown[1] = q[1] /\ shown[2] = q[2]
      BY <1>5, <1>9, <2>2
    <3>2. 1 \in DOMAIN q /\ 2 \in DOMAIN q /\ q[1] \in Snapshot /\ q[2] \in Snapshot
      BY <1>2, <1>5, <2>2
    <3>3. ~(CollectedAt[q[2]] > CollectedAt[q[1]])
      <4>1. CollectedAt[q[1]] >= CollectedAt[q[2]]
        <5>1. 1 < 2
          OBVIOUS
        <5> QED
          BY <1>5, <3>2, <5>1
      <4>2. CollectedAt[q[1]] \in Nat /\ CollectedAt[q[2]] \in Nat
        BY <3>2 DEF PO!PortalAssumption
      <4> QED
        BY <4>1, <4>2
    <3>4. ASSUME NEW s \in all, s # q[1], s # q[2]
          PROVE  ~(CollectedAt[s] > CollectedAt[q[2]])
      <4>1. PICK j \in DOMAIN q : q[j] = s
        BY <1>5
      <4>2. 2 < j
        BY <1>5, <3>4, <4>1
      <4>3. CollectedAt[q[2]] >= CollectedAt[s]
        BY <1>5, <3>2, <4>1, <4>2
      <4> QED
        BY <1>2, <3>2, <4>3 DEF PO!PortalAssumption
    <3> HIDE DEF shown
    <3>5. {shown[i] : i \in DOMAIN shown} = {q[1], q[2]}
      BY <3>1
    <3> QED
      BY <1>5, <2>2, <3>1, <3>3, <3>4, <3>5 DEF Pair
  <2> QED
    BY <2>1, <2>2
<1> HIDE DEF a, all, shown
<1>13. phase = "serving" /\ tokens = Loaded
  BY <1>a, Served
<1>14. req[w].host \in PO!Granted(req[w].bearer)
  BY <1>3, <1>13, AuthenticateIs DEF PO!Scoped
<1>15. ScopedAnswer(req[w], a)
  BY <1>3, <1>7, <1>10, <1>14 DEF ScopedAnswer
<1>16. CompleteAnswer(req[w], a, onFile'[w])
  BY <1>a, <1>3, <1>7, <1>11, <1>12 DEF CompleteAnswer, all
<1>17. onFile' \in [Worker -> SUBSET Snapshot] /\ \A v \in Worker \ {w} : onFile'[v] = onFile[v]
  BY <1>a DEF WorkersInv
<1>18. ConfigInv' /\ StoreInv' /\ WorkersInv' /\ ReadingInv' /\ AnswersInv'
  BY <1>a, <1>8, <1>15, <1>16, <1>17, AnswersKeep
<1> QED
  BY <1>a, <1>18, LimitKept

\* The one scan that is shown is of the host that was granted.
LEMMA GetScanKeeps ==
    ASSUME PO!PortalAssumption, PortalInv, NEW w \in Worker, PO!GetScan(w)
    PROVE  PortalInv'
<1> USE DEF PortalInv
<1> DEFINE snaps == PO!GetForHost(req[w].host, req[w].scan)
           all == {r.snap : r \in recorded}
<1>a. /\ pc[w] = "get" /\ PO!Scoped(w) /\ onFile' = [onFile EXCEPT ![w] = all]
      /\ UNCHANGED <<PO!config, recorded, now, PO!limit, arrivals, req>>
  BY DEF PO!GetScan
<1>b. req[w].route = "scan" /\ PO!Authenticate(req[w].bearer) # PO!NoToken
  BY <1>a DEF ReadingInv, Reading
<1>1. phase = "serving" /\ tokens = Loaded
  BY <1>a, Served
<1>2. req[w].host \in PO!Granted(req[w].bearer)
  BY <1>a, <1>b, <1>1, AuthenticateIs DEF PO!Scoped
<1>3. \A s \in snaps : HostOf[s] = req[w].host
  BY DEF PO!GetForHost
<1>4. onFile' \in [Worker -> SUBSET Snapshot] /\ onFile'[w] = all
      /\ \A v \in Worker \ {w} : onFile'[v] = onFile[v]
  <2>1. all \subseteq Snapshot
    BY DEF StoreInv, PO!Store!Record
  <2> QED
    BY <1>a, <2>1 DEF WorkersInv
<1>5. snaps = {} => \A s \in all : ScanOf[s] = req[w].scan => HostOf[s] # req[w].host
  BY DEF PO!GetForHost
<1>6. PICK a : /\ PO!Respond(w, a) /\ ScopedAnswer(req[w], a) /\ CompleteAnswer(req[w], a, all)
  <2>1. CASE snaps = {}
    <3>1. PO!Respond(w, [PO!Empty EXCEPT !.status = 404])
      BY <2>1 DEF PO!GetScan, PO!Status
    <3> QED
      BY <1>b, <1>5, <2>1, <3>1, StatusIs, ZenonT(60)
  <2>2. CASE snaps # {}
    <3>1. PICK s \in snaps : PO!Respond(w, [PO!Empty EXCEPT !.status = 200, !.snaps = <<s>>])
      BY <2>2 DEF PO!GetScan
    <3> DEFINE a == [PO!Empty EXCEPT !.status = 200, !.snaps = <<s>>]
    <3>2. a.status = 200 /\ a.snaps = <<s>> /\ a.hosts = {}
      BY DEF PO!Empty
    <3>3. PO!Respond(w, a)
      BY <3>1
    <3> HIDE DEF a
    <3>4. \A i \in DOMAIN a.snaps : a.snaps[i] = s
      BY <3>2
    <3>5. ScopedAnswer(req[w], a)
      BY <1>2, <1>3, <3>2, <3>4 DEF ScopedAnswer
    <3>6. CompleteAnswer(req[w], a, all)
      BY <1>b, <3>2 DEF CompleteAnswer
    <3> QED
      BY <3>3, <3>5, <3>6
  <2> QED
    BY <2>1, <2>2
<1> HIDE DEF all
<1>7. ConfigInv' /\ StoreInv' /\ WorkersInv' /\ ReadingInv' /\ AnswersInv'
  BY <1>a, <1>4, <1>6, AnswersKeep
<1> QED
  BY <1>a, <1>7, LimitKept

-----------------------------------------------------------------------------
(* The rate limit *)

\* The data of a bucket.
LEMMA BucketIs ==
    ASSUME PO!PortalAssumption, now \in Nat, NEW k, NEW b, Bucket(k, b)
    PROVE  b.window_start \in 0 .. now /\ b.window_start \in Nat /\ b.count \in Nat /\ b.count =< BUDGET
<1>1. b \in [window_start : 0 .. now, count : 0 .. BUDGET]
  BY DEF Bucket
<1>2. b.window_start \in 0 .. now /\ b.count \in 0 .. BUDGET
  BY <1>1
<1> QED
  BY <1>2 DEF PO!PortalAssumption

\* The bucket that check finds, or makes: its window is not over, and it bounds what was
\* admitted as the invariant says.
LEMMA RenewedIs ==
    ASSUME PO!PortalAssumption, AdmittedInv, BucketsInv, now \in Nat, NEW k, NEW at \in 0 .. now
    PROVE  /\ Bucket(k, PO!Renewed(k, at))
           /\ at < PO!Renewed(k, at).window_start + WINDOW
<1> DEFINE fresh == [window_start |-> at, count |-> 0]
<1>1. at \in Nat /\ at =< now /\ WINDOW \in Nat /\ WINDOW > 0 /\ BUDGET \in Nat
  BY DEF PO!PortalAssumption
<1>2. \A a \in admitted : a.at \in Nat /\ a.at =< now /\ now < a.at + WINDOW
  BY DEF AdmittedInv
<1>3. PO!IsFiniteSet(Prompt(k)) /\ \A a \in Prompt(k) : a \in admitted
  <2>1. Prompt(k) \subseteq admitted
    BY DEF Prompt
  <2> QED
    BY <2>1, PO_Subset DEF AdmittedInv
<1>4. CASE k \notin DOMAIN buckets
  <2>1. PO!Renewed(k, at) = fresh
    BY <1>4 DEF PO!Renewed
  <2>2. Prompt(k) = {}
    BY <1>4 DEF Prompt, AdmittedInv
  <2>3. {a \in Prompt(k) : a.at >= at} = {} /\ {a \in Prompt(k) : a.at < at} = {}
    BY <2>2
  <2>4. Since(k, at) \subseteq admitted /\ PO!Cardinality(Since(k, at)) \in Nat
    <3>1. Since(k, at) \subseteq admitted
      BY DEF Since
    <3> QED
      BY <3>1, PO_Subset, PO_CardinalityType DEF AdmittedInv
  <2>5. fresh.window_start = at /\ fresh.count = 0
        /\ fresh \in [window_start : 0 .. now, count : 0 .. BUDGET]
    BY <1>1
  <2> HIDE DEF fresh
  <2> QED
    BY <1>1, <2>1, <2>2, <2>3, <2>4, <2>5, PO_EmptySet DEF Bucket
<1>5. CASE k \in DOMAIN buckets /\ at >= buckets[k].window_start + WINDOW
  <2> DEFINE start == buckets[k].window_start
             count == buckets[k].count
  <2>1. PO!Renewed(k, at) = fresh
    BY <1>5 DEF PO!Renewed
  <2>2. Bucket(k, buckets[k]) /\ start \in Nat /\ count \in Nat /\ count =< BUDGET
    <3>1. Bucket(k, buckets[k])
      BY <1>5 DEF BucketsInv
    <3> QED
      BY <3>1, BucketIs
  <2>3. \A a \in Prompt(k) : a.at >= start /\ a.at < at
    BY <1>1, <1>2, <1>3, <1>5, <2>2 DEF Bucket
  <2>4. /\ {a \in Prompt(k) : a.at >= at} = {} /\ {a \in Prompt(k) : a.at < at} = Prompt(k)
        /\ {a \in Prompt(k) : a.at >= start} = Prompt(k)
    BY <1>1, <1>2, <1>3, <2>3
  <2>5. PO!Cardinality(Prompt(k)) =< BUDGET
    <3>1. PO!Cardinality(Prompt(k)) =< count
      BY <2>2, <2>4 DEF Bucket
    <3>2. PO!Cardinality(Prompt(k)) \in Nat
      BY <1>3, PO_CardinalityType
    <3> HIDE DEF count
    <3> QED
      BY <1>1, <2>2, <3>1, <3>2
  <2>6. Since(k, at) \subseteq admitted /\ PO!Cardinality(Since(k, at)) \in Nat
    <3>1. Since(k, at) \subseteq admitted
      BY DEF Since
    <3> QED
      BY <3>1, PO_Subset, PO_CardinalityType DEF AdmittedInv
  <2>7. fresh.window_start = at /\ fresh.count = 0
        /\ fresh \in [window_start : 0 .. now, count : 0 .. BUDGET]
    BY <1>1
  <2>8. \A a \in Prompt(k) : a.at < at + WINDOW
    BY <1>1, <1>2, <1>3, <2>3
  <2> HIDE DEF fresh
  <2>9. PO!Cardinality({a \in Prompt(k) : a.at >= at}) = 0
    BY <2>4, PO_EmptySet
  <2>10. PO!Cardinality({a \in Prompt(k) : a.at < at}) =< BUDGET
    BY <2>4, <2>5
  <2>11. Bucket(k, fresh)
    BY <1>1, <2>6, <2>7, <2>8, <2>9, <2>10 DEF Bucket
  <2> QED
    BY <1>1, <2>1, <2>7, <2>11
<1>6. CASE k \in DOMAIN buckets /\ ~(at >= buckets[k].window_start + WINDOW)
  <2>1. PO!Renewed(k, at) = buckets[k]
    BY <1>6 DEF PO!Renewed
  <2>2. Bucket(k, buckets[k])
    BY <1>6 DEF BucketsInv
  <2>3. buckets[k].window_start \in Nat
    BY <2>2, BucketIs
  <2> QED
    BY <1>1, <1>6, <2>1, <2>2, <2>3
<1> QED
  BY <1>4, <1>5, <1>6

\* The buckets of the other callers are as they were.
LEMMA OthersKeep ==
    ASSUME BucketsInv, NEW k, NEW j \in DOMAIN buckets \ {k}, UNCHANGED now,
           buckets'[j] = buckets[j],
           \A a \in admitted : a \in admitted', \A a \in admitted' \ admitted : a.caller = k
    PROVE  Bucket(j, buckets[j])'
<1>1. Bucket(j, buckets[j])
  BY DEF BucketsInv
<1>2. Prompt(j)' = Prompt(j)
  BY DEF Prompt
<1>3. Since(j, buckets[j].window_start)' = Since(j, buckets[j].window_start)
  BY DEF Since
<1> QED
  BY <1>1, <1>2, <1>3 DEF Bucket

\* A request is admitted: it is counted, in its bucket and by the window's properties.
LEMMA AdmittedIs ==
    ASSUME PO!PortalAssumption, AdmittedInv, now \in Nat, UNCHANGED now, NEW k, NEW b,
           Bucket(k, b), b.count < BUDGET, NEW at \in 0 .. now, at < b.window_start + WINDOW,
           NEW e, e = [caller |-> k, at |-> now, prompt |-> at = now,
                       nth |-> PO!Cardinality(admitted)],
           admitted' = admitted \union {e}
    PROVE  /\ e \notin admitted
           /\ PO!IsFiniteSet(admitted') /\ PO!Cardinality(admitted') = PO!Cardinality(admitted) + 1
           /\ PO!Cardinality(admitted) \in Nat
           /\ Bucket(k, [b EXCEPT !.count = @ + 1])'
<1> DEFINE start == b.window_start
           count == b.count
           more == [b EXCEPT !.count = @ + 1]
<1>a. e.caller = k /\ e.at = now /\ (e.prompt => at = now) /\ e.nth = PO!Cardinality(admitted)
  OBVIOUS
<1>b. /\ WINDOW \in Nat /\ BUDGET \in Nat /\ start \in Nat /\ start =< now /\ count \in Nat
      /\ b \in [window_start : 0 .. now, count : 0 .. BUDGET] /\ at \in Nat
  BY DEF PO!PortalAssumption, Bucket
<1>1. PO!IsFiniteSet(admitted) /\ PO!Cardinality(admitted) \in Nat
  BY PO_CardinalityType DEF AdmittedInv
<1>2. e \notin admitted
  BY <1>a, <1>1 DEF AdmittedInv
<1>3. PO!IsFiniteSet(admitted') /\ PO!Cardinality(admitted') = PO!Cardinality(admitted) + 1
  <2>1. PO!IsFiniteSet(admitted \union {e})
        /\ PO!Cardinality(admitted \union {e}) = PO!Cardinality(admitted) + 1
    BY <1>1, <1>2, PO_AddElement
  <2> QED
    BY <2>1
<1>4. more.window_start = start /\ more.count = count + 1
      /\ more \in [window_start : 0 .. now, count : 0 .. BUDGET]
  BY <1>b
<1>5. Prompt(k) \subseteq admitted /\ Since(k, start) \subseteq admitted
      /\ PO!IsFiniteSet(Prompt(k)) /\ PO!IsFiniteSet(Since(k, start))
  <2>1. Prompt(k) \subseteq admitted /\ Since(k, start) \subseteq admitted
    BY DEF Prompt, Since
  <2> QED
    BY <1>1, <2>1, PO_Subset
<1>6. Prompt(k)' \subseteq Prompt(k) \union {e}
  BY DEF Prompt
<1>7. Since(k, start)' = Since(k, start) \union {e}
  BY <1>a, <1>b DEF Since
<1> HIDE DEF more
<1>8. \A a \in Prompt(k)' : a.at < start + WINDOW
  <2>1. e \in Prompt(k)' => e.at < start + WINDOW
    BY <1>a DEF Prompt
  <2>2. \A a \in Prompt(k) : a.at < start + WINDOW
    BY DEF Bucket
  <2> QED
    BY <1>6, <2>1, <2>2
<1>9. PO!Cardinality({a \in Prompt(k)' : a.at >= start}) =< count + 1
  <2> DEFINE A == {a \in Prompt(k)' : a.at >= start}
             B == {a \in Prompt(k) : a.at >= start}
  <2>1. A \subseteq B \union {e} /\ B \subseteq Prompt(k)
    BY <1>6
  <2>2. PO!IsFiniteSet(B) /\ PO!Cardinality(B) \in Nat
    BY <1>5, <2>1, PO_Subset, PO_CardinalityType
  <2>3. PO!IsFiniteSet(B \union {e}) /\ PO!Cardinality(B \union {e}) =< PO!Cardinality(B) + 1
        /\ PO!Cardinality(B \union {e}) \in Nat
    <3>1. e \notin B
      BY <1>2, <1>5
    <3> HIDE DEF B
    <3>2. PO!IsFiniteSet(B \union {e}) /\ PO!Cardinality(B \union {e}) = PO!Cardinality(B) + 1
      BY <2>2, <3>1, PO_AddElement
    <3> QED
      BY <2>2, <3>2
  <2>4. PO!Cardinality(A) \in Nat /\ PO!Cardinality(A) =< PO!Cardinality(B \union {e})
    BY <2>1, <2>3, PO_Subset, PO_CardinalityType
  <2>5. PO!Cardinality(B) =< count
    BY DEF Bucket
  <2> HIDE DEF A, B, count
  <2> QED
    BY <1>b, <2>2, <2>3, <2>4, <2>5 DEF A
<1>10. PO!Cardinality({a \in Prompt(k)' : a.at < start}) =< BUDGET
  <2> DEFINE A == {a \in Prompt(k)' : a.at < start}
             B == {a \in Prompt(k) : a.at < start}
  <2>1. A \subseteq B /\ B \subseteq Prompt(k)
    BY <1>a, <1>b, <1>6
  <2>2. PO!IsFiniteSet(B) /\ PO!Cardinality(B) \in Nat
    BY <1>5, <2>1, PO_Subset, PO_CardinalityType
  <2>3. PO!Cardinality(A) \in Nat /\ PO!Cardinality(A) =< PO!Cardinality(B)
    BY <2>1, <2>2, PO_Subset, PO_CardinalityType
  <2>4. PO!Cardinality(B) =< BUDGET
    BY DEF Bucket
  <2> HIDE DEF A, B
  <2> QED
    BY <1>b, <2>2, <2>3, <2>4 DEF A
<1>11. now < start + WINDOW => count + 1 =< PO!Cardinality(Since(k, start)')
  <2>1. e \notin Since(k, start)
    BY <1>2, <1>5
  <2>2. /\ PO!Cardinality(Since(k, start) \union {e}) = PO!Cardinality(Since(k, start)) + 1
        /\ PO!Cardinality(Since(k, start)) \in Nat
    BY <1>5, <2>1, PO_AddElement, PO_CardinalityType
  <2>3. now < start + WINDOW => count =< PO!Cardinality(Since(k, start))
    BY DEF Bucket
  <2> HIDE DEF count
  <2> QED
    BY <1>b, <1>7, <2>2, <2>3
<1>12. Bucket(k, more)'
  BY <1>4, <1>8, <1>9, <1>10, <1>11 DEF Bucket
<1> QED
  BY <1>1, <1>2, <1>3, <1>12 DEF more

\* A request is counted in the bucket of its caller, or turned away.
LEMMA EnforceKeeps ==
    ASSUME PO!PortalAssumption, PortalInv, NEW w \in Worker, PO!Enforce(w)
    PROVE  PortalInv'
<1> USE DEF PortalInv
<1>k. PICK key : key = PO!BudgetKey(req[w])
  OBVIOUS
<1>l. PICK bucket : bucket = PO!Renewed(key, stamp[w])
  OBVIOUS
<1>m. PICK e : e = [caller |-> key, at |-> now, prompt |-> stamp[w] = now,
                    nth |-> PO!Cardinality(admitted)]
  OBVIOUS
<1>a. pc[w] = "limit" /\ UNCHANGED <<PO!config, recorded, now, arrivals, req, onFile>>
  BY DEF PO!Enforce
<1>b. buckets' = [k \in DOMAIN buckets \union {key} |->
                    IF k = key THEN PO!Counted(bucket) ELSE buckets[k]]
  BY <1>k, <1>l DEF PO!Enforce
<1>c. phase = "serving" /\ tokens = Loaded
  BY <1>a, Served
<1>d. key = PO!Caller(req[w])
  BY <1>c, <1>k, BudgetKeyIs
<1>e. now \in Nat /\ stamp[w] \in 0 .. now
  BY DEF WorkersInv, PO!PortalAssumption
<1>f. Bucket(key, bucket) /\ stamp[w] < bucket.window_start + WINDOW
  BY <1>e, <1>l, RenewedIs
<1>1. CASE bucket.count < BUDGET
  <2>1. /\ pc' = [pc EXCEPT ![w] = "route"] /\ admitted' = admitted \union {e}
        /\ UNCHANGED <<response, ids, found, stamp>>
    BY <1>1, <1>d, <1>k, <1>l, <1>m DEF PO!Enforce, PO!Goto
  <2>2. /\ e \notin admitted
        /\ PO!IsFiniteSet(admitted') /\ PO!Cardinality(admitted') = PO!Cardinality(admitted) + 1
        /\ PO!Cardinality(admitted) \in Nat
        /\ Bucket(key, [bucket EXCEPT !.count = @ + 1])'
    <3>1. UNCHANGED now
      BY <1>a
    <3> QED
      BY <1>1, <1>e, <1>f, <1>m, <2>1, <3>1, AdmittedIs
  <2>3. ConfigInv'
    BY <1>a, <1>c, ConfigKept
  <2>4. StoreInv'
    BY <1>a DEF StoreInv, OnFile
  <2>5. WorkersInv'
    BY <1>a, <2>1 DEF WorkersInv, PO!Places
  <2>6. ReadingInv' /\ AnswersInv'
    <3>1. \A v \in Worker \ {w} : /\ pc'[v] = pc[v] /\ req'[v] = req[v] /\ ids'[v] = ids[v]
                                  /\ found'[v] = found[v] /\ onFile'[v] = onFile[v]
                                  /\ response'[v] = response[v]
      BY <1>a, <2>1 DEF WorkersInv
    <3>2. pc'[w] = "route"
      BY <2>1 DEF WorkersInv
    <3>3. Reading(w)'
      BY <3>2 DEF Reading
    <3> QED
      BY <1>a, <3>1, <3>2, <3>3, PortalMoves
  <2>7. AdmittedInv'
    <3>1. SUFFICES ASSUME NEW a \in admitted'
                   PROVE  /\ a.at \in Nat /\ a.at =< now' /\ now' < a.at + WINDOW
                          /\ a.nth \in Nat /\ (a.at = now' => a.nth < PO!Cardinality(admitted'))
                          /\ a.caller \in DOMAIN buckets'
      BY <2>2 DEF AdmittedInv
    <3>2. now' = now /\ WINDOW \in Nat /\ WINDOW > 0
      BY <1>a DEF PO!PortalAssumption
    <3>3. CASE a = e
      <4>1. a.at = now /\ a.nth = PO!Cardinality(admitted) /\ a.caller = key
        BY <1>m, <3>3
      <4> QED
        BY <1>b, <1>e, <2>2, <3>2, <4>1
    <3>4. CASE a \in admitted
      <4>1. /\ a.at \in Nat /\ a.at =< now /\ now < a.at + WINDOW
            /\ a.nth \in Nat /\ (a.at = now => a.nth < PO!Cardinality(admitted))
            /\ a.caller \in DOMAIN buckets
        BY <3>4 DEF AdmittedInv
      <4> QED
        BY <1>b, <2>2, <3>2, <4>1
    <3> QED
      BY <2>1, <3>1, <3>3, <3>4
  <2>8. BucketsInv'
    <3>1. SUFFICES ASSUME NEW k \in DOMAIN buckets' PROVE Bucket(k, buckets[k])'
      BY DEF BucketsInv
    <3>2. CASE k = key
      <4>1. buckets'[k] = [bucket EXCEPT !.count = @ + 1]
        BY <1>1, <1>b, <3>2 DEF PO!Counted
      <4> QED
        BY <2>2, <3>2, <4>1
    <3>3. CASE k # key
      <4>1. k \in DOMAIN buckets \ {key} /\ buckets'[k] = buckets[k]
        BY <1>b, <3>1, <3>3
      <4>2. UNCHANGED now /\ \A a \in admitted : a \in admitted'
        BY <1>a, <2>1
      <4>3. \A a \in admitted' \ admitted : a.caller = key
        BY <1>m, <2>1
      <4> QED
        BY <4>1, <4>2, <4>3, OthersKeep
    <3> QED
      BY <3>2, <3>3
  <2> QED
    BY <2>3, <2>4, <2>5, <2>6, <2>7, <2>8
<1>2. CASE ~(bucket.count < BUDGET)
  <2>1. PO!Status(w, 429) /\ UNCHANGED admitted
    BY <1>2, <1>k, <1>l DEF PO!Enforce
  <2>2. PO!Counted(bucket) = bucket
    BY <1>2 DEF PO!Counted
  <2> DEFINE a == [PO!Empty EXCEPT !.status = 429]
  <2>3. PO!Respond(w, a)
    BY <2>1 DEF PO!Status
  <2>4. ScopedAnswer(req[w], a) /\ CompleteAnswer(req[w], a, onFile'[w])
    <3>1. \A code : (code # 200 /\ code # 404) =>
                        /\ ScopedAnswer(req[w], [PO!Empty EXCEPT !.status = code])
                        /\ CompleteAnswer(req[w], [PO!Empty EXCEPT !.status = code], onFile'[w])
      BY StatusIs
    <3> QED
      BY <3>1
  <2> HIDE DEF a
  <2>5. onFile' \in [Worker -> SUBSET Snapshot] /\ \A v \in Worker \ {w} : onFile'[v] = onFile[v]
    BY <1>a DEF WorkersInv
  <2>6. ConfigInv' /\ StoreInv' /\ WorkersInv' /\ ReadingInv' /\ AnswersInv'
    BY <1>a, <2>3, <2>4, <2>5, AnswersKeep
  <2>7. AdmittedInv'
    BY <1>a, <1>b, <2>1 DEF AdmittedInv
  <2>8. BucketsInv'
    <3>1. SUFFICES ASSUME NEW k \in DOMAIN buckets' PROVE Bucket(k, buckets[k])'
      BY DEF BucketsInv
    <3>2. CASE k = key
      <4>1. buckets'[k] = bucket /\ now' = now /\ admitted' = admitted
        BY <1>a, <1>b, <2>1, <2>2, <3>2
      <4> QED
        BY <1>f, <3>2, <4>1 DEF Bucket, Prompt, Since
    <3>3. CASE k # key
      <4>1. k \in DOMAIN buckets \ {key} /\ buckets'[k] = buckets[k]
        BY <1>b, <3>1, <3>3
      <4> QED
        BY <1>a, <2>1, <4>1, OthersKeep
    <3> QED
      BY <3>2, <3>3
  <2> QED
    BY <2>6, <2>7, <2>8
<1> QED
  BY <1>1, <1>2

\* Every step of the portal keeps the invariant: one lemma per action above.
LEMMA PortalStepKeeps == PO!PortalAssumption /\ PortalInv /\ [PO!Next]_PO!vars => PortalInv'
<1> SUFFICES ASSUME PO!PortalAssumption, PortalInv, [PO!Next]_PO!vars PROVE PortalInv'
  OBVIOUS
<1>1. CASE PO!Load
  BY <1>1, LoadKeeps
<1>2. CASE PO!Tick
  BY <1>2, TickKeeps
<1>3. CASE \E s \in Snapshot : PO!Put(s)
  BY <1>3, PutKeeps
<1>4. ASSUME NEW w \in Worker, NEW q \in Request, PO!Arrive(w, q) PROVE PortalInv'
  BY <1>4, ArriveKeeps
<1>5. ASSUME NEW w \in Worker, PO!Enforce(w) PROVE PortalInv'
  BY <1>5, EnforceKeeps
<1>6. ASSUME NEW w \in Worker, PO!Route(w) PROVE PortalInv'
  BY <1>6, RouteKeeps
<1>7. ASSUME NEW w \in Worker, PO!Forbid(w) PROVE PortalInv'
  BY <1>7, ForbidKeeps
<1>8. ASSUME NEW w \in Worker, PO!ListForHost(w) PROVE PortalInv'
  BY <1>8, ListForHostKeeps
<1>9. ASSUME NEW w \in Worker, PO!GetNext(w) PROVE PortalInv'
  BY <1>9, GetNextKeeps
<1>10. ASSUME NEW w \in Worker, PO!RenderRecent(w) PROVE PortalInv'
  BY <1>10, RenderRecentKeeps
<1>11. ASSUME NEW w \in Worker, PO!GetScan(w) PROVE PortalInv'
  BY <1>11, GetScanKeeps
<1>12. ASSUME NEW w \in Worker, PO!Fail(w) PROVE PortalInv'
  BY <1>12, FailKeeps
<1>13. ASSUME NEW w \in Worker, PO!Deliver(w) PROVE PortalInv'
  BY <1>13, DeliverKeeps
<1>14. CASE UNCHANGED PO!vars
  <2>1. UNCHANGED <<PO!config, recorded, now, PO!limit, arrivals, pc, req, stamp, PO!reads,
                      response>>
    BY <1>14 DEF PO!vars
  <2>2. ConfigInv' /\ StoreInv' /\ WorkersInv'
    BY <2>1 DEF PortalInv, ConfigInv, PO!config, Loaded, StoreInv, OnFile, WorkersInv, PO!reads
  <2>3. ReadingInv'
    BY <2>1, ReadingKept DEF PortalInv, ReadingInv, PO!config, PO!reads
  <2>4. AnswersInv'
    BY <2>1, AnswersUntouched DEF PortalInv, PO!config, PO!reads
  <2>5. AdmittedInv' /\ BucketsInv'
    BY <2>1, LimitKept DEF PortalInv
  <2> QED
    BY <2>2, <2>3, <2>4, <2>5 DEF PortalInv
<1> QED
  BY <1>1, <1>2, <1>3, <1>4, <1>5, <1>6, <1>7, <1>8, <1>9, <1>10, <1>11, <1>12, <1>13, <1>14
     DEF PO!Next, PO!Over

\* The invariant holds in every state the portal reaches.
LEMMA PortalInvariance ==
    ASSUME PO!PortalAssumption
    PROVE  PO!Spec => []PortalInv
<1>1. PO!Init => PortalInv
  BY PortalInit
<1>2. PortalInv /\ [PO!Next]_PO!vars => PortalInv'
  BY PortalStepKeeps
<1> QED
  BY <1>1, <1>2, PTL DEF PO!Spec

-----------------------------------------------------------------------------
(* What it is for *)

\* What the invariant says of each variable makes it the variable's type.
LEMMA PortalIsTyped == PO!PortalAssumption /\ PortalInv => PO!TypeOK
<1> SUFFICES ASSUME PO!PortalAssumption, PortalInv PROVE PO!TypeOK
  OBVIOUS
<1>1. ConfigInv /\ StoreInv /\ WorkersInv
  BY DEF PortalInv
<1>2. now \in Nat
  BY <1>1 DEF WorkersInv, PO!PortalAssumption
<1>3. ASSUME NEW k \in DOMAIN buckets
      PROVE  buckets[k].window_start \in 0 .. now /\ buckets[k].count \in 0 .. BUDGET
  <2>1. Bucket(k, buckets[k])
    BY DEF PortalInv, BucketsInv
  <2>2. buckets[k] \in [window_start : 0 .. now, count : 0 .. BUDGET]
    BY <2>1 DEF Bucket
  <2> QED
    BY <2>2
<1> QED
  BY <1>1, <1>3 DEF PO!TypeOK, ConfigInv, StoreInv, WorkersInv

\* Scoped answers are what the invariant says of every worker.
LEMMA InvScopesReads == PortalInv => PO!ReadsAreScoped
BY DEF PortalInv, AnswersInv, ScopedAnswer, PO!ReadsAreScoped

\* No answer shows a snapshot of another host, or a host that was not granted to the secret
\* that came with the request (AuthorizingRepository, the AuthContext extractor).
THEOREM ReadsScoped == PO!PortalAssumption => (PO!Spec => []PO!ReadsAreScoped)
<1> SUFFICES ASSUME PO!PortalAssumption PROVE PO!Spec => []PO!ReadsAreScoped
  OBVIOUS
<1> QED
  BY InvScopesReads, PortalInvariance, PTL

\* A sorted listing of what was on file is complete, and its head the newest.
LEMMA InvCompletesViews == PortalInv => PO!ViewsAreComplete
<1> SUFFICES ASSUME PortalInv, NEW w \in Worker, PO!Answered(w),
                    CompleteAnswer(req[w], response[w].answer, onFile[w])
             PROVE  LET q == req[w]
                        a == response[w].answer
                        Shown == {a.snaps[i] : i \in DOMAIN a.snaps}
                        Newer(s, t) == CollectedAt[s] > CollectedAt[t]
                    IN  /\ (a.status = 200 /\ q.route = "fragment") => Shown = onFile[w]
                        /\ (a.status = 200 /\ q.route = "drift") =>
                             /\ Len(a.snaps) = (IF PO!Cardinality(onFile[w]) < 2 THEN 0 ELSE 2)
                             /\ Len(a.snaps) = 2 =>
                                  /\ ~Newer(a.snaps[2], a.snaps[1])
                                  /\ \A s \in onFile[w] \ Shown : ~Newer(s, a.snaps[2])
                        /\ (q.route = "scan" /\ a.status = 404) =>
                             \A s \in onFile[w] : ScanOf[s] = q.scan => HostOf[s] # q.host
  BY DEF PortalInv, AnswersInv, PO!ViewsAreComplete
<1> QED
  BY DEF CompleteAnswer, Pair

\* A history is all that was on file of the host when it was listed, and the drift view compares
\* the two newest of it (recent_snapshots, drift_view, scan_detail).
THEOREM ViewsComplete == PO!PortalAssumption => (PO!Spec => []PO!ViewsAreComplete)
<1> SUFFICES ASSUME PO!PortalAssumption PROVE PO!Spec => []PO!ViewsAreComplete
  OBVIOUS
<1> QED
  BY InvCompletesViews, PortalInvariance, PTL

\* One budget before the start of the bucket's window and one since make two.
LEMMA InvLimits == PO!PortalAssumption /\ PortalInv => PO!AtMostTwoBudgets
<1> SUFFICES ASSUME PO!PortalAssumption, PortalInv, NEW a \in admitted
             PROVE  PO!Cardinality({b \in admitted : b.caller = a.caller /\ b.prompt}) =< 2 * BUDGET
  BY DEF PO!AtMostTwoBudgets
<1>1. AdmittedInv /\ BucketsInv /\ now \in Nat /\ BUDGET \in Nat
  BY DEF PortalInv, WorkersInv, PO!PortalAssumption
<1>2. PICK k : k = a.caller
  OBVIOUS
<1>3. PICK bucket : bucket = buckets[k]
  OBVIOUS
<1>4. Bucket(k, bucket)
  BY <1>1, <1>2, <1>3 DEF AdmittedInv, BucketsInv
<1> DEFINE start == bucket.window_start
           A == {b \in Prompt(k) : b.at >= start}
           B == {b \in Prompt(k) : b.at < start}
<1>5. start \in Nat /\ bucket.count \in Nat /\ bucket.count =< BUDGET
  BY <1>1, <1>4, BucketIs
<1>6. PO!Cardinality(A) =< bucket.count /\ PO!Cardinality(B) =< BUDGET
  BY <1>4 DEF Bucket
<1>7. Prompt(k) \subseteq admitted /\ Prompt(k) = A \union B
  BY <1>1, <1>5 DEF Prompt, AdmittedInv
<1>8. PO!IsFiniteSet(A) /\ PO!IsFiniteSet(B)
  BY <1>1, <1>7, PO_Subset DEF AdmittedInv
<1> HIDE DEF A, B
<1>9. PO!Cardinality(A \union B) = PO!Cardinality(A) + PO!Cardinality(B) - PO!Cardinality(A \cap B)
  BY <1>8, PO_Union
<1>10. PO!Cardinality(A) \in Nat /\ PO!Cardinality(B) \in Nat /\ PO!Cardinality(A \cap B) \in Nat
  <2>1. PO!IsFiniteSet(A \cap B)
    BY <1>8, PO_Intersection
  <2> QED
    BY <1>8, <2>1, PO_CardinalityType
<1>11. PO!Cardinality(Prompt(k)) =< 2 * BUDGET
  BY <1>1, <1>5, <1>6, <1>7, <1>9, <1>10
<1>12. Prompt(k) = {b \in admitted : b.caller = a.caller /\ b.prompt}
  BY <1>2 DEF Prompt
<1> QED
  BY <1>11, <1>12

\* No caller has more than two budgets of requests let through in the time of one window
\* (RateLimiter::check), for any budget and any window.
THEOREM TwoBudgetsAtMost == PO!PortalAssumption => (PO!Spec => []PO!AtMostTwoBudgets)
<1> SUFFICES ASSUME PO!PortalAssumption PROVE PO!Spec => []PO!AtMostTwoBudgets
  OBVIOUS
<1>1. PortalInv => PO!AtMostTwoBudgets
  BY InvLimits
<1> QED
  BY <1>1, PortalInvariance, PTL

\* Who is answered out of the limiter is turned away by it.
LEMMA OnlyEnforceAnswers ==
    ASSUME WorkersInv, [PO!Next]_PO!vars, NEW w \in Worker, pc[w] = "limit", pc'[w] = "answered"
    PROVE  PO!Enforce(w)
<1>1. ASSUME NEW v \in Worker, v # w, NEW there, pc' = [pc EXCEPT ![v] = there] PROVE FALSE
  BY <1>1 DEF WorkersInv
<1>2. pc' # pc
  OBVIOUS
<1>3. ~PO!Load /\ ~PO!Tick /\ ~UNCHANGED PO!vars /\ \A s \in Snapshot : ~PO!Put(s)
  BY <1>2 DEF PO!Load, PO!Tick, PO!Put, PO!vars
<1>4. ASSUME NEW v \in Worker, v # w
      PROVE  /\ \A q \in Request : ~PO!Arrive(v, q)
             /\ ~(PO!Enforce(v) \/ PO!Route(v) \/ PO!Forbid(v) \/ PO!ListForHost(v) \/ PO!GetNext(v)
                    \/ PO!RenderRecent(v) \/ PO!GetScan(v) \/ PO!Fail(v) \/ PO!Deliver(v))
  <2>1. ~(pc' = [pc EXCEPT ![v] = "limit"]) /\ ~(pc' = [pc EXCEPT ![v] = "answered"])
        /\ \A there : ~(pc' = [pc EXCEPT ![v] = there])
    BY <1>1, <1>4
  <2>2. /\ \A q \in Request : ~PO!Arrive(v, q)
        /\ \A there : ~PO!Goto(v, there)
        /\ \A a : ~PO!Respond(v, a)
        /\ \A code : ~PO!Status(v, code)
        /\ ~PO!GetNext(v)
    BY <1>2, <2>1 DEF PO!Arrive, PO!Goto, PO!Respond, PO!Status, PO!GetNext
  <2> QED
    BY <2>2, ZenonT(60) DEF PO!Enforce, PO!Route, PO!Forbid, PO!ListForHost,
         PO!RenderRecent, PO!GetScan, PO!Fail, PO!Deliver
<1>5. /\ \A q \in Request : ~PO!Arrive(w, q)
      /\ ~(PO!Route(w) \/ PO!Forbid(w) \/ PO!ListForHost(w) \/ PO!GetNext(w)
             \/ PO!RenderRecent(w) \/ PO!GetScan(w) \/ PO!Fail(w) \/ PO!Deliver(w))
  BY DEF PO!Arrive, PO!Route, PO!Forbid, PO!ListForHost, PO!GetNext, PO!RenderRecent,
         PO!GetScan, PO!Fail, PO!Deliver
<1> QED
  BY <1>3, <1>4, <1>5 DEF PO!Next, PO!Over

\* A request that is turned away finds a whole budget of its caller's within the last window.
LEMMA StepDeniesOnlyOwn ==
    ASSUME PO!PortalAssumption, PortalInv, [PO!Next]_PO!vars, NEW w \in Worker,
           pc[w] = "limit", pc'[w] = "answered", stamp[w] = now
    PROVE  PO!Cardinality({a \in admitted : a.caller = PO!Caller(req[w])}) >= BUDGET
<1>1. /\ AdmittedInv /\ BucketsInv /\ now \in Nat /\ BUDGET \in Nat /\ stamp[w] \in 0 .. now
      /\ WINDOW \in Nat
  BY DEF PortalInv, WorkersInv, PO!PortalAssumption
<1>2. PO!Enforce(w)
  BY OnlyEnforceAnswers DEF PortalInv
<1>3. PICK k : k = PO!BudgetKey(req[w])
  OBVIOUS
<1>4. k = PO!Caller(req[w])
  <2>1. tokens = Loaded
    BY Served DEF PortalInv
  <2> QED
    BY <1>3, <2>1, BudgetKeyIs
<1>5. PICK bucket : bucket = PO!Renewed(k, stamp[w])
  OBVIOUS
<1>6. Bucket(k, bucket) /\ now < bucket.window_start + WINDOW
  BY <1>1, <1>5, RenewedIs
<1>7. ~(bucket.count < BUDGET)
  <2> SUFFICES ASSUME bucket.count < BUDGET PROVE FALSE
    OBVIOUS
  <2>1. pc' = [pc EXCEPT ![w] = "route"]
    BY <1>2, <1>3, <1>5 DEF PO!Enforce, PO!Goto
  <2> QED
    BY <2>1 DEF PortalInv, WorkersInv
<1>8. bucket.window_start \in Nat /\ bucket.count \in Nat
  BY <1>1, <1>6, BucketIs
<1> DEFINE own == {a \in admitted : a.caller = k}
<1>9. bucket.count =< PO!Cardinality(Since(k, bucket.window_start))
  BY <1>6 DEF Bucket
<1>10. /\ PO!Cardinality(Since(k, bucket.window_start)) \in Nat /\ PO!Cardinality(own) \in Nat
       /\ PO!Cardinality(Since(k, bucket.window_start)) =< PO!Cardinality(own)
  <2>1. own \subseteq admitted /\ Since(k, bucket.window_start) \subseteq own
    BY DEF Since
  <2>2. PO!IsFiniteSet(own)
    BY <1>1, <2>1, PO_Subset DEF AdmittedInv
  <2> HIDE DEF own
  <2> QED
    BY <2>1, <2>2, PO_Subset, PO_CardinalityType
<1> HIDE DEF own
<1>11. PO!Cardinality(own) >= BUDGET
  BY <1>1, <1>7, <1>8, <1>9, <1>10
<1> QED
  BY <1>4, <1>11 DEF own

\* A step of another component is a stuttering step of the portal.
LEMMA PortalStutters == UNCHANGED portal_all => UNCHANGED PO!vars
BY DEF portal_all, PO!vars, PO!config, PO!limit, PO!reads

\* A step of the portal, or of another component, keeps the portal's invariant.
LEMMA PortalNext ==
    PO!PortalAssumption /\ PortalInv /\ (PO!Next \/ UNCHANGED portal_all) => PortalInv'
BY PortalStutters, PortalStepKeeps

\* The portal's invariant gives its type, its scoping, its views and its limits.
LEMMA PortalInvIsEnough ==
    PO!PortalAssumption /\ PortalInv =>
        PO!TypeOK /\ PO!ReadsAreScoped /\ PO!ViewsAreComplete /\ PO!AtMostTwoBudgets
BY PortalIsTyped, InvScopesReads, InvCompletesViews, InvLimits

\* The action property of the portal, seen from a composition.
LEMMA PortalDenies ==
    ASSUME PO!PortalAssumption, PortalInv, PO!Next \/ UNCHANGED portal_all, NEW w \in Worker,
           pc[w] = "limit", pc'[w] = "answered", stamp[w] = now
    PROVE  PO!Cardinality({a \in admitted : a.caller = PO!Caller(req[w])}) >= BUDGET
BY PortalStutters, StepDeniesOnlyOwn

=============================================================================
