----------------------- MODULE CompactContainerProofs -----------------------
(***************************************************************************)
(* Compact_container keeps its slots, counters, order and stamps through   *)
(* every sequence of calls on any number of containers.  The invariant     *)
(* says of each container that its chain lists its slots and its free list *)
(* those that are marked free, that the counters are the numbers of both   *)
(* kinds, that what is in insertion order is followed by the free list,    *)
(* and that the clock is above all the stamps, which differ, of free slots *)
(* too: a recycled slot keeps its stamp.  Of all of them it says that they *)
(* share the heap.  A call changes one container (ChangeOne), or lets two  *)
(* change places or merge (ChangePlaces, ChangeMerged).  That subscripts   *)
(* find the elements takes a second invariant, Regulars, on the lengths of *)
(* the blocks, and the inverse of the growth policy (IndexAndBlockIs).     *)
(***************************************************************************)
EXTENDS CompactContainer, DataLemmas, SequenceTheorems

-----------------------------------------------------------------------------
(***************************************************************************)
(* Chains of blocks: FlattenSeq joins them one after the other.            *)
(***************************************************************************)
(* Joined(f, q, n): f joins the first sequences of q one after the other. *)
Joined(f, q, n) == f[0] = <<>> /\ \A i \in 0 .. n - 1 : f[i + 1] = f[i] \o q[i + 1]

(* One after the other, named so that the provers do not look into it. *)
Both(x, y) == x \o y

(* Joining is associative. *)
LEMMA Together ==
  ASSUME NEW S, NEW x \in Seq(S), NEW y \in Seq(S), NEW z \in Seq(S)
  PROVE  Both(Both(x, y), z) = Both(x, Both(y, z))
BY ConcatAssociative DEF Both

(* The blocks of a chain can be joined one after the other. *)
LEMMA JoinedExists ==
  ASSUME NEW S, NEW q \in Seq(Seq(S))
  PROVE  \E f \in [0 .. Len(q) -> Seq(S)] : Joined(f, q, Len(q))
<1>1. PICK n : n = Len(q)
  OBVIOUS
<1>2. n \in Nat /\ \A i \in 1 .. n : q[i] \in Seq(S)
  BY <1>1
<1> DEFINE Some == {m \in Nat : m <= n => \E f \in [0 .. m -> Seq(S)] : Joined(f, q, m)}
<1>3. 0 \in Some
  <2>1. PICK f : f = [i \in 0 .. 0 |-> <<>>]
    OBVIOUS
  <2>2. f \in [0 .. 0 -> Seq(S)] /\ f[0] = <<>> /\ \A i \in 0 .. 0 - 1 : FALSE
    BY <2>1
  <2>. QED BY <2>2 DEF Joined
<1>4. ASSUME NEW m \in Nat, m \in Some PROVE m + 1 \in Some
  <2>1. SUFFICES ASSUME m + 1 <= n
                 PROVE  \E f \in [0 .. m + 1 -> Seq(S)] : Joined(f, q, m + 1)
    OBVIOUS
  <2>2. PICK f \in [0 .. m -> Seq(S)] : Joined(f, q, m)
    BY <1>2, <1>4, <2>1
  <2>3. PICK e : e = [i \in 0 .. m + 1 |-> IF i = m + 1 THEN f[m] \o q[m + 1] ELSE f[i]]
    OBVIOUS
  <2>4. f[m] \in Seq(S) /\ q[m + 1] \in Seq(S)
    BY <1>2, <2>1
  <2>5. f[m] \o q[m + 1] \in Seq(S)
    BY <2>4
  <2>6. e[m + 1] = f[m] \o q[m + 1] /\ \A i \in 0 .. m : e[i] = f[i] /\ f[i] \in Seq(S)
    BY <2>3
  <2>7. e \in [0 .. m + 1 -> Seq(S)]
    <3>1. \A i \in 0 .. m + 1 : i \in 0 .. m \/ i = m + 1
      OBVIOUS
    <3>2. \A i \in 0 .. m + 1 : e[i] \in Seq(S)
      BY <2>5, <2>6, <3>1
    <3>3. PICK D : D = 0 .. m + 1
      OBVIOUS
    <3>4. e = [i \in D |-> e[i]] /\ \A i \in D : e[i] \in Seq(S)
      BY <2>3, <3>2, <3>3
    <3>. QED BY <3>3, <3>4
  <2>8. Joined(e, q, m + 1)
    <3>1. e[0] = <<>>
      BY <2>2, <2>6 DEF Joined
    <3>2. ASSUME NEW i \in 0 .. (m + 1) - 1 PROVE e[i + 1] = e[i] \o q[i + 1]
      <4>1. CASE i = m
        <5>1. e[m] = f[m]
          BY <2>6
        <5>. QED BY <2>6, <4>1, <5>1
      <4>2. CASE i # m
        <5>1. i \in 0 .. m - 1 /\ i \in 0 .. m /\ i + 1 \in 0 .. m
          BY <4>2
        <5>. QED BY <2>2, <2>6, <5>1 DEF Joined
      <4>. QED BY <4>1, <4>2
    <3>. QED BY <3>1, <3>2 DEF Joined
  <2>. QED BY <2>7, <2>8
<1> HIDE DEF Some
<1>5. n \in Some
  BY <1>2, <1>3, <1>4, NaturalInduction
<1>. QED BY <1>1, <1>2, <1>5 DEF Some

(* FlattenSeq is what joining them one after the other leads to. *)
LEMMA FlattenIs ==
  ASSUME NEW S, NEW q \in Seq(Seq(S)), NEW f \in [0 .. Len(q) -> Seq(S)],
         Joined(f, q, Len(q))
  PROVE  FlattenSeq(q) = f[Len(q)]
<1>1. PICK n : n = Len(q) /\ n \in Nat
  OBVIOUS
<1>2. \A i \in 1 .. n : q[i] \in Seq(S)
  BY <1>1
<1>3. CASE n = 0
  <2>1. q = <<>>
    BY <1>1, <1>3, EmptySeq
  <2>2. FlattenSeq(q) = q
    BY <1>1, <1>3 DEF FlattenSeq
  <2>. QED BY <1>1, <1>3, <2>1, <2>2 DEF Joined
<1>4. CASE n # 0
  <2> DEFINE Joins(e) == e = [i \in 1 .. n |-> IF i = 1 THEN q[i] ELSE e[i - 1] \o q[i]]
  <2>1. \E e : Joins(e)
    <3>1. PICK e : e = [i \in 1 .. n |-> f[i]]
      OBVIOUS
    <3>2. ASSUME NEW i \in 1 .. n PROVE f[i] = IF i = 1 THEN q[i] ELSE e[i - 1] \o q[i]
      <4>1. PICK j : j = i - 1
        OBVIOUS
      <4>2. j = i - 1 /\ j \in 0 .. n - 1 /\ i = j + 1
        BY <1>1, <4>1
      <4>3. f[i] = f[j] \o q[i]
        BY <1>1, <4>2 DEF Joined
      <4>4. CASE i = 1
        <5>1. f[j] = <<>> /\ q[i] \in Seq(S)
          BY <1>2, <4>2, <4>4 DEF Joined
        <5>. QED BY <4>3, <4>4, <5>1
      <4>5. CASE i # 1
        <5>1. j \in 1 .. n
          BY <1>1, <4>2, <4>5
        <5>2. e[j] = f[j]
          BY <3>1, <5>1
        <5>. QED BY <4>2, <4>3, <4>5, <5>2
      <4>. QED BY <4>4, <4>5
    <3>. QED BY <3>1, <3>2
  <2>2. PICK e : e = CHOOSE d : Joins(d)
    OBVIOUS
  <2>3. Joins(e)
    BY <2>1, <2>2
  <2>4. FlattenSeq(q) = e[n]
    BY <1>1, <1>4, <2>2 DEF FlattenSeq
  <2> DEFINE Same == {m \in Nat : m + 1 <= n => e[m + 1] = f[m + 1]}
  <2>5. 0 \in Same
    <3>1. e[1] = q[1] /\ q[1] \in Seq(S)
      BY <1>1, <1>2, <1>4, <2>3
    <3>2. 0 \in 0 .. n - 1 /\ 0 + 1 = 1
      BY <1>1, <1>4
    <3>3. f[0] = <<>> /\ f[0 + 1] = f[0] \o q[0 + 1]
      BY <1>1, <3>2 DEF Joined
    <3>4. f[1] = q[1]
      BY <3>1, <3>2, <3>3
    <3>. QED BY <3>1, <3>2, <3>4
  <2>6. ASSUME NEW m \in Nat, m \in Same PROVE m + 1 \in Same
    <3>1. SUFFICES ASSUME (m + 1) + 1 <= n PROVE e[(m + 1) + 1] = f[(m + 1) + 1]
      OBVIOUS
    <3>2. PICK i : i = m + 1 /\ i \in 1 .. n /\ i + 1 \in 1 .. n /\ i + 1 # 1 /\ i \in 0 .. n - 1
      BY <1>1, <3>1
    <3>3. e[i] = f[i]
      BY <2>6, <3>1, <3>2
    <3>4. e[i + 1] = e[i] \o q[i + 1]
      <4>1. PICK k : k = i + 1 /\ k \in 1 .. n /\ k # 1 /\ k - 1 = i
        BY <3>2
      <4>2. e[k] = e[k - 1] \o q[k]
        BY <2>3, <4>1
      <4>. QED BY <4>1, <4>2
    <3>5. f[i + 1] = f[i] \o q[i + 1]
      BY <1>1, <3>2 DEF Joined
    <3>. QED BY <3>2, <3>3, <3>4, <3>5
  <2> HIDE DEF Same
  <2>7. n - 1 \in Same
    <3>1. n - 1 \in Nat
      BY <1>1, <1>4
    <3>. QED BY <2>5, <2>6, <3>1, NaturalInduction
  <2>8. (n - 1) + 1 = n
    BY <1>1
  <2>. QED BY <1>1, <2>4, <2>7, <2>8 DEF Same
<1>. QED BY <1>3, <1>4

(* A container without blocks has no slots. *)
LEMMA FlattenNone == FlattenSeq(<<>>) = <<>>
BY DEF FlattenSeq

(* Two chains one after the other. *)
LEMMA FlattenTwo ==
  ASSUME NEW S, NEW q \in Seq(Seq(S)), NEW r \in Seq(Seq(S))
  PROVE  FlattenSeq(q \o r) = FlattenSeq(q) \o FlattenSeq(r)
<1>1. PICK m, n : m = Len(q) /\ n = Len(r)
  OBVIOUS
<1>2. m = Len(q) /\ n = Len(r) /\ m \in Nat /\ n \in Nat
  BY <1>1
<1>3. PICK f \in [0 .. m -> Seq(S)] : Joined(f, q, m)
  BY <1>2, JoinedExists
<1>4. PICK g \in [0 .. n -> Seq(S)] : Joined(g, r, n)
  BY <1>2, JoinedExists
<1>5. FlattenSeq(q) = f[m] /\ FlattenSeq(r) = g[n]
  BY <1>2, <1>3, <1>4, FlattenIs
<1>6. PICK p : p = q \o r
  OBVIOUS
<1>7. /\ p \in Seq(Seq(S)) /\ Len(p) = m + n
      /\ \A i \in 1 .. m : p[i] = q[i]
      /\ \A i \in 1 .. n : p[i + m] = r[i]
  BY <1>2, <1>6
<1>8. PICK h : h = [i \in 0 .. m + n |-> IF i <= m THEN f[i] ELSE f[m] \o g[i - m]]
  OBVIOUS
<1>9. /\ f[m] \in Seq(S) /\ \A i \in 0 .. n : g[i] \in Seq(S)
      /\ g[0] = <<>> /\ f[0] = <<>>
  <2>1. m \in 0 .. m
    BY <1>2
  <2>2. f[m] \in Seq(S)
    BY <2>1
  <2>3. \A i \in 0 .. n : g[i] \in Seq(S)
    OBVIOUS
  <2>. QED BY <1>3, <1>4, <2>2, <2>3 DEF Joined
<1>10. \A i \in 0 .. m : h[i] = f[i] /\ f[i] \in Seq(S)
  <2>1. SUFFICES ASSUME NEW i \in 0 .. m PROVE h[i] = f[i] /\ f[i] \in Seq(S)
    OBVIOUS
  <2>2. i \in 0 .. m + n /\ i <= m
    BY <1>2
  <2>. QED BY <1>8, <2>2
<1>11. \A i \in 0 .. n : h[i + m] = f[m] \o g[i] /\ f[m] \o g[i] \in Seq(S)
  <2>1. SUFFICES ASSUME NEW i \in 0 .. n PROVE h[i + m] = f[m] \o g[i]
    BY <1>9
  <2>2. CASE i = 0
    <3>1. m \in 0 .. m /\ i + m = m
      BY <1>2, <2>2
    <3>2. h[i + m] = f[m]
      BY <1>10, <3>1
    <3>3. f[m] \o <<>> = f[m]
      BY <1>9
    <3>. QED BY <1>9, <2>2, <3>2, <3>3
  <2>3. CASE i # 0
    <3>1. i + m \in 0 .. m + n /\ ~(i + m <= m) /\ (i + m) - m = i
      BY <1>2, <2>3
    <3>. QED BY <1>8, <3>1
  <2>. QED BY <2>2, <2>3
<1>12. h \in [0 .. m + n -> Seq(S)]
  <2>1. PICK D : D = 0 .. m + n
    OBVIOUS
  <2>2. ASSUME NEW i \in D PROVE h[i] \in Seq(S)
    <3>1. CASE i <= m
      BY <1>2, <1>10, <2>1, <3>1
    <3>2. CASE ~(i <= m)
      <4>1. i - m \in 0 .. n /\ (i - m) + m = i
        BY <1>2, <2>1, <3>2
      <4>. QED BY <1>11, <4>1
    <3>. QED BY <3>1, <3>2
  <2>. QED BY <1>8, <2>1, <2>2
<1>13. Joined(h, p, m + n)
  <2>1. h[0] = <<>>
    BY <1>2, <1>9, <1>10
  <2>2. ASSUME NEW i \in 0 .. (m + n) - 1 PROVE h[i + 1] = h[i] \o p[i + 1]
    <3>1. CASE i < m
      <4>1. i \in 0 .. m - 1 /\ i \in 0 .. m /\ i + 1 \in 0 .. m /\ i + 1 \in 1 .. m
        BY <1>2, <3>1
      <4>2. f[i + 1] = f[i] \o q[i + 1]
        BY <1>3, <4>1 DEF Joined
      <4>. QED BY <1>7, <1>10, <4>1, <4>2
    <3>2. CASE ~(i < m)
      <4>1. PICK j : j = i - m
        OBVIOUS
      <4>2. /\ j = i - m /\ j \in 0 .. n - 1 /\ j \in 0 .. n /\ j + 1 \in 0 .. n
            /\ j + 1 \in 1 .. n /\ i = j + m /\ i + 1 = (j + 1) + m
        BY <1>2, <3>2, <4>1
      <4>3. g[j + 1] = g[j] \o r[j + 1]
        BY <1>4, <4>2 DEF Joined
      <4>4. h[i] = f[m] \o g[j] /\ h[i + 1] = f[m] \o g[j + 1] /\ p[i + 1] = r[j + 1]
        BY <1>7, <1>11, <4>2
      <4>5. r[j + 1] \in Seq(S) /\ g[j] \in Seq(S)
        BY <1>2, <1>9, <4>2
      <4>6. f[m] \o (g[j] \o r[j + 1]) = (f[m] \o g[j]) \o r[j + 1]
        <5>1. PICK x, y, z : x = f[m] /\ y = g[j] /\ z = r[j + 1]
          OBVIOUS
        <5>2. x \in Seq(S) /\ y \in Seq(S) /\ z \in Seq(S)
          BY <1>9, <4>5, <5>1
        <5>3. Both(Both(x, y), z) = Both(x, Both(y, z))
          BY <5>2, Together
        <5>. QED BY <5>1, <5>3 DEF Both
      <4>. QED BY <4>3, <4>4, <4>6
    <3>. QED BY <3>1, <3>2
  <2>. QED BY <2>1, <2>2 DEF Joined
<1>14. FlattenSeq(p) = h[m + n]
  BY <1>7, <1>12, <1>13, FlattenIs
<1>15. h[m + n] = f[m] \o g[n]
  <2>1. n \in 0 .. n /\ n + m = m + n
    BY <1>2
  <2>. QED BY <1>11, <2>1
<1>. QED BY <1>5, <1>6, <1>14, <1>15

(* Of one sequence. *)
LEMMA FlattenOne ==
  ASSUME NEW S, NEW s \in Seq(S)
  PROVE  FlattenSeq(<<s>>) = s
<1>1. PICK f : f = [i \in 0 .. 1 |-> IF i = 0 THEN <<>> ELSE s]
  OBVIOUS
<1>2. <<s>> \in Seq(Seq(S)) /\ Len(<<s>>) = 1 /\ <<s>>[1] = s
  OBVIOUS
<1>3. f \in [0 .. 1 -> Seq(S)] /\ f[0] = <<>> /\ f[1] = s
  BY <1>1
<1>4. Joined(f, <<s>>, 1)
  <2>1. \A i \in 0 .. 1 - 1 : i = 0
    OBVIOUS
  <2>2. f[0 + 1] = f[0] \o <<s>>[0 + 1]
    BY <1>2, <1>3
  <2>. QED BY <1>3, <2>1, <2>2 DEF Joined
<1>. QED BY <1>2, <1>3, <1>4, FlattenIs

-----------------------------------------------------------------------------
(***************************************************************************)
(* The allocator hands out the unused slots in increasing order.           *)
(***************************************************************************)
(* The numbers of a set in increasing order: at place k is the one above k *)
(* - 1.                                                                    *)
LEMMA InOrderIs ==
  ASSUME NEW S, Integral(S), IsFiniteSet(S), NEW q, q = InOrder(S), NEW n, n = Cardinality(S)
  PROVE  /\ n \in Nat /\ q \in [1 .. n -> S]
         /\ \A k \in 1 .. n : Cardinality(Below(S, q[k])) = k - 1
         /\ \A i \in S : \E k \in 1 .. n : q[k] = i
<1>1. n \in Nat
  BY FS_CardinalityType
<1>2. PICK r : r = [i \in S |-> Cardinality(Below(S, i))]
  OBVIOUS
<1>3. Ranks(r, S)
  BY <1>2, BelowRanks
<1>4. \A i \in S : Cardinality({j \in S : j < i}) = r[i]
  BY <1>2 DEF Below
<1>5. q = [k \in 1 .. n |-> CHOOSE i \in S : Cardinality({j \in S : j < i}) = k - 1]
  BY DEF InOrder
<1>6. ASSUME NEW k \in 1 .. n PROVE q[k] \in S /\ r[q[k]] = k - 1
  <2>1. k - 1 \in 0 .. n - 1
    BY <1>1
  <2>2. \E i \in S : r[i] = k - 1
    BY <1>3, <2>1 DEF Ranks
  <2>3. \E i \in S : Cardinality({j \in S : j < i}) = k - 1
    BY <1>4, <2>2
  <2>4. q[k] = CHOOSE i \in S : Cardinality({j \in S : j < i}) = k - 1
    BY <1>5
  <2>5. q[k] \in S /\ Cardinality({j \in S : j < q[k]}) = k - 1
    BY <2>3, <2>4
  <2>. QED BY <1>4, <2>5
<1>7. q \in [1 .. n -> S]
  <2>1. PICK D : D = 1 .. n
    OBVIOUS
  <2>2. q = [k \in D |-> q[k]] /\ \A k \in D : q[k] \in S
    BY <1>5, <1>6, <2>1
  <2>. QED BY <2>1, <2>2
<1>8. ASSUME NEW i \in S PROVE \E k \in 1 .. n : q[k] = i
  <2>1. r[i] \in 0 .. n - 1
    BY <1>3 DEF Ranks
  <2>2. PICK k : k = r[i] + 1
    OBVIOUS
  <2>3. k \in 1 .. n /\ k - 1 = r[i]
    BY <1>1, <2>1, <2>2
  <2>4. r[q[k]] = r[i] /\ q[k] \in S
    BY <1>6, <2>3
  <2>5. q[k] = i
    BY <1>3, <2>4 DEF Ranks
  <2>. QED BY <2>3, <2>5
<1>. QED BY <1>1, <1>2, <1>6, <1>7, <1>8

(* An interval is in order as it is. *)
LEMMA InOrderInterval ==
  ASSUME NEW n \in Nat
  PROVE  InOrder(1 .. n) = [k \in 1 .. n |-> k]
<1>1. PICK S, q : S = 1 .. n /\ q = InOrder(S)
  OBVIOUS
<1>2. Integral(S) /\ IsFiniteSet(S) /\ Cardinality(S) = n
  BY <1>1, FS_Interval DEF Integral
<1>3. /\ q \in [1 .. n -> S]
      /\ \A k \in 1 .. n : Cardinality(Below(S, q[k])) = k - 1
  <2>1. PICK m : m = Cardinality(S)
    OBVIOUS
  <2>2. q \in [1 .. m -> S] /\ \A k \in 1 .. m : Cardinality(Below(S, q[k])) = k - 1
    <3>1. Integral(S) /\ IsFiniteSet(S) /\ q = InOrder(S)
      BY <1>1, <1>2
    <3>. QED BY <2>1, <3>1, InOrderIs
  <2>. QED BY <1>2, <2>1, <2>2
<1>4. ASSUME NEW k \in 1 .. n PROVE q[k] = k
  <2>1. PICK i : i = q[k] /\ i \in 1 .. n
    BY <1>1, <1>3
  <2>2. Below(S, i) = 1 .. i - 1
    BY <1>1, <2>1 DEF Below
  <2>3. Cardinality(1 .. i - 1) = i - 1
    BY <2>1, FS_Interval
  <2>4. i - 1 = k - 1
    BY <1>3, <2>1, <2>2, <2>3
  <2>. QED BY <2>1, <2>4
<1>. QED BY <1>1, <1>3, <1>4

(* q lists the elements of T, each of them once. *)
Lists(q, T) == q \in Seq(T) /\ IsInjective(q) /\ ToSet(q) = T

(* What lists T is a sequence over whatever holds T. *)
LEMMA ListsType ==
  ASSUME NEW T, NEW q, Lists(q, T), NEW S, T \subseteq S
  PROVE  q \in Seq(S)
BY SeqMonotonic DEF Lists

(* What is listed is finite, and as many as the list is long. *)
LEMMA ListsCount ==
  ASSUME NEW T, NEW q, Lists(q, T)
  PROVE  IsFiniteSet(T) /\ Cardinality(T) = Len(q) /\ Len(q) \in Nat
<1>1. Range(q) = T
  BY DEF Lists, Range, ToSet
<1>. QED BY <1>1, ListLength DEF Lists

(* The empty list. *)
LEMMA ListsNone == Lists(<<>>, {})
BY DEF Lists, ToSet, IsInjective

(* A list of one. *)
LEMMA ListsOne ==
  ASSUME NEW s
  PROVE  Lists(<<s>>, {s})
BY DEF Lists, ToSet, IsInjective

(* A sequence without repetitions lists its elements. *)
LEMMA ListsOf ==
  ASSUME NEW S, NEW q \in Seq(S), IsInjective(q)
  PROVE  Lists(q, ToSet(q))
<1>1. q \in Seq(ToSet(q))
  BY DEF ToSet
<1>. QED BY <1>1 DEF Lists

(* Lists of disjoint sets, one after the other. *)
LEMMA ListsBoth ==
  ASSUME NEW S, NEW p, Lists(p, S), NEW T, NEW q, Lists(q, T), S \cap T = {}
  PROVE  Lists(p \o q, S \cup T)
<1>1. PICK m, n : m = Len(p) /\ n = Len(q)
  OBVIOUS
<1>2. PICK U : U = S \cup T
  OBVIOUS
<1>3. p \in Seq(U) /\ q \in Seq(U)
  BY <1>2, ListsType
<1>4. m \in Nat /\ n \in Nat /\ DOMAIN p = 1 .. m /\ DOMAIN q = 1 .. n
  BY <1>1, <1>3
<1>5. /\ (\A i \in 1 .. m : p[i] \in S) /\ (\A i \in 1 .. n : q[i] \in T)
      /\ \A s \in S : \E i \in 1 .. m : p[i] = s
      /\ \A s \in T : \E i \in 1 .. n : q[i] = s
      /\ \A i, j \in 1 .. m : p[i] = p[j] => i = j
      /\ \A i, j \in 1 .. n : q[i] = q[j] => i = j
  BY <1>4 DEF Lists, ToSet, IsInjective
<1>6. PICK r : r = p \o q
  OBVIOUS
<1>7. /\ r \in Seq(U) /\ Len(r) = m + n /\ DOMAIN r = 1 .. m + n
      /\ \A i \in 1 .. m : r[i] = p[i]
      /\ \A i \in 1 .. n : r[i + m] = q[i]
  BY <1>1, <1>3, <1>4, <1>6
<1>8. \A i \in 1 .. m + n : i \in 1 .. m \/ \E j \in 1 .. n : i = j + m
  <2>1. SUFFICES ASSUME NEW i \in 1 .. m + n, i \notin 1 .. m
                 PROVE  \E j \in 1 .. n : i = j + m
    OBVIOUS
  <2>2. i - m \in 1 .. n /\ i = (i - m) + m
    BY <1>4, <2>1
  <2>. QED BY <2>2
<1>9. ASSUME NEW i \in 1 .. m + n, NEW j \in 1 .. m + n, r[i] = r[j]
      PROVE  i = j
  <2>1. CASE i \in 1 .. m /\ j \in 1 .. m
    BY <1>5, <1>7, <1>9, <2>1
  <2>2. CASE i \notin 1 .. m /\ j \notin 1 .. m
    <3>1. PICK k \in 1 .. n, l \in 1 .. n : i = k + m /\ j = l + m
      BY <1>8, <2>2
    <3>2. k = l
      BY <1>5, <1>7, <1>9, <3>1
    <3>. QED BY <3>1, <3>2
  <2>3. CASE i \in 1 .. m /\ j \notin 1 .. m
    <3>1. PICK l \in 1 .. n : j = l + m
      BY <1>8, <2>3
    <3>2. r[i] \in S /\ r[j] \in T
      BY <1>5, <1>7, <2>3, <3>1
    <3>. QED BY <1>9, <3>2
  <2>4. CASE i \notin 1 .. m /\ j \in 1 .. m
    <3>1. PICK l \in 1 .. n : i = l + m
      BY <1>8, <2>4
    <3>2. r[j] \in S /\ r[i] \in T
      BY <1>5, <1>7, <2>4, <3>1
    <3>. QED BY <1>9, <3>2
  <2>. QED BY <2>1, <2>2, <2>3, <2>4
<1>10. \A s \in U : \E i \in 1 .. m + n : r[i] = s
  <2>1. \A i \in 1 .. m : i \in 1 .. m + n
    BY <1>4
  <2>2. \A i \in 1 .. n : i + m \in 1 .. m + n
    BY <1>4
  <2>3. \A s \in S : \E i \in 1 .. m + n : r[i] = s
    BY <1>5, <1>7, <2>1
  <2>4. ASSUME NEW s \in T PROVE \E i \in 1 .. m + n : r[i] = s
    <3>1. PICK i \in 1 .. n : q[i] = s
      BY <1>5
    <3>2. i + m \in 1 .. m + n /\ r[i + m] = s
      BY <1>7, <2>2, <3>1
    <3>. QED BY <3>2
  <2>. QED BY <1>2, <2>3, <2>4
<1>11. ToSet(r) = U
  <2>1. \A i \in 1 .. m + n : r[i] \in U
    BY <1>7
  <2>. QED BY <1>7, <1>10, <2>1 DEF ToSet
<1>12. IsInjective(r)
  BY <1>7, <1>9 DEF IsInjective
<1>. QED BY <1>2, <1>6, <1>7, <1>11, <1>12 DEF Lists

(* What lists a set, cut in two, lists two sets. *)
LEMMA ListsCut ==
  ASSUME NEW U, NEW r, Lists(r, U), NEW p \in Seq(U), NEW q \in Seq(U), r = p \o q
  PROVE  /\ Lists(p, ToSet(p)) /\ Lists(q, ToSet(q))
         /\ ToSet(p) \cap ToSet(q) = {} /\ ToSet(p) \cup ToSet(q) = U
<1>1. PICK m, n : m = Len(p) /\ n = Len(q)
  OBVIOUS
<1>2. m \in Nat /\ n \in Nat /\ DOMAIN p = 1 .. m /\ DOMAIN q = 1 .. n
  BY <1>1
<1>3. /\ DOMAIN r = 1 .. m + n
      /\ \A i \in 1 .. m : r[i] = p[i] /\ p[i] \in U
      /\ \A i \in 1 .. n : r[i + m] = q[i] /\ q[i] \in U
  BY <1>1, <1>2
<1>4. /\ \A i, j \in 1 .. m + n : r[i] = r[j] => i = j
      /\ \A s \in U : \E i \in 1 .. m + n : r[i] = s
  BY <1>3 DEF Lists, ToSet, IsInjective
<1>5. \A i \in 1 .. m : i \in 1 .. m + n
  BY <1>2
<1>6. \A i \in 1 .. n : i + m \in 1 .. m + n /\ i + m \notin 1 .. m
  BY <1>2
<1>7. IsInjective(p)
  BY <1>2, <1>3, <1>4, <1>5 DEF IsInjective
<1>8. IsInjective(q)
  <2>1. ASSUME NEW i \in 1 .. n, NEW j \in 1 .. n, q[i] = q[j] PROVE i = j
    <3>1. r[i + m] = r[j + m] /\ i + m \in 1 .. m + n /\ j + m \in 1 .. m + n
      BY <1>3, <1>6, <2>1
    <3>2. i + m = j + m
      BY <1>4, <3>1
    <3>. QED BY <1>2, <3>2
  <2>. QED BY <1>2, <2>1 DEF IsInjective
<1>9. ToSet(p) \cap ToSet(q) = {}
  <2>1. ASSUME NEW i \in 1 .. m, NEW j \in 1 .. n, p[i] = q[j] PROVE FALSE
    <3>1. r[i] = r[j + m] /\ i \in 1 .. m + n /\ j + m \in 1 .. m + n
      BY <1>3, <1>5, <1>6, <2>1
    <3>2. i = j + m
      BY <1>4, <3>1
    <3>. QED BY <1>6, <3>2
  <2>. QED BY <1>2, <2>1 DEF ToSet
<1>10. ToSet(p) \cup ToSet(q) = U
  <2>1. \A i \in 1 .. m + n : i \in 1 .. m \/ \E j \in 1 .. n : i = j + m
    <3>1. SUFFICES ASSUME NEW i \in 1 .. m + n, i \notin 1 .. m
                   PROVE  \E j \in 1 .. n : i = j + m
      OBVIOUS
    <3>2. i - m \in 1 .. n /\ i = (i - m) + m
      BY <1>2, <3>1
    <3>. QED BY <3>2
  <2>2. ASSUME NEW s \in U PROVE s \in ToSet(p) \cup ToSet(q)
    <3>1. PICK i \in 1 .. m + n : r[i] = s
      BY <1>4
    <3>2. CASE i \in 1 .. m
      BY <1>2, <1>3, <3>1, <3>2 DEF ToSet
    <3>3. CASE i \notin 1 .. m
      <4>1. PICK j \in 1 .. n : i = j + m
        BY <2>1, <3>3
      <4>2. q[j] = s
        BY <1>3, <3>1, <4>1
      <4>. QED BY <1>2, <4>2 DEF ToSet
    <3>. QED BY <3>2, <3>3
  <2>3. ToSet(p) \subseteq U /\ ToSet(q) \subseteq U
    BY <1>2, <1>3 DEF ToSet
  <2>. QED BY <2>2, <2>3
<1>. QED BY <1>7, <1>8, <1>9, <1>10, ListsOf

-----------------------------------------------------------------------------
(***************************************************************************)
(* The growth policy: how much k more blocks bring, and which slots.       *)
(***************************************************************************)
(* No block has no room. *)
LEMMA CapacityOfNone ==
  ASSUME NEW c, c.blockSize \in Nat
  PROVE  Capacity(c, 0) = 0
BY ConstantsAssumption DEF Capacity

(* Each block is longer than the one before it by Growth. *)
LEMMA CapacityOfMore ==
  ASSUME NEW c, c.blockSize \in Nat, NEW k \in Nat
  PROVE  Capacity(c, k + 1) = Capacity(c, k) + c.blockSize + Growth * k
<1>1. PICK b, g : b = c.blockSize /\ g = Growth
  OBVIOUS
<1>2. b \in Nat /\ g \in Nat
  BY <1>1, ConstantsAssumption
<1>3. PICK x : x = k * (k - 1)
  OBVIOUS
<1>4. x \in Int
  BY <1>3
<1>5. (k + 1) * ((k + 1) - 1) = x + 2 * k
  BY <1>3
<1>6. PICK t : t = x \div 2
  OBVIOUS
<1>7. t \in Int /\ (x + 2 * k) \div 2 = t + k
  BY <1>4, <1>6
<1>8. Capacity(c, k) = k * b + g * t
  BY <1>1, <1>3, <1>6 DEF Capacity
<1>9. Capacity(c, k + 1) = (k + 1) * b + g * (t + k)
  BY <1>1, <1>5, <1>7 DEF Capacity
<1>10. (k + 1) * b + g * (t + k) = (k * b + g * t) + b + g * k
  BY <1>2, <1>7
<1>. QED BY <1>1, <1>8, <1>9, <1>10

(* k blocks have room for k elements, for each has at least one slot. *)
LEMMA CapacityType ==
  ASSUME NEW c, c.blockSize \in Nat \ {0}, NEW k \in Nat
  PROVE  Capacity(c, k) \in Nat /\ Capacity(c, k) >= k
<1> DEFINE Has == {n \in Nat : Capacity(c, n) \in Nat /\ Capacity(c, n) >= n}
<1>1. 0 \in Has
  BY CapacityOfNone
<1>2. ASSUME NEW n \in Nat, n \in Has PROVE n + 1 \in Has
  <2>1. Capacity(c, n) \in Nat /\ Capacity(c, n) >= n
    BY <1>2
  <2>2. Capacity(c, n + 1) = Capacity(c, n) + c.blockSize + Growth * n
    BY CapacityOfMore
  <2>3. PICK x, y, b : x = Capacity(c, n) /\ y = Growth * n /\ b = c.blockSize
    OBVIOUS
  <2>4. y \in Nat
    BY <2>3, ConstantsAssumption
  <2>5. x + b + y \in Nat /\ x + b + y >= n + 1
    BY <2>1, <2>3, <2>4
  <2>. QED BY <2>2, <2>3, <2>5
<1> HIDE DEF Has
<1>3. k \in Has
  BY <1>1, <1>2, NaturalInduction
<1>. QED BY <1>3 DEF Has

(* Some number of blocks is enough, so that BlocksFor finds the least. *)
LEMMA BlocksForIs ==
  ASSUME NEW c, c.blockSize \in Nat \ {0}, NEW n \in Nat
  PROVE  BlocksFor(c, n) \in Nat /\ Capacity(c, BlocksFor(c, n)) >= n
<1> DEFINE T == {k \in Nat : Capacity(c, k) >= n}
<1>1. n \in T
  BY CapacityType
<1>2. PICK m \in T : \A k \in T : m <= k
  <2>1. T \in SUBSET Nat /\ T # {}
    BY <1>1
  <2> HIDE DEF T
  <2>. QED BY <2>1, LeastNatural
<1>3. m \in 0 .. n
  BY <1>1, <1>2
<1>4. m > 0 => Capacity(c, m - 1) < n
  <2>1. SUFFICES ASSUME m > 0 PROVE Capacity(c, m - 1) < n
    OBVIOUS
  <2>2. PICK k : k = m - 1 /\ k \in Nat /\ ~(m <= k)
    BY <1>3, <2>1
  <2>3. k \notin T
    BY <1>2, <2>2
  <2>4. Capacity(c, k) \in Nat /\ ~(Capacity(c, k) >= n)
    BY <2>2, <2>3, CapacityType
  <2>. QED BY <2>2, <2>4
<1>5. \E k \in 0 .. n : Capacity(c, k) >= n /\ (k > 0 => Capacity(c, k - 1) < n)
  BY <1>2, <1>3, <1>4
<1>6. BlocksFor(c, n) \in 0 .. n /\ Capacity(c, BlocksFor(c, n)) >= n
  BY <1>5 DEF BlocksFor
<1>. QED BY <1>6

(* The heap is finite. *)
LEMMA SlotsFinite == IsFiniteSet(Slots) /\ Integral(Slots) /\ Cardinality(Slots) = MaxSlots
BY ConstantsAssumption, FS_Interval DEF Slots, Integral

(* The order lists the set. *)
LEMMA InOrderLists ==
  ASSUME NEW U, IsFiniteSet(U), Integral(U)
  PROVE  Lists(InOrder(U), U)
<1>1. PICK q, n : q = InOrder(U) /\ n = Cardinality(U)
  OBVIOUS
<1>2. /\ n \in Nat /\ q \in [1 .. n -> U]
      /\ \A k \in 1 .. n : Cardinality(Below(U, q[k])) = k - 1
      /\ \A i \in U : \E k \in 1 .. n : q[k] = i
  BY <1>1, InOrderIs
<1>3. q \in Seq(U) /\ DOMAIN q = 1 .. n
  BY <1>2
<1>4. IsInjective(q)
  <2>1. ASSUME NEW i \in 1 .. n, NEW j \in 1 .. n, q[i] = q[j] PROVE i = j
    <3>1. i - 1 = j - 1
      BY <1>2, <2>1
    <3>. QED BY <3>1
  <2>. QED BY <1>3, <2>1 DEF IsInjective
<1>5. ToSet(q) = U
  BY <1>2, <1>3 DEF ToSet
<1>. QED BY <1>1, <1>3, <1>4, <1>5 DEF Lists

(* The allocator's memory holds each unused slot once. *)
LEMMA MemoryIs ==
  Lists(InOrder(Unused), Unused)
<1>1. Unused \subseteq Slots
  BY DEF Unused
<1>2. IsFiniteSet(Unused) /\ Integral(Unused)
  BY <1>1, SlotsFinite, FS_Subset DEF Integral
<1>. QED BY <1>2, InOrderLists

(* The new blocks are the first slots of the memory, cut into blocks. *)
LEMMA NewBlocksAre ==
  ASSUME NEW c, c.blockSize \in Nat \ {0}, NEW k \in Nat,
         Capacity(c, k) <= Cardinality(Unused)
  PROVE  /\ NewBlocks(c, k) \in Seq(Seq(Slots))
         /\ FlattenSeq(NewBlocks(c, k)) = SubSeq(InOrder(Unused), 1, Capacity(c, k))
<1>1. PICK memory : memory = InOrder(Unused)
  OBVIOUS
<1>2. PICK n : n = Cardinality(Unused)
  OBVIOUS
<1>3. memory \in Seq(Slots) /\ Len(memory) = n /\ n \in Nat
  BY <1>1, <1>2, MemoryIs, ListsType, ListsCount DEF Unused
<1> DEFINE Fits(m) ==
             /\ NewBlocks(c, m) \in Seq(Seq(Slots))
             /\ FlattenSeq(NewBlocks(c, m)) = SubSeq(memory, 1, Capacity(c, m))
           Has == {m \in Nat : Capacity(c, m) <= n => Fits(m)}
<1>4. 0 \in Has
  <2>1. NewBlocks(c, 0) = <<>>
    BY DEF NewBlocks
  <2>2. SubSeq(memory, 1, 0) = <<>>
    BY <1>3, SubSeqEmpty
  <2>3. Capacity(c, 0) = 0
    BY CapacityOfNone
  <2>4. <<>> \in Seq(Seq(Slots))
    BY EmptySeq
  <2>5. Fits(0)
    BY <2>1, <2>2, <2>3, <2>4, FlattenNone
  <2> HIDE DEF Fits
  <2>. QED BY <2>5
<1>5. ASSUME NEW m \in Nat, m \in Has PROVE m + 1 \in Has
  <2>1. SUFFICES ASSUME Capacity(c, m + 1) <= n PROVE Fits(m + 1)
    OBVIOUS
  <2>2. PICK x, y : x = Capacity(c, m) /\ y = Capacity(c, m + 1)
    OBVIOUS
  <2>3. x \in Nat /\ y \in Nat /\ x <= y /\ y <= n
    <3>1. y = x + c.blockSize + Growth * m
      BY <2>2, CapacityOfMore
    <3>2. x \in Nat /\ y \in Nat
      BY <2>2, CapacityType
    <3>3. PICK g, b : g = Growth * m /\ b = c.blockSize
      OBVIOUS
    <3>4. g \in Nat /\ b \in Nat
      BY <3>3, ConstantsAssumption
    <3>5. y = x + b + g
      BY <3>1, <3>3
    <3>. QED BY <2>1, <2>2, <3>2, <3>4, <3>5
  <2>4. x <= n
    BY <1>3, <2>3
  <2>5. Capacity(c, m) <= n
    BY <2>2, <2>4
  <2>6. Fits(m)
    BY <1>5, <2>5
  <2> HIDE DEF Fits
  <2>7. PICK s : s = SubSeq(memory, x + 1, y)
    OBVIOUS
  <2>8. s \in Seq(Slots)
    BY <1>3, <2>3, <2>7, SubSeqProperties
  <2>9. NewBlocks(c, m + 1) = NewBlocks(c, m) \o <<s>>
    <3>1. PICK old : old = NewBlocks(c, m)
      OBVIOUS
    <3>2. old \in Seq(Seq(Slots))
      BY <2>6, <3>1 DEF Fits
    <3>3. PICK Nth : Nth = [i \in 1 .. m + 1 |->
                              SubSeq(memory, Capacity(c, i - 1) + 1, Capacity(c, i))]
      OBVIOUS
    <3>4. NewBlocks(c, m + 1) = Nth
      BY <1>1, <3>3 DEF NewBlocks
    <3>5. old = [i \in 1 .. m |-> SubSeq(memory, Capacity(c, i - 1) + 1, Capacity(c, i))]
      BY <1>1, <3>1 DEF NewBlocks
    <3>6. \A i \in 1 .. m : old[i] = Nth[i]
      <4>1. \A i \in 1 .. m : i \in 1 .. m + 1
        OBVIOUS
      <4>. QED BY <3>3, <3>5, <4>1
    <3>7. Nth[m + 1] = s
      <4>1. PICK i : i = m + 1
        OBVIOUS
      <4>2. i \in 1 .. m + 1 /\ i - 1 = m
        BY <4>1
      <4>3. Nth[i] = SubSeq(memory, Capacity(c, i - 1) + 1, Capacity(c, i))
        BY <3>3, <4>2
      <4>. QED BY <2>2, <2>7, <4>1, <4>2, <4>3
    <3>8. Len(old) = m
      BY <3>5
    <3>9. PICK new : new = old \o <<s>>
      OBVIOUS
    <3>10. /\ new \in Seq(Seq(Slots)) /\ Len(new) = m + 1
           /\ \A i \in 1 .. m : new[i] = old[i]
           /\ new[m + 1] = s
      <4>1. PICK T : T = Seq(Slots)
        OBVIOUS
      <4>2. old \in Seq(T) /\ s \in T
        BY <2>8, <3>2, <4>1
      <4>3. new \in Seq(T) /\ Len(new) = m + 1
        BY <3>8, <3>9, <4>2
      <4>4. /\ \A i \in 1 .. m : new[i] = old[i]
            /\ new[m + 1] = s
        BY <3>8, <3>9, <4>2
      <4>. QED BY <4>1, <4>3, <4>4
    <3>11. \A i \in 1 .. m + 1 : new[i] = Nth[i]
      <4>1. \A i \in 1 .. m + 1 : i \in 1 .. m \/ i = m + 1
        OBVIOUS
      <4>2. (\A i \in 1 .. m : new[i] = old[i]) /\ new[m + 1] = s
        BY <3>10
      <4>. QED BY <3>6, <3>7, <4>1, <4>2, Zenon
    <3>12. new = [i \in 1 .. m + 1 |-> new[i]]
      BY <3>10
    <3>13. new = Nth
      BY <3>3, <3>11, <3>12
    <3>. QED BY <3>1, <3>4, <3>9, <3>13
  <2>10. PICK old : old = NewBlocks(c, m)
    OBVIOUS
  <2>11. old \in Seq(Seq(Slots)) /\ FlattenSeq(old) = SubSeq(memory, 1, x)
    BY <2>2, <2>6, <2>10 DEF Fits
  <2>12. <<s>> \in Seq(Seq(Slots)) /\ old \o <<s>> \in Seq(Seq(Slots))
    BY <2>8, <2>11
  <2>13. FlattenSeq(old \o <<s>>) = FlattenSeq(old) \o FlattenSeq(<<s>>)
    BY <2>11, <2>12, FlattenTwo
  <2>14. FlattenSeq(<<s>>) = s
    BY <2>8, FlattenOne
  <2>15. SubSeq(memory, 1, x) \o SubSeq(memory, x + 1, y) = SubSeq(memory, 1, y)
    BY <1>3, <2>3, ConcatAdjacentSubSeq
  <2>16. FlattenSeq(old \o <<s>>) = SubSeq(memory, 1, y)
    BY <2>7, <2>11, <2>13, <2>14, <2>15
  <2>. QED BY <2>2, <2>9, <2>10, <2>12, <2>16 DEF Fits
<1> HIDE DEF Has, Fits
<1>6. k \in Has
  BY <1>4, <1>5, NaturalInduction
<1>. QED BY <1>1, <1>2, <1>6 DEF Has, Fits

-----------------------------------------------------------------------------
(***************************************************************************)
(* The clock of the time stamps, and the slots that iteration visits.      *)
(***************************************************************************)
(* Max of a finite set of integers is its greatest element. *)
LEMMA MaxIs ==
  ASSUME NEW S, Integral(S), IsFiniteSet(S), S # {}
  PROVE  Max(S) \in S /\ \A s \in S : Max(S) >= s
<1>1. PICK r : r = [i \in S |-> Cardinality(Above(S, i))]
  OBVIOUS
<1>2. Ranks(r, S)
  BY <1>1, AboveRanks
<1>3. Cardinality(S) \in Nat /\ Cardinality(S) # 0
  BY FS_CardinalityType, FS_EmptySet
<1>4. 0 \in 0 .. Cardinality(S) - 1
  BY <1>3
<1>5. PICK i \in S : r[i] = 0
  BY <1>2, <1>4 DEF Ranks
<1>6. Above(S, i) \subseteq S /\ Cardinality(Above(S, i)) = 0
  BY <1>1, <1>5 DEF Above
<1>7. Above(S, i) = {}
  BY <1>6, FS_Subset, FS_EmptySet
<1>8. \A s \in S : i >= s
  BY <1>7 DEF Above, Integral
<1>. QED BY <1>8 DEF Max

(* S holds m and what follows each of the stamps of q. *)
Above1(S, m, q) == S = {m} \cup {v + 1 : v \in ToSet(q)}

(* The new clock is above every stamp that came in, and never goes back. *)
LEMMA ClockIs ==
  ASSUME NEW m \in Nat, NEW q \in Seq(Nat), NEW S, Above1(S, m, q)
  PROVE  Max(S) \in Nat /\ Max(S) >= m /\ \A i \in DOMAIN q : q[i] < Max(S)
<1>1. PICK D : D = DOMAIN q
  OBVIOUS
<1>2. IsFiniteSet(D)
  <2>1. D = 1 .. Len(q) /\ Len(q) \in Nat
    BY <1>1
  <2>. QED BY <2>1, FS_Interval
<1>3. PICK T : T = {q[i] + 1 : i \in D}
  OBVIOUS
<1>4. PICK f : f = [i \in D |-> q[i] + 1]
  OBVIOUS
<1>5. f \in Surjection(D, T)
  BY <1>3, <1>4 DEF Surjection
<1>6. IsFiniteSet(T)
  BY <1>2, <1>5, FS_Surjection
<1>7. S = T \cup {m}
  BY <1>1, <1>3 DEF ToSet, Above1
<1>8. IsFiniteSet(S)
  BY <1>6, <1>7, FS_AddElement
<1>9. \A i \in D : q[i] \in Nat /\ q[i] + 1 \in S
  BY <1>1, <1>3, <1>7
<1>10. S \subseteq Nat /\ m \in S
  <2>1. T \subseteq Nat
    BY <1>1, <1>3
  <2>. QED BY <1>7, <2>1
<1>11. Max(S) \in S /\ \A s \in S : Max(S) >= s
  <2>1. Integral(S) /\ S # {}
    BY <1>10 DEF Integral
  <2>. QED BY <1>8, <2>1, MaxIs
<1>12. PICK x : x = Max(S)
  OBVIOUS
<1>13. x \in Nat /\ x >= m
  BY <1>10, <1>11, <1>12
<1>14. \A i \in D : q[i] < x
  BY <1>9, <1>11, <1>12, <1>13
<1>. QED BY <1>1, <1>12, <1>13, <1>14

(* The slots of a container in the order of its chain. *)
Line(c) == FlattenSeq(c.blocks)

(* Those that hold an element, by their type bits. *)
Used(h, c) == {s \in SlotsOf(c) : h[s].type = "used"}

(* Those that are marked free. *)
FreeOf(h, c) == {s \in SlotsOf(c) : h[s].type = "free"}

(* Iteration visits the used slots, each of them once. *)
LEMMA IterationIs ==
  ASSUME NEW h, NEW c, Lists(Line(c), SlotsOf(c))
  PROVE  Lists(Iteration(h, c), Used(h, c))
<1>1. PICK chain, S, n : chain = Line(c) /\ S = SlotsOf(c) /\ n = Len(chain)
  OBVIOUS
<1>2. /\ chain \in Seq(S) /\ n \in Nat /\ DOMAIN chain = 1 .. n
      /\ \A i, j \in 1 .. n : chain[i] = chain[j] => i = j
      /\ \A i \in 1 .. n : chain[i] \in S
      /\ \A s \in S : \E i \in 1 .. n : chain[i] = s
  BY <1>1 DEF Lists, IsInjective, ToSet
<1>3. PICK P : P = {i \in 1 .. n : h[chain[i]].type = "used"}
  OBVIOUS
<1>4. IsFiniteSet(P) /\ Integral(P)
  <2>1. IsFiniteSet(1 .. n) /\ P \subseteq 1 .. n
    BY <1>2, <1>3, FS_Interval
  <2>2. \A i \in 1 .. n : i \in Int
    OBVIOUS
  <2>. QED BY <2>1, <2>2, FS_Subset DEF Integral
<1>5. PICK places, m : places = InOrder(P) /\ m = Len(places)
  OBVIOUS
<1>6. Lists(places, P)
  BY <1>4, <1>5, InOrderLists
<1>7. /\ m \in Nat /\ DOMAIN places = 1 .. m
      /\ \A i, j \in 1 .. m : places[i] = places[j] => i = j
      /\ \A i \in 1 .. m : places[i] \in P
      /\ \A s \in P : \E i \in 1 .. m : places[i] = s
  <2>1. places \in Seq(P)
    BY <1>6 DEF Lists
  <2>2. m \in Nat /\ DOMAIN places = 1 .. m /\ \A i \in 1 .. m : places[i] \in P
    BY <1>5, <2>1
  <2>3. IsInjective(places) /\ ToSet(places) = P
    BY <1>6 DEF Lists
  <2>. QED BY <2>2, <2>3 DEF IsInjective, ToSet
<1>8. PICK q : q = Iteration(h, c)
  OBVIOUS
<1>9. q = [k \in 1 .. m |-> chain[places[k]]]
  <2>1. Iteration(h, c) = [k \in DOMAIN places |-> chain[places[k]]]
    BY <1>1, <1>2, <1>3, <1>5 DEF Iteration, Line
  <2>. QED BY <1>7, <1>8, <2>1
<1>10. PICK U : U = Used(h, c)
  OBVIOUS
<1>11. \A s : s \in U <=> s \in S /\ h[s].type = "used"
  BY <1>1, <1>10 DEF Used
<1>12. \A k \in 1 .. m : q[k] = chain[places[k]] /\ places[k] \in 1 .. n
  BY <1>3, <1>7, <1>9
<1>13. \A k \in 1 .. m : q[k] \in U
  BY <1>2, <1>3, <1>7, <1>11, <1>12
<1>14. q \in Seq(U) /\ DOMAIN q = 1 .. m
  BY <1>7, <1>9, <1>13
<1>15. IsInjective(q)
  <2>1. ASSUME NEW i \in 1 .. m, NEW j \in 1 .. m, q[i] = q[j] PROVE i = j
    <3>1. places[i] = places[j]
      BY <1>2, <1>12, <2>1
    <3>. QED BY <1>7, <3>1
  <2>. QED BY <1>14, <2>1 DEF IsInjective
<1>16. \A s \in U : \E k \in 1 .. m : q[k] = s
  <2>1. SUFFICES ASSUME NEW s \in U PROVE \E k \in 1 .. m : q[k] = s
    OBVIOUS
  <2>2. PICK i \in 1 .. n : chain[i] = s
    BY <1>2, <1>11
  <2>3. i \in P
    BY <1>3, <1>11, <2>2
  <2>4. PICK k \in 1 .. m : places[k] = i
    BY <1>7, <2>3
  <2>. QED BY <1>12, <2>2, <2>4
<1>17. ToSet(q) = U
  BY <1>13, <1>14, <1>16 DEF ToSet
<1>. QED BY <1>8, <1>10, <1>14, <1>15, <1>17 DEF Lists

(* All the elements before all the free slots. *)
LEMMA IterationLined ==
  ASSUME NEW h, NEW c, NEW S, NEW order \in Seq(S), NEW rest \in Seq(S),
         Line(c) = order \o rest,
         \A s \in ToSet(order) : h[s].type = "used",
         \A s \in ToSet(rest) : h[s].type # "used"
  PROVE  Iteration(h, c) = order
<1>1. PICK chain, m, n : chain = Line(c) /\ m = Len(order) /\ n = Len(rest)
  OBVIOUS
<1>2. /\ m \in Nat /\ n \in Nat /\ DOMAIN order = 1 .. m /\ DOMAIN rest = 1 .. n
  BY <1>1
<1>3. /\ DOMAIN chain = 1 .. m + n
      /\ \A i \in 1 .. m : chain[i] = order[i]
      /\ \A i \in 1 .. n : chain[i + m] = rest[i]
  BY <1>1, <1>2
<1>4. PICK P : P = {i \in 1 .. m + n : h[chain[i]].type = "used"}
  OBVIOUS
<1>5. P = 1 .. m
  <2>1. ASSUME NEW i \in 1 .. m PROVE i \in P
    <3>1. i \in 1 .. m + n /\ order[i] \in ToSet(order)
      BY <1>2 DEF ToSet
    <3>2. h[chain[i]].type = "used"
      BY <1>3, <3>1
    <3>. QED BY <1>4, <3>1, <3>2
  <2>2. ASSUME NEW i \in P PROVE i \in 1 .. m
    <3>1. SUFFICES ASSUME i \notin 1 .. m PROVE FALSE
      OBVIOUS
    <3>2. i \in 1 .. m + n
      BY <1>4
    <3>3. PICK j : j = i - m
      OBVIOUS
    <3>4. j \in 1 .. n /\ i = j + m
      BY <1>2, <3>1, <3>2, <3>3
    <3>5. chain[i] = rest[j] /\ rest[j] \in ToSet(rest)
      BY <1>2, <1>3, <3>4 DEF ToSet
    <3>. QED BY <1>4, <3>5
  <2>. QED BY <2>1, <2>2
<1>6. PICK places : places = InOrder(P)
  OBVIOUS
<1>7. places = [k \in 1 .. m |-> k]
  BY <1>2, <1>5, <1>6, InOrderInterval
<1>8. Iteration(h, c) = [k \in DOMAIN places |-> chain[places[k]]]
  BY <1>1, <1>3, <1>4, <1>6 DEF Iteration, Line
<1>9. Iteration(h, c) = [k \in 1 .. m |-> order[k]]
  BY <1>3, <1>7, <1>8
<1>10. order = [k \in 1 .. m |-> order[k]]
  BY <1>2
<1>. QED BY <1>9, <1>10

-----------------------------------------------------------------------------
(***************************************************************************)
(* One container is sound if its free list and its counters agree with the *)
(* type bits of its slots.                                                 *)
(***************************************************************************)
(* The container c is sound in the heap h. *)
Sound(h, c) ==
  /\ c \in Members /\ SlotsOf(c) \subseteq Slots
  /\ Lists(Line(c), SlotsOf(c)) /\ Lists(c.free, FreeOf(h, c))
  /\ \A s \in SlotsOf(c) : h[s].type \in {"free", "used"}
  /\ c.size = Cardinality(Used(h, c)) /\ c.capacity = Cardinality(SlotsOf(c))

(* d is c after elements with these stamps came in: they took the slots of *)
(* taken, the first ones of the free list and the new slots behind it.     *)
Takes(c, d, taken, new, stamps) ==
  /\ d \in Members
  /\ Lists(new, ToSet(new)) /\ ToSet(new) \subseteq Unused
  /\ Line(d) = Line(c) \o new
  /\ taken \in Seq(Slots) /\ Len(taken) = Len(stamps)
  /\ c.free \o new = taken \o d.free
  /\ d.size = c.size + Len(stamps) /\ d.capacity = c.capacity + Len(new)
  /\ d.clock >= c.clock /\ \A i \in DOMAIN stamps : stamps[i] < d.clock

(* The members of a container, field by field. *)
LEMMA MembersAre ==
  ASSUME NEW c
  PROVE  c \in Members <=>
           /\ c = [blocks |-> c.blocks, free |-> c.free, size |-> c.size,
                   capacity |-> c.capacity, blockSize |-> c.blockSize, clock |-> c.clock]
           /\ c.blocks \in Seq(Seq(Slots)) /\ c.free \in Seq(Slots) /\ c.size \in Nat
           /\ c.capacity \in Nat /\ c.blockSize \in Nat \ {0} /\ c.clock \in Nat
BY DEF Members

(* A sequence over S, named so that the provers do not look into it. *)
Of(q, S) == q \in Seq(S)

(* p and r are what q is cut into after its n-th element. *)
Cut(q, n, p, r) == p = SubSeq(q, 1, n) /\ r = SubSeq(q, n + 1, Len(q))

(* The two parts of a sequence, joined again, are the sequence. *)
LEMMA CutAfter ==
  ASSUME NEW S, NEW q, Of(q, S), NEW n \in Nat, n <= Len(q), NEW p, NEW r, Cut(q, n, p, r)
  PROVE  Of(p, S) /\ Len(p) = n /\ Of(r, S) /\ q = Both(p, r)
<1> USE DEF Of, Cut, Both
<1>1. p \in Seq(S) /\ Len(p) = n
  BY SubSeqProperties
<1>2. r \in Seq(S)
  BY SubSeqProperties
<1>3. p \o r = SubSeq(q, 1, Len(q))
  <2>1. 1 \in 1 .. Len(q) + 1 /\ n \in 1 - 1 .. Len(q) /\ Len(q) \in n .. Len(q)
    OBVIOUS
  <2>. QED BY <2>1, ConcatAdjacentSubSeq
<1>4. SubSeq(q, 1, Len(q)) = q
  BY SubSeqFull
<1>. QED BY <1>1, <1>2, <1>3, <1>4

(* A list cut in two. *)
LEMMA ListsParts ==
  ASSUME NEW U, NEW r, Lists(r, U), NEW p, NEW q, Of(p, U), Of(q, U), r = Both(p, q)
  PROVE  /\ Lists(p, ToSet(p)) /\ Lists(q, ToSet(q))
         /\ ToSet(p) \cap ToSet(q) = {} /\ ToSet(p) \cup ToSet(q) = U
BY ListsCut DEF Of, Both

(* The type and the length of two sequences joined. *)
LEMMA BothIs ==
  ASSUME NEW S, NEW p, NEW q, Of(p, S), Of(q, S)
  PROVE  Of(Both(p, q), S) /\ Len(Both(p, q)) = Len(p) + Len(q)
BY DEF Of, Both

(* A chain that is joined from two has the slots of both. *)
LEMMA FlattenBoth ==
  ASSUME NEW S, NEW p, NEW q, Of(p, Seq(S)), Of(q, Seq(S))
  PROVE  FlattenSeq(Both(p, q)) = Both(FlattenSeq(p), FlattenSeq(q))
BY FlattenTwo DEF Of, Both

(* The new blocks bring slots that nobody uses. *)
LEMMA NewListed ==
  ASSUME NEW c, c.blockSize \in Nat \ {0}, NEW k \in Nat,
         Capacity(c, k) <= Cardinality(Unused), NEW new, new = FlattenSeq(NewBlocks(c, k))
  PROVE  /\ Of(NewBlocks(c, k), Seq(Slots)) /\ Len(new) = Capacity(c, k)
         /\ Lists(new, ToSet(new)) /\ ToSet(new) \subseteq Unused /\ Of(new, Slots)
<1>1. PICK memory, cap : memory = InOrder(Unused) /\ cap = Capacity(c, k)
  OBVIOUS
<1>2. Lists(memory, Unused) /\ Of(memory, Unused) /\ Cardinality(Unused) = Len(memory)
  BY <1>1, MemoryIs, ListsCount DEF Lists, Of
<1>3. cap \in Nat /\ cap <= Len(memory)
  BY <1>1, <1>2, CapacityType
<1>4. NewBlocks(c, k) \in Seq(Seq(Slots)) /\ new = SubSeq(memory, 1, cap)
  BY <1>1, NewBlocksAre
<1>5. PICK later : Cut(memory, cap, new, later)
  BY <1>4 DEF Cut
<1>6. Of(new, Unused) /\ Len(new) = cap /\ Of(later, Unused) /\ memory = Both(new, later)
  BY <1>2, <1>3, <1>5, CutAfter
<1>7. Lists(new, ToSet(new)) /\ ToSet(new) \cup ToSet(later) = Unused
  BY <1>2, <1>6, ListsParts
<1>8. new \in Seq(Slots)
  BY <1>7, ListsType DEF Unused
<1>. QED BY <1>1, <1>4, <1>6, <1>7, <1>8 DEF Of

(* d is c with the slots of new, all of them free. *)
Grows(c, d, new) ==
  /\ d \in Members
  /\ Lists(new, ToSet(new)) /\ ToSet(new) \subseteq Unused /\ Of(new, Slots)
  /\ Line(d) = Both(Line(c), new) /\ d.free = Both(new, c.free)
  /\ d.size = c.size /\ d.capacity = c.capacity + Len(new) /\ d.clock = c.clock

(* That is what a container has become when new blocks have joined it. *)
LEMMA GrownGrows ==
  ASSUME NEW c \in Members, NEW k \in Nat, Capacity(c, k) <= Cardinality(Unused),
         NEW new, new = FlattenSeq(NewBlocks(c, k))
  PROVE  Grows(c, Grown(c, k), new)
<1>1. PICK d, blocks, cap : d = Grown(c, k) /\ blocks = NewBlocks(c, k) /\ cap = Capacity(c, k)
  OBVIOUS
<1>2. /\ c = [blocks |-> c.blocks, free |-> c.free, size |-> c.size,
              capacity |-> c.capacity, blockSize |-> c.blockSize, clock |-> c.clock]
      /\ c.blocks \in Seq(Seq(Slots)) /\ c.free \in Seq(Slots) /\ c.size \in Nat
      /\ c.capacity \in Nat /\ c.blockSize \in Nat \ {0} /\ c.clock \in Nat
  BY MembersAre
<1>3. /\ Of(blocks, Seq(Slots)) /\ Len(new) = cap
      /\ Lists(new, ToSet(new)) /\ ToSet(new) \subseteq Unused /\ Of(new, Slots)
  BY <1>1, <1>2, NewListed
<1>4. cap \in Nat
  BY <1>1, <1>2, CapacityType
<1>5. d = [c EXCEPT !.blocks = Both(@, blocks), !.free = Both(new, @),
                    !.capacity = @ + cap, !.blockSize = @ + k * Growth]
  BY <1>1 DEF Grown, Threaded, Both
<1>6. PICK z : z = c.blockSize + k * Growth
  OBVIOUS
<1>7. PICK b, t, x : /\ b = Both(c.blocks, blocks) /\ t = Both(new, c.free)
                     /\ x = c.capacity + cap
  OBVIOUS
<1>8. d = [blocks |-> b, free |-> t, size |-> c.size, capacity |-> x, blockSize |-> z,
           clock |-> c.clock]
  BY <1>2, <1>5, <1>6, <1>7
<1>9. Of(c.blocks, Seq(Slots)) /\ Of(c.free, Slots)
  BY <1>2 DEF Of
<1>10. b \in Seq(Seq(Slots)) /\ t \in Seq(Slots)
  <2>1. Of(b, Seq(Slots))
    BY <1>3, <1>7, <1>9, BothIs
  <2>2. Of(t, Slots)
    BY <1>3, <1>7, <1>9, BothIs
  <2>. QED BY <2>1, <2>2 DEF Of
<1>11. z \in Nat \ {0} /\ x \in Nat
  <2>1. PICK g : g = k * Growth
    OBVIOUS
  <2>2. g \in Nat
    BY <2>1, ConstantsAssumption
  <2>. QED BY <1>2, <1>4, <1>6, <1>7, <2>1, <2>2
<1>12. d \in Members
  <2>1. /\ d.blocks = b /\ d.free = t /\ d.size = c.size
        /\ d.capacity = x /\ d.blockSize = z /\ d.clock = c.clock
    BY <1>8
  <2>2. d = [blocks |-> d.blocks, free |-> d.free, size |-> d.size,
             capacity |-> d.capacity, blockSize |-> d.blockSize, clock |-> d.clock]
    BY <1>8
  <2>. QED BY <1>2, <1>10, <1>11, <2>1, <2>2, MembersAre
<1>13. Line(d) = Both(Line(c), new)
  <2>1. d.blocks = Both(c.blocks, blocks)
    BY <1>7, <1>8
  <2>2. FlattenSeq(Both(c.blocks, blocks)) = Both(FlattenSeq(c.blocks), FlattenSeq(blocks))
    BY <1>3, <1>9, FlattenBoth
  <2>. QED BY <1>1, <2>1, <2>2 DEF Line
<1>14. /\ d.free = Both(new, c.free) /\ d.size = c.size
       /\ d.capacity = c.capacity + Len(new) /\ d.clock = c.clock
  BY <1>3, <1>7, <1>8
<1>. QED BY <1>1, <1>3, <1>12, <1>13, <1>14 DEF Grows

(* Filled takes the first slots of the free list and of the new blocks. *)
LEMMA FilledIs ==
  ASSUME NEW c, Sound(heap, c), NEW stamps \in Seq(Nat), HasRoom(c, Len(stamps)),
         NEW d, d = Filled(c, stamps), NEW taken, taken = Taken(c, Len(stamps)),
         NEW new, new = Places(c, Len(stamps)).new
  PROVE  Takes(c, d, taken, new, stamps)
<1>1. PICK n : n = Len(stamps)
  OBVIOUS
<1>2. n \in Nat /\ DOMAIN stamps = 1 .. n
  BY <1>1
<1>3. PICK k : k = Needed(c, n)
  OBVIOUS
<1>4. /\ c.blocks \in Seq(Seq(Slots)) /\ c.free \in Seq(Slots) /\ c.size \in Nat
      /\ c.capacity \in Nat /\ c.blockSize \in Nat \ {0} /\ c.clock \in Nat
  BY DEF Sound, Members
<1>5. PICK f : f = Len(c.free)
  OBVIOUS
<1>6. f \in Nat
  BY <1>4, <1>5
<1>7. PICK more : more = IF n > f THEN n - f ELSE 0
  OBVIOUS
<1>8. more \in Nat /\ f + more >= n
  BY <1>2, <1>6, <1>7
<1>9. k = BlocksFor(c, more)
  BY <1>3, <1>5, <1>7 DEF Needed
<1>10. PICK cap : cap = Capacity(c, k)
  OBVIOUS
<1>11. k \in Nat /\ cap \in Nat /\ cap >= more
  <2>1. k \in Nat /\ cap >= more
    BY <1>4, <1>8, <1>9, <1>10, BlocksForIs
  <2>. QED BY <1>4, <1>10, <2>1, CapacityType
<1>12. PICK blocks : blocks = NewBlocks(c, k)
  OBVIOUS
<1>13. new = FlattenSeq(blocks)
  BY <1>1, <1>3, <1>12 DEF Places, Threaded
<1>14. cap <= Cardinality(Unused)
  BY <1>1, <1>3, <1>10 DEF HasRoom
<1>15. /\ blocks \in Seq(Seq(Slots)) /\ Len(new) = cap
       /\ Lists(new, ToSet(new)) /\ ToSet(new) \subseteq Unused /\ new \in Seq(Slots)
  <2>1. /\ Of(blocks, Seq(Slots)) /\ Len(new) = cap
        /\ Lists(new, ToSet(new)) /\ ToSet(new) \subseteq Unused /\ Of(new, Slots)
    BY <1>4, <1>10, <1>11, <1>12, <1>13, <1>14, NewListed
  <2>. QED BY <2>1 DEF Of
<1>16. PICK all : all = c.free \o new
  OBVIOUS
<1>17. all \in Seq(Slots) /\ Len(all) = f + cap /\ n <= f + cap
  <2>1. all \in Seq(Slots) /\ Len(all) = f + cap
    <3>1. Of(c.free, Slots) /\ Of(new, Slots) /\ all = Both(c.free, new)
      BY <1>4, <1>15, <1>16 DEF Of, Both
    <3>2. Of(all, Slots) /\ Len(all) = Len(c.free) + Len(new)
      BY <3>1, BothIs
    <3>. QED BY <1>5, <1>15, <3>2 DEF Of
  <2>2. n <= f + cap
    BY <1>2, <1>6, <1>8, <1>11
  <2>. QED BY <2>1, <2>2
<1>18. PICK rest : rest = SubSeq(all, n + 1, Len(all))
  OBVIOUS
<1>19. taken = SubSeq(all, 1, n)
  BY <1>1, <1>3, <1>12, <1>16 DEF Taken, Places
<1>20. all = taken \o rest /\ taken \in Seq(Slots) /\ Len(taken) = n /\ rest \in Seq(Slots)
  <2>1. n <= Len(all) /\ Of(all, Slots)
    BY <1>17 DEF Of
  <2>2. Cut(all, n, taken, rest)
    BY <1>18, <1>19 DEF Cut
  <2>3. Of(taken, Slots) /\ Len(taken) = n /\ Of(rest, Slots) /\ all = Both(taken, rest)
    BY <1>2, <2>1, <2>2, CutAfter
  <2>. QED BY <2>3 DEF Of, Both
<1>21. PICK S : Above1(S, c.clock, stamps)
  BY DEF Above1
<1>22. PICK clock : clock = Max(S)
  OBVIOUS
<1>23. clock \in Nat /\ clock >= c.clock /\ \A i \in DOMAIN stamps : stamps[i] < clock
  BY <1>4, <1>21, <1>22, ClockIs
<1>24. PICK g : g = Grown(c, k)
  OBVIOUS
<1>25. Grows(c, g, new)
  BY <1>4, <1>10, <1>11, <1>12, <1>13, <1>14, <1>24, GrownGrows DEF Sound
<1>26. d = [g EXCEPT !.free = rest, !.size = @ + n, !.clock = clock]
  <2>1. Places(c, n).grown = g /\ Places(c, n).all = all
    BY <1>1, <1>3, <1>12, <1>16, <1>24 DEF Places
  <2>2. d = [g EXCEPT !.free = SubSeq(all, n + 1, Len(all)),
                      !.size = @ + n,
                      !.clock = Max({@} \cup {v + 1 : v \in ToSet(stamps)})]
    BY <1>1, <2>1 DEF Filled
  <2>3. Max({g.clock} \cup {v + 1 : v \in ToSet(stamps)}) = clock
    BY <1>21, <1>22, <1>25 DEF Above1, Grows
  <2>. QED BY <1>18, <2>2, <2>3
<1>27. /\ g = [blocks |-> g.blocks, free |-> g.free, size |-> g.size,
               capacity |-> g.capacity, blockSize |-> g.blockSize, clock |-> g.clock]
       /\ g.blocks \in Seq(Seq(Slots)) /\ g.size \in Nat /\ g.capacity \in Nat
       /\ g.blockSize \in Nat \ {0}
  BY <1>25, MembersAre DEF Grows
<1>28. d = [blocks |-> g.blocks, free |-> rest, size |-> g.size + n,
            capacity |-> g.capacity, blockSize |-> g.blockSize, clock |-> clock]
  BY <1>26, <1>27
<1>29. /\ d.blocks = g.blocks /\ d.free = rest /\ d.size = g.size + n
       /\ d.capacity = g.capacity /\ d.blockSize = g.blockSize /\ d.clock = clock
  BY <1>28
<1>30. d \in Members
  <2>1. g.size + n \in Nat
    BY <1>2, <1>27
  <2>2. d = [blocks |-> d.blocks, free |-> d.free, size |-> d.size,
             capacity |-> d.capacity, blockSize |-> d.blockSize, clock |-> d.clock]
    BY <1>28
  <2>. QED BY <1>20, <1>23, <1>27, <1>29, <2>1, <2>2, MembersAre
<1>31. Line(d) = Line(c) \o new
  BY <1>25, <1>29 DEF Grows, Line, Both
<1>32. d.size = c.size + n /\ d.capacity = c.capacity + Len(new)
  BY <1>25, <1>29 DEF Grows
<1>. QED BY <1>1, <1>15, <1>16, <1>20, <1>23, <1>29, <1>30, <1>31, <1>32 DEF Takes

-----------------------------------------------------------------------------
(***************************************************************************)
(* What insertions leave in the heap.                                      *)
(***************************************************************************)
(* The heap h after that; the slots of gone were deallocated. *)
HeapTakes(h, taken, new, stamps, gone) ==
  /\ h \in [Slots -> Slot]
  /\ \A i \in DOMAIN stamps : h[taken[i]].type = "used" /\ h[taken[i]].stamp = stamps[i]
  /\ \A s \in Slots \ ToSet(taken) :
       IF s \in ToSet(new) THEN h[s].type = "free" /\ h[s].stamp = Unset
       ELSE IF s \in gone THEN h[s].type = "none" /\ h[s].stamp = Unset
       ELSE h[s] = heap[s]

(* A slot's type bits and stamp. *)
LEMMA SlotIs ==
  ASSUME NEW t \in {"none", "free", "used"}, NEW v \in Nat \cup {Unset}
  PROVE  /\ [type |-> t, stamp |-> v] \in Slot
         /\ [type |-> t, stamp |-> v].type = t /\ [type |-> t, stamp |-> v].stamp = v
BY DEF Slot

(* HeapFilled writes the slots that are taken, and marks the other new     *)
(* ones.                                                                   *)
LEMMA HeapFilledIs ==
  ASSUME heap \in [Slots -> Slot], NEW c, NEW d, NEW stamps \in Seq(Nat), NEW gone,
         NEW taken, taken = Taken(c, Len(stamps)), NEW new, new = Places(c, Len(stamps)).new,
         Takes(c, d, taken, new, stamps), IsInjective(taken),
         NEW h, h = HeapFilled(c, stamps, gone)
  PROVE  HeapTakes(h, taken, new, stamps, gone)
<1>1. PICK n, D : n = Len(stamps) /\ D = 1 .. n
  OBVIOUS
<1>2. n \in Nat /\ DOMAIN stamps = D /\ \A i \in D : stamps[i] \in Nat
  BY <1>1
<1>3. taken \in Seq(Slots) /\ Len(taken) = n
  BY <1>1 DEF Takes
<1>4. DOMAIN taken = D /\ \A i \in D : taken[i] \in Slots
  BY <1>1, <1>3
<1>5. PICK T, N : T = ToSet(taken) /\ N = ToSet(new)
  OBVIOUS
<1>6. \A s : s \in T <=> \E i \in D : taken[i] = s
  BY <1>4, <1>5 DEF ToSet
<1>7. taken = SubSeq(Places(c, n).all, 1, n)
  BY <1>1 DEF Taken
<1>8. h = [s \in Slots |->
             IF s \in T
             THEN [type |-> "used", stamp |-> stamps[CHOOSE i \in D : taken[i] = s]]
             ELSE IF s \in N THEN [type |-> "free", stamp |-> Unset]
             ELSE IF s \in gone THEN [type |-> "none", stamp |-> Unset]
             ELSE heap[s]]
  BY <1>1, <1>4, <1>5, <1>7 DEF HeapFilled
<1>9. ASSUME NEW i \in D
      PROVE  /\ h[taken[i]].type = "used" /\ h[taken[i]].stamp = stamps[i]
             /\ h[taken[i]] \in Slot
  <2>1. PICK s : s = taken[i] /\ s \in Slots /\ s \in T
    BY <1>4, <1>6
  <2>2. PICK j : j = CHOOSE k \in D : taken[k] = s
    OBVIOUS
  <2>3. j \in D /\ taken[j] = s
    BY <2>1, <2>2
  <2>4. j = i
    BY <1>4, <2>1, <2>3 DEF IsInjective
  <2>5. h[s] = [type |-> "used", stamp |-> stamps[j]]
    BY <1>8, <2>1, <2>2
  <2>. QED BY <1>2, <2>1, <2>4, <2>5, SlotIs
<1>10. ASSUME NEW s \in Slots, s \notin T
       PROVE  /\ IF s \in N THEN h[s].type = "free" /\ h[s].stamp = Unset
                 ELSE IF s \in gone THEN h[s].type = "none" /\ h[s].stamp = Unset
                 ELSE h[s] = heap[s]
              /\ h[s] \in Slot
  <2>1. CASE s \in N
    <3>1. h[s] = [type |-> "free", stamp |-> Unset]
      BY <1>8, <1>10, <2>1
    <3>2. h[s].type = "free" /\ h[s].stamp = Unset /\ h[s] \in Slot
      BY <3>1 DEF Slot
    <3>. QED BY <2>1, <3>2
  <2>2. CASE s \notin N /\ s \in gone
    <3>1. h[s] = [type |-> "none", stamp |-> Unset]
      BY <1>8, <1>10, <2>2
    <3>2. h[s].type = "none" /\ h[s].stamp = Unset /\ h[s] \in Slot
      BY <3>1 DEF Slot
    <3>. QED BY <2>2, <3>2
  <2>3. CASE s \notin N /\ s \notin gone
    <3>1. h[s] = heap[s]
      BY <1>8, <1>10, <2>3
    <3>. QED BY <2>3, <3>1
  <2>. QED BY <2>1, <2>2, <2>3
<1>11. h \in [Slots -> Slot]
  <2>1. \A s \in Slots : h[s] \in Slot
    BY <1>6, <1>9, <1>10
  <2>2. h = [s \in Slots |-> h[s]]
    BY <1>8
  <2>. QED BY <2>1, <2>2
<1>. QED BY <1>2, <1>5, <1>9, <1>10, <1>11 DEF HeapTakes

(* The slots in which elements are, and those that stay free. *)
LEMMA TakenAre ==
  ASSUME NEW c, Sound(heap, c), NEW d, NEW taken, NEW new, NEW stamps,
         Takes(c, d, taken, new, stamps)
  PROVE  /\ Lists(taken, ToSet(taken)) /\ Lists(d.free, ToSet(d.free))
         /\ ToSet(taken) \cap ToSet(d.free) = {}
         /\ ToSet(taken) \cup ToSet(d.free) = FreeOf(heap, c) \cup ToSet(new)
         /\ ToSet(new) \cap SlotsOf(c) = {} /\ ToSet(new) \subseteq Slots
         /\ SlotsOf(d) = SlotsOf(c) \cup ToSet(new)
         /\ Lists(Line(d), SlotsOf(d))
<1>1. PICK N, F, U : N = ToSet(new) /\ F = FreeOf(heap, c) /\ U = F \cup N
  OBVIOUS
<1>2. N \cap SlotsOf(c) = {} /\ N \subseteq Slots
  BY <1>1 DEF Takes, Sound, Unused
<1>3. F \subseteq SlotsOf(c)
  BY <1>1 DEF FreeOf
<1>4. Lists(c.free, F) /\ Lists(new, N)
  BY <1>1 DEF Sound, Takes
<1>5. Lists(c.free \o new, U)
  BY <1>1, <1>2, <1>3, <1>4, ListsBoth
<1>6. PICK all : all = Both(taken, d.free)
  OBVIOUS
<1>7. Lists(all, U)
  BY <1>5, <1>6 DEF Takes, Both
<1>8. Of(taken, U) /\ Of(d.free, U)
  <2>1. all \in Seq(U) /\ all = taken \o d.free
    BY <1>6, <1>7 DEF Lists, Both
  <2>2. taken \in Seq(Slots) /\ d.free \in Seq(Slots)
    BY DEF Takes, Members
  <2>3. PICK m, n : m = Len(taken) /\ n = Len(d.free)
    OBVIOUS
  <2>4. /\ m \in Nat /\ n \in Nat /\ Len(all) = m + n
        /\ \A i \in 1 .. m : all[i] = taken[i]
        /\ \A i \in 1 .. n : all[i + m] = d.free[i]
    BY <2>1, <2>2, <2>3
  <2>5. \A i \in 1 .. m + n : all[i] \in U
    BY <2>1, <2>4
  <2>6. \A i \in 1 .. m : taken[i] \in U
    <3>1. \A i \in 1 .. m : i \in 1 .. m + n
      BY <2>4
    <3>. QED BY <2>4, <2>5, <3>1
  <2>7. \A i \in 1 .. n : d.free[i] \in U
    <3>1. \A i \in 1 .. n : i + m \in 1 .. m + n
      BY <2>4
    <3>. QED BY <2>4, <2>5, <3>1
  <2>. QED BY <2>2, <2>3, <2>6, <2>7 DEF Of
<1>9. /\ Lists(taken, ToSet(taken)) /\ Lists(d.free, ToSet(d.free))
      /\ ToSet(taken) \cap ToSet(d.free) = {} /\ ToSet(taken) \cup ToSet(d.free) = U
  BY <1>6, <1>7, <1>8, ListsParts
<1>10. Lists(Line(d), SlotsOf(c) \cup N)
  <2>1. Lists(Line(c), SlotsOf(c)) /\ SlotsOf(c) \cap N = {}
    BY <1>2 DEF Sound
  <2>2. Lists(Line(c) \o new, SlotsOf(c) \cup N)
    BY <1>4, <2>1, ListsBoth
  <2>. QED BY <2>2 DEF Takes
<1>11. SlotsOf(d) = SlotsOf(c) \cup N
  BY <1>10 DEF Lists, SlotsOf, Line
<1>. QED BY <1>1, <1>2, <1>9, <1>10, <1>11

(* A sound container stays sound when elements come in. *)
LEMMA FilledSound ==
  ASSUME NEW c, Sound(heap, c), NEW d, NEW taken, NEW new, NEW stamps \in Seq(Nat),
         Takes(c, d, taken, new, stamps), NEW gone, gone \cap SlotsOf(c) = {},
         NEW h, HeapTakes(h, taken, new, stamps, gone)
  PROVE  Sound(h, d)
<1>1. PICK N, F, T, R, C : /\ N = ToSet(new) /\ F = FreeOf(heap, c) /\ T = ToSet(taken)
                           /\ R = ToSet(d.free) /\ C = SlotsOf(c)
  OBVIOUS
<1>2. /\ Lists(taken, T) /\ Lists(d.free, R) /\ T \cap R = {} /\ T \cup R = F \cup N
      /\ N \cap C = {} /\ N \subseteq Slots /\ SlotsOf(d) = C \cup N
      /\ Lists(Line(d), C \cup N)
  <2>1. /\ Lists(taken, ToSet(taken)) /\ Lists(d.free, ToSet(d.free))
        /\ ToSet(taken) \cap ToSet(d.free) = {}
        /\ ToSet(taken) \cup ToSet(d.free) = FreeOf(heap, c) \cup ToSet(new)
        /\ ToSet(new) \cap SlotsOf(c) = {} /\ ToSet(new) \subseteq Slots
        /\ SlotsOf(d) = SlotsOf(c) \cup ToSet(new)
        /\ Lists(Line(d), SlotsOf(d))
    BY TakenAre, Zenon
  <2>. QED BY <1>1, <2>1
<1>3. C \subseteq Slots /\ F \subseteq C /\ gone \cap C = {}
  BY <1>1 DEF Sound, FreeOf
<1>4. \A s \in T : h[s].type = "used"
  <2>1. PICK n : n = Len(stamps) /\ n \in Nat /\ DOMAIN stamps = 1 .. n
    OBVIOUS
  <2>2. Len(taken) = n /\ taken \in Seq(Slots)
    BY <2>1 DEF Takes
  <2>3. DOMAIN taken = DOMAIN stamps
    BY <2>1, <2>2
  <2>. QED BY <1>1, <2>3 DEF HeapTakes, ToSet
<1>5. \A s \in N \ T : h[s].type = "free"
  BY <1>1, <1>2 DEF HeapTakes
<1>6. \A s \in (C \ T) : h[s] = heap[s]
  BY <1>1, <1>2, <1>3 DEF HeapTakes
<1>7. \A s \in C : heap[s].type \in {"free", "used"} /\ (s \in F <=> heap[s].type = "free")
  BY <1>1 DEF Sound, FreeOf
<1>8. FreeOf(h, d) = R
  <2>1. ASSUME NEW s \in C \cup N PROVE h[s].type = "free" <=> s \in R
    <3>1. CASE s \in T
      BY <1>2, <1>4, <3>1
    <3>2. CASE s \notin T /\ s \in N
      BY <1>2, <1>5, <3>2
    <3>3. CASE s \notin T /\ s \notin N
      BY <1>2, <1>6, <1>7, <2>1, <3>3
    <3>. QED BY <3>1, <3>2, <3>3
  <2>. QED BY <1>2, <1>3, <2>1 DEF FreeOf
<1>9. \A s \in C \cup N : h[s].type \in {"free", "used"}
  BY <1>2, <1>4, <1>5, <1>6, <1>7
<1>10. PICK V : V = Used(heap, c)
  OBVIOUS
<1>11. \A s : s \in V <=> s \in C /\ heap[s].type = "used"
  BY <1>1, <1>10 DEF Used
<1>12. Used(h, d) = V \cup T
  <2>1. ASSUME NEW s \in C \cup N PROVE h[s].type = "used" <=> s \in V \cup T
    <3>1. CASE s \in T
      BY <1>4, <3>1
    <3>2. CASE s \notin T /\ s \in N
      BY <1>2, <1>5, <1>11, <3>2
    <3>3. CASE s \notin T /\ s \notin N
      BY <1>6, <1>11, <2>1, <3>3
    <3>. QED BY <3>1, <3>2, <3>3
  <2>2. V \subseteq C /\ T \subseteq C \cup N
    BY <1>2, <1>3, <1>11
  <2>. QED BY <1>2, <2>1, <2>2 DEF Used
<1>13. V \cap T = {}
  BY <1>2, <1>7, <1>11
<1>14. d.size = Cardinality(V \cup T)
  <2>1. IsFiniteSet(V)
    <3>1. V \subseteq Slots
      BY <1>3, <1>11
    <3>. QED BY <3>1, SlotsFinite, FS_Subset
  <2>2. IsFiniteSet(T) /\ Cardinality(T) = Len(stamps)
    BY <1>2, ListsCount DEF Takes
  <2>3. Cardinality(V \cap T) = 0
    BY <1>13, FS_EmptySet
  <2>4. Cardinality(V) \in Nat /\ Cardinality(T) \in Nat
    BY <2>1, <2>2, FS_CardinalityType
  <2>5. Cardinality(V \cup T) = Cardinality(V) + Cardinality(T) - Cardinality(V \cap T)
    BY <2>1, <2>2, FS_Union
  <2>6. Cardinality(V) = c.size
    BY <1>10 DEF Sound
  <2>7. d.size = c.size + Len(stamps)
    BY DEF Takes
  <2>. QED BY <2>2, <2>3, <2>4, <2>5, <2>6, <2>7
<1>15. d.capacity = Cardinality(C \cup N)
  <2>1. IsFiniteSet(C)
    BY <1>3, SlotsFinite, FS_Subset
  <2>2. IsFiniteSet(N) /\ Cardinality(N) = Len(new)
    BY <1>1, ListsCount DEF Takes
  <2>3. Cardinality(C \cap N) = 0
    <3>1. C \cap N = {}
      BY <1>2
    <3>. QED BY <3>1, FS_EmptySet
  <2>4. Cardinality(C) \in Nat /\ Cardinality(N) \in Nat
    BY <2>1, <2>2, FS_CardinalityType
  <2>5. Cardinality(C \cup N) = Cardinality(C) + Cardinality(N) - Cardinality(C \cap N)
    BY <2>1, <2>2, FS_Union
  <2>6. Cardinality(C) = c.capacity
    BY <1>1 DEF Sound
  <2>7. d.capacity = c.capacity + Len(new)
    BY DEF Takes
  <2>. QED BY <2>2, <2>3, <2>4, <2>5, <2>6, <2>7
<1>16. d \in Members
  BY DEF Takes
<1>. QED BY <1>1, <1>2, <1>3, <1>8, <1>9, <1>12, <1>14, <1>15, <1>16 DEF Sound

-----------------------------------------------------------------------------
(***************************************************************************)
(* Insertion order and time stamps.                                        *)
(***************************************************************************)
(* The stamps of c are below its clock and all different. *)
Clocked(h, c) ==
  /\ \A s \in SlotsOf(c) : h[s].stamp # Unset => h[s].stamp < c.clock
  /\ \A s, r \in SlotsOf(c) : s # r /\ h[s].stamp # Unset => h[s].stamp # h[r].stamp

(* The elements of c are in the slots of order, and the free list follows. *)
Lined(h, c, order) ==
  Line(c) = order \o c.free /\ \A s \in ToSet(order) : h[s].type = "used"

(* The elements in order are in slots of the container. *)
LEMMA OrderWithin ==
  ASSUME NEW h, NEW c, Sound(h, c), NEW order \in Seq(Slots), Lined(h, c, order)
  PROVE  ToSet(order) \subseteq SlotsOf(c)
<1>1. PICK m, n, l : m = Len(order) /\ n = Len(c.free) /\ l = Line(c)
  OBVIOUS
<1>2. c.free \in Seq(Slots)
  BY DEF Sound, Members
<1>3. /\ DOMAIN order = 1 .. m /\ m \in Nat /\ n \in Nat
      /\ DOMAIN l = 1 .. m + n /\ \A i \in 1 .. m : l[i] = order[i]
  BY <1>1, <1>2 DEF Lined
<1>4. \A i \in 1 .. m : i \in DOMAIN l
  BY <1>3
<1>5. ToSet(l) = SlotsOf(c)
  BY <1>1 DEF Sound, Lists
<1>. QED BY <1>3, <1>4, <1>5 DEF ToSet

(* The elements that come in follow those that were in order. *)
LEMMA FilledLined ==
  ASSUME NEW c, Sound(heap, c), NEW d, NEW taken, NEW new, NEW stamps,
         Takes(c, d, taken, new, stamps), NEW gone, gone \cap SlotsOf(c) = {},
         NEW h, HeapTakes(h, taken, new, stamps, gone),
         Of(stamps, Nat), NEW order, Of(order, Slots), Lined(heap, c, order)
  PROVE  Of(order \o taken, Slots) /\ Lined(h, d, order \o taken)
<1>1. /\ c.free \in Seq(Slots) /\ taken \in Seq(Slots) /\ order \in Seq(Slots)
      /\ d.free \in Seq(Slots) /\ new \in Seq(Slots)
  <2>1. ToSet(new) \subseteq Slots /\ Lists(new, ToSet(new))
    BY DEF Takes, Unused
  <2>2. new \in Seq(Slots)
    BY <2>1, ListsType
  <2>. QED BY <2>2 DEF Takes, Sound, Members, Of
<1>2. Line(d) = (order \o taken) \o d.free
  <2>1. Line(d) = Both(Both(order, c.free), new)
    BY DEF Takes, Lined, Both
  <2>2. Both(Both(order, c.free), new) = Both(order, Both(c.free, new))
    BY <1>1, Together
  <2>3. Both(c.free, new) = Both(taken, d.free)
    BY DEF Takes, Both
  <2>4. Both(Both(order, taken), d.free) = Both(order, Both(taken, d.free))
    BY <1>1, Together
  <2>5. Line(d) = Both(Both(order, taken), d.free)
    BY <2>1, <2>2, <2>3, <2>4
  <2>. QED BY <2>5 DEF Both
<1>3. PICK T : T = ToSet(taken)
  OBVIOUS
<1>4. ToSet(order \o taken) = ToSet(order) \cup T
  <2>1. PICK m, n, q : m = Len(order) /\ n = Len(taken) /\ q = order \o taken
    OBVIOUS
  <2>2. /\ m \in Nat /\ n \in Nat /\ DOMAIN order = 1 .. m /\ DOMAIN taken = 1 .. n
        /\ DOMAIN q = 1 .. m + n
        /\ \A i \in 1 .. m : q[i] = order[i]
        /\ \A i \in 1 .. n : q[i + m] = taken[i]
    BY <1>1, <2>1
  <2>3. \A i \in 1 .. m : i \in 1 .. m + n
    BY <2>2
  <2>4. \A i \in 1 .. n : i + m \in 1 .. m + n
    BY <2>2
  <2>5. ASSUME NEW i \in 1 .. m + n PROVE i \in 1 .. m \/ \E j \in 1 .. n : i = j + m
    <3>1. CASE i \notin 1 .. m
      <4>1. i - m \in 1 .. n /\ i = (i - m) + m
        BY <2>2, <3>1
      <4>. QED BY <4>1
    <3>. QED BY <3>1
  <2>6. \A s : (\E i \in 1 .. m + n : q[i] = s)
                 <=> (\E i \in 1 .. m : order[i] = s) \/ (\E i \in 1 .. n : taken[i] = s)
    <3>1. ASSUME NEW i \in 1 .. m + n
          PROVE  (\E j \in 1 .. m : order[j] = q[i]) \/ (\E j \in 1 .. n : taken[j] = q[i])
      BY <2>2, <2>5
    <3>2. \A i \in 1 .. m : q[i] = order[i] /\ i \in 1 .. m + n
      BY <2>2, <2>3
    <3>3. \A i \in 1 .. n : q[i + m] = taken[i] /\ i + m \in 1 .. m + n
      BY <2>2, <2>4
    <3>. QED BY <3>1, <3>2, <3>3
  <2>. QED BY <1>3, <2>1, <2>2, <2>6 DEF ToSet
<1>5. \A s \in T : h[s].type = "used"
  <2>1. PICK n : n = Len(stamps)
    OBVIOUS
  <2>2. DOMAIN stamps = 1 .. n /\ n \in Nat
    BY <2>1 DEF Of
  <2>3. DOMAIN taken = 1 .. n
    BY <1>1, <2>1 DEF Takes
  <2>. QED BY <1>3, <2>2, <2>3 DEF HeapTakes, ToSet
<1>6. ASSUME NEW s \in ToSet(order) PROVE h[s].type = "used"
  <2>1. s \in SlotsOf(c) /\ heap[s].type = "used"
    BY <1>1, OrderWithin DEF Lined
  <2>2. s \in Slots /\ s \notin gone /\ s \notin FreeOf(heap, c)
    BY <2>1 DEF Sound, FreeOf
  <2>3. s \notin ToSet(new) /\ s \notin T
    <3>1. /\ T \cup ToSet(d.free) = FreeOf(heap, c) \cup ToSet(new)
          /\ ToSet(new) \cap SlotsOf(c) = {}
      BY <1>3, TakenAre
    <3>. QED BY <2>1, <2>2, <3>1
  <2>4. h[s] = heap[s]
    BY <1>3, <2>2, <2>3 DEF HeapTakes
  <2>. QED BY <2>1, <2>4
<1>7. order \o taken \in Seq(Slots)
  BY <1>1
<1>. QED BY <1>2, <1>4, <1>5, <1>6, <1>7 DEF Lined, Of

(* The stamps that come in are different, and none is on another slot of c. *)
NewStamps(c, taken, stamps) ==
  /\ \A i, j \in DOMAIN stamps : stamps[i] = stamps[j] => i = j
  /\ \A i \in DOMAIN stamps : \A s \in SlotsOf(c) \ ToSet(taken) : heap[s].stamp # stamps[i]

(* New stamps under the new clock leave the stamps of a container          *)
(* different.                                                              *)
LEMMA FilledClocked ==
  ASSUME NEW c, Sound(heap, c), heap \in [Slots -> Slot],
         NEW d, NEW taken, NEW new, NEW stamps,
         Takes(c, d, taken, new, stamps), NEW gone, gone \cap SlotsOf(c) = {},
         NEW h, HeapTakes(h, taken, new, stamps, gone),
         Of(stamps, Nat), Clocked(heap, c), NewStamps(c, taken, stamps)
  PROVE  Clocked(h, d)
<1>1. PICK N, T, C, D : /\ N = ToSet(new) /\ T = ToSet(taken) /\ C = SlotsOf(c)
                        /\ D = DOMAIN stamps
  OBVIOUS
<1>2. /\ SlotsOf(d) = C \cup N /\ N \cap C = {} /\ N \subseteq Slots /\ C \subseteq Slots
      /\ gone \cap C = {}
  BY <1>1, TakenAre DEF Sound
<1>3. \A s \in T : \E i \in D : s = taken[i]
  <2>1. PICK n : n = Len(stamps)
    OBVIOUS
  <2>2. D = 1 .. n /\ n \in Nat
    BY <1>1, <2>1 DEF Of
  <2>3. DOMAIN taken = 1 .. n
    BY <2>1 DEF Takes
  <2>. QED BY <1>1, <2>2, <2>3 DEF ToSet
<1>4. \A i \in D : h[taken[i]].stamp = stamps[i] /\ stamps[i] \in Nat /\ stamps[i] < d.clock
  BY <1>1 DEF HeapTakes, Takes, Of
<1>5. \A s \in N \ T : h[s].stamp = Unset
  BY <1>1, <1>2 DEF HeapTakes
<1>6. \A s \in (C \ T) : h[s] = heap[s]
  BY <1>1, <1>2 DEF HeapTakes
<1>7. \A s \in C : heap[s].stamp \in Nat \cup {Unset}
  BY <1>2 DEF Slot
<1>8. c.clock \in Nat /\ d.clock \in Nat /\ d.clock >= c.clock
  BY DEF Sound, Takes, Members
<1>9. Unset \notin Nat
  BY ConstantsAssumption
<1>10. ASSUME NEW s \in C \cup N, h[s].stamp # Unset
       PROVE  h[s].stamp < d.clock
  <2>1. CASE s \in T
    BY <1>3, <1>4, <2>1
  <2>2. CASE s \notin T
    <3>1. s \in C /\ h[s] = heap[s]
      BY <1>5, <1>6, <1>10, <2>2
    <3>2. PICK v : v = heap[s].stamp
      OBVIOUS
    <3>3. v \in Nat /\ v < c.clock
      BY <1>1, <1>7, <1>10, <3>1, <3>2 DEF Clocked
    <3>4. v < d.clock
      BY <1>8, <3>3
    <3>. QED BY <3>1, <3>2, <3>4
  <2>. QED BY <2>1, <2>2
<1>11. ASSUME NEW s \in C \cup N, NEW r \in C \cup N, s # r, h[s].stamp # Unset
       PROVE  h[s].stamp # h[r].stamp
  <2>1. CASE s \in T /\ r \in T
    <3>1. PICK i \in D, j \in D : s = taken[i] /\ r = taken[j]
      BY <1>3, <2>1
    <3>. QED BY <1>1, <1>4, <1>11, <3>1 DEF NewStamps
  <2>2. CASE s \in T /\ r \notin T
    <3>1. PICK i \in D : s = taken[i]
      BY <1>3, <2>2
    <3>2. CASE r \in C
      BY <1>1, <1>4, <1>6, <2>2, <3>1, <3>2 DEF NewStamps
    <3>3. CASE r \notin C
      <4>1. h[r].stamp = Unset
        BY <1>5, <2>2, <3>3
      <4>. QED BY <1>11, <4>1
    <3>. QED BY <3>2, <3>3
  <2>3. CASE s \notin T /\ r \in T
    <3>1. PICK i \in D : r = taken[i]
      BY <1>3, <2>3
    <3>2. s \in C
      BY <1>5, <1>11, <2>3
    <3>. QED BY <1>1, <1>4, <1>6, <2>3, <3>1, <3>2 DEF NewStamps
  <2>4. CASE s \notin T /\ r \notin T
    <3>1. s \in C /\ h[s] = heap[s]
      BY <1>5, <1>6, <1>11, <2>4
    <3>2. CASE r \in C
      BY <1>1, <1>6, <1>11, <2>4, <3>1, <3>2 DEF Clocked
    <3>3. CASE r \notin C
      <4>1. h[r].stamp = Unset
        BY <1>5, <2>4, <3>3
      <4>. QED BY <1>11, <4>1
    <3>. QED BY <3>2, <3>3
  <2>. QED BY <2>1, <2>2, <2>3, <2>4
<1>. QED BY <1>2, <1>10, <1>11 DEF Clocked

-----------------------------------------------------------------------------
(***************************************************************************)
(* All the containers together.                                            *)
(***************************************************************************)
(* What is known of a container c with the past p in the heap h. *)
Good(h, c, p) ==
  /\ Sound(h, c) /\ p \in Past
  /\ \A s \in SlotsOf(c) : h[s].type = "used" => h[s].stamp \in Nat
  /\ ~p.copies /\ ~p.joined => Clocked(h, c)
  /\ p.plain => Lined(h, c, p.order)

(* What is known of all of them. *)
World(h, k, p) ==
  /\ h \in [Slots -> Slot] /\ k \in [Containers -> Members] /\ p \in [Containers -> Past]
  /\ \A b \in Containers : Good(h, k[b], p[b])
  /\ \A b, c \in Containers : b # c => SlotsOf(k[b]) \cap SlotsOf(k[c]) = {}
  /\ \A s \in Slots : h[s].type # "none" => \E b \in Containers : s \in SlotsOf(k[b])

(* A container is only as good as the slots of its blocks. *)
LEMMA GoodAgree ==
  ASSUME NEW h, NEW g, NEW c, NEW p, Good(h, c, p), \A s \in SlotsOf(c) : g[s] = h[s]
  PROVE  Good(g, c, p)
<1>1. Used(g, c) = Used(h, c) /\ FreeOf(g, c) = FreeOf(h, c)
  BY DEF Used, FreeOf
<1>2. Sound(g, c)
  BY <1>1 DEF Sound, Good
<1>3. Clocked(h, c) => Clocked(g, c)
  BY DEF Clocked
<1>4. p.plain => Lined(g, c, p.order)
  <2>1. SUFFICES ASSUME p.plain PROVE Lined(g, c, p.order)
    OBVIOUS
  <2>2. Lined(h, c, p.order) /\ p.order \in Seq(Slots) /\ Sound(h, c)
    BY <2>1 DEF Good, Past
  <2>3. ToSet(p.order) \subseteq SlotsOf(c)
    BY <2>2, OrderWithin
  <2>. QED BY <2>2, <2>3 DEF Lined
<1>. QED BY <1>2, <1>3, <1>4 DEF Good

(* An empty container is good, whatever is in the heap. *)
LEMMA GoodFresh ==
  ASSUME NEW h
  PROVE  Good(h, Fresh, NoPast) /\ SlotsOf(Fresh) = {}
<1>1. /\ Fresh.blocks = <<>> /\ Fresh.free = <<>> /\ Fresh.size = 0 /\ Fresh.capacity = 0
      /\ Fresh.blockSize = FirstBlock /\ Fresh.clock = 0
  BY DEF Fresh
<1>2. Line(Fresh) = <<>>
  BY <1>1, FlattenNone DEF Line
<1>3. SlotsOf(Fresh) = {}
  BY <1>2 DEF Line, SlotsOf, ToSet
<1>4. Used(h, Fresh) = {} /\ FreeOf(h, Fresh) = {}
  BY <1>3 DEF Used, FreeOf
<1>5. Fresh \in Members
  <2>1. <<>> \in Seq(Seq(Slots)) /\ <<>> \in Seq(Slots) /\ FirstBlock \in Nat \ {0}
    BY EmptySeq, ConstantsAssumption
  <2>2. Fresh = [blocks |-> Fresh.blocks, free |-> Fresh.free, size |-> Fresh.size,
                 capacity |-> Fresh.capacity, blockSize |-> Fresh.blockSize,
                 clock |-> Fresh.clock]
    BY DEF Fresh
  <2>3. /\ Fresh.blocks \in Seq(Seq(Slots)) /\ Fresh.free \in Seq(Slots)
        /\ Fresh.size \in Nat /\ Fresh.capacity \in Nat
        /\ Fresh.blockSize \in Nat \ {0} /\ Fresh.clock \in Nat
    BY <1>1, <2>1
  <2>. QED BY <2>2, <2>3, MembersAre
<1>6. Sound(h, Fresh)
  BY <1>1, <1>2, <1>3, <1>4, <1>5, ListsNone, FS_EmptySet DEF Sound
<1>7. NoPast \in Past
  <2>1. <<>> \in Seq(Slots)
    BY EmptySeq
  <2>. QED BY <2>1 DEF NoPast, Past
<1>8. Clocked(h, Fresh)
  BY <1>3 DEF Clocked
<1>9. Lined(h, Fresh, NoPast.order)
  <2>1. NoPast.order = <<>> /\ <<>> \o <<>> = <<>> /\ ToSet(<<>>) = {}
    BY EmptySeq DEF NoPast, ToSet
  <2>. QED BY <1>1, <1>2, <2>1 DEF Lined
<1>. QED BY <1>3, <1>6, <1>7, <1>8, <1>9 DEF Good

(* One container changes, and no slot outside of its old and new blocks. *)
LEMMA ChangeOne ==
  ASSUME NEW g, NEW k, NEW p, World(g, k, p), NEW b \in Containers,
         NEW h \in [Slots -> Slot], NEW d, NEW q, Good(h, d, q),
         \A s \in Slots : s \in SlotsOf(k[b]) \/ s \in SlotsOf(d) \/ h[s] = g[s],
         \A s \in SlotsOf(d) : s \in SlotsOf(k[b]) \/ g[s].type = "none",
         \A s \in SlotsOf(k[b]) : s \in SlotsOf(d) \/ h[s].type = "none"
  PROVE  World(h, [k EXCEPT ![b] = d], [p EXCEPT ![b] = q])
<1>1. PICK l, r : l = [k EXCEPT ![b] = d] /\ r = [p EXCEPT ![b] = q]
  OBVIOUS
<1>2. /\ l \in [Containers -> Members] /\ r \in [Containers -> Past]
      /\ l[b] = d /\ r[b] = q
      /\ \A a \in Containers : a # b => l[a] = k[a] /\ r[a] = p[a]
  BY <1>1 DEF World, Good, Sound
<1>3. ASSUME NEW a \in Containers, a # b
      PROVE  Good(h, k[a], p[a]) /\ SlotsOf(d) \cap SlotsOf(k[a]) = {}
  <2>1. /\ Good(g, k[a], p[a]) /\ SlotsOf(k[a]) \cap SlotsOf(k[b]) = {}
        /\ SlotsOf(k[a]) \subseteq Slots /\ \A s \in SlotsOf(k[a]) : g[s].type # "none"
    BY <1>3 DEF World, Good, Sound
  <2>2. SlotsOf(d) \cap SlotsOf(k[a]) = {}
    BY <2>1
  <2>3. \A s \in SlotsOf(k[a]) : h[s] = g[s]
    BY <2>1, <2>2
  <2>4. Good(h, k[a], p[a])
    BY <2>1, <2>3, GoodAgree
  <2>. QED BY <2>2, <2>4
<1>4. \A a \in Containers : Good(h, l[a], r[a])
  BY <1>2, <1>3
<1>5. \A a, c \in Containers : a # c => SlotsOf(l[a]) \cap SlotsOf(l[c]) = {}
  <2>1. SUFFICES ASSUME NEW a \in Containers, NEW c \in Containers, a # c
                 PROVE  SlotsOf(l[a]) \cap SlotsOf(l[c]) = {}
    OBVIOUS
  <2>2. CASE a = b
    BY <1>2, <1>3, <2>1, <2>2
  <2>3. CASE c = b
    BY <1>2, <1>3, <2>1, <2>3
  <2>4. CASE a # b /\ c # b
    BY <1>2, <2>1, <2>4 DEF World
  <2>. QED BY <2>2, <2>3, <2>4
<1>6. ASSUME NEW s \in Slots, h[s].type # "none"
      PROVE  \E a \in Containers : s \in SlotsOf(l[a])
  <2>1. CASE s \in SlotsOf(d)
    BY <1>2, <2>1
  <2>2. CASE s \notin SlotsOf(d)
    <3>1. s \notin SlotsOf(k[b]) /\ g[s].type # "none"
      BY <1>6, <2>2
    <3>2. PICK a \in Containers : s \in SlotsOf(k[a])
      BY <3>1 DEF World
    <3>3. a # b
      BY <3>1, <3>2
    <3>. QED BY <1>2, <3>2, <3>3
  <2>. QED BY <2>1, <2>2
<1>7. World(h, l, r)
  BY <1>2, <1>4, <1>5, <1>6 DEF World
<1>. QED BY <1>1, <1>7

(* Two containers change places, with their pasts. *)
LEMMA ChangePlaces ==
  ASSUME NEW h, NEW k, NEW p, World(h, k, p), NEW b \in Containers, NEW d \in Containers,
         b # d, NEW l, l = [k EXCEPT ![b] = k[d], ![d] = k[b]],
         NEW r, r = [p EXCEPT ![b] = p[d], ![d] = p[b]]
  PROVE  World(h, l, r)
<1> DEFINE Other(a) == IF a = b THEN d ELSE IF a = d THEN b ELSE a
<1>1. l \in [Containers -> Members] /\ r \in [Containers -> Past]
  BY DEF World
<1>2. \A a \in Containers : /\ Other(a) \in Containers
                            /\ l[a] = k[Other(a)] /\ r[a] = p[Other(a)] /\ Other(Other(a)) = a
  BY DEF World
<1> HIDE DEF Other
<1>3. \A a \in Containers : Good(h, l[a], r[a])
  BY <1>2 DEF World
<1>4. \A a, c \in Containers : a # c => SlotsOf(l[a]) \cap SlotsOf(l[c]) = {}
  <2>1. \A a, c \in Containers : a # c => Other(a) # Other(c)
    BY <1>2
  <2>. QED BY <1>2, <2>1 DEF World
<1>5. \A s \in Slots : h[s].type # "none" => \E a \in Containers : s \in SlotsOf(l[a])
  BY <1>2 DEF World
<1>. QED BY <1>1, <1>3, <1>4, <1>5 DEF World

-----------------------------------------------------------------------------
(***************************************************************************)
(* Merging two of them.                                                    *)
(***************************************************************************)
(* Disjoint sets of slots. *)
LEMMA SizesOfTwo ==
  ASSUME NEW S, NEW T, S \subseteq Slots, T \subseteq Slots, S \cap T = {}
  PROVE  Cardinality(S \cup T) = Cardinality(S) + Cardinality(T)
<1>1. IsFiniteSet(S) /\ IsFiniteSet(T)
  BY SlotsFinite, FS_Subset
<1>2. Cardinality(S \cap T) = 0
  BY FS_EmptySet
<1>3. Cardinality(S) \in Nat /\ Cardinality(T) \in Nat
  BY <1>1, FS_CardinalityType
<1>4. Cardinality(S \cup T) = Cardinality(S) + Cardinality(T) - Cardinality(S \cap T)
  BY <1>1, FS_Union
<1>. QED BY <1>2, <1>3, <1>4

(* e is c and d merged. *)
Joins(e, c, d) ==
  /\ e \in Members
  /\ e.blocks = Both(c.blocks, d.blocks) /\ e.free = Both(c.free, d.free)
  /\ e.size = c.size + d.size /\ e.capacity = c.capacity + d.capacity

(* Two sound containers that share no slot, merged, are sound. *)
LEMMA JoinsSound ==
  ASSUME NEW h, NEW c, Sound(h, c), NEW d, Sound(h, d), SlotsOf(c) \cap SlotsOf(d) = {},
         NEW e, Joins(e, c, d)
  PROVE  Sound(h, e) /\ SlotsOf(e) = SlotsOf(c) \cup SlotsOf(d)
<1>1. PICK C, D : C = SlotsOf(c) /\ D = SlotsOf(d)
  OBVIOUS
<1>2. C \subseteq Slots /\ D \subseteq Slots /\ C \cap D = {}
  BY <1>1 DEF Sound
<1>3. Line(e) = Line(c) \o Line(d)
  <2>1. Of(c.blocks, Seq(Slots)) /\ Of(d.blocks, Seq(Slots))
    BY DEF Sound, Members, Of
  <2>2. FlattenSeq(Both(c.blocks, d.blocks)) = Both(FlattenSeq(c.blocks), FlattenSeq(d.blocks))
    BY <2>1, FlattenBoth
  <2>. QED BY <2>2 DEF Joins, Line, Both
<1>4. Lists(Line(e), C \cup D)
  <2>1. Lists(Line(c), C) /\ Lists(Line(d), D)
    BY <1>1 DEF Sound
  <2>2. Lists(Line(c) \o Line(d), C \cup D)
    BY <1>2, <2>1, ListsBoth
  <2>. QED BY <1>3, <2>2
<1>5. SlotsOf(e) = C \cup D
  BY <1>4 DEF Lists, SlotsOf, Line
<1>6. /\ FreeOf(h, e) = FreeOf(h, c) \cup FreeOf(h, d)
      /\ FreeOf(h, c) \subseteq C /\ FreeOf(h, d) \subseteq D
  BY <1>1, <1>5 DEF FreeOf
<1>7. /\ Used(h, e) = Used(h, c) \cup Used(h, d)
      /\ Used(h, c) \subseteq C /\ Used(h, d) \subseteq D
  BY <1>1, <1>5 DEF Used
<1>8. Lists(e.free, FreeOf(h, e))
  <2>1. Lists(c.free, FreeOf(h, c)) /\ Lists(d.free, FreeOf(h, d))
    BY DEF Sound
  <2>2. FreeOf(h, c) \cap FreeOf(h, d) = {}
    BY <1>2, <1>6
  <2>3. Lists(c.free \o d.free, FreeOf(h, c) \cup FreeOf(h, d))
    BY <2>1, <2>2, ListsBoth
  <2>. QED BY <1>6, <2>3 DEF Joins, Both
<1>9. e.size = Cardinality(Used(h, e))
  <2>1. PICK U, V : U = Used(h, c) /\ V = Used(h, d)
    OBVIOUS
  <2>2. Cardinality(U \cup V) = Cardinality(U) + Cardinality(V)
    BY <1>2, <1>7, <2>1, SizesOfTwo
  <2>. QED BY <1>7, <2>1, <2>2 DEF Sound, Joins
<1>10. e.capacity = Cardinality(SlotsOf(e))
  <2>1. Cardinality(C \cup D) = Cardinality(C) + Cardinality(D)
    BY <1>2, SizesOfTwo
  <2>. QED BY <1>1, <1>5, <2>1 DEF Sound, Joins
<1>11. \A s \in C \cup D : h[s].type \in {"free", "used"}
  BY <1>1 DEF Sound
<1>12. e \in Members
  BY DEF Joins
<1>13. Sound(h, e)
  BY <1>2, <1>4, <1>5, <1>8, <1>9, <1>10, <1>11, <1>12 DEF Sound
<1>. QED BY <1>1, <1>5, <1>13

(* The members that merge leaves. *)
LEMMA MergedIs ==
  ASSUME NEW b, NEW d, cont[b] \in Members, cont[d] \in Members
  PROVE  Joins(Merged(b, d), cont[b], cont[d])
<1>1. PICK e, c, f : e = Merged(b, d) /\ c = cont[b] /\ f = cont[d]
  OBVIOUS
<1>2. /\ c.blocks \in Seq(Seq(Slots)) /\ c.free \in Seq(Slots) /\ c.size \in Nat
      /\ c.capacity \in Nat /\ c.blockSize \in Nat \ {0} /\ c.clock \in Nat
      /\ f.blocks \in Seq(Seq(Slots)) /\ f.free \in Seq(Slots) /\ f.size \in Nat
      /\ f.capacity \in Nat /\ f.blockSize \in Nat \ {0}
  BY <1>1 DEF Members
<1>3. e = [blocks |-> Both(c.blocks, f.blocks), free |-> Both(c.free, f.free),
           size |-> c.size + f.size, capacity |-> c.capacity + f.capacity,
           blockSize |-> Maximum(c.blockSize, f.blockSize), clock |-> c.clock]
  BY <1>1 DEF Merged, Both
<1>4. /\ e.blocks = Both(c.blocks, f.blocks) /\ e.free = Both(c.free, f.free)
      /\ e.size = c.size + f.size /\ e.capacity = c.capacity + f.capacity
      /\ e.blockSize = Maximum(c.blockSize, f.blockSize) /\ e.clock = c.clock
  BY <1>3
<1>5. e \in Members
  <2>1. e = [blocks |-> e.blocks, free |-> e.free, size |-> e.size,
             capacity |-> e.capacity, blockSize |-> e.blockSize, clock |-> e.clock]
    BY <1>3
  <2>2. e.blocks \in Seq(Seq(Slots)) /\ e.free \in Seq(Slots)
    <3>1. Of(c.blocks, Seq(Slots)) /\ Of(f.blocks, Seq(Slots))
      BY <1>2 DEF Of
    <3>2. Of(c.free, Slots) /\ Of(f.free, Slots)
      BY <1>2 DEF Of
    <3>3. Of(Both(c.blocks, f.blocks), Seq(Slots)) /\ Of(Both(c.free, f.free), Slots)
      BY <3>1, <3>2, BothIs
    <3>. QED BY <1>4, <3>3 DEF Of
  <2>3. e.size \in Nat /\ e.capacity \in Nat /\ e.clock \in Nat
    BY <1>2, <1>4
  <2>4. e.blockSize \in Nat \ {0}
    BY <1>2, <1>4 DEF Maximum
  <2>. QED BY <2>1, <2>2, <2>3, <2>4, MembersAre
<1>. QED BY <1>1, <1>4, <1>5 DEF Joins

(* One container takes the blocks of another, which starts anew. *)
LEMMA ChangeMerged ==
  ASSUME NEW h, NEW k, NEW p, World(h, k, p), NEW b \in Containers, NEW d \in Containers,
         b # d, NEW e, Joins(e, k[b], k[d]), NEW q \in Past, q.joined, ~q.plain,
         NEW l, l = [k EXCEPT ![b] = e, ![d] = Fresh],
         NEW r, r = [p EXCEPT ![b] = q, ![d] = NoPast]
  PROVE  World(h, l, r)
<1>1. SlotsOf(k[b]) \cap SlotsOf(k[d]) = {}
  BY DEF World
<1>2. Good(h, k[b], p[b]) /\ Good(h, k[d], p[d])
  BY DEF World
<1>3. Sound(h, e) /\ SlotsOf(e) = SlotsOf(k[b]) \cup SlotsOf(k[d])
  BY <1>1, <1>2, JoinsSound DEF Good
<1>4. Good(h, e, q)
  BY <1>2, <1>3 DEF Good
<1>5. Good(h, Fresh, NoPast) /\ SlotsOf(Fresh) = {}
  BY GoodFresh
<1>6. Fresh \in Members /\ NoPast \in Past /\ e \in Members
  BY <1>3, <1>5 DEF Good, Sound
<1>7. /\ l \in [Containers -> Members] /\ r \in [Containers -> Past]
      /\ l[b] = e /\ r[b] = q /\ l[d] = Fresh /\ r[d] = NoPast
      /\ \A a \in Containers : a # b /\ a # d => l[a] = k[a] /\ r[a] = p[a]
  BY <1>6 DEF World
<1>8. \A a \in Containers : Good(h, l[a], r[a])
  BY <1>4, <1>5, <1>7 DEF World
<1>9. \A a, c \in Containers : a # c => SlotsOf(l[a]) \cap SlotsOf(l[c]) = {}
  <2>1. SUFFICES ASSUME NEW a \in Containers, NEW c \in Containers, a # c
                 PROVE  SlotsOf(l[a]) \cap SlotsOf(l[c]) = {}
    OBVIOUS
  <2>2. CASE a = d \/ c = d
    BY <1>5, <1>7, <2>2
  <2>3. CASE a # d /\ c # d /\ a = b
    <3>1. SlotsOf(k[b]) \cap SlotsOf(k[c]) = {} /\ SlotsOf(k[d]) \cap SlotsOf(k[c]) = {}
      BY <2>1, <2>3 DEF World
    <3>. QED BY <1>3, <1>7, <2>1, <2>3, <3>1
  <2>4. CASE a # d /\ c # d /\ c = b
    <3>1. SlotsOf(k[a]) \cap SlotsOf(k[b]) = {} /\ SlotsOf(k[a]) \cap SlotsOf(k[d]) = {}
      BY <2>1, <2>4 DEF World
    <3>. QED BY <1>3, <1>7, <2>1, <2>4, <3>1
  <2>5. CASE a # d /\ c # d /\ a # b /\ c # b
    BY <1>7, <2>1, <2>5 DEF World
  <2>. QED BY <2>2, <2>3, <2>4, <2>5
<1>10. ASSUME NEW s \in Slots, h[s].type # "none"
       PROVE  \E a \in Containers : s \in SlotsOf(l[a])
  <2>1. PICK a \in Containers : s \in SlotsOf(k[a])
    BY <1>10 DEF World
  <2>2. CASE a = b \/ a = d
    BY <1>3, <1>7, <2>1, <2>2
  <2>3. CASE a # b /\ a # d
    BY <1>7, <2>1, <2>3
  <2>. QED BY <2>2, <2>3
<1>. QED BY <1>7, <1>8, <1>9, <1>10 DEF World

-----------------------------------------------------------------------------
(***************************************************************************)
(* Elements come in.                                                       *)
(***************************************************************************)
(* A good container stays good when elements come in: the stamps are those *)
(* of its past.                                                            *)
LEMMA FilledGood ==
  ASSUME heap \in [Slots -> Slot], NEW c, NEW p, Good(heap, c, p),
         NEW d, NEW taken, NEW new, NEW stamps,
         Takes(c, d, taken, new, stamps), NEW gone, gone \cap SlotsOf(c) = {},
         NEW h, HeapTakes(h, taken, new, stamps, gone), Of(stamps, Nat),
         NEW q \in Past,
         ~q.copies /\ ~q.joined => Clocked(heap, c) /\ NewStamps(c, taken, stamps),
         q.plain => p.plain /\ q.order = p.order \o taken
  PROVE  Good(h, d, q)
<1>1. Sound(heap, c) /\ p \in Past
  BY DEF Good
<1>2. Sound(h, d)
  <2>1. stamps \in Seq(Nat)
    BY DEF Of
  <2>. QED BY <1>1, <2>1, FilledSound
<1>3. /\ SlotsOf(d) = SlotsOf(c) \cup ToSet(new) /\ SlotsOf(c) \subseteq Slots
      /\ ToSet(new) \cap SlotsOf(c) = {} /\ ToSet(new) \subseteq Slots
  BY <1>1, TakenAre DEF Sound
<1>4. ASSUME NEW s \in SlotsOf(d), h[s].type = "used" PROVE h[s].stamp \in Nat
  <2>1. CASE s \in ToSet(taken)
    <3>1. PICK n : n = Len(stamps)
      OBVIOUS
    <3>2. DOMAIN stamps = 1 .. n /\ n \in Nat /\ \A i \in DOMAIN stamps : stamps[i] \in Nat
      BY <3>1 DEF Of
    <3>3. DOMAIN taken = 1 .. n
      BY <3>1 DEF Takes
    <3>4. PICK i \in DOMAIN stamps : s = taken[i]
      BY <2>1, <3>2, <3>3 DEF ToSet
    <3>. QED BY <3>2, <3>4 DEF HeapTakes
  <2>2. CASE s \notin ToSet(taken)
    <3>1. s \in Slots
      BY <1>3
    <3>2. s \notin ToSet(new)
      BY <1>4, <2>2, <3>1 DEF HeapTakes
    <3>3. s \in SlotsOf(c) /\ s \notin gone
      BY <1>3, <3>2
    <3>4. h[s] = heap[s]
      BY <2>2, <3>1, <3>2, <3>3 DEF HeapTakes
    <3>. QED BY <1>4, <3>3, <3>4 DEF Good
  <2>. QED BY <2>1, <2>2
<1>5. ~q.copies /\ ~q.joined => Clocked(h, d)
  BY <1>1, FilledClocked
<1>6. q.plain => Lined(h, d, q.order)
  <2>1. SUFFICES ASSUME q.plain PROVE Lined(h, d, q.order)
    OBVIOUS
  <2>2. Lined(heap, c, p.order) /\ Of(p.order, Slots)
    BY <2>1 DEF Good, Past, Of
  <2>3. Lined(h, d, p.order \o taken)
    BY <1>1, <2>2, FilledLined
  <2>. QED BY <2>1, <2>3
<1>. QED BY <1>2, <1>4, <1>5, <1>6 DEF Good

(* The stamps of the elements of c. *)
LEMMA StampsAre ==
  ASSUME NEW c, NEW p, Good(heap, c, p), NEW stamps, stamps = Stamps(c)
  PROVE  /\ Of(stamps, Nat)
         /\ Clocked(heap, c) =>
              \A i, j \in DOMAIN stamps : stamps[i] = stamps[j] => i = j
<1>1. PICK items, U : items = Iteration(heap, c) /\ U = Used(heap, c)
  OBVIOUS
<1>2. Lists(items, U)
  BY <1>1, IterationIs DEF Good, Sound
<1>3. PICK n : n = Len(items)
  OBVIOUS
<1>4. items \in Seq(U) /\ n \in Nat /\ DOMAIN items = 1 .. n /\ IsInjective(items)
  BY <1>2, <1>3 DEF Lists
<1>5. stamps = [i \in 1 .. n |-> heap[items[i]].stamp]
  BY <1>1, <1>4 DEF Stamps
<1>6. \A i \in 1 .. n : items[i] \in SlotsOf(c) /\ heap[items[i]].type = "used"
  BY <1>1, <1>4 DEF Used
<1>7. \A i \in 1 .. n : stamps[i] = heap[items[i]].stamp /\ stamps[i] \in Nat
  BY <1>5, <1>6 DEF Good
<1>8. Of(stamps, Nat) /\ DOMAIN stamps = 1 .. n
  BY <1>4, <1>5, <1>7 DEF Of
<1>9. ASSUME Clocked(heap, c), NEW i \in 1 .. n, NEW j \in 1 .. n, stamps[i] = stamps[j]
      PROVE  i = j
  <2>1. heap[items[i]].stamp # Unset /\ heap[items[i]].stamp = heap[items[j]].stamp
    BY <1>7, <1>9, ConstantsAssumption
  <2>2. items[i] = items[j]
    BY <1>6, <1>9, <2>1 DEF Clocked
  <2>. QED BY <1>4, <2>2 DEF IsInjective
<1>. QED BY <1>8, <1>9

(* Elements come into a good container c, which b becomes. *)
LEMMA FillWorld ==
  ASSUME World(heap, cont, past), NEW b \in Containers,
         NEW c, NEW p, Good(heap, c, p), NEW stamps, Of(stamps, Nat),
         HasRoom(c, Len(stamps)), NEW gone, gone \cap SlotsOf(c) = {},
         SlotsOf(c) \cup gone = SlotsOf(cont[b]),
         NEW q \in Past,
         ~q.copies /\ ~q.joined =>
           Clocked(heap, c) /\ NewStamps(c, Taken(c, Len(stamps)), stamps),
         q.plain => p.plain /\ q.order = p.order \o Taken(c, Len(stamps))
  PROVE  World(HeapFilled(c, stamps, gone), [cont EXCEPT ![b] = Filled(c, stamps)],
               [past EXCEPT ![b] = q])
<1>1. PICK d, taken, new, h : /\ d = Filled(c, stamps) /\ taken = Taken(c, Len(stamps))
                              /\ new = Places(c, Len(stamps)).new
                              /\ h = HeapFilled(c, stamps, gone)
  OBVIOUS
<1>2. Sound(heap, c) /\ heap \in [Slots -> Slot] /\ stamps \in Seq(Nat)
  BY DEF Good, World, Of
<1>3. Takes(c, d, taken, new, stamps)
  BY <1>1, <1>2, FilledIs
<1>4. /\ Lists(taken, ToSet(taken))
      /\ ToSet(taken) \cup ToSet(d.free) = FreeOf(heap, c) \cup ToSet(new)
      /\ ToSet(new) \cap SlotsOf(c) = {} /\ ToSet(new) \subseteq Slots
      /\ SlotsOf(d) = SlotsOf(c) \cup ToSet(new)
  BY <1>2, <1>3, TakenAre
<1>5. HeapTakes(h, taken, new, stamps, gone)
  <2>1. IsInjective(taken)
    BY <1>4 DEF Lists
  <2>. QED BY <1>1, <1>2, <1>3, <2>1, HeapFilledIs
<1>6. Good(h, d, q)
  BY <1>1, <1>2, <1>3, <1>5, FilledGood
<1>7. ToSet(taken) \subseteq SlotsOf(d)
  BY <1>4 DEF FreeOf
<1>8. \A s \in Slots : s \in SlotsOf(cont[b]) \/ s \in SlotsOf(d) \/ h[s] = heap[s]
  BY <1>4, <1>5, <1>7 DEF HeapTakes
<1>9. \A s \in SlotsOf(d) : s \in SlotsOf(cont[b]) \/ heap[s].type = "none"
  BY <1>3, <1>4 DEF Takes, Unused
<1>10. \A s \in SlotsOf(cont[b]) : s \in SlotsOf(d) \/ h[s].type = "none"
  <2>1. SlotsOf(cont[b]) \subseteq Slots
    BY DEF World, Good, Sound
  <2>. QED BY <1>4, <1>5, <1>7, <2>1 DEF HeapTakes
<1>11. h \in [Slots -> Slot]
  BY <1>5 DEF HeapTakes
<1>. QED BY <1>1, <1>6, <1>8, <1>9, <1>10, <1>11, ChangeOne

(* Arrive: the container had the slots, and takes nobody else's. *)
LEMMA ArriveWorld ==
  ASSUME World(heap, cont, past), NEW b \in Containers, NEW stamps, Of(stamps, Nat),
         NEW copied \in BOOLEAN, Arrive(b, stamps, copied),
         ~past[b].copies /\ ~past[b].joined /\ ~copied =>
           NewStamps(cont[b], Taken(cont[b], Len(stamps)), stamps)
  PROVE  World(heap', cont', past')
<1>1. PICK c, p, taken : c = cont[b] /\ p = past[b] /\ taken = Taken(c, Len(stamps))
  OBVIOUS
<1>2. Good(heap, c, p)
  BY <1>1 DEF World
<1>3. PICK q : q = [p EXCEPT !.order = @ \o taken, !.copies = @ \/ copied]
  OBVIOUS
<1>4. /\ q \in Past /\ q.order = p.order \o taken /\ q.plain = p.plain
      /\ q.joined = p.joined /\ (q.copies <=> p.copies \/ copied)
  <2>1. p \in Past /\ p.order \in Seq(Slots)
    BY <1>2 DEF Good, Past
  <2>2. taken \in Seq(Slots)
    <3>1. HasRoom(c, Len(stamps)) /\ stamps \in Seq(Nat) /\ Sound(heap, c)
      BY <1>1, <1>2 DEF Arrive, Of, Good
    <3>2. Takes(c, Filled(c, stamps), taken, Places(c, Len(stamps)).new, stamps)
      BY <1>1, <3>1, FilledIs
    <3>. QED BY <3>2 DEF Takes
  <2>3. p.order \o taken \in Seq(Slots)
    BY <2>1, <2>2
  <2>4. PICK o : o = p.order \o taken
    OBVIOUS
  <2>5. q = [p EXCEPT !.order = o, !.copies = @ \/ copied]
    BY <1>3, <2>4
  <2>. QED BY <2>1, <2>3, <2>4, <2>5 DEF Past
<1>5. /\ HasRoom(c, Len(stamps)) /\ heap' = HeapFilled(c, stamps, {})
      /\ cont' = [cont EXCEPT ![b] = Filled(c, stamps)]
      /\ past' = [past EXCEPT ![b] = q]
  <2>1. past' = [past EXCEPT ![b].order = @ \o taken, ![b].copies = @ \/ copied]
    BY <1>1 DEF Arrive
  <2>2. past' = [past EXCEPT ![b] = q]
    BY <1>1, <1>3, <2>1 DEF World
  <2>. QED BY <1>1, <2>2 DEF Arrive
<1>6. ~q.copies /\ ~q.joined => Clocked(heap, c) /\ NewStamps(c, taken, stamps)
  BY <1>1, <1>2, <1>4 DEF Good
<1>7. {} \cap SlotsOf(c) = {} /\ SlotsOf(c) \cup {} = SlotsOf(cont[b])
  BY <1>1
<1>. QED BY <1>1, <1>2, <1>4, <1>5, <1>6, <1>7, FillWorld

-----------------------------------------------------------------------------
(***************************************************************************)
(* Insertion, copies of containers.                                        *)
(***************************************************************************)
(* emplace: the slot's own stamp, or the clock, is no other element's      *)
(* stamp.                                                                  *)
LEMMA EmplaceWorld ==
  ASSUME World(heap, cont, past), NEW b \in Containers, Emplace(b)
  PROVE  World(heap', cont', past')
<1>1. PICK c, p : c = cont[b] /\ p = past[b]
  OBVIOUS
<1>2. PICK s : s = Head(Places(c, 1).all)
  OBVIOUS
<1>3. PICK v : v = IF c.free = <<>> \/ heap[s].stamp = Unset THEN c.clock ELSE heap[s].stamp
  OBVIOUS
<1>4. PICK stamps : stamps = <<v>>
  OBVIOUS
<1>5. HasRoom(c, 1) /\ Arrive(b, stamps, FALSE)
  BY <1>1, <1>2, <1>3, <1>4 DEF Emplace
<1>6. Len(stamps) = 1 /\ DOMAIN stamps = {1} /\ stamps[1] = v
  BY <1>4
<1>7. Good(heap, c, p) /\ Sound(heap, c) /\ c.clock \in Nat /\ SlotsOf(c) \subseteq Slots
  BY <1>1 DEF World, Good, Sound, Members
<1>8. \A r \in SlotsOf(c) : heap[r].stamp \in Nat \cup {Unset}
  BY <1>7 DEF World, Slot
<1>9. PICK all, new : all = Places(c, 1).all /\ new = Places(c, 1).new
  OBVIOUS
<1>10. all = c.free \o new
  BY <1>9 DEF Places
<1>11. PICK f : f = c.free /\ f \in Seq(Slots)
  BY <1>7 DEF Sound, Members
<1>12. ASSUME f # <<>> PROVE s \in SlotsOf(c)
  <2>1. Len(f) \in Nat \ {0}
    BY <1>11, <1>12, EmptySeq
  <2>2. new \in Seq(Slots)
    <3>1. Takes(c, Filled(c, <<0>>), Taken(c, 1), new, <<0>>)
      <4>1. <<0>> \in Seq(Nat) /\ Len(<<0>>) = 1
        OBVIOUS
      <4>2. PICK z : z = <<0>> /\ z \in Seq(Nat) /\ Len(z) = 1
        BY <4>1
      <4>3. Takes(c, Filled(c, z), Taken(c, 1), new, z)
        BY <1>5, <1>7, <1>9, <4>2, FilledIs
      <4>. QED BY <4>2, <4>3
    <3>. QED BY <3>1, ListsType DEF Takes, Unused
  <2>3. s = f[1]
    <3>1. PICK n : n = new
      OBVIOUS
    <3>2. PICK a : a = f \o n
      OBVIOUS
    <3>3. Len(a) >= 1 /\ a[1] = f[1] /\ a \in Seq(Slots)
      BY <1>11, <2>1, <2>2, <3>1, <3>2
    <3>4. a = all
      BY <1>10, <1>11, <3>1, <3>2
    <3>5. s = Head(a)
      BY <1>2, <1>9, <3>4
    <3>. QED BY <3>3, <3>5
  <2>4. f[1] \in ToSet(f)
    BY <1>11, <2>1 DEF ToSet
  <2>5. ToSet(f) = FreeOf(heap, c)
    BY <1>7, <1>11 DEF Sound, Lists
  <2>. QED BY <2>3, <2>4, <2>5 DEF FreeOf
<1>13. v \in Nat
  BY <1>3, <1>7, <1>8, <1>11, <1>12
<1>14. Of(stamps, Nat)
  BY <1>4, <1>13 DEF Of
<1>15. s \in ToSet(Taken(c, 1))
  <2>1. PICK taken, z : taken = Taken(c, 1) /\ z = <<v>>
    OBVIOUS
  <2>2. z \in Seq(Nat) /\ Len(z) = 1
    BY <1>13, <2>1
  <2>3. Takes(c, Filled(c, z), taken, new, z)
    BY <1>5, <1>7, <1>9, <2>1, <2>2, FilledIs
  <2>4. taken \in Seq(Slots) /\ Len(taken) = 1 /\ taken = SubSeq(all, 1, 1)
    BY <1>9, <2>1, <2>2, <2>3 DEF Takes, Taken
  <2>5. all \in Seq(Slots) /\ Len(all) >= 1
    <3>1. all = taken \o Filled(c, z).free /\ Filled(c, z).free \in Seq(Slots)
      BY <1>10, <2>3 DEF Takes, Members
    <3>2. PICK g : g = Filled(c, z).free
      OBVIOUS
    <3>3. all = taken \o g /\ g \in Seq(Slots)
      BY <3>1, <3>2
    <3>. QED BY <2>4, <3>3
  <2>6. s = all[1] /\ taken[1] = all[1] /\ 1 \in DOMAIN taken
    BY <1>2, <1>9, <2>4, <2>5
  <2>. QED BY <2>1, <2>6 DEF ToSet
<1>16. ASSUME Clocked(heap, c) PROVE NewStamps(c, Taken(c, 1), stamps)
  <2>1. ASSUME NEW r \in SlotsOf(c) \ ToSet(Taken(c, 1)) PROVE heap[r].stamp # v
    <3>1. r # s
      BY <1>15, <2>1
    <3>2. CASE f = <<>> \/ heap[s].stamp = Unset
      <4>1. v = c.clock
        BY <1>3, <1>11, <3>2
      <4>2. CASE heap[r].stamp = Unset
        BY <1>13, <4>2, ConstantsAssumption
      <4>3. CASE heap[r].stamp # Unset
        <5>1. heap[r].stamp \in Nat /\ heap[r].stamp < c.clock
          BY <1>8, <1>16, <2>1, <4>3 DEF Clocked
        <5>. QED BY <1>7, <4>1, <5>1
      <4>. QED BY <4>2, <4>3
    <3>3. CASE ~(f = <<>> \/ heap[s].stamp = Unset)
      <4>1. v = heap[s].stamp /\ s \in SlotsOf(c)
        BY <1>3, <1>11, <1>12, <3>3
      <4>. QED BY <1>16, <2>1, <3>1, <3>3, <4>1 DEF Clocked
    <3>. QED BY <3>2, <3>3
  <2>. QED BY <1>6, <2>1 DEF NewStamps
<1>17. ~p.copies /\ ~p.joined => Clocked(heap, c)
  BY <1>7 DEF Good
<1>. QED BY <1>1, <1>5, <1>6, <1>14, <1>16, <1>17, ArriveWorld

(* insert(t): the stamp comes from an element, so that it is a number. *)
LEMMA InsertCopyWorld ==
  ASSUME World(heap, cont, past), NEW b \in Containers, InsertCopy(b)
  PROVE  World(heap', cont', past')
<1>1. PICK c \in Containers :
        \E s \in ToSet(Iteration(heap, cont[c])) : Arrive(b, <<heap[s].stamp>>, TRUE)
  BY DEF InsertCopy
<1>2. PICK s \in ToSet(Iteration(heap, cont[c])) : Arrive(b, <<heap[s].stamp>>, TRUE)
  BY <1>1
<1>3. Good(heap, cont[c], past[c])
  BY DEF World
<1>4. s \in Used(heap, cont[c])
  BY <1>2, <1>3, IterationIs DEF Good, Sound, Lists
<1>5. heap[s].stamp \in Nat
  BY <1>3, <1>4 DEF Used, Good
<1>6. PICK stamps : stamps = <<heap[s].stamp>>
  OBVIOUS
<1>7. Of(stamps, Nat)
  BY <1>5, <1>6 DEF Of
<1>. QED BY <1>2, <1>6, <1>7, ArriveWorld

(* insert(first, last): so are the stamps of a whole container. *)
LEMMA InsertRangeWorld ==
  ASSUME World(heap, cont, past), NEW b \in Containers, NEW c \in Containers, InsertRange(b, c)
  PROVE  World(heap', cont', past')
<1>1. PICK stamps : stamps = Stamps(cont[c])
  OBVIOUS
<1>2. Of(stamps, Nat)
  BY <1>1, StampsAre DEF World
<1>3. Arrive(b, stamps, TRUE)
  BY <1>1 DEF InsertRange
<1>. QED BY <1>2, <1>3, ArriveWorld

(* A container that is empty, whatever its block size and its clock. *)
LEMMA CopyBaseGood ==
  ASSUME NEW h, NEW c, cont[c] \in Members
  PROVE  Good(h, CopyBase(c), NoPast) /\ SlotsOf(CopyBase(c)) = {} /\ Clocked(h, CopyBase(c))
<1>1. PICK e : e = CopyBase(c)
  OBVIOUS
<1>2. cont[c].blockSize \in Nat \ {0} /\ cont[c].clock \in Nat
  BY DEF Members
<1>3. e = [blocks |-> <<>>, free |-> <<>>, size |-> 0, capacity |-> 0,
           blockSize |-> cont[c].blockSize, clock |-> cont[c].clock]
  BY <1>1 DEF CopyBase, Fresh
<1>4. /\ e.blocks = <<>> /\ e.free = <<>> /\ e.size = 0 /\ e.capacity = 0
      /\ e.blockSize \in Nat \ {0} /\ e.clock \in Nat
  BY <1>2, <1>3
<1>5. e \in Members
  <2>1. e = [blocks |-> e.blocks, free |-> e.free, size |-> e.size,
             capacity |-> e.capacity, blockSize |-> e.blockSize, clock |-> e.clock]
    BY <1>3
  <2>2. e.blocks \in Seq(Seq(Slots)) /\ e.free \in Seq(Slots)
    BY <1>4, EmptySeq
  <2>3. e.size \in Nat /\ e.capacity \in Nat
    BY <1>4
  <2>. QED BY <1>4, <2>1, <2>2, <2>3, MembersAre
<1>6. Line(e) = <<>> /\ Fresh.blocks = <<>> /\ Line(Fresh) = <<>> /\ Fresh.free = <<>>
  BY <1>4, FlattenNone DEF Line, Fresh
<1>7. SlotsOf(e) = {} /\ SlotsOf(Fresh) = {}
  BY <1>6 DEF Line, SlotsOf, ToSet
<1>8. Used(h, e) = {} /\ FreeOf(h, e) = {}
  BY <1>7 DEF Used, FreeOf
<1>9. Sound(h, e)
  BY <1>4, <1>5, <1>6, <1>7, <1>8, ListsNone, FS_EmptySet DEF Sound
<1>10. Clocked(h, e)
  BY <1>7 DEF Clocked
<1>11. Lined(h, e, NoPast.order) /\ NoPast \in Past
  <2>1. Lined(h, Fresh, NoPast.order) /\ NoPast \in Past
    <3>1. NoPast.plain
      BY DEF NoPast
    <3>. QED BY <3>1, GoodFresh DEF Good
  <2>. QED BY <1>4, <1>6, <2>1 DEF Lined
<1>. QED BY <1>1, <1>7, <1>9, <1>10, <1>11 DEF Good

(* A copy has the stamps of the original, each once, and the slots of b    *)
(* are given back.                                                         *)
LEMMA ReplaceByCopyWorld ==
  ASSUME World(heap, cont, past), NEW b \in Containers, NEW c \in Containers,
         ReplaceByCopy(b, c)
  PROVE  World(heap', cont', past')
<1>1. PICK stamps, e, gone, taken : /\ stamps = Stamps(cont[c]) /\ e = CopyBase(c)
                                    /\ gone = SlotsOf(cont[b]) /\ taken = Taken(e, Len(stamps))
  OBVIOUS
<1>2. Good(heap, cont[c], past[c]) /\ cont[c] \in Members /\ past[c] \in Past
  BY DEF World
<1>3. Good(heap, e, NoPast) /\ SlotsOf(e) = {} /\ Clocked(heap, e)
  BY <1>1, <1>2, CopyBaseGood
<1>4. Of(stamps, Nat)
  BY <1>1, <1>2, StampsAre
<1>5. PICK q : q = [past[c] EXCEPT !.order = taken, !.plain = TRUE, !.regular = FALSE]
  OBVIOUS
<1>6. /\ HasRoom(e, Len(stamps)) /\ heap' = HeapFilled(e, stamps, gone)
      /\ cont' = [cont EXCEPT ![b] = Filled(e, stamps)]
      /\ past' = [past EXCEPT ![b] = q]
  BY <1>1, <1>5 DEF ReplaceByCopy
<1>7. taken \in Seq(Slots)
  <2>1. stamps \in Seq(Nat) /\ Sound(heap, e)
    BY <1>3, <1>4 DEF Of, Good
  <2>2. Takes(e, Filled(e, stamps), taken, Places(e, Len(stamps)).new, stamps)
    BY <1>1, <1>6, <2>1, FilledIs
  <2>. QED BY <2>2 DEF Takes
<1>8. /\ q \in Past /\ q.order = taken /\ q.copies = past[c].copies
      /\ q.joined = past[c].joined
  BY <1>2, <1>5, <1>7 DEF Past
<1>9. NoPast.plain /\ q.order = NoPast.order \o taken
  <2>1. NoPast.plain /\ NoPast.order = <<>> /\ <<>> \o taken = taken
    BY <1>7 DEF NoPast
  <2>. QED BY <1>8, <2>1
<1>10. ~q.copies /\ ~q.joined => Clocked(heap, e) /\ NewStamps(e, taken, stamps)
  <2>1. SUFFICES ASSUME ~q.copies /\ ~q.joined PROVE NewStamps(e, taken, stamps)
    BY <1>3
  <2>2. Clocked(heap, cont[c])
    BY <1>2, <1>8, <2>1 DEF Good
  <2>3. \A i, j \in DOMAIN stamps : stamps[i] = stamps[j] => i = j
    BY <1>1, <1>2, <2>2, StampsAre
  <2>. QED BY <1>3, <2>3 DEF NewStamps
<1>11. gone \cap SlotsOf(e) = {} /\ SlotsOf(e) \cup gone = SlotsOf(cont[b])
  BY <1>1, <1>3
<1>. QED BY <1>1, <1>3, <1>4, <1>6, <1>8, <1>9, <1>10, <1>11, FillWorld

-----------------------------------------------------------------------------
(***************************************************************************)
(* The other calls.                                                        *)
(***************************************************************************)
(* erase: the slot goes from the used ones to the head of the free list. *)
LEMMA EraseWorld ==
  ASSUME World(heap, cont, past), NEW b \in Containers, Erase(b)
  PROVE  World(heap', cont', past')
<1>1. PICK s \in ToSet(Iteration(heap, cont[b])) :
        /\ heap' = [heap EXCEPT ![s].type = "free"]
        /\ cont' = [cont EXCEPT ![b].free = <<s>> \o @, ![b].size = @ - 1]
        /\ past' = [past EXCEPT ![b].plain = FALSE, ![b].order = <<>>]
  BY DEF Erase
<1>2. PICK c, p, h, d, q : /\ c = cont[b] /\ p = past[b] /\ h = heap'
                           /\ d = [c EXCEPT !.free = <<s>> \o @, !.size = @ - 1]
                           /\ q = [p EXCEPT !.plain = FALSE, !.order = <<>>]
  OBVIOUS
<1>3. /\ Good(heap, c, p) /\ Sound(heap, c) /\ c \in Members /\ p \in Past
      /\ heap \in [Slots -> Slot]
  BY <1>2 DEF World, Good, Sound
<1>4. cont' = [cont EXCEPT ![b] = d] /\ past' = [past EXCEPT ![b] = q]
  BY <1>1, <1>2 DEF World
<1>5. PICK U, F, C : U = Used(heap, c) /\ F = FreeOf(heap, c) /\ C = SlotsOf(c)
  OBVIOUS
<1>6. s \in U
  BY <1>1, <1>2, <1>3, <1>5, IterationIs DEF Sound, Lists
<1>7. s \in C /\ s \in Slots /\ C \subseteq Slots /\ s \notin F /\ heap[s].type = "used"
  BY <1>3, <1>5, <1>6 DEF Used, FreeOf, Sound
<1>8. /\ h \in [Slots -> Slot] /\ h[s].type = "free"
      /\ \A r \in Slots : r # s => h[r] = heap[r]
      /\ \A r \in Slots : h[r].stamp = heap[r].stamp
  BY <1>1, <1>2, <1>3, <1>7 DEF Slot
<1>9. PICK f : f = <<s>> \o c.free
  OBVIOUS
<1>10. d = [c EXCEPT !.free = f, !.size = @ - 1]
  BY <1>2, <1>9
<1>11. Lists(f, {s} \cup F)
  <2>1. Lists(<<s>>, {s}) /\ Lists(c.free, F) /\ {s} \cap F = {}
    BY <1>3, <1>5, <1>7, ListsOne DEF Sound
  <2>. QED BY <1>9, <2>1, ListsBoth
<1>12. F \subseteq C /\ U \subseteq C
  BY <1>5 DEF FreeOf, Used
<1>13. IsFiniteSet(U) /\ Cardinality(U) = c.size /\ c.size \in Nat /\ c.size # 0
  <2>1. IsFiniteSet(U)
    BY <1>7, <1>12, SlotsFinite, FS_Subset
  <2>2. Cardinality(U) # 0
    BY <1>6, <2>1, FS_EmptySet
  <2>. QED BY <1>3, <1>5, <2>1, <2>2 DEF Sound, Members
<1>14. Cardinality(U \ {s}) = c.size - 1 /\ c.size - 1 \in Nat
  <2>1. Cardinality(U \ {s}) = Cardinality(U) - 1
    BY <1>6, <1>13, FS_RemoveElement
  <2>. QED BY <1>13, <2>1
<1>15. /\ d \in Members /\ d.free = f /\ d.size = c.size - 1 /\ d.capacity = c.capacity
       /\ d.blocks = c.blocks /\ d.clock = c.clock
  <2>1. f \in Seq(Slots)
    BY <1>7, <1>11, <1>12, ListsType
  <2>. QED BY <1>3, <1>10, <1>14, <2>1 DEF Members
<1>16. Line(d) = Line(c) /\ SlotsOf(d) = C
  BY <1>5, <1>15 DEF Line, SlotsOf
<1>17. FreeOf(h, d) = {s} \cup F
  <2>1. \A r \in C : h[r].type = "free" <=> r = s \/ heap[r].type = "free"
    BY <1>7, <1>8
  <2>. QED BY <1>5, <1>7, <1>16, <2>1 DEF FreeOf
<1>18. Used(h, d) = U \ {s}
  <2>1. \A r \in C : h[r].type = "used" <=> r # s /\ heap[r].type = "used"
    BY <1>7, <1>8
  <2>. QED BY <1>5, <1>16, <2>1 DEF Used
<1>19. Sound(h, d)
  <2>1. \A r \in C : h[r].type \in {"free", "used"}
    BY <1>3, <1>5, <1>7, <1>8 DEF Sound
  <2>. QED BY <1>3, <1>5, <1>7, <1>11, <1>14, <1>15, <1>16, <1>17, <1>18, <2>1 DEF Sound
<1>20. /\ q \in Past /\ ~q.plain /\ q.copies = p.copies /\ q.joined = p.joined
  <2>1. <<>> \in Seq(Slots)
    BY EmptySeq
  <2>. QED BY <1>2, <1>3, <2>1 DEF Past
<1>21. Clocked(heap, c) => Clocked(h, d)
  BY <1>5, <1>7, <1>8, <1>15, <1>16 DEF Clocked
<1>22. \A r \in C : h[r].type = "used" => h[r].stamp \in Nat
  BY <1>3, <1>5, <1>7, <1>8 DEF Good
<1>23. Good(h, d, q)
  BY <1>3, <1>16, <1>19, <1>20, <1>21, <1>22 DEF Good
<1>24. \A r \in Slots : r \in SlotsOf(cont[b]) \/ r \in SlotsOf(d) \/ h[r] = heap[r]
  BY <1>7, <1>8, <1>16
<1>25. SlotsOf(cont[b]) = SlotsOf(d)
  BY <1>2, <1>5, <1>16
<1>26. World(h, [cont EXCEPT ![b] = d], [past EXCEPT ![b] = q])
  BY <1>8, <1>23, <1>24, <1>25, ChangeOne
<1>. QED BY <1>2, <1>4, <1>26

(* b starts anew, and its blocks go back to the allocator. *)
LEMMA ReleaseWorld ==
  ASSUME World(heap, cont, past), NEW b \in Containers, NEW h,
         h = [s \in Slots |-> IF s \in SlotsOf(cont[b])
                               THEN [type |-> "none", stamp |-> Unset] ELSE heap[s]]
  PROVE  World(h, [cont EXCEPT ![b] = Fresh], [past EXCEPT ![b] = NoPast])
<1>1. PICK C : C = SlotsOf(cont[b])
  OBVIOUS
<1>2. heap \in [Slots -> Slot] /\ C \subseteq Slots
  BY <1>1 DEF World, Good, Sound
<1>3. /\ \A s \in Slots : s \in C => h[s].type = "none" /\ h[s] \in Slot
      /\ \A s \in Slots : s \notin C => h[s] = heap[s]
  BY <1>1 DEF Slot
<1>4. h \in [Slots -> Slot]
  <2>1. \A s \in Slots : h[s] \in Slot
    BY <1>2, <1>3
  <2>2. h = [s \in Slots |-> h[s]]
    OBVIOUS
  <2>. QED BY <2>1, <2>2
<1>5. Good(h, Fresh, NoPast) /\ SlotsOf(Fresh) = {}
  BY GoodFresh
<1>6. /\ \A s \in Slots : s \in SlotsOf(cont[b]) \/ s \in SlotsOf(Fresh) \/ h[s] = heap[s]
      /\ \A s \in SlotsOf(Fresh) : s \in SlotsOf(cont[b]) \/ heap[s].type = "none"
      /\ \A s \in SlotsOf(cont[b]) : s \in SlotsOf(Fresh) \/ h[s].type = "none"
  BY <1>1, <1>2, <1>3, <1>5
<1>. QED BY <1>4, <1>5, <1>6, ChangeOne

(* Move assignment: b is emptied and changes places with c. *)
LEMMA MoveAssignWorld ==
  ASSUME World(heap, cont, past), NEW b \in Containers, NEW c \in Containers, MoveAssign(b, c)
  PROVE  World(heap', cont', past')
<1>1. PICK k, p : k = [cont EXCEPT ![b] = Fresh] /\ p = [past EXCEPT ![b] = NoPast]
  OBVIOUS
<1>2. World(heap', k, p)
  BY <1>1, ReleaseWorld DEF MoveAssign
<1>3. b # c /\ cont \in [Containers -> Members] /\ past \in [Containers -> Past]
  BY DEF MoveAssign, World
<1>4. cont' = [k EXCEPT ![b] = k[c], ![c] = k[b]]
  BY <1>1, <1>3 DEF MoveAssign
<1>5. past' = [p EXCEPT ![b] = p[c], ![c] = p[b]]
  BY <1>1, <1>3 DEF MoveAssign
<1>. QED BY <1>2, <1>3, <1>4, <1>5, ChangePlaces

(* merge: b gets the slots of d, d starts anew. *)
LEMMA MergeWorld ==
  ASSUME World(heap, cont, past), NEW b \in Containers, NEW d \in Containers, Merge(b, d)
  PROVE  World(heap', cont', past')
<1>1. PICK q : q = [order |-> <<>>, plain |-> FALSE,
                    copies |-> past[b].copies \/ past[d].copies,
                    joined |-> TRUE, regular |-> FALSE]
  OBVIOUS
<1>2. past[b] \in Past /\ past[d] \in Past /\ cont[b] \in Members /\ cont[d] \in Members
  BY DEF World
<1>3. q \in Past /\ q.joined /\ ~q.plain
  <2>1. <<>> \in Seq(Slots)
    BY EmptySeq
  <2>. QED BY <1>1, <2>1 DEF Past
<1>4. Joins(Merged(b, d), cont[b], cont[d])
  BY <1>2, MergedIs
<1>5. /\ b # d /\ heap' = heap
      /\ cont' = [cont EXCEPT ![b] = Merged(b, d), ![d] = Fresh]
      /\ past' = [past EXCEPT ![b] = q, ![d] = NoPast]
  BY <1>1 DEF Merge
<1>. QED BY <1>3, <1>4, <1>5, ChangeMerged

-----------------------------------------------------------------------------
(***************************************************************************)
(* Reservation, and the invariant.                                         *)
(***************************************************************************)
(* A sound container stays sound with new blocks of free slots. *)
LEMMA GrowsSound ==
  ASSUME NEW c, Sound(heap, c), NEW d, NEW new, Grows(c, d, new),
         NEW h, \A s \in SlotsOf(c) : h[s] = heap[s], \A s \in ToSet(new) : h[s].type = "free"
  PROVE  Sound(h, d) /\ SlotsOf(d) = SlotsOf(c) \cup ToSet(new)
<1>1. PICK C, N : C = SlotsOf(c) /\ N = ToSet(new)
  OBVIOUS
<1>2. C \subseteq Slots /\ N \subseteq Slots /\ C \cap N = {}
  <2>1. \A s \in C : heap[s].type # "none"
    BY <1>1 DEF Sound
  <2>2. \A s \in N : s \in Slots /\ heap[s].type = "none"
    BY <1>1 DEF Grows, Unused
  <2>. QED BY <1>1, <2>1, <2>2 DEF Sound
<1>3. Lists(Line(d), C \cup N)
  <2>1. Lists(Line(c), C) /\ Lists(new, N)
    BY <1>1 DEF Sound, Grows
  <2>2. Lists(Line(c) \o new, C \cup N)
    BY <1>2, <2>1, ListsBoth
  <2>. QED BY <2>2 DEF Grows, Both
<1>4. SlotsOf(d) = C \cup N
  BY <1>3 DEF Lists, SlotsOf, Line
<1>5. PICK F, U : F = FreeOf(heap, c) /\ U = Used(heap, c)
  OBVIOUS
<1>6. FreeOf(h, d) = N \cup F /\ F \subseteq C /\ Used(h, d) = U
  BY <1>1, <1>4, <1>5 DEF FreeOf, Used
<1>7. Lists(d.free, N \cup F)
  <2>1. Lists(c.free, F) /\ Lists(new, N) /\ N \cap F = {}
    BY <1>1, <1>2, <1>5, <1>6 DEF Sound, Grows
  <2>2. Lists(new \o c.free, N \cup F)
    BY <2>1, ListsBoth
  <2>. QED BY <2>2 DEF Grows, Both
<1>8. d.capacity = Cardinality(C \cup N)
  <2>1. Cardinality(C \cup N) = Cardinality(C) + Cardinality(N)
    BY <1>2, SizesOfTwo
  <2>2. Cardinality(N) = Len(new)
    BY <1>1, ListsCount DEF Grows
  <2>. QED BY <1>1, <2>1, <2>2 DEF Sound, Grows
<1>9. \A s \in C \cup N : h[s].type \in {"free", "used"}
  BY <1>1 DEF Sound
<1>10. d \in Members /\ d.size = Cardinality(U)
  BY <1>5 DEF Sound, Grows
<1>11. Sound(h, d)
  BY <1>2, <1>3, <1>4, <1>6, <1>7, <1>8, <1>9, <1>10 DEF Sound
<1>. QED BY <1>1, <1>4, <1>11

(* reserve: the new slots are free; their stamps may be anything. *)
LEMMA ReserveWorld ==
  ASSUME World(heap, cont, past), NEW b \in Containers, Reserve(b)
  PROVE  World(heap', cont', past')
<1>1. PICK n \in (cont[b].capacity + 1)..MaxSlots :
        LET k == BlocksFor(cont[b], n - cont[b].capacity)
            new == ToSet(FlattenSeq(NewBlocks(cont[b], k)))
        IN  /\ Capacity(cont[b], k) <= Cardinality(Unused)
            /\ \E g \in Garbage :
                 heap' = [s \in Slots |-> IF s \in new THEN [type |-> "free", stamp |-> g]
                                                       ELSE heap[s]]
            /\ cont' = [cont EXCEPT ![b] = Grown(@, k)]
            /\ past' = [past EXCEPT ![b].plain = FALSE, ![b].joined = TRUE, ![b].order = <<>>]
  BY DEF Reserve
<1>2. PICK c, p, k, new, h : /\ c = cont[b] /\ p = past[b] /\ h = heap'
                             /\ k = BlocksFor(c, n - c.capacity)
                             /\ new = FlattenSeq(NewBlocks(c, k))
  OBVIOUS
<1>3. PICK d, q : d = Grown(c, k) /\ q = [p EXCEPT !.plain = FALSE, !.joined = TRUE, !.order = <<>>]
  OBVIOUS
<1>4. PICK g \in Garbage : h = [s \in Slots |-> IF s \in ToSet(new)
                                                 THEN [type |-> "free", stamp |-> g]
                                                 ELSE heap[s]]
  BY <1>1, <1>2
<1>5. Capacity(c, k) <= Cardinality(Unused)
  BY <1>1, <1>2
<1>6. /\ Good(heap, c, p) /\ Sound(heap, c) /\ c \in Members /\ p \in Past
      /\ heap \in [Slots -> Slot]
  BY <1>2 DEF World, Good, Sound
<1>7. cont' = [cont EXCEPT ![b] = d] /\ past' = [past EXCEPT ![b] = q]
  <2>1. cont' = [cont EXCEPT ![b] = Grown(cont[b], k)]
    BY <1>1, <1>2
  <2>2. past' = [past EXCEPT ![b] = [past[b] EXCEPT !.plain = FALSE, !.joined = TRUE, !.order = <<>>]]
    BY <1>1, <1>2 DEF World
  <2>. QED BY <1>2, <1>3, <2>1, <2>2
<1>8. c.blockSize \in Nat \ {0} /\ c.capacity \in Nat
  BY <1>6 DEF Members
<1>9. k \in Nat
  <2>1. PICK more : more = n - c.capacity
    OBVIOUS
  <2>2. more \in Nat
    BY <1>2, <1>8, <2>1, ConstantsAssumption
  <2>. QED BY <1>2, <1>8, <2>1, <2>2, BlocksForIs
<1>10. Grows(c, d, new)
  BY <1>2, <1>3, <1>5, <1>6, <1>9, GrownGrows
<1>11. \A s \in ToSet(new) : s \in Slots /\ heap[s].type = "none"
  BY <1>10 DEF Grows, Unused
<1>12. \A s \in SlotsOf(c) : s \in Slots /\ heap[s].type # "none"
  BY <1>6 DEF Sound
<1>13. /\ \A s \in Slots : s \in ToSet(new) => h[s].type = "free" /\ h[s] \in Slot
       /\ \A s \in Slots : s \notin ToSet(new) => h[s] = heap[s]
  <2>1. g \in Nat \cup {Unset}
    BY ConstantsAssumption
  <2>. QED BY <1>4, <2>1 DEF Slot
<1>14. h \in [Slots -> Slot]
  <2>1. \A s \in Slots : h[s] \in Slot
    BY <1>6, <1>13
  <2>2. h = [s \in Slots |-> h[s]]
    BY <1>4
  <2>. QED BY <2>1, <2>2
<1>15. \A s \in SlotsOf(c) : h[s] = heap[s]
  BY <1>11, <1>12, <1>13
<1>16. Sound(h, d) /\ SlotsOf(d) = SlotsOf(c) \cup ToSet(new)
  BY <1>6, <1>10, <1>11, <1>13, <1>15, GrowsSound
<1>17. q \in Past /\ ~q.plain /\ q.joined
  <2>1. <<>> \in Seq(Slots)
    BY EmptySeq
  <2>. QED BY <1>3, <1>6, <2>1 DEF Past
<1>18. \A s \in SlotsOf(d) : h[s].type = "used" => h[s].stamp \in Nat
  BY <1>6, <1>11, <1>13, <1>15, <1>16 DEF Good
<1>19. Good(h, d, q)
  BY <1>16, <1>17, <1>18 DEF Good
<1>20. /\ \A s \in Slots : s \in SlotsOf(cont[b]) \/ s \in SlotsOf(d) \/ h[s] = heap[s]
       /\ \A s \in SlotsOf(d) : s \in SlotsOf(cont[b]) \/ heap[s].type = "none"
       /\ \A s \in SlotsOf(cont[b]) : s \in SlotsOf(d) \/ h[s].type = "none"
  BY <1>2, <1>11, <1>13, <1>16
<1>21. World(h, [cont EXCEPT ![b] = d], [past EXCEPT ![b] = q])
  BY <1>14, <1>19, <1>20, ChangeOne
<1>. QED BY <1>2, <1>7, <1>21

(* clear: the container starts anew. *)
LEMMA ClearWorld ==
  ASSUME World(heap, cont, past), NEW b \in Containers, Clear(b)
  PROVE  World(heap', cont', past')
BY ReleaseWorld DEF Clear

(* swap. *)
LEMMA SwapWorld ==
  ASSUME World(heap, cont, past), NEW b \in Containers, NEW d \in Containers, Swap(b, d)
  PROVE  World(heap', cont', past')
BY ChangePlaces DEF Swap

(* The inductive invariant. *)
IInv == World(heap, cont, past) /\ calls \in 0..MaxCalls

(* It holds at first, with every container empty. *)
LEMMA InitInv == Init => IInv
<1>1. SUFFICES ASSUME Init PROVE IInv
  OBVIOUS
<1>2. Good(heap, Fresh, NoPast) /\ SlotsOf(Fresh) = {}
  BY GoodFresh
<1>3. Fresh \in Members /\ NoPast \in Past
  BY <1>2 DEF Good, Sound
<1>4. \A b \in Containers : cont[b] = Fresh /\ past[b] = NoPast
  BY <1>1 DEF Init
<1>5. cont \in [Containers -> Members] /\ past \in [Containers -> Past]
  BY <1>1, <1>3 DEF Init
<1>6. heap \in [Slots -> Slot] /\ \A s \in Slots : heap[s].type = "none"
  BY <1>1 DEF Init, Slot
<1>7. World(heap, cont, past)
  BY <1>2, <1>4, <1>5, <1>6 DEF World
<1>. QED BY <1>1, <1>7, ConstantsAssumption DEF Init, IInv

(* Every call keeps it. *)
LEMMA CallWorld ==
  ASSUME World(heap, cont, past), Call
  PROVE  World(heap', cont', past')
<1>1. CASE \E b \in Containers :
             Emplace(b) \/ InsertCopy(b) \/ Erase(b) \/ Clear(b) \/ Reserve(b)
  BY <1>1, EmplaceWorld, InsertCopyWorld, EraseWorld, ClearWorld, ReserveWorld
<1>2. CASE \E b, c \in Containers :
             \/ InsertRange(b, c) \/ Merge(b, c) \/ Swap(b, c)
             \/ CopyAssign(b, c) \/ FriendSwap(b, c) \/ MoveAssign(b, c)
  <2>1. PICK b, c \in Containers :
          \/ InsertRange(b, c) \/ Merge(b, c) \/ Swap(b, c)
          \/ CopyAssign(b, c) \/ FriendSwap(b, c) \/ MoveAssign(b, c)
    BY <1>2
  <2>2. CASE InsertRange(b, c) \/ Merge(b, c) \/ Swap(b, c)
    BY <2>2, InsertRangeWorld, MergeWorld, SwapWorld
  <2>3. CASE CopyAssign(b, c) \/ FriendSwap(b, c)
    BY <2>3, ReplaceByCopyWorld DEF CopyAssign, FriendSwap
  <2>4. CASE MoveAssign(b, c)
    BY <2>4, MoveAssignWorld
  <2>. QED BY <2>1, <2>2, <2>3, <2>4
<1>. QED BY <1>1, <1>2 DEF Call

(* Every step keeps it. *)
LEMMA NextInv == IInv /\ [Next]_vars => IInv'
<1>1. CASE IInv /\ Next
  <2>1. World(heap', cont', past')
    BY <1>1, CallWorld DEF IInv, Next
  <2>2. calls' \in 0..MaxCalls
    BY <1>1, ConstantsAssumption DEF IInv, Next
  <2>3. World(heap, cont, past)'
    BY <2>1
  <2>. QED BY <2>2, <2>3 DEF IInv
<1>2. CASE IInv /\ UNCHANGED vars
  <2>1. heap' = heap /\ cont' = cont /\ past' = past /\ calls' = calls
    BY <1>2 DEF vars
  <2>2. World(heap', cont', past') /\ calls' \in 0..MaxCalls
    BY <1>2, <2>1 DEF IInv
  <2>3. World(heap, cont, past)'
    BY <2>2
  <2>. QED BY <2>2, <2>3 DEF IInv
<1>. QED BY <1>1, <1>2

(* So it always holds. *)
THEOREM Invariance == Spec => []IInv
BY InitInv, NextInv, PTL DEF Spec

(* What follows from it: types, and no more capacity than the heap has     *)
(* slots.                                                                  *)
LEMMA ContainerTyping == IInv => TypeOK
<1>1. SUFFICES ASSUME IInv PROVE TypeOK
  OBVIOUS
<1>2. ASSUME NEW b \in Containers PROVE cont[b].capacity <= MaxSlots
  <2>1. /\ SlotsOf(cont[b]) \subseteq Slots
        /\ cont[b].capacity = Cardinality(SlotsOf(cont[b]))
    BY <1>1 DEF IInv, World, Good, Sound
  <2>. QED BY <2>1, SlotsFinite, FS_Subset
<1>. QED BY <1>1, <1>2 DEF IInv, World, TypeOK

(* Every slot is in one place. *)
LEMMA ContainerPlaces == IInv => SlotsInOnePlace
<1>1. SUFFICES ASSUME IInv PROVE SlotsInOnePlace
  OBVIOUS
<1>2. ASSUME NEW b \in Containers, NEW slots, slots = FlattenSeq(cont[b].blocks)
      PROVE  /\ IsInjective(slots) /\ IsInjective(cont[b].free)
             /\ ToSet(cont[b].free) = {s \in ToSet(slots) : heap[s].type = "free"}
             /\ \A s \in ToSet(slots) : heap[s].type # "none"
  <2>1. Sound(heap, cont[b])
    BY <1>1 DEF IInv, World, Good
  <2>2. slots = Line(cont[b]) /\ ToSet(slots) = SlotsOf(cont[b])
    BY <1>2 DEF Line, SlotsOf
  <2>. QED BY <2>1, <2>2 DEF Sound, Lists, FreeOf
<1>3. /\ \A b, c \in Containers : b # c => SlotsOf(cont[b]) \cap SlotsOf(cont[c]) = {}
      /\ \A s \in Slots \ Unused : \E b \in Containers : s \in SlotsOf(cont[b])
  BY <1>1 DEF IInv, World, Unused
<1>. QED BY <1>2, <1>3 DEF SlotsInOnePlace

(* The counters are what the walks count. *)
LEMMA ContainerCounters == IInv => CountersAreExact
<1>1. SUFFICES ASSUME IInv, NEW b \in Containers
               PROVE  /\ cont[b].size = Len(Iteration(heap, cont[b]))
                      /\ cont[b].capacity = Cardinality(SlotsOf(cont[b]))
  BY DEF CountersAreExact
<1>2. Sound(heap, cont[b])
  BY <1>1 DEF IInv, World, Good
<1>3. Lists(Iteration(heap, cont[b]), Used(heap, cont[b]))
  BY <1>2, IterationIs DEF Sound
<1>. QED BY <1>2, <1>3, ListsCount DEF Sound

(* Iteration order is insertion order. *)
LEMMA ContainerOrder == IInv => InsertionOrder
<1>1. SUFFICES ASSUME IInv, NEW b \in Containers, past[b].plain
               PROVE  Iteration(heap, cont[b]) = past[b].order
  BY DEF InsertionOrder
<1>2. PICK c, order : c = cont[b] /\ order = past[b].order
  OBVIOUS
<1>3. Sound(heap, c) /\ Lined(heap, c, order)
  BY <1>1, <1>2 DEF IInv, World, Good
<1>4. order \in Seq(Slots)
  BY <1>1, <1>2 DEF IInv, World, Past
<1>5. Line(c) = order \o c.free /\ c.free \in Seq(Slots)
  BY <1>3 DEF Lined, Sound, Members
<1>6. \A s \in ToSet(order) : heap[s].type = "used"
  BY <1>3 DEF Lined
<1>7. \A s \in ToSet(c.free) : heap[s].type # "used"
  BY <1>3 DEF Sound, Lists, FreeOf
<1>8. Iteration(heap, c) = order
  BY <1>4, <1>5, <1>6, <1>7, IterationLined
<1>. QED BY <1>2, <1>8

(* Own stamps differ. *)
LEMMA ContainerStamps == IInv => OwnStampsAreUnique
<1>1. SUFFICES ASSUME IInv, NEW b \in Containers, ~past[b].copies, ~past[b].joined,
                      NEW s \in ToSet(Iteration(heap, cont[b])),
                      NEW r \in ToSet(Iteration(heap, cont[b])), s # r
               PROVE  heap[s].stamp # heap[r].stamp
  BY DEF OwnStampsAreUnique, DifferentStamps
<1>2. Sound(heap, cont[b]) /\ Clocked(heap, cont[b])
  BY <1>1 DEF IInv, World, Good
<1>3. s \in Used(heap, cont[b]) /\ r \in Used(heap, cont[b])
  BY <1>1, <1>2, IterationIs DEF Sound, Lists
<1>4. heap[s].stamp \in Nat
  BY <1>1, <1>3 DEF IInv, World, Good, Used
<1>. QED BY <1>1, <1>2, <1>3, <1>4, ConstantsAssumption DEF Clocked, Used

(* Every variable has its type, and no container has more capacity than   *)
(* there are slots.                                                        *)
THEOREM ContainerTypes == Spec => []TypeOK
BY Invariance, ContainerTyping, PTL

(* However blocks change hands by merge, swap, moves and copies, the heap  *)
(* is divided among the containers: a slot is in one block of one          *)
(* container, and in use or, once, on that container's free list.          *)
THEOREM HeapIsDivided == Spec => []SlotsInOnePlace
BY Invariance, ContainerPlaces, PTL

(* What size() asserts: the counter is the number of elements iteration    *)
(* visits; and the capacity is the number of slots of the blocks.          *)
THEOREM ExactCounters == Spec => []CountersAreExact
BY Invariance, ContainerCounters, PTL

(* Elements are visited in the order in which they were inserted, as long  *)
(* as nothing was erased, merged or reserved; also in copies.              *)
THEOREM OrderIsKept == Spec => []InsertionOrder
BY Invariance, ContainerOrder, PTL

(* The elements a container made itself have different time stamps, also   *)
(* in recycled slots, and those of its copies too.                         *)
THEOREM UniqueStamps == Spec => []OwnStampsAreUnique
BY Invariance, ContainerStamps, PTL

-----------------------------------------------------------------------------
(***************************************************************************)
(* The subscript: the square root that operator[] takes inverts the sum of *)
(* the block sizes.                                                        *)
(***************************************************************************)
(* There is a root, rounded down. *)
LEMMA RootIs ==
  ASSUME NEW n \in Nat
  PROVE  /\ Root(n) \in Nat /\ Root(n) * Root(n) <= n
         /\ n < (Root(n) + 1) * (Root(n) + 1)
<1> DEFINE T == {r \in Nat : n < (r + 1) * (r + 1)}
<1>1. n \in T
  <2>1. (n + 1) <= (n + 1) * (n + 1)
    BY SquaresGrow
  <2>2. PICK x : x = (n + 1) * (n + 1)
    OBVIOUS
  <2>3. x \in Nat /\ n < x
    BY <2>1, <2>2
  <2>. QED BY <2>2, <2>3
<1>2. PICK m \in T : \A k \in T : m <= k
  <2>1. T \in SUBSET Nat /\ T # {}
    BY <1>1
  <2> HIDE DEF T
  <2>. QED BY <2>1, LeastNatural
<1>3. m \in 0 .. n /\ n < (m + 1) * (m + 1)
  BY <1>1, <1>2
<1>4. m * m <= n
  <2>1. CASE m = 0
    BY <2>1
  <2>2. CASE m # 0
    <3>1. PICK k : k = m - 1 /\ k \in Nat /\ k + 1 = m /\ ~(m <= k)
      BY <1>3, <2>2
    <3>2. k \notin T
      BY <1>2, <3>1
    <3>3. ~(n < (k + 1) * (k + 1))
      BY <3>1, <3>2
    <3>4. PICK y : y = m * m /\ y \in Nat
      BY <1>3
    <3>5. ~(n < y)
      BY <3>1, <3>3, <3>4
    <3>. QED BY <3>4, <3>5
  <2>. QED BY <2>1, <2>2
<1>5. \E r \in 0 .. n : r * r <= n /\ n < (r + 1) * (r + 1)
  BY <1>3, <1>4
<1>6. Root(n) \in 0 .. n /\ Root(n) * Root(n) <= n /\ n < (Root(n) + 1) * (Root(n) + 1)
  BY <1>5 DEF Root
<1>. QED BY <1>6

(* The root lies between the numbers whose squares n lies between. *)
LEMMA RootBetween ==
  ASSUME NEW n \in Nat, NEW a \in Nat, NEW b \in Nat, a * a <= n, n < b * b
  PROVE  Root(n) \in Nat /\ a <= Root(n) /\ Root(n) < b
<1>1. PICK r : r = Root(n)
  OBVIOUS
<1>2. r \in Nat /\ r * r <= n /\ n < (r + 1) * (r + 1)
  BY <1>1, RootIs
<1>3. PICK u, v, w, x, y : u = r * r /\ v = r + 1 /\ w = v * v /\ x = a * a /\ y = b * b
  OBVIOUS
<1>4. u \in Nat /\ v \in Nat /\ w \in Nat /\ x \in Nat /\ y \in Nat /\ u <= n /\ n < w /\ x <= n /\ n < y
  BY <1>2, <1>3
<1>5. a <= r
  <2>1. SUFFICES ASSUME ~(a <= r) PROVE FALSE
    OBVIOUS
  <2>2. v <= a
    BY <1>2, <1>3, <2>1
  <2>3. w <= x
    BY <1>3, <1>4, <2>2, SquaresGrow
  <2>. QED BY <1>4, <2>3
<1>6. r < b
  <2>1. SUFFICES ASSUME ~(r < b) PROVE FALSE
    OBVIOUS
  <2>2. b <= r
    BY <1>2, <2>1
  <2>3. y <= u
    BY <1>2, <1>3, <2>2, SquaresGrow
  <2>. QED BY <1>4, <2>3
<1>. QED BY <1>1, <1>2, <1>5, <1>6

(* The slots of the first k blocks, when the first one has FirstBlock. *)
FirstOf(k) == Capacity(Fresh, k)

(* It is FirstBlock for each of them, and Growth for each pair. *)
LEMMA FirstOfIs ==
  ASSUME NEW k \in Nat
  PROVE  \E t \in Nat : 2 * t = k * (k - 1) /\ t = (k * (k - 1)) \div 2
                        /\ FirstOf(k) = k * FirstBlock + Growth * t
<1>1. PICK j \in Nat : k = 2 * j \/ k = 2 * j + 1
  <2>1. k \div 2 \in Nat /\ (k = 2 * (k \div 2) \/ k = 2 * (k \div 2) + 1)
    OBVIOUS
  <2>. QED BY <2>1
<1>2. \E t \in Nat : 2 * t = k * (k - 1)
  <2>1. CASE k = 2 * j
    <3>1. CASE j = 0
      BY <2>1, <3>1
    <3>2. CASE j # 0
      <4>1. PICK e \in Nat : e = 2 * j - 1
        BY <3>2
      <4>2. j * e \in Nat /\ k * (k - 1) = 2 * (j * e)
        BY <2>1, <4>1
      <4>. QED BY <4>2
    <3>. QED BY <3>1, <3>2
  <2>2. CASE k = 2 * j + 1
    <3>1. k * j \in Nat /\ k * (k - 1) = 2 * (k * j)
      BY <2>2
    <3>. QED BY <3>1
  <2>. QED BY <1>1, <2>1, <2>2
<1>3. PICK t \in Nat : 2 * t = k * (k - 1)
  BY <1>2
<1>4. (2 * t) \div 2 = t
  OBVIOUS
<1>5. t = (k * (k - 1)) \div 2
  BY <1>3, <1>4
<1>6. Fresh.blockSize = FirstBlock
  BY DEF Fresh
<1>. QED BY <1>3, <1>5, <1>6 DEF FirstOf, Capacity

(* The discriminant of the policy, at the first slot of block k. *)
LEMMA FirstOfRoot ==
  ASSUME NEW k \in Nat, NEW off, off = 2 * FirstBlock - Growth
  PROVE  /\ off \in Nat /\ FirstOf(k) \in Nat /\ off + 2 * Growth * k \in Nat
         /\ off * off + 8 * Growth * FirstOf(k) = (off + 2 * Growth * k) * (off + 2 * Growth * k)
<1>1. PICK F, G : F = FirstBlock /\ G = Growth
  OBVIOUS
<1>2. F \in Nat /\ G \in Nat /\ off \in Nat /\ off = 2 * F - G
  BY <1>1, ConstantsAssumption
<1>3. PICK t \in Nat : 2 * t = k * (k - 1) /\ FirstOf(k) = k * F + G * t
  BY <1>1, FirstOfIs
<1>4. PICK x, y, z : x = G * k /\ y = G * t /\ z = k * F
  OBVIOUS
<1>5. x \in Nat /\ y \in Nat /\ z \in Nat
  BY <1>2, <1>4
<1>6. x * x = 2 * (G * y) + G * x
  <2>1. x * x = G * (G * (k * k))
    BY <1>2, <1>4
  <2>2. k * k = 2 * t + k
    BY <1>3
  <2>3. G * (G * (2 * t + k)) = 2 * (G * (G * t)) + G * (G * k)
    BY <1>2
  <2>. QED BY <1>4, <2>1, <2>2, <2>3
<1>7. (off + 2 * x) * (off + 2 * x) = off * off + 4 * (off * x) + 4 * (x * x)
  BY <1>2, <1>5
<1>8. off * x = 2 * (G * z) - G * x
  <2>1. off * x = (2 * F - G) * x
    BY <1>2
  <2>2. (2 * F - G) * x = 2 * (F * x) - G * x
    BY <1>2, <1>5
  <2>3. F * x = G * z
    BY <1>2, <1>4
  <2>. QED BY <2>1, <2>2, <2>3
<1>9. G * (z + y) = G * z + G * y
  BY <1>2, <1>5
<1>10. off * off + 8 * (G * (z + y)) = (off + 2 * x) * (off + 2 * x)
  <2>1. PICK p, q, r, s, w : p = G * z /\ q = G * y /\ r = G * x /\ s = x * x /\ w = off * off
    OBVIOUS
  <2>2. p \in Nat /\ q \in Nat /\ r \in Nat /\ s \in Nat /\ w \in Nat
    BY <1>2, <1>5, <2>1
  <2>3. s = 2 * q + r /\ off * x = 2 * p - r
    BY <1>6, <1>8, <2>1
  <2>4. (off + 2 * x) * (off + 2 * x) = w + 4 * (2 * p - r) + 4 * s
    BY <1>7, <2>1, <2>3
  <2>5. off * off + 8 * (G * (z + y)) = w + 8 * (p + q)
    BY <1>9, <2>1
  <2>. QED BY <2>2, <2>3, <2>4, <2>5
<1>11. FirstOf(k) = z + y /\ z + y \in Nat
  BY <1>3, <1>4, <1>5
<1>12. 2 * G * k = 2 * x /\ 8 * G * (z + y) = 8 * (G * (z + y))
  BY <1>2, <1>4, <1>5
<1>. QED BY <1>1, <1>2, <1>5, <1>10, <1>11, <1>12

(* The place that the policy computes is the one that i has in the chain. *)
LEMMA IndexAndBlockIs ==
  ASSUME NEW k \in Nat, NEW i \in Nat, FirstOf(k) <= i, i < FirstOf(k + 1)
  PROVE  IndexAndBlock(i) = <<k + 1, (i - FirstOf(k)) + 1>>
<1>1. PICK off, G, s, t : off = 2 * FirstBlock - Growth /\ G = Growth /\ s = FirstOf(k) /\ t = FirstOf(k + 1)
  OBVIOUS
<1>2. PICK a, b : a = off + 2 * G * k /\ b = off + 2 * G * (k + 1)
  OBVIOUS
<1>3. /\ off \in Nat /\ s \in Nat /\ t \in Nat /\ a \in Nat /\ b \in Nat /\ G \in Nat \ {0}
      /\ off * off + 8 * G * s = a * a /\ off * off + 8 * G * t = b * b
  BY <1>1, <1>2, FirstOfRoot, ConstantsAssumption
<1>4. PICK n : n = off * off + 8 * G * i
  OBVIOUS
<1>5. n \in Nat /\ a * a <= n /\ n < b * b
  <2>1. PICK g, w : g = 8 * G /\ w = off * off
    OBVIOUS
  <2>2. g \in Nat \ {0} /\ w \in Nat
    BY <1>3, <2>1
  <2>3. s <= i /\ i + 1 <= t
    BY <1>1, <1>3
  <2>4. s * g <= i * g /\ (i + 1) * g <= t * g
    BY <1>3, <2>2, <2>3, ProductMonotone
  <2>5. PICK x, y, z : x = i * g /\ y = s * g /\ z = t * g
    OBVIOUS
  <2>6. x \in Nat /\ y \in Nat /\ z \in Nat /\ (i + 1) * g = x + g
    BY <1>3, <2>2, <2>5
  <2>7. g * i = x /\ g * s = y /\ g * t = z
    BY <1>3, <2>2, <2>5
  <2>8. y <= x /\ x + g <= z
    BY <2>4, <2>5, <2>6
  <2>9. n = w + x /\ a * a = w + y /\ b * b = w + z
    BY <1>3, <1>4, <2>1, <2>7
  <2>. QED BY <2>2, <2>6, <2>8, <2>9
<1>6. PICK r : r = Root(n)
  OBVIOUS
<1>7. r \in Nat /\ a <= r /\ r < b
  BY <1>3, <1>5, <1>6, RootBetween
<1>8. (r - off) \div (2 * G) = k
  <2>1. PICK d : d = 2 * G
    OBVIOUS
  <2>2. d \in Nat \ {0}
    BY <1>3, <2>1
  <2>3. a = off + k * d /\ b = off + (k + 1) * d
    BY <1>2, <1>3, <2>1, <2>2
  <2>4. PICK x, y : x = k * d /\ y = (k + 1) * d
    OBVIOUS
  <2>5. x \in Nat /\ y \in Nat
    BY <2>2, <2>4
  <2>6. x <= r - off /\ r - off < y /\ r - off \in Int
    BY <1>3, <1>7, <2>3, <2>4, <2>5
  <2>. QED BY <2>1, <2>2, <2>4, <2>6, QuotientIs
<1>9. BlockOf(i) = k
  BY <1>1, <1>4, <1>6, <1>8 DEF BlockOf
<1>10. CASE k = 0
  <2>1. FirstOf(0) = 0
    BY CapacityOfNone, ConstantsAssumption DEF FirstOf, Fresh
  <2>. QED BY <1>9, <1>10, <2>1 DEF IndexAndBlock
<1>11. CASE k # 0
  <2>1. PICK F, g : F = FirstBlock /\ G = 2 * g /\ F \in Nat /\ g \in Nat
    <3>1. G % 2 = 0
      BY <1>1, ConstantsAssumption
    <3>2. G = 2 * (G \div 2) /\ G \div 2 \in Nat
      BY <1>3, <3>1
    <3>. QED BY <3>2, ConstantsAssumption
  <2>2. PICK m \in Nat : m = k - 1
    BY <1>11
  <2>3. (G * (k - 1)) \div 2 = g * m
    <3>1. PICK x : x = g * m
      OBVIOUS
    <3>2. x \in Nat /\ G * (k - 1) = 2 * x
      BY <2>1, <2>2, <3>1
    <3>. QED BY <3>1, <3>2
  <2>4. PICK v \in Nat : 2 * v = k * m /\ s = k * F + G * v
    BY <1>1, <2>1, <2>2, FirstOfIs
  <2>5. k * (F + g * m) = s
    <3>1. k * (F + g * m) = k * F + g * (k * m)
      BY <2>1, <2>2
    <3>2. g * (2 * v) = G * v
      BY <2>1, <2>4
    <3>. QED BY <2>4, <3>1, <3>2
  <2>. QED BY <1>1, <1>9, <1>11, <2>1, <2>3, <2>5 DEF IndexAndBlock
<1>. QED BY <1>10, <1>11

-----------------------------------------------------------------------------
(***************************************************************************)
(* The blocks of a container that only grew by itself, and the place of a  *)
(* slot among them.                                                        *)
(***************************************************************************)
(* More blocks have no less room. *)
LEMMA CapacityGrows ==
  ASSUME NEW c, c.blockSize \in Nat \ {0}, NEW i \in Nat, NEW k \in Nat, i <= k
  PROVE  Capacity(c, i) <= Capacity(c, k)
<1> DEFINE Has == {n \in Nat : Capacity(c, i) <= Capacity(c, i + n)}
<1>1. 0 \in Has
  <2>1. Capacity(c, i) \in Nat /\ i + 0 = i
    BY CapacityType
  <2>. QED BY <2>1
<1>2. ASSUME NEW n \in Nat, n \in Has PROVE n + 1 \in Has
  <2>1. PICK m : m = i + n
    OBVIOUS
  <2>2. m \in Nat /\ i + (n + 1) = m + 1
    BY <2>1
  <2>3. PICK x, y, z, b, g : /\ x = Capacity(c, i) /\ y = Capacity(c, m) /\ z = Capacity(c, m + 1)
                             /\ b = c.blockSize /\ g = Growth * m
    OBVIOUS
  <2>4. x \in Nat /\ y \in Nat /\ z \in Nat /\ b \in Nat /\ g \in Nat
    BY <2>2, <2>3, CapacityType, ConstantsAssumption
  <2>5. z = y + b + g
    BY <2>2, <2>3, CapacityOfMore
  <2>6. x <= y
    BY <1>2, <2>1, <2>3
  <2>7. x <= z
    BY <2>4, <2>5, <2>6
  <2>. QED BY <2>2, <2>3, <2>7
<1> HIDE DEF Has
<1>3. PICK n \in Nat : k = i + n
  <2>1. k - i \in Nat /\ k = i + (k - i)
    OBVIOUS
  <2>. QED BY <2>1
<1>4. n \in Has
  BY <1>1, <1>2, NaturalInduction
<1>. QED BY <1>3, <1>4 DEF Has

(* The blocks of q are b slots long and longer, as the policy makes them. *)
Lengthens(q, b) == \A i \in 1 .. Len(q) : Len(q[i]) = b + Growth * (i - 1)

(* The new blocks are as long as the policy says. *)
LEMMA NewBlocksLong ==
  ASSUME NEW c, c.blockSize \in Nat \ {0}, NEW k \in Nat,
         Capacity(c, k) <= Cardinality(Unused), NEW q, q = NewBlocks(c, k)
  PROVE  Len(q) = k /\ Lengthens(q, c.blockSize)
<1>1. PICK memory, n : memory = InOrder(Unused) /\ n = Cardinality(Unused)
  OBVIOUS
<1>2. memory \in Seq(Slots) /\ Len(memory) = n /\ n \in Nat
  BY <1>1, MemoryIs, ListsType, ListsCount DEF Unused
<1>3. q = [i \in 1 .. k |-> SubSeq(memory, Capacity(c, i - 1) + 1, Capacity(c, i))]
  BY <1>1 DEF NewBlocks
<1>4. ASSUME NEW i \in 1 .. k PROVE Len(q[i]) = c.blockSize + Growth * (i - 1)
  <2>1. PICK j \in Nat : j = i - 1
    OBVIOUS
  <2>2. i \in Nat /\ i = j + 1 /\ i <= k
    BY <2>1
  <2>3. PICK x, y, b, g : /\ x = Capacity(c, j) /\ y = Capacity(c, i) /\ b = c.blockSize
                          /\ g = Growth * j
    OBVIOUS
  <2>4. /\ x \in Nat /\ y \in Nat /\ y <= Capacity(c, k) /\ b \in Nat /\ g \in Nat
        /\ Capacity(c, k) \in Nat
    BY <2>2, <2>3, CapacityType, CapacityGrows, ConstantsAssumption
  <2>5. y = x + b + g
    BY <2>2, <2>3, CapacityOfMore
  <2>6. y <= n
    BY <1>1, <1>2, <2>4
  <2>7. q[i] = SubSeq(memory, x + 1, y)
    BY <1>3, <2>1, <2>3
  <2>8. Len(SubSeq(memory, x + 1, y)) = y - x
    <3>1. x + 1 \in 1 .. Len(memory) + 1 /\ y \in x .. Len(memory)
      BY <1>2, <2>4, <2>5, <2>6
    <3>. QED BY <1>2, <2>4, <2>6, <3>1, SubSeqProperties
  <2>9. y - x = b + g
    BY <2>4, <2>5
  <2>. QED BY <2>1, <2>3, <2>7, <2>8, <2>9
<1>5. Len(q) = k
  BY <1>3
<1>. QED BY <1>4, <1>5 DEF Lengthens

(* The blocks of c are those that the policy makes, from the first one on. *)
Regular(c) ==
  /\ c.blockSize = FirstBlock + Len(c.blocks) * Growth
  /\ Lengthens(c.blocks, FirstBlock)

(* The first block of a container is the one after none. *)
LEMMA FirstOfNext ==
  ASSUME NEW j \in Nat
  PROVE  FirstOf(0) = 0 /\ FirstOf(j + 1) = FirstOf(j) + FirstBlock + Growth * j
<1>1. Fresh.blockSize = FirstBlock /\ FirstBlock \in Nat
  BY ConstantsAssumption DEF Fresh
<1>. QED BY <1>1, CapacityOfNone, CapacityOfMore DEF FirstOf

(* So do two such chains joined, if the second goes on where the first ends. *)
LEMMA LengthensOn ==
  ASSUME NEW T, NEW p, NEW q, Of(p, Seq(T)), Of(q, Seq(T)), NEW F \in Nat,
         NEW b, b = F + Len(p) * Growth, Lengthens(p, F), Lengthens(q, b)
  PROVE  Lengthens(Both(p, q), F) /\ Len(Both(p, q)) = Len(p) + Len(q)
<1>1. PICK r, m, k, G : r = p \o q /\ m = Len(p) /\ k = Len(q) /\ G = Growth
  OBVIOUS
<1>2. PICK U : U = Seq(T)
  OBVIOUS
<1>3. p \in Seq(U) /\ q \in Seq(U)
  BY <1>2 DEF Of
<1>4. m \in Nat /\ k \in Nat /\ G \in Nat
  BY <1>1, <1>3, ConstantsAssumption
<1>5. Len(r) = m + k /\ \A i \in 1 .. m + k : r[i] = IF i <= m THEN p[i] ELSE q[i - m]
  BY <1>1, <1>3, ConcatProperties
<1>6. ASSUME NEW j \in 1 .. m + k PROVE Len(r[j]) = F + Growth * (j - 1)
  <2>1. CASE j <= m
    <3>1. j \in 1 .. m /\ r[j] = p[j]
      BY <1>4, <1>5, <2>1
    <3>. QED BY <1>1, <3>1 DEF Lengthens
  <2>2. CASE ~(j <= m)
    <3>1. PICK i : i = j - m
      OBVIOUS
    <3>2. i \in 1 .. k /\ r[j] = q[i]
      BY <1>4, <1>5, <2>2, <3>1
    <3>3. Len(q[i]) = b + Growth * (i - 1)
      BY <1>1, <3>2 DEF Lengthens
    <3>4. (F + m * G) + G * (i - 1) = F + G * (j - 1)
      <4>1. PICK h : h = i - 1
        OBVIOUS
      <4>2. h \in Nat /\ j - 1 = m + h
        BY <1>4, <3>1, <3>2, <4>1
      <4>3. G * (m + h) = m * G + G * h
        BY <1>4, <4>2
      <4>4. PICK x, y, z : x = m * G /\ y = G * h /\ z = G * (m + h)
        OBVIOUS
      <4>5. x \in Nat /\ y \in Nat /\ z = x + y
        BY <1>4, <4>2, <4>3, <4>4
      <4>. QED BY <4>1, <4>2, <4>4, <4>5
    <3>. QED BY <1>1, <3>2, <3>3, <3>4
  <2>. QED BY <2>1, <2>2
<1>. QED BY <1>1, <1>5, <1>6 DEF Lengthens, Both

(* A container that was regular and grows is regular. *)
LEMMA GrownRegular ==
  ASSUME NEW c \in Members, NEW k \in Nat, Capacity(c, k) <= Cardinality(Unused),
         Regular(c), NEW d, d.blocks = Grown(c, k).blocks, d.blockSize = Grown(c, k).blockSize
  PROVE  Regular(d)
<1>1. c.blocks \in Seq(Seq(Slots)) /\ c.blockSize \in Nat \ {0}
  BY MembersAre
<1>2. PICK p, q, m, F, G : /\ p = c.blocks /\ q = NewBlocks(c, k) /\ m = Len(p)
                           /\ F = FirstBlock /\ G = Growth
  OBVIOUS
<1>3. F \in Nat /\ G \in Nat /\ m \in Nat
  BY <1>1, <1>2, ConstantsAssumption
<1>4. c.blockSize = F + m * G /\ Lengthens(p, F)
  BY <1>2 DEF Regular
<1>5. Len(q) = k /\ Lengthens(q, c.blockSize)
  BY <1>1, <1>2, NewBlocksLong
<1>6. Of(p, Seq(Slots)) /\ Of(q, Seq(Slots))
  BY <1>1, <1>2, NewBlocksAre DEF Of
<1>7. d.blocks = Both(p, q) /\ d.blockSize = c.blockSize + k * G
  <2>1. c = [blocks |-> c.blocks, free |-> c.free, size |-> c.size,
             capacity |-> c.capacity, blockSize |-> c.blockSize, clock |-> c.clock]
    BY MembersAre
  <2>2. Grown(c, k).blocks = c.blocks \o NewBlocks(c, k) /\ Grown(c, k).blockSize = c.blockSize + k * Growth
    BY <2>1 DEF Grown
  <2>. QED BY <1>2, <2>2 DEF Both
<1>8. Lengthens(Both(p, q), F) /\ Len(Both(p, q)) = m + k
  <2>1. PICK b : b = c.blockSize
    OBVIOUS
  <2>2. b = F + Len(p) * Growth /\ Lengthens(q, b)
    BY <1>2, <1>4, <1>5, <2>1
  <2>3. F \in Nat /\ Lengthens(p, F) /\ Of(p, Seq(Slots)) /\ Of(q, Seq(Slots))
    BY <1>3, <1>4, <1>6
  <2>4. Lengthens(Both(p, q), F) /\ Len(Both(p, q)) = Len(p) + Len(q)
    BY ONLY <2>2, <2>3, LengthensOn
  <2>. QED BY <1>2, <1>5, <2>4
<1>9. d.blockSize = F + (m + k) * G
  <2>1. (m + k) * G = m * G + k * G
    BY <1>3
  <2>2. PICK x, y : x = m * G /\ y = k * G /\ x \in Nat /\ y \in Nat
    BY <1>3
  <2>. QED BY <1>3, <1>4, <1>7, <2>1, <2>2
<1>. QED BY <1>2, <1>7, <1>8, <1>9 DEF Regular

(* The i-th slot of a chain r is the one at the same distance from the     *)
(* start of the j-th block of q.                                           *)
At(q, r, i, j) ==
  LET x == i - FirstOf(j - 1) IN x \in 1 .. Len(q[j]) /\ r[i] = q[j][x]

(* The first n blocks of q are joined in r. *)
Placed(q, r, n) ==
  /\ Len(r) = FirstOf(n)
  /\ \A i \in 1 .. Len(r) : \E j \in 1 .. n : At(q, r, i, j)

(* One more block joins them. *)
LEMMA PlacedMore ==
  ASSUME NEW S, NEW q \in Seq(Seq(S)), Lengthens(q, FirstBlock), NEW n \in Nat, n + 1 <= Len(q),
         NEW r \in Seq(S), Placed(q, r, n), NEW t, t = r \o q[n + 1]
  PROVE  Placed(q, t, n + 1)
<1>1. PICK m, p, a : m = n + 1 /\ p = q[m] /\ a = Len(r)
  OBVIOUS
<1>2. m \in 1 .. Len(q) /\ m - 1 = n /\ m \in Nat
  BY <1>1
<1>3. p \in Seq(S) /\ a \in Nat /\ Len(p) \in Nat
  BY <1>1, <1>2
<1>4. Len(t) = a + Len(p) /\ \A i \in 1 .. a + Len(p) : t[i] = IF i <= a THEN r[i] ELSE p[i - a]
  BY <1>1, <1>3, ConcatProperties
<1>5. a = FirstOf(n)
  BY <1>1 DEF Placed
<1>6. Len(t) = FirstOf(m)
  <2>1. Len(p) = FirstBlock + Growth * n
    BY <1>1, <1>2 DEF Lengthens
  <2>2. FirstOf(m) = FirstOf(n) + FirstBlock + Growth * n
    BY <1>1, FirstOfNext
  <2>3. PICK g, F : g = Growth * n /\ F = FirstBlock
    OBVIOUS
  <2>4. g \in Nat /\ F \in Nat
    BY <2>3, ConstantsAssumption
  <2>5. FirstOf(m) = a + F + g /\ Len(p) = F + g
    BY <1>5, <2>1, <2>2, <2>3
  <2>. QED BY <1>3, <1>4, <2>4, <2>5
<1>7. ASSUME NEW i \in 1 .. Len(t) PROVE \E j \in 1 .. m : At(q, t, i, j)
  <2>1. CASE i <= a
    <3>1. i \in 1 .. a /\ i \in 1 .. a + Len(p)
      BY <1>3, <2>1
    <3>2. PICK j \in 1 .. n : At(q, r, i, j)
      BY <1>1, <3>1 DEF Placed
    <3>3. t[i] = r[i]
      BY <1>4, <2>1, <3>1
    <3>4. At(q, t, i, j)
      BY <3>2, <3>3 DEF At
    <3>5. j \in 1 .. m
      BY <1>1, <3>2
    <3>. QED BY <3>4, <3>5
  <2>2. CASE ~(i <= a)
    <3>1. PICK x : x = i - a
      OBVIOUS
    <3>2. x \in 1 .. Len(p) /\ i \in 1 .. a + Len(p)
      BY <1>3, <1>4, <2>2, <3>1
    <3>3. t[i] = p[x]
      BY <1>4, <2>2, <3>1, <3>2
    <3>4. At(q, t, i, m)
      BY <1>1, <1>2, <1>5, <3>1, <3>2, <3>3 DEF At
    <3>. QED BY <1>2, <3>4
  <2>. QED BY <2>1, <2>2
<1>. QED BY <1>1, <1>6, <1>7 DEF Placed

(* So do all of them. *)
LEMMA PlaceInLine ==
  ASSUME NEW S, NEW q \in Seq(Seq(S)), Lengthens(q, FirstBlock)
  PROVE  Placed(q, FlattenSeq(q), Len(q))
<1>1. PICK n : n = Len(q) /\ n \in Nat
  OBVIOUS
<1>2. PICK f \in [0 .. n -> Seq(S)] : Joined(f, q, n)
  BY <1>1, JoinedExists
<1> DEFINE Sofar == {m \in Nat : m <= n => Placed(q, f[m], m)}
<1>3. 0 \in Sofar
  <2>1. f[0] = <<>> /\ Len(<<>>) = 0
    BY <1>2 DEF Joined
  <2>2. FirstOf(0) = 0
    BY FirstOfNext
  <2>3. Len(f[0]) = 0 /\ \A i \in 1 .. 0 : FALSE
    BY <2>1
  <2>. QED BY <2>2, <2>3 DEF Placed
<1>4. ASSUME NEW m \in Nat, m \in Sofar PROVE m + 1 \in Sofar
  <2>1. SUFFICES ASSUME m + 1 <= n PROVE Placed(q, f[m + 1], m + 1)
    OBVIOUS
  <2>2. Placed(q, f[m], m) /\ f[m] \in Seq(S)
    BY <1>1, <1>4, <2>1
  <2>3. m \in 0 .. n - 1
    BY <1>1, <2>1
  <2>4. f[m + 1] = f[m] \o q[m + 1]
    BY <1>2, <2>3 DEF Joined
  <2>. QED BY <1>1, <2>1, <2>2, <2>4, PlacedMore
<1> HIDE DEF Sofar
<1>5. n \in Sofar
  BY <1>1, <1>3, <1>4, NaturalInduction
<1>6. Placed(q, f[n], n)
  BY <1>1, <1>5 DEF Sofar
<1>. QED BY <1>1, <1>2, <1>6, FlattenIs

(* The policy computes the block of a place in the chain and its place there. *)
LEMMA PlaceComputed ==
  ASSUME NEW S, NEW q \in Seq(Seq(S)), Lengthens(q, FirstBlock),
         NEW i \in 1 .. Len(FlattenSeq(q)), NEW at, at = IndexAndBlock(i - 1)
  PROVE  at[1] \in 1 .. Len(q) /\ at[2] \in 1 .. Len(q[at[1]]) /\ q[at[1]][at[2]] = FlattenSeq(q)[i]
<1>1. PICK r : r = FlattenSeq(q) /\ Placed(q, r, Len(q))
  BY PlaceInLine
<1>2. PICK j \in 1 .. Len(q) : At(q, r, i, j)
  BY <1>1 DEF Placed
<1>3. PICK k, x, a : k = j - 1 /\ a = FirstOf(k) /\ x = i - a
  OBVIOUS
<1>4. /\ x \in 1 .. Len(q[j]) /\ r[i] = q[j][x]
  BY <1>2, <1>3 DEF At
<1>5. k \in Nat /\ j = k + 1 /\ a \in Nat /\ i \in Nat
  BY <1>3, FirstOfRoot
<1>6. a <= i - 1 /\ i - 1 < FirstOf(k + 1) /\ i - 1 \in Nat
  <2>1. Len(q[j]) = FirstBlock + Growth * k
    BY <1>3 DEF Lengthens
  <2>2. FirstOf(k + 1) = a + FirstBlock + Growth * k
    BY <1>3, <1>5, FirstOfNext
  <2>3. PICK g, F, l, b : g = Growth * k /\ F = FirstBlock /\ l = Len(q[j]) /\ b = FirstOf(k + 1)
    OBVIOUS
  <2>4. g \in Nat /\ F \in Nat
    BY <1>5, <2>3, ConstantsAssumption
  <2>5. l = F + g /\ b = a + F + g /\ x \in 1 .. l /\ x = i - a
    BY <1>3, <1>4, <2>1, <2>2, <2>3
  <2>6. a <= i - 1 /\ i - 1 < b /\ i - 1 \in Nat
    BY ONLY <1>5, <2>4, <2>5
  <2>. QED BY <2>3, <2>6
<1>7. at = <<k + 1, ((i - 1) - FirstOf(k)) + 1>>
  BY <1>3, <1>5, <1>6, IndexAndBlockIs
<1>8. at[1] = j /\ at[2] = x
  <2>1. ((i - 1) - a) + 1 = x
    BY <1>3, <1>5
  <2>. QED BY <1>3, <1>5, <1>7, <2>1
<1>. QED BY <1>1, <1>4, <1>8

-----------------------------------------------------------------------------
(***************************************************************************)
(* The calls keep the blocks of such containers as the policy makes them.  *)
(***************************************************************************)
(* The containers whose past says so are regular. *)
Regulars(k, p) == \A b \in Containers : p[b].regular => Regular(k[b])

(* An empty container is regular. *)
LEMMA FreshRegular == Regular(Fresh)
<1>1. Fresh.blocks = <<>> /\ Fresh.blockSize = FirstBlock /\ Len(<<>>) = 0
  BY DEF Fresh
<1>2. FirstBlock = FirstBlock + 0 * Growth
  BY ConstantsAssumption
<1>3. \A i \in 1 .. 0 : FALSE
  OBVIOUS
<1>. QED BY <1>1, <1>2, <1>3 DEF Regular, Lengthens

(* Elements come in: the blocks that the container needs join it. *)
LEMMA FilledRegular ==
  ASSUME NEW c \in Members, Regular(c), NEW stamps, Len(stamps) \in Nat, HasRoom(c, Len(stamps))
  PROVE  Regular(Filled(c, stamps))
<1>1. PICK n, f, k, d : n = Len(stamps) /\ f = Len(c.free) /\ k = Needed(c, n) /\ d = Filled(c, stamps)
  OBVIOUS
<1>2. n \in Nat /\ f \in Nat /\ c.blockSize \in Nat \ {0}
  BY <1>1, MembersAre
<1>3. k \in Nat
  <2>1. PICK more : more = IF n > f THEN n - f ELSE 0
    OBVIOUS
  <2>2. more \in Nat
    BY <1>2, <2>1
  <2>3. k = BlocksFor(c, more)
    BY <1>1, <2>1 DEF Needed
  <2>. QED BY <1>2, <2>2, <2>3, BlocksForIs
<1>4. Capacity(c, k) <= Cardinality(Unused)
  BY <1>1 DEF HasRoom
<1>5. PICK e : e = Grown(c, k)
  OBVIOUS
<1>6. d.blocks = e.blocks /\ d.blockSize = e.blockSize
  <2>1. c = [blocks |-> c.blocks, free |-> c.free, size |-> c.size,
             capacity |-> c.capacity, blockSize |-> c.blockSize, clock |-> c.clock]
    BY MembersAre
  <2>2. PICK p, t, x, z : /\ p = c.blocks \o NewBlocks(c, k) /\ t = Threaded(NewBlocks(c, k)) \o c.free
                          /\ x = c.capacity + Capacity(c, k) /\ z = c.blockSize + k * Growth
    OBVIOUS
  <2>3. e = [blocks |-> p, free |-> t, size |-> c.size, capacity |-> x, blockSize |-> z,
             clock |-> c.clock]
    BY <1>5, <2>1, <2>2 DEF Grown
  <2>4. Places(c, n).grown = e
    BY <1>1, <1>5 DEF Places
  <2>5. \E free, size, clock : d = [e EXCEPT !.free = free, !.size = size, !.clock = clock]
    BY <1>1, <2>4 DEF Filled
  <2>. QED BY <2>3, <2>5
<1>. QED BY <1>1, <1>3, <1>4, <1>5, <1>6, GrownRegular

(* One container changes. *)
LEMMA RegularsChange ==
  ASSUME NEW h, NEW k, NEW p, World(h, k, p), Regulars(k, p), NEW b \in Containers,
         NEW d, NEW q, q.regular => Regular(d),
         NEW l, l = [k EXCEPT ![b] = d], NEW r, r = [p EXCEPT ![b] = q]
  PROVE  Regulars(l, r)
<1>1. ASSUME NEW a \in Containers, r[a].regular PROVE Regular(l[a])
  <2>1. CASE a = b
    <3>1. r[a] = q /\ l[a] = d
      BY <2>1 DEF World
    <3>. QED BY <1>1, <3>1
  <2>2. CASE a # b
    <3>1. r[a] = p[a] /\ l[a] = k[a]
      BY <2>2 DEF World
    <3>. QED BY <1>1, <3>1 DEF Regulars
  <2>. QED BY <2>1, <2>2
<1>. QED BY <1>1 DEF Regulars

(* Two containers change places. *)
LEMMA RegularsSwap ==
  ASSUME NEW k, NEW p, k \in [Containers -> Members], p \in [Containers -> Past], Regulars(k, p),
         NEW b \in Containers, NEW d \in Containers,
         NEW l, l = [k EXCEPT ![b] = k[d], ![d] = k[b]],
         NEW r, r = [p EXCEPT ![b] = p[d], ![d] = p[b]]
  PROVE  Regulars(l, r)
<1>1. ASSUME NEW a \in Containers, r[a].regular PROVE Regular(l[a])
  <2>1. \E c \in Containers : r[a] = p[c] /\ l[a] = k[c]
    <3>1. CASE a = d
      BY <3>1
    <3>2. CASE a # d /\ a = b
      BY <3>2
    <3>3. CASE a # d /\ a # b
      BY <3>3
    <3>. QED BY <3>1, <3>2, <3>3
  <2>. QED BY <1>1, <2>1 DEF Regulars
<1>. QED BY <1>1 DEF Regulars

(* Elements arrive. *)
LEMMA ArriveRegular ==
  ASSUME World(heap, cont, past), Regulars(cont, past), NEW b \in Containers,
         NEW stamps, Len(stamps) \in Nat, NEW copied, Arrive(b, stamps, copied)
  PROVE  Regulars(cont', past')
<1>1. PICK c, p : c = cont[b] /\ p = past[b]
  OBVIOUS
<1>2. c \in Members /\ p \in Past
  BY <1>1 DEF World
<1>3. PICK q : q = [p EXCEPT !.order = @ \o Taken(c, Len(stamps)), !.copies = @ \/ copied]
  OBVIOUS
<1>4. q.regular = p.regular
  BY <1>2, <1>3 DEF Past
<1>5. cont' = [cont EXCEPT ![b] = Filled(c, stamps)] /\ past' = [past EXCEPT ![b] = q]
  <2>1. past' = [past EXCEPT ![b].order = @ \o Taken(c, Len(stamps)), ![b].copies = @ \/ copied]
    BY <1>1 DEF Arrive
  <2>2. past' = [past EXCEPT ![b] = q]
    BY <1>1, <1>3, <2>1 DEF World
  <2>. QED BY <1>1, <2>2 DEF Arrive
<1>6. q.regular => Regular(Filled(c, stamps))
  <2>1. SUFFICES ASSUME q.regular PROVE Regular(Filled(c, stamps))
    OBVIOUS
  <2>2. Regular(c)
    BY <1>1, <1>4, <2>1 DEF Regulars
  <2>. QED BY <1>1, <1>2, <2>2, FilledRegular DEF Arrive
<1>. QED BY <1>5, <1>6, RegularsChange

(* erase: the blocks stay. *)
LEMMA EraseRegular ==
  ASSUME World(heap, cont, past), Regulars(cont, past), NEW b \in Containers, Erase(b)
  PROVE  Regulars(cont', past')
<1>1. PICK c, p : c = cont[b] /\ p = past[b]
  OBVIOUS
<1>2. c \in Members /\ p \in Past
  BY <1>1 DEF World
<1>3. PICK s : /\ cont' = [cont EXCEPT ![b].free = <<s>> \o @, ![b].size = @ - 1]
               /\ past' = [past EXCEPT ![b].plain = FALSE, ![b].order = <<>>]
  BY DEF Erase
<1>4. PICK d, q : /\ d = [c EXCEPT !.free = <<s>> \o @, !.size = @ - 1]
                  /\ q = [p EXCEPT !.plain = FALSE, !.order = <<>>]
  OBVIOUS
<1>5. cont' = [cont EXCEPT ![b] = d] /\ past' = [past EXCEPT ![b] = q]
  BY <1>1, <1>3, <1>4 DEF World
<1>6. d.blocks = c.blocks /\ d.blockSize = c.blockSize /\ q.regular = p.regular
  BY <1>2, <1>4 DEF Past, Members
<1>7. q.regular => Regular(d)
  BY <1>1, <1>6 DEF Regulars, Regular
<1>. QED BY <1>5, <1>7, RegularsChange

(* reserve: the blocks that it needs join it. *)
LEMMA ReserveRegular ==
  ASSUME World(heap, cont, past), Regulars(cont, past), NEW b \in Containers, Reserve(b)
  PROVE  Regulars(cont', past')
<1>1. PICK c, p : c = cont[b] /\ p = past[b]
  OBVIOUS
<1>2. c \in Members /\ p \in Past /\ c.capacity \in Nat /\ c.blockSize \in Nat \ {0}
  <2>1. c \in Members /\ p \in Past
    BY <1>1 DEF World
  <2>. QED BY <2>1, MembersAre
<1>3. PICK k \in Nat :
        /\ Capacity(c, k) <= Cardinality(Unused)
        /\ cont' = [cont EXCEPT ![b] = Grown(@, k)]
        /\ past' = [past EXCEPT ![b].plain = FALSE, ![b].joined = TRUE, ![b].order = <<>>]
  <2>1. PICK n \in (c.capacity + 1) .. MaxSlots :
          LET k == BlocksFor(c, n - c.capacity)
          IN  /\ Capacity(c, k) <= Cardinality(Unused)
              /\ cont' = [cont EXCEPT ![b] = Grown(@, k)]
              /\ past' = [past EXCEPT ![b].plain = FALSE, ![b].joined = TRUE, ![b].order = <<>>]
    BY <1>1 DEF Reserve
  <2>2. n - c.capacity \in Nat
    BY <1>2, <2>1, ConstantsAssumption
  <2>3. BlocksFor(c, n - c.capacity) \in Nat
    BY <1>2, <2>2, BlocksForIs
  <2>. QED BY <2>1, <2>3
<1>4. PICK d, q : d = Grown(c, k) /\ q = [p EXCEPT !.plain = FALSE, !.joined = TRUE, !.order = <<>>]
  OBVIOUS
<1>5. cont' = [cont EXCEPT ![b] = d] /\ past' = [past EXCEPT ![b] = q]
  BY <1>1, <1>3, <1>4 DEF World
<1>6. q.regular = p.regular
  BY <1>2, <1>4 DEF Past
<1>7. q.regular => Regular(d)
  <2>1. SUFFICES ASSUME q.regular PROVE Regular(d)
    OBVIOUS
  <2>2. Regular(c)
    BY <1>1, <1>6, <2>1 DEF Regulars
  <2>. QED BY <1>2, <1>3, <1>4, <2>2, GrownRegular
<1>. QED BY <1>5, <1>7, RegularsChange

(* A container is emptied, whatever happens to its slots. *)
LEMMA ReleaseRegular ==
  ASSUME World(heap, cont, past), Regulars(cont, past), NEW b \in Containers,
         NEW k, k = [cont EXCEPT ![b] = Fresh], NEW p, p = [past EXCEPT ![b] = NoPast]
  PROVE  Regulars(k, p)
BY FreshRegular, RegularsChange

(* A copy is not regular: its blocks start from the size of the original's. *)
LEMMA ReplaceByCopyRegular ==
  ASSUME World(heap, cont, past), Regulars(cont, past), NEW b \in Containers,
         NEW c \in Containers, ReplaceByCopy(b, c)
  PROVE  Regulars(cont', past')
<1>1. PICK p, o : p = past[c] /\ p \in Past /\ o = Taken(CopyBase(c), Len(Stamps(cont[c])))
  BY DEF World
<1>2. PICK q, d : /\ q = [p EXCEPT !.order = o, !.plain = TRUE, !.regular = FALSE]
                  /\ d = Filled(CopyBase(c), Stamps(cont[c]))
  OBVIOUS
<1>3. ~q.regular
  BY <1>1, <1>2 DEF Past
<1>4. cont' = [cont EXCEPT ![b] = d] /\ past' = [past EXCEPT ![b] = q]
  BY <1>1, <1>2 DEF ReplaceByCopy
<1>. QED BY <1>3, <1>4, RegularsChange

(* Nor is a container that was merged into; the other one is emptied. *)
LEMMA MergeRegular ==
  ASSUME World(heap, cont, past), Regulars(cont, past), NEW b \in Containers,
         NEW d \in Containers, Merge(b, d)
  PROVE  Regulars(cont', past')
<1>1. PICK m, q : /\ m = Merged(b, d)
                  /\ q = [order |-> <<>>, plain |-> FALSE,
                          copies |-> past[b].copies \/ past[d].copies,
                          joined |-> TRUE, regular |-> FALSE]
  OBVIOUS
<1>2. b # d /\ cont' = [cont EXCEPT ![b] = m, ![d] = Fresh]
      /\ past' = [past EXCEPT ![b] = q, ![d] = NoPast]
  BY <1>1 DEF Merge
<1>3. cont \in [Containers -> Members] /\ past \in [Containers -> Past]
  BY DEF World
<1>4. ASSUME NEW a \in Containers, past'[a].regular PROVE Regular(cont'[a])
  <2>1. CASE a = d
    <3>1. cont'[a] = Fresh
      BY <1>2, <1>3, <2>1
    <3>. QED BY <3>1, FreshRegular
  <2>2. CASE a = b
    <3>1. past'[a] = q /\ ~q.regular
      BY <1>1, <1>2, <1>3, <2>2
    <3>. QED BY <1>4, <3>1
  <2>3. CASE a # b /\ a # d
    <3>1. cont'[a] = cont[a] /\ past'[a] = past[a]
      BY <1>2, <1>3, <2>3
    <3>. QED BY <1>4, <3>1 DEF Regulars
  <2>. QED BY <2>1, <2>2, <2>3
<1>. QED BY <1>4 DEF Regulars

(* swap; the second container may be regular where the first one was not. *)
LEMMA SwapRegular ==
  ASSUME World(heap, cont, past), Regulars(cont, past), NEW b \in Containers,
         NEW d \in Containers, Swap(b, d)
  PROVE  Regulars(cont', past')
BY RegularsSwap DEF Swap, World

(* operator=(&&) is a clear and a swap. *)
LEMMA MoveAssignRegular ==
  ASSUME World(heap, cont, past), Regulars(cont, past), NEW b \in Containers,
         NEW c \in Containers, MoveAssign(b, c)
  PROVE  Regulars(cont', past')
<1>1. PICK k, p : k = [cont EXCEPT ![b] = Fresh] /\ p = [past EXCEPT ![b] = NoPast]
  OBVIOUS
<1>2. Regulars(k, p)
  BY <1>1, ReleaseRegular
<1>3. b # c /\ cont \in [Containers -> Members] /\ past \in [Containers -> Past]
  BY DEF MoveAssign, World
<1>4. Fresh \in Members /\ NoPast \in Past
  BY GoodFresh DEF Good, Sound
<1>5. k \in [Containers -> Members] /\ p \in [Containers -> Past]
  BY <1>1, <1>3, <1>4
<1>6. cont' = [k EXCEPT ![b] = k[c], ![c] = k[b]]
  BY <1>1, <1>3 DEF MoveAssign
<1>7. past' = [p EXCEPT ![b] = p[c], ![c] = p[b]]
  BY <1>1, <1>3 DEF MoveAssign
<1>. QED BY <1>2, <1>5, <1>6, <1>7, RegularsSwap

(* The elements that come in are counted by a natural number. *)
LEMMA StampsCounted ==
  ASSUME World(heap, cont, past), NEW c \in Containers
  PROVE  Len(Stamps(cont[c])) \in Nat
<1>1. PICK q : q = Stamps(cont[c])
  OBVIOUS
<1>2. Of(q, Nat)
  BY <1>1, StampsAre DEF World
<1>. QED BY <1>1, <1>2 DEF Of

(* Every call keeps regular containers regular. *)
LEMMA CallRegular ==
  ASSUME World(heap, cont, past), Regulars(cont, past), Call
  PROVE  Regulars(cont', past')
<1>1. ASSUME NEW b \in Containers, Emplace(b) PROVE Regulars(cont', past')
  <2>1. PICK v : Arrive(b, <<v>>, FALSE)
    BY <1>1 DEF Emplace
  <2>2. Len(<<v>>) \in Nat
    OBVIOUS
  <2>. QED BY <2>1, <2>2, ArriveRegular
<1>2. ASSUME NEW b \in Containers, InsertCopy(b) PROVE Regulars(cont', past')
  <2>1. PICK v : Arrive(b, <<v>>, TRUE)
    BY <1>2 DEF InsertCopy
  <2>2. Len(<<v>>) \in Nat
    OBVIOUS
  <2>. QED BY <2>1, <2>2, ArriveRegular
<1>3. ASSUME NEW b \in Containers, NEW c \in Containers, InsertRange(b, c)
      PROVE  Regulars(cont', past')
  BY <1>3, StampsCounted, ArriveRegular DEF InsertRange
<1>4. ASSUME NEW b \in Containers, Clear(b) PROVE Regulars(cont', past')
  BY <1>4, ReleaseRegular DEF Clear
<1>5. CASE \E b \in Containers :
             Emplace(b) \/ InsertCopy(b) \/ Erase(b) \/ Clear(b) \/ Reserve(b)
  BY <1>1, <1>2, <1>4, <1>5, EraseRegular, ReserveRegular
<1>6. CASE \E b, c \in Containers :
             \/ InsertRange(b, c) \/ Merge(b, c) \/ Swap(b, c)
             \/ CopyAssign(b, c) \/ FriendSwap(b, c) \/ MoveAssign(b, c)
  <2>1. PICK b, c \in Containers :
          \/ InsertRange(b, c) \/ Merge(b, c) \/ Swap(b, c)
          \/ CopyAssign(b, c) \/ FriendSwap(b, c) \/ MoveAssign(b, c)
    BY <1>6
  <2>2. CASE InsertRange(b, c) \/ Merge(b, c) \/ Swap(b, c)
    BY <1>3, <2>2, MergeRegular, SwapRegular
  <2>3. CASE CopyAssign(b, c) \/ FriendSwap(b, c)
    BY <2>3, ReplaceByCopyRegular DEF CopyAssign, FriendSwap
  <2>4. CASE MoveAssign(b, c)
    BY <2>4, MoveAssignRegular
  <2>. QED BY <2>1, <2>2, <2>3, <2>4
<1>. QED BY <1>5, <1>6 DEF Call

(* At first every container is empty. *)
LEMMA InitRegular == Init => Regulars(cont, past)
<1>1. SUFFICES ASSUME Init, NEW b \in Containers PROVE Regular(cont[b])
  BY DEF Regulars
<1>2. cont[b] = Fresh
  BY <1>1 DEF Init
<1>. QED BY <1>2, FreshRegular

(* No step makes a regular container another one. *)
LEMMA NextRegular == IInv /\ Regulars(cont, past) /\ [Next]_vars => Regulars(cont, past)'
<1>1. SUFFICES ASSUME IInv, Regulars(cont, past), [Next]_vars PROVE Regulars(cont, past)'
  OBVIOUS
<1>2. CASE Next
  <2>1. Regulars(cont', past')
    BY <1>1, <1>2, CallRegular DEF IInv, Next
  <2>. QED BY <2>1 DEF Regulars, Regular, Lengthens
<1>3. CASE UNCHANGED vars
  <2>1. cont' = cont /\ past' = past
    BY <1>3 DEF vars
  <2>2. Regulars(cont', past')
    BY <1>1, <2>1
  <2>. QED BY <2>2 DEF Regulars, Regular, Lengthens
<1>. QED BY <1>1, <1>2, <1>3

(* The element at a place of a regular chain is found by its subscript. *)
LEMMA RegularIndexed ==
  ASSUME NEW c \in Members, Regular(c), NEW s \in SlotsOf(c)
  PROVE  Subscripts(c, s)
<1>1. PICK q, r : q = c.blocks /\ r = FlattenSeq(q) /\ q \in Seq(Seq(Slots))
  BY MembersAre
<1>2. PICK i : i = CHOOSE j \in DOMAIN r : r[j] = s
  OBVIOUS
<1>3. \E j \in DOMAIN r : r[j] = s
  BY <1>1 DEF SlotsOf, ToSet
<1>4. i \in DOMAIN r /\ r[i] = s
  BY <1>2, <1>3
<1>5. r \in Seq(Slots)
  <2>1. PICK f \in [0 .. Len(q) -> Seq(Slots)] : Joined(f, q, Len(q))
    BY <1>1, JoinedExists
  <2>2. r = f[Len(q)]
    BY <1>1, <2>1, FlattenIs
  <2>3. Len(q) \in 0 .. Len(q)
    BY <1>1
  <2>. QED BY <2>1, <2>2, <2>3
<1>6. i \in 1 .. Len(r)
  BY <1>4, <1>5
<1>7. PICK at : at = IndexAndBlock(i - 1)
  OBVIOUS
<1>8. Lengthens(q, FirstBlock)
  BY <1>1 DEF Regular
<1>9. at[1] \in 1 .. Len(q) /\ at[2] \in 1 .. Len(q[at[1]]) /\ q[at[1]][at[2]] = r[i]
  BY <1>1, <1>6, <1>7, <1>8, PlaceComputed
<1>10. at[1] \in DOMAIN q /\ at[2] \in DOMAIN q[at[1]]
  <2>1. DOMAIN q = 1 .. Len(q) /\ q[at[1]] \in Seq(Slots)
    BY <1>1, <1>9
  <2>. QED BY <1>9, <2>1
<1>11. IndexOf(c, s) = i - 1
  BY <1>1, <1>2 DEF IndexOf
<1>. QED BY <1>1, <1>4, <1>7, <1>9, <1>10, <1>11 DEF Subscripts

(* Iteration visits slots of the chain only. *)
LEMMA ContainerIndexed == IInv /\ Regulars(cont, past) => OwnBlocksAreIndexed
<1>1. SUFFICES ASSUME IInv, Regulars(cont, past), NEW b \in Containers, past[b].regular,
                      NEW s \in ToSet(Iteration(heap, cont[b]))
               PROVE  Subscripts(cont[b], s)
  BY DEF OwnBlocksAreIndexed
<1>2. PICK c : c = cont[b]
  OBVIOUS
<1>3. c \in Members /\ Lists(Line(c), SlotsOf(c))
  BY <1>1, <1>2 DEF IInv, World, Good, Sound
<1>4. s \in SlotsOf(c)
  <2>1. Lists(Iteration(heap, c), Used(heap, c))
    BY <1>3, IterationIs
  <2>. QED BY <1>1, <1>2, <2>1 DEF Lists, Used
<1>5. Regular(c)
  BY <1>1, <1>2 DEF Regulars
<1>. QED BY <1>2, <1>3, <1>4, <1>5, RegularIndexed

(* operator[](index(it)) is *it in a container that only grew by itself:   *)
(* the square root of the policy inverts the sum of its block sizes.       *)
THEOREM SubscriptsFindElements == Spec => []OwnBlocksAreIndexed
<1>1. Spec => []Regulars(cont, past)
  BY InitRegular, NextRegular, Invariance, PTL DEF Spec
<1>. QED BY <1>1, Invariance, ContainerIndexed, PTL

===============================================================================
