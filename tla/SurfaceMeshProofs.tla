--------------------------- MODULE SurfaceMeshProofs --------------------------
(***************************************************************************)
(* Surface_mesh keeps its elements well connected and its free lists exact *)
(* through every sequence of calls.  What is shown is an invariant of each *)
(* mesh, kept by each call: for every kind, the free list of the removed   *)
(* elements is a chain through a connectivity array; and the connectivity  *)
(* of the live elements is sound.                                          *)
(***************************************************************************)
EXTENDS SurfaceMesh, MeshConnectivityProofs

-----------------------------------------------------------------------------
(***************************************************************************)
(* One kind of elements: q holds the elements I, the free list of those    *)
(* that are removed runs through link.                                     *)
(***************************************************************************)
LiveOf(q) == {i \in DOMAIN q.removed : ~q.removed[i]}

GoneOf(q) == {i \in DOMAIN q.removed : q.removed[i]}

ElementAt(k, m) == IF k = "edges" THEN m \div 2 ELSE m

NodesOf(k, S) == {Node(k, i) : i \in S}

Natural(S) == S \subseteq Nat

KindRecords(I) ==
  [removed : [I -> BOOLEAN], free : Int, count : Nat, name : [I -> Nat]]

(* The live elements have different names, which have been given. *)
Named(q, t) ==
  /\ \A i \in LiveOf(q) : q.name[i] < t
  /\ \A i, j \in LiveOf(q) : q.name[i] = q.name[j] => i = j

IsKind(q, k, I, link, t) ==
  /\ Natural(I) /\ q \in KindRecords(I)
  /\ Chain(link, q.free, Null, NodesOf(k, GoneOf(q)), q.count)
  /\ Named(q, t)

(* The elements of r are elements of q, or their names are new. *)
Kept(q, r, t) ==
  \A i \in LiveOf(r) : r.name[i] < t => i \in LiveOf(q) /\ q.name[i] = r.name[i]

(* A node is a number, from which the element is known. *)
LEMMA NodeIs ==
  ASSUME NEW k, NEW i \in Nat
  PROVE  /\ Node(k, i) \in Nat /\ Node(k, i) # Null
         /\ ElementAt(k, Node(k, i)) = i
BY DEF Node, Null, ElementAt

(* Different elements are at different nodes. *)
LEMMA NodesDiffer ==
  ASSUME NEW k, NEW i \in Nat, NEW j \in Nat, Node(k, i) = Node(k, j)
  PROVE  i = j
BY DEF Node

(* An element is live or removed. *)
LEMMA LiveAndGone ==
  ASSUME NEW I, NEW q \in KindRecords(I)
  PROVE  /\ LiveOf(q) \subseteq I /\ GoneOf(q) \subseteq I
         /\ LiveOf(q) \cap GoneOf(q) = {} /\ LiveOf(q) \cup GoneOf(q) = I
         /\ DOMAIN q.removed = I
BY DEF KindRecords, LiveOf, GoneOf

(* No node is null. *)
LEMMA NoNullNode ==
  ASSUME NEW k, NEW S, Natural(S)
  PROVE  Natural(NodesOf(k, S)) /\ Null \notin NodesOf(k, S)
BY NodeIs DEF NodesOf, Natural

(* A free list begins, and goes on, with a removed element, or ends. *)
LEMMA FreeIsGone ==
  ASSUME NEW q, NEW k, NEW I, NEW link, NEW t, IsKind(q, k, I, link, t), q.free # Null
  PROVE  q.free \in NodesOf(k, GoneOf(q)) /\ link[q.free] \in Int
<1>1. /\ Chain(link, q.free, Null, NodesOf(k, GoneOf(q)), q.count)
      /\ Natural(I) /\ q \in KindRecords(I)
  BY DEF IsKind
<1>2. Null \notin NodesOf(k, GoneOf(q)) /\ Natural(NodesOf(k, GoneOf(q)))
  <2>1. Natural(GoneOf(q))
    BY <1>1, LiveAndGone DEF Natural
  <2>. QED BY <2>1, NoNullNode
<1>3. PICK N : N = NodesOf(k, GoneOf(q))
  OBVIOUS
<1>4. PICK f, n : f = q.free /\ n = q.count
  OBVIOUS
<1>5. f \in N /\ Chain(link, link[f], Null, N \ {f}, n - 1)
  BY <1>1, <1>2, <1>3, <1>4, ChainPop
<1>6. link[f] # Null => link[f] \in N \ {f}
  <2>1. PICK g, M, m : g = link[f] /\ M = N \ {f} /\ m = n - 1
    OBVIOUS
  <2>2. Chain(link, g, Null, M, m) /\ Null \notin M
    BY <1>2, <1>3, <1>5, <2>1
  <2>3. g # Null => g \in M
    BY <2>2, ChainPop
  <2>. QED BY <2>1, <2>3
<1>7. link[f] \in Int
  BY <1>2, <1>3, <1>6 DEF Null, Natural
<1>. QED BY <1>3, <1>4, <1>5, <1>7

(* What is stored elsewhere does not matter, and names may be given. *)
LEMMA KindKept ==
  ASSUME NEW q, NEW k, NEW I, NEW link, NEW t \in Nat, IsKind(q, k, I, link, t),
         NEW other, Same(other, link, NodesOf(k, GoneOf(q))), NEW u \in Nat, t <= u
  PROVE  IsKind(q, k, I, other, u)
<1>1. /\ Chain(link, q.free, Null, NodesOf(k, GoneOf(q)), q.count)
      /\ Natural(I) /\ q \in KindRecords(I) /\ Named(q, t)
  BY DEF IsKind
<1>2. Chain(other, q.free, Null, NodesOf(k, GoneOf(q)), q.count)
  <2>1. \A x \in NodesOf(k, GoneOf(q)) : other[x] = link[x]
    BY DEF Same
  <2>. QED BY <1>1, <2>1, ChainAgree
<1>3. Named(q, u)
  BY <1>1 DEF Named, KindRecords, LiveOf
<1>. QED BY <1>1, <1>2, <1>3 DEF IsKind

(* The marks of removed elements, with i not removed. *)
Marked(removed, i) == Bind(removed, {i}, FALSE)

Renamed(name, i, t) == Bind(name, {i}, t)

(* A new or a recycled element of q, without the free list. *)
LEMMA ElementAdded ==
  ASSUME NEW q, NEW I, q \in KindRecords(I), NEW t \in Nat, Named(q, t),
         NEW i \in Nat, i \notin LiveOf(q),
         NEW r, r.removed = Marked(q.removed, i), r.name = Renamed(q.name, i, t),
         NEW J, J = Grown(I, i)
  PROVE  /\ r.removed \in [J -> BOOLEAN] /\ r.name \in [J -> Nat]
         /\ LiveOf(r) = LiveOf(q) \cup {i} /\ GoneOf(r) = GoneOf(q) \ {i}
         /\ Kept(q, r, t) /\ Named(r, t + 1)
<1>1. q.removed \in [I -> BOOLEAN] /\ q.name \in [I -> Nat]
  BY DEF KindRecords
<1>2. r.removed = [j \in I \cup {i} |-> IF j \in {i} THEN FALSE ELSE q.removed[j]]
  BY <1>1 DEF Bind, Marked
<1>3. r.name = [j \in I \cup {i} |-> IF j \in {i} THEN t ELSE q.name[j]]
  BY <1>1 DEF Bind, Renamed
<1>J. J = I \cup {i}
  BY DEF Grown
<1>4. r.removed \in [J -> BOOLEAN] /\ r.name \in [J -> Nat]
  <2>1. \A j \in I \cup {i} : /\ (IF j \in {i} THEN FALSE ELSE q.removed[j]) \in BOOLEAN
                             /\ (IF j \in {i} THEN t ELSE q.name[j]) \in Nat
    BY <1>1
  <2>. QED BY <1>2, <1>3, <1>J, <2>1
<1>5. /\ r.removed[i] = FALSE /\ r.name[i] = t
      /\ \A j \in I : j # i => r.removed[j] = q.removed[j] /\ r.name[j] = q.name[j]
  BY <1>2, <1>3
<1>6. LiveOf(r) = LiveOf(q) \cup {i} /\ GoneOf(r) = GoneOf(q) \ {i}
  BY <1>1, <1>4, <1>5, <1>J DEF LiveOf, GoneOf
<1>7. \A j \in LiveOf(q) : j # i /\ r.name[j] = q.name[j] /\ q.name[j] \in Nat /\ q.name[j] < t
  BY <1>1, <1>5 DEF Named, LiveOf
<1>8. \A j \in LiveOf(r) : j = i \/ j \in LiveOf(q)
  BY <1>6
<1>9. Kept(q, r, t) /\ Named(r, t + 1)
  <2>1. Kept(q, r, t)
    BY <1>5, <1>7, <1>8 DEF Kept
  <2>2. ASSUME NEW j \in LiveOf(r) PROVE r.name[j] < t + 1
    <3>1. CASE j = i
      BY <3>1, <1>5
    <3>2. CASE j \in LiveOf(q)
      BY <3>2, <1>7
    <3>. QED BY <3>1, <3>2, <1>8
  <2>3. ASSUME NEW j \in LiveOf(r), NEW l \in LiveOf(r), r.name[j] = r.name[l]
        PROVE  j = l
    <3>1. j \in LiveOf(q) <=> l \in LiveOf(q)
      BY <1>5, <1>7, <1>8, <2>3
    <3>. QED BY <1>7, <1>8, <2>3, <3>1 DEF Named
  <2>. QED BY <2>1, <2>2, <2>3 DEF Named
<1>. QED BY <1>4, <1>6, <1>9

(* The element that is recycled. *)
LEMMA FreeElement ==
  ASSUME NEW q, NEW k, NEW I, NEW link, NEW t, IsKind(q, k, I, link, t), q.free # Null,
         NEW i, i = ElementAt(k, q.free)
  PROVE  i \in GoneOf(q) /\ i \in I /\ i \in Nat /\ q.free = Node(k, i)
<1>1. Natural(I) /\ q \in KindRecords(I)
  BY DEF IsKind
<1>2. GoneOf(q) \subseteq I
  BY <1>1, LiveAndGone
<1>3. PICK j \in GoneOf(q) : q.free = Node(k, j)
  BY FreeIsGone DEF NodesOf
<1>4. j \in Nat /\ j \in I
  BY <1>1, <1>2 DEF Natural
<1>5. i = j
  BY <1>3, <1>4, NodeIs
<1>. QED BY <1>3, <1>4, <1>5

(* The members of one kind, field by field. *)
Members(removed, free, count, name) ==
  [removed |-> removed, free |-> free, count |-> count, name |-> name]

(* The members of a kind, put together. *)
LEMMA AreMembers ==
  ASSUME NEW removed, NEW free, NEW count, NEW name, NEW I,
         NEW r, r = Members(removed, free, count, name),
         r.removed \in [I -> BOOLEAN], r.free \in Int, r.count \in Nat, r.name \in [I -> Nat]
  PROVE  r \in KindRecords(I)
BY DEF Members, KindRecords

(* add_...: element i is the first on the free list, or it is new. *)
LEMMA KindRecycled ==
  ASSUME NEW k, NEW t \in Nat, NEW q, NEW I, NEW link, IsKind(q, k, I, link, t),
         NEW i \in GoneOf(q), NEW m, m = Node(k, i), q.free = m,
         NEW other, Same(other, link, NodesOf(k, Without(GoneOf(q), i))),
         NEW r, r = Members(Marked(q.removed, i), link[m], q.count - 1,
                            Renamed(q.name, i, t))
  PROVE  /\ LiveOf(r) = LiveOf(q) \cup {i} /\ GoneOf(r) = GoneOf(q) \ {i}
         /\ Kept(q, r, t) /\ IsKind(r, k, I, other, t + 1)
<1>1. /\ Natural(I) /\ q \in KindRecords(I) /\ Named(q, t)
      /\ Chain(link, q.free, Null, NodesOf(k, GoneOf(q)), q.count)
  BY DEF IsKind
<1>2. LiveOf(q) \subseteq I /\ GoneOf(q) \subseteq I /\ LiveOf(q) \cap GoneOf(q) = {}
  BY <1>1, LiveAndGone
<1>3. i \in Nat /\ i \in I /\ i \notin LiveOf(q) /\ m # Null
  BY <1>1, <1>2, NodeIs DEF Natural
<1>r. /\ r.removed = Marked(q.removed, i) /\ r.free = link[m]
      /\ r.count = q.count - 1 /\ r.name = Renamed(q.name, i, t)
  BY DEF Members
<1>4. /\ r.removed \in [I -> BOOLEAN] /\ r.name \in [I -> Nat]
      /\ LiveOf(r) = LiveOf(q) \cup {i} /\ GoneOf(r) = GoneOf(q) \ {i}
      /\ Kept(q, r, t) /\ Named(r, t + 1)
  <2>1. I = Grown(I, i)
    BY <1>3 DEF Grown
  <2>. QED BY <2>1, <1>1, <1>3, <1>r, ElementAdded
<1>5. PICK N : N = NodesOf(k, GoneOf(q))
  OBVIOUS
<1>6. Chain(link, r.free, Null, N \ {m}, r.count) /\ r.count \in Nat
  <2>1. Null \notin N
    <3>1. Natural(GoneOf(q))
      BY <1>1, <1>2 DEF Natural
    <3>. QED BY <3>1, <1>5, NoNullNode
  <2>2. PICK n : n = q.count
    OBVIOUS
  <2>3. Chain(link, m, Null, N, n)
    BY <1>1, <1>5, <2>2
  <2>4. Chain(link, link[m], Null, N \ {m}, n - 1) /\ n - 1 \in Nat
    BY <1>3, <2>1, <2>3, ChainPop
  <2>. QED BY <1>r, <2>2, <2>4
<1>7. r.free \in Int
  BY <1>3, <1>r, FreeIsGone
<1>8. NodesOf(k, GoneOf(r)) = N \ {m}
  <2>1. \A j \in GoneOf(q) : Node(k, j) = m => j = i
    <3>1. \A j \in GoneOf(q) : j \in Nat
      BY <1>1, <1>2 DEF Natural
    <3>. QED BY <1>3, <3>1, NodesDiffer
  <2>. QED BY <2>1, <1>4, <1>5 DEF NodesOf
<1>9. Chain(other, r.free, Null, NodesOf(k, GoneOf(r)), r.count)
  <2>1. \A x \in N \ {m} : other[x] = link[x]
    BY <1>5 DEF Same, NodesOf, Without
  <2>2. PICK f, n, M : f = r.free /\ n = r.count /\ M = N \ {m}
    OBVIOUS
  <2>3. Chain(link, f, Null, M, n)
    BY <1>6, <2>2
  <2>4. Chain(other, f, Null, M, n)
    BY <2>1, <2>2, <2>3, ChainAgree
  <2>. QED BY <1>8, <2>2, <2>4
<1>10. r \in KindRecords(I)
  <2>2. PICK R, f, n, l : /\ R = Marked(q.removed, i) /\ f = link[m]
                          /\ n = q.count - 1 /\ l = Renamed(q.name, i, t)
    OBVIOUS
  <2>3. r = Members(R, f, n, l)
    BY <2>2
  <2>. QED BY <2>3, <1>4, <1>6, <1>7, AreMembers
<1>. QED BY <1>1, <1>4, <1>9, <1>10 DEF IsKind

(* A kind gets an element at a new index. *)
LEMMA KindExtended ==
  ASSUME NEW k, NEW t \in Nat, NEW q, NEW I, NEW link, IsKind(q, k, I, link, t),
         NEW i \in Nat, i \notin I, NEW J, J = Grown(I, i),
         NEW other, Same(other, link, NodesOf(k, GoneOf(q))),
         NEW r, r = Members(Marked(q.removed, i), q.free, q.count,
                            Renamed(q.name, i, t))
  PROVE  /\ i \notin LiveOf(q)
         /\ LiveOf(r) = LiveOf(q) \cup {i} /\ GoneOf(r) = GoneOf(q)
         /\ Kept(q, r, t) /\ IsKind(r, k, J, other, t + 1)
<1>1. /\ Natural(I) /\ q \in KindRecords(I) /\ Named(q, t)
      /\ Chain(link, q.free, Null, NodesOf(k, GoneOf(q)), q.count)
  BY DEF IsKind
<1>2. i \notin LiveOf(q) /\ i \notin GoneOf(q)
  BY <1>1, LiveAndGone
<1>r. /\ r.removed = Marked(q.removed, i) /\ r.free = q.free
      /\ r.count = q.count /\ r.name = Renamed(q.name, i, t)
  BY DEF Members
<1>3. J = I \cup {i}
  BY DEF Grown
<1>4. /\ r.removed \in [J -> BOOLEAN] /\ r.name \in [J -> Nat]
      /\ LiveOf(r) = LiveOf(q) \cup {i} /\ GoneOf(r) = GoneOf(q) \ {i}
      /\ Kept(q, r, t) /\ Named(r, t + 1)
  <2>1. q \in KindRecords(I) /\ Named(q, t) /\ i \notin LiveOf(q)
    BY <1>1, <1>2
  <2>2. r.removed = Marked(q.removed, i) /\ r.name = Renamed(q.name, i, t)
    BY <1>r
  <2>. QED BY <2>1, <2>2, ElementAdded
<1>5. GoneOf(r) = GoneOf(q)
  BY <1>2, <1>4
<1>6. Chain(other, r.free, Null, NodesOf(k, GoneOf(r)), r.count)
  <2>1. PICK f, n, N : f = q.free /\ n = q.count /\ N = NodesOf(k, GoneOf(q))
    OBVIOUS
  <2>2. Chain(link, f, Null, N, n) /\ \A x \in N : other[x] = link[x]
    BY <1>1, <2>1 DEF Same
  <2>3. Chain(other, f, Null, N, n)
    BY <2>2, ChainAgree
  <2>. QED BY <1>5, <1>r, <2>1, <2>3
<1>7. r \in KindRecords(J)
  <2>1. r.free \in Int /\ r.count \in Nat
    BY <1>1, <1>r DEF KindRecords
  <2>2. PICK R, f, n, l : /\ R = Marked(q.removed, i) /\ f = q.free
                          /\ n = q.count /\ l = Renamed(q.name, i, t)
    OBVIOUS
  <2>3. r = Members(R, f, n, l)
    BY <2>2
  <2>. QED BY <2>1, <2>3, <1>4, AreMembers
<1>8. Natural(J)
  BY <1>1, <1>3 DEF Natural
<1>. QED BY <1>2, <1>4, <1>5, <1>6, <1>7, <1>8 DEF IsKind

(* remove_...: element i goes to the head of the free list. *)
RemovedKind(q, k, i) ==
  Members([q.removed EXCEPT ![i] = TRUE], Node(k, i), q.count + 1, q.name)

(* A kind loses an element to its free list. *)
LEMMA KindRemoved ==
  ASSUME NEW k, NEW t \in Nat, NEW q, NEW I, NEW link, IsKind(q, k, I, link, t),
         NEW i \in LiveOf(q), NEW m, m = Node(k, i),
         NEW r, r = RemovedKind(q, k, i),
         NEW other, Same(other, link, NodesOf(k, GoneOf(q))), other[m] = q.free
  PROVE  LiveOf(r) = Without(LiveOf(q), i) /\ Kept(q, r, t) /\ IsKind(r, k, I, other, t)
<1>1. /\ Natural(I) /\ q \in KindRecords(I) /\ Named(q, t)
      /\ Chain(link, q.free, Null, NodesOf(k, GoneOf(q)), q.count)
  BY DEF IsKind
<1>2. LiveOf(q) \subseteq I /\ GoneOf(q) \subseteq I /\ LiveOf(q) \cap GoneOf(q) = {}
  BY <1>1, LiveAndGone
<1>3. i \in Nat /\ i \in I /\ i \notin GoneOf(q) /\ m \in Int
  <2>1. i \in Nat /\ i \in I /\ i \notin GoneOf(q)
    BY <1>1, <1>2 DEF Natural
  <2>2. m \in Nat
    BY <2>1, NodeIs
  <2>. QED BY <2>1, <2>2
<1>r. /\ r.removed = [q.removed EXCEPT ![i] = TRUE] /\ r.free = m
      /\ r.count = q.count + 1 /\ r.name = q.name
  BY DEF Members, RemovedKind
<1>4. r \in KindRecords(I)
  <2>1. q.removed \in [I -> BOOLEAN] /\ q.name \in [I -> Nat] /\ q.count + 1 \in Nat
    BY <1>1 DEF KindRecords
  <2>2. PICK R, n, l : /\ R = [q.removed EXCEPT ![i] = TRUE] /\ n = q.count + 1
                       /\ l = q.name
    OBVIOUS
  <2>3. R \in [I -> BOOLEAN] /\ n \in Nat /\ r = Members(R, m, n, l)
    BY <2>1, <2>2 DEF RemovedKind
  <2>4. r.removed \in [I -> BOOLEAN] /\ r.count \in Nat /\ r.free \in Int /\ r.name \in [I -> Nat]
    BY <2>1, <2>2, <2>3, <1>3, <1>r
  <2>. QED BY <2>3, <2>4, AreMembers
<1>5. LiveOf(r) = LiveOf(q) \ {i} /\ GoneOf(r) = GoneOf(q) \cup {i}
  <2>1. q.removed \in [I -> BOOLEAN]
    BY <1>1 DEF KindRecords
  <2>. QED BY <2>1, <1>3, <1>r DEF LiveOf, GoneOf
<1>6. PICK N : N = NodesOf(k, GoneOf(q))
  OBVIOUS
<1>7. NodesOf(k, GoneOf(r)) = N \cup {m}
  BY <1>5, <1>6 DEF NodesOf
<1>8. m \notin N
  <2>1. \A j \in GoneOf(q) : j \in Nat /\ j # i
    BY <1>1, <1>2, <1>3 DEF Natural
  <2>2. \A j \in GoneOf(q) : Node(k, j) # m
    BY <2>1, <1>3, NodesDiffer
  <2>. QED BY <2>2, <1>6 DEF NodesOf
<1>9. Chain(other, r.free, Null, NodesOf(k, GoneOf(r)), r.count)
  <2>1. PICK f, n : f = q.free /\ n = q.count
    OBVIOUS
  <2>2. Chain(link, f, Null, N, n) /\ \A x \in N : other[x] = link[x]
    BY <1>1, <1>6, <2>1 DEF Same
  <2>3. Chain(other, f, Null, N, n) /\ other[m] = f
    BY <2>1, <2>2, ChainAgree
  <2>4. Chain(other, m, Null, N \cup {m}, n + 1)
    BY <1>8, <2>3, ChainPush
  <2>. QED BY <1>7, <1>r, <2>1, <2>4
<1>10. Named(r, t) /\ Kept(q, r, t)
  <2>1. r.name = q.name /\ \A j \in LiveOf(r) : j \in LiveOf(q)
    BY <1>5, <1>r
  <2>2. Kept(q, r, t)
    BY <2>1 DEF Kept
  <2>3. /\ \A j \in LiveOf(q) : q.name[j] < t
        /\ \A j, l \in LiveOf(q) : q.name[j] = q.name[l] => j = l
    BY <1>1 DEF Named
  <2>4. ASSUME NEW j \in LiveOf(r) PROVE r.name[j] < t
    BY <2>1, <2>3
  <2>5. ASSUME NEW j \in LiveOf(r), NEW l \in LiveOf(r), r.name[j] = r.name[l] PROVE j = l
    BY <2>1, <2>3, <2>5
  <2>6. Named(r, t)
    BY <2>4, <2>5 DEF Named
  <2>. QED BY <2>2, <2>6
<1>. QED BY <1>1, <1>4, <1>5, <1>9, <1>10 DEF IsKind, Without

-----------------------------------------------------------------------------
(***************************************************************************)
(* A mesh with the vertices V, the edges E and the faces F, some of which  *)
(* may be removed.                                                         *)
(***************************************************************************)
HalvesOf(E) == {2 * e : e \in E} \cup {2 * e + 1 : e \in E}

MeshRecords(V, E, F) ==
  [vertices : KindRecords(V), edges : KindRecords(E), faces : KindRecords(F),
   garbage : BOOLEAN, recycle : BOOLEAN, conn : Arrays(V, HalvesOf(E), F)]

NoneGone(p, q, r) == GoneOf(p) = {} /\ GoneOf(q) = {} /\ GoneOf(r) = {}

IsMesh(x, V, E, F, t) ==
  /\ x \in MeshRecords(V, E, F)
  /\ IsKind(x.vertices, "vertices", V, x.conn.half, t)
  /\ IsKind(x.edges, "edges", E, x.conn.next, t)
  /\ IsKind(x.faces, "faces", F, x.conn.fhalf, t)
  /\ Sound(x.conn, LiveOf(x.vertices), HalvesOf(LiveOf(x.edges)), LiveOf(x.faces))
  /\ x.garbage \/ NoneGone(x.vertices, x.edges, x.faces)

(* The elements are numbered from 0. *)
Numbered(I) == \E n \in Nat : I = 0 .. n - 1

MeshOK(x, t) ==
  \E V, E, F : Numbered(V) /\ Numbered(E) /\ Numbered(F) /\ IsMesh(x, V, E, F, t)

(* The elements of y are elements of x, or their names are new. *)
Follows(x, y, t) ==
  Kept(x.vertices, y.vertices, t) /\ Kept(x.edges, y.edges, t) /\ Kept(x.faces, y.faces, t)

(* The members of a mesh, field by field. *)
MeshOf(p, q, r, garbage, recycle, c) ==
  [vertices |-> p, edges |-> q, faces |-> r, garbage |-> garbage, recycle |-> recycle,
   conn |-> c]

(* A mesh, put together from its kinds and its connectivity. *)
LEMMA MeshIs ==
  ASSUME NEW V, NEW E, NEW F, NEW t, NEW p, NEW q, NEW r,
         NEW g \in BOOLEAN, NEW b \in BOOLEAN, NEW c \in Arrays(V, HalvesOf(E), F),
         NEW y, y = MeshOf(p, q, r, g, b, c),
         IsKind(p, "vertices", V, c.half, t), IsKind(q, "edges", E, c.next, t),
         IsKind(r, "faces", F, c.fhalf, t),
         Sound(c, LiveOf(p), HalvesOf(LiveOf(q)), LiveOf(r)),
         g \/ NoneGone(p, q, r)
  PROVE  IsMesh(y, V, E, F, t)
<1>1. p \in KindRecords(V) /\ q \in KindRecords(E) /\ r \in KindRecords(F)
  BY DEF IsKind
<1>2. y \in MeshRecords(V, E, F)
  BY <1>1 DEF MeshOf, MeshRecords
<1>3. y.vertices = p /\ y.edges = q /\ y.faces = r /\ y.garbage = g /\ y.conn = c
  BY DEF MeshOf
<1>. QED BY <1>2, <1>3 DEF IsMesh

(* A mesh is what its fields say. *)
LEMMA MeshFields ==
  ASSUME NEW x, NEW V, NEW E, NEW F, x \in MeshRecords(V, E, F)
  PROVE  /\ x = MeshOf(x.vertices, x.edges, x.faces, x.garbage, x.recycle, x.conn)
         /\ x.vertices \in KindRecords(V) /\ x.edges \in KindRecords(E)
         /\ x.faces \in KindRecords(F) /\ x.conn \in Arrays(V, HalvesOf(E), F)
         /\ x.garbage \in BOOLEAN /\ x.recycle \in BOOLEAN
BY DEF MeshRecords, MeshOf

(* The number of elements of a kind, removed ones included. *)
LEMMA NumIs ==
  ASSUME NEW x, NEW k, NEW n \in Nat, x[k] \in KindRecords(0 .. n - 1)
  PROVE  Num(x, k) = n
<1>1. DOMAIN x[k].removed = 0 .. n - 1
  BY DEF KindRecords
<1>2. 0 \in Int /\ n - 1 \in Int /\ (0 .. n - 1 = {} \/ 0 <= n - 1)
  OBVIOUS
<1>3. Cardinality(0 .. n - 1) = n
  BY <1>2, FS_Interval
<1>. QED BY <1>1, <1>3 DEF Num

(* Indices that start at 0 are finitely many natural numbers. *)
LEMMA NumberedIs ==
  ASSUME NEW I, Numbered(I)
  PROVE  Natural(I) /\ Integral(I) /\ IsFiniteSet(I)
<1>1. PICK n \in Nat : I = 0 .. n - 1
  BY DEF Numbered
<1>2. IsFiniteSet(I)
  <2>1. 0 \in Int /\ n - 1 \in Int
    OBVIOUS
  <2>. QED BY <2>1, <1>1, FS_Interval
<1>. QED BY <1>1, <1>2 DEF Natural, Integral

(* The number of elements is the next index. *)
LEMMA NextIndex ==
  ASSUME NEW x, NEW k, NEW I, Numbered(I), x[k] \in KindRecords(I), NEW n, n = Num(x, k)
  PROVE  n \in Nat /\ n \notin I /\ Numbered(Grown(I, n))
<1>1. PICK m \in Nat : I = 0 .. m - 1
  BY DEF Numbered
<1>2. n = m
  BY <1>1, NumIs
<1>3. m \notin I /\ m + 1 \in Nat /\ 0 .. (m + 1) - 1 = Grown(I, m)
  BY <1>1 DEF Grown
<1>. QED BY <1>2, <1>3 DEF Numbered

(* One more edge has two more halfedges. *)
LEMMA HalvesGrow ==
  ASSUME NEW E, NEW e
  PROVE  HalvesOf(E \cup {e}) = HalvesOf(E) \cup {2 * e, 2 * e + 1}
BY DEF HalvesOf

(* Halfedges are natural numbers, and none is null. *)
LEMMA HalvesAre ==
  ASSUME NEW E, Natural(E)
  PROVE  /\ Natural(HalvesOf(E)) /\ Integral(HalvesOf(E)) /\ Null \notin HalvesOf(E)
BY DEF HalvesOf, Natural, Integral, Null

(* The halfedges of an edge belong to it alone. *)
LEMMA HalfIn ==
  ASSUME NEW E, Natural(E), NEW e \in Nat
  PROVE  /\ 2 * e \in HalvesOf(E) <=> e \in E
         /\ 2 * e + 1 \in HalvesOf(E) <=> e \in E
<1>1. \A d \in E : 2 * d # 2 * e + 1 /\ 2 * d + 1 # 2 * e
  BY DEF Natural
<1>2. \A d \in E : (2 * d = 2 * e => d = e) /\ (2 * d + 1 = 2 * e + 1 => d = e)
  BY DEF Natural
<1>. QED BY <1>1, <1>2 DEF HalvesOf

(* One edge less has two halfedges less. *)
LEMMA HalvesShrink ==
  ASSUME NEW E, Natural(E), NEW e \in E
  PROVE  HalvesOf(E \ {e}) = HalvesOf(E) \ {2 * e, 2 * e + 1}
<1>1. \A d \in E : /\ 2 * d # 2 * e + 1 /\ 2 * d + 1 # 2 * e
                   /\ 2 * d = 2 * e => d = e
                   /\ 2 * d + 1 = 2 * e + 1 => d = e
  BY DEF Natural
<1>. QED BY <1>1 DEF HalvesOf

(* Fewer edges have fewer halfedges. *)
LEMMA HalvesWithin ==
  ASSUME NEW E, NEW G, G \subseteq E
  PROVE  HalvesOf(G) \subseteq HalvesOf(E)
BY DEF HalvesOf

(* Where the connectivity is not changed, the free lists are not either. *)
Beyond(S, W, V) == S \subseteq W /\ S \cap V = {}

(* Calls that change live elements leave the links of removed ones. *)
LEMMA ElsewhereSame ==
  ASSUME NEW d, NEW c, NEW W, NEW E, NEW D, NEW V, NEW H, NEW G, NEW L,
         Natural(E), Natural(L), D = HalvesOf(E), H = HalvesOf(L), Elsewhere(d, c, W, V, D, H),
         NEW S, Beyond(S, W, V), NEW T, Beyond(T, E, L)
  PROVE  /\ Same(d.half, c.half, NodesOf("vertices", S))
         /\ Same(d.next, c.next, NodesOf("edges", T))
         /\ Same(d.fhalf, c.fhalf, NodesOf("faces", G))
<1>1. Same(d.half, c.half, NodesOf("vertices", S))
  <2>1. \A i \in S : d.half[i] = c.half[i]
    BY DEF Elsewhere, Beyond
  <2>. QED BY <2>1 DEF Same, NodesOf, Node
<1>2. Same(d.next, c.next, NodesOf("edges", T))
  <2>1. \A i \in T : i \in Nat /\ i \in E /\ i \notin L
    BY DEF Natural, Beyond
  <2>2. \A i \in T : 2 * i \in D /\ 2 * i \notin H
    BY <2>1, HalfIn
  <2>3. \A i \in T : d.next[2 * i] = c.next[2 * i]
    BY <2>2 DEF Elsewhere
  <2>. QED BY <2>3 DEF Same, NodesOf, Node
<1>3. d.fhalf = c.fhalf
  BY DEF Elsewhere
<1>. QED BY <1>1, <1>2, <1>3 DEF Same

-----------------------------------------------------------------------------
(***************************************************************************)
(* Calls that add an element.                                              *)
(***************************************************************************)
(* What add_... does when it recycles an element, and when it does not. *)
Recycled(q, link, i, m, t) ==
  Members(Marked(q.removed, i), link[m], q.count - 1, Renamed(q.name, i, t))

Extended(q, i, t) ==
  Members(Marked(q.removed, i), q.free, q.count, Renamed(q.name, i, t))

AddedKind(x, k, i, m, t) ==
  IF Recycles(x, k) THEN Recycled(x[k], Link(x, k), i, m, t) ELSE Extended(x[k], i, t)

(* a is q with the element i, which may not be in use. *)
AddsTo(q, k, I, link, i, a, t) ==
  \/ i \in GoneOf(q) /\ q.free = Node(k, i) /\ a = Recycled(q, link, i, Node(k, i), t)
  \/ i \in Nat /\ i \notin I /\ a = Extended(q, i, t)

(* The index that an addition takes is of no live element. *)
LEMMA AddsUnused ==
  ASSUME NEW q, NEW k, NEW I, NEW link, NEW i, NEW a, NEW t, IsKind(q, k, I, link, t),
         AddsTo(q, k, I, link, i, a, t)
  PROVE  i \in Nat /\ i \notin LiveOf(q)
<1>1. Natural(I) /\ q \in KindRecords(I)
  BY DEF IsKind
<1>2. LiveOf(q) \subseteq I /\ GoneOf(q) \subseteq I /\ LiveOf(q) \cap GoneOf(q) = {}
  BY <1>1, LiveAndGone
<1>. QED BY <1>1, <1>2 DEF AddsTo, Natural

(* A kind with one more element, recycled or new. *)
LEMMA KindAdded ==
  ASSUME NEW q, NEW k, NEW I, NEW link, NEW i, NEW a, NEW t \in Nat, IsKind(q, k, I, link, t),
         AddsTo(q, k, I, link, i, a, t), NEW J, J = Grown(I, i),
         NEW other, Same(other, link, NodesOf(k, Without(GoneOf(q), i)))
  PROVE  /\ LiveOf(a) = LiveOf(q) \cup {i} /\ GoneOf(a) \subseteq GoneOf(q)
         /\ Kept(q, a, t) /\ IsKind(a, k, J, other, t + 1)
<1>1. Natural(I) /\ q \in KindRecords(I)
  BY DEF IsKind
<1>2. LiveOf(q) \subseteq I /\ GoneOf(q) \subseteq I
  BY <1>1, LiveAndGone
<1>3. J = I \cup {i}
  BY DEF Grown
<1>4. CASE i \in GoneOf(q) /\ q.free = Node(k, i) /\ a = Recycled(q, link, i, Node(k, i), t)
  <2>1. PICK m : m = Node(k, i) /\ q.free = m
    BY <1>4
  <2>2. a = Members(Marked(q.removed, i), link[m], q.count - 1, Renamed(q.name, i, t))
    BY <1>4, <2>1 DEF Recycled
  <2>3. /\ LiveOf(a) = LiveOf(q) \cup {i} /\ GoneOf(a) = GoneOf(q) \ {i}
        /\ Kept(q, a, t) /\ IsKind(a, k, I, other, t + 1)
    BY <1>4, <2>1, <2>2, KindRecycled
  <2>4. I = J
    BY <1>2, <1>3, <1>4
  <2>. QED BY <2>3, <2>4
<1>5. CASE i \in Nat /\ i \notin I /\ a = Extended(q, i, t)
  <2>1. a = Members(Marked(q.removed, i), q.free, q.count, Renamed(q.name, i, t))
    BY <1>5 DEF Extended
  <2>2. Without(GoneOf(q), i) = GoneOf(q)
    BY <1>2, <1>5 DEF Without
  <2>3. Same(other, link, NodesOf(k, GoneOf(q)))
    BY <2>2
  <2>4. /\ LiveOf(a) = LiveOf(q) \cup {i} /\ GoneOf(a) = GoneOf(q)
        /\ Kept(q, a, t) /\ IsKind(a, k, J, other, t + 1)
    BY <1>5, <2>1, <2>3, KindExtended
  <2>. QED BY <2>4
<1>. QED BY <1>4, <1>5 DEF AddsTo

(* The next index is the head of the free list, or a new one. *)
LEMMA NextAdds ==
  ASSUME NEW x, NEW k, NEW I, Numbered(I), NEW t, NEW link, link = Link(x, k),
         NEW q, q = x[k], IsKind(q, k, I, link, t),
         NEW m, m = NextNode(x, k), NEW i, i = ElementAt(k, m),
         NEW a, a = AddedKind(x, k, i, m, t)
  PROVE  m = Node(k, i) /\ AddsTo(q, k, I, link, i, a, t) /\ Numbered(Grown(I, i))
<1>1. q \in KindRecords(I) /\ GoneOf(q) \subseteq I
  BY LiveAndGone DEF IsKind
<1>2. CASE Recycles(x, k)
  <2>1. m = q.free /\ q.free # Null
    BY <1>2 DEF NextNode, Recycles
  <2>2. i = ElementAt(k, q.free)
    BY <2>1
  <2>3. i \in GoneOf(q) /\ q.free = Node(k, i)
    BY <2>1, <2>2, FreeElement
  <2>4. a = Recycled(q, link, i, m, t)
    BY <1>2 DEF AddedKind
  <2>5. Grown(I, i) = I
    BY <1>1, <2>3 DEF Grown
  <2>. QED BY <2>1, <2>3, <2>4, <2>5 DEF AddsTo
<1>3. CASE ~Recycles(x, k)
  <2>1. PICK n : n = Num(x, k)
    OBVIOUS
  <2>2. n \in Nat /\ n \notin I /\ Numbered(Grown(I, n))
    BY <1>1, <2>1, NextIndex
  <2>3. m = Node(k, n)
    BY <1>3, <2>1 DEF NextNode
  <2>4. i = n
    BY <2>2, <2>3, NodeIs
  <2>5. a = Extended(q, i, t)
    BY <1>3 DEF AddedKind
  <2>. QED BY <2>2, <2>3, <2>4, <2>5 DEF AddsTo
<1>. QED BY <1>2, <1>3

(* A kind that is left alone keeps its elements. *)
LEMMA KeptItself ==
  ASSUME NEW q, NEW t
  PROVE  Kept(q, q, t)
BY DEF Kept

(* A mesh with one more element, field by field. *)
LEMMA AddedIs ==
  ASSUME NEW V, NEW E, NEW F, NEW x \in MeshRecords(V, E, F), NEW t,
         NEW k \in Kinds, NEW m, m = NextNode(x, k),
         NEW i, i = ElementAt(k, m),
         NEW a, a = AddedKind(x, k, i, m, t),
         NEW c, c = WithElement(x.conn, k, m), NEW y, y = Added(x, k, t)
  PROVE  y = MeshOf(IF k = "vertices" THEN a ELSE x.vertices,
                    IF k = "edges" THEN a ELSE x.edges,
                    IF k = "faces" THEN a ELSE x.faces, x.garbage, x.recycle, c)
BY DEF Added, MeshRecords, MeshOf, AddedKind, Recycled, Extended, Members, Marked, Renamed, Kinds,
       ElementAt

(* add_vertex keeps the invariant of its mesh. *)
LEMMA AddVertexStep ==
  ASSUME NEW t \in Nat, NEW x, MeshOK(x, t), NEW y, y = Added(x, "vertices", t)
  PROVE  MeshOK(y, t + 1) /\ Follows(x, y, t)
<1>1. PICK V, E, F : /\ Numbered(V) /\ Numbered(E) /\ Numbered(F)
                     /\ IsMesh(x, V, E, F, t)
  BY DEF MeshOK
<1>2. PICK D : D = HalvesOf(E)
  OBVIOUS
<1>3. PICK p, q, r, c, H : /\ p = x.vertices /\ q = x.edges /\ r = x.faces /\ c = x.conn
                           /\ H = HalvesOf(LiveOf(q))
  OBVIOUS
<1>4. /\ x \in MeshRecords(V, E, F) /\ IsKind(p, "vertices", V, c.half, t)
      /\ IsKind(q, "edges", E, c.next, t) /\ IsKind(r, "faces", F, c.fhalf, t)
      /\ Sound(c, LiveOf(p), H, LiveOf(r)) /\ (x.garbage \/ NoneGone(p, q, r))
  BY <1>1, <1>3 DEF IsMesh
<1>5. /\ c \in Arrays(V, D, F) /\ x.garbage \in BOOLEAN /\ x.recycle \in BOOLEAN
      /\ p \in KindRecords(V) /\ q \in KindRecords(E) /\ r \in KindRecords(F)
  BY <1>2, <1>3, <1>4, MeshFields
<1>6. PICK i, a, d : /\ i = NextNode(x, "vertices") /\ a = AddedKind(x, "vertices", i, i, t)
                     /\ d = WithVertex(c, i)
  OBVIOUS
<1>7. AddsTo(p, "vertices", V, c.half, i, a, t) /\ Numbered(Grown(V, i))
  <2>1. i = ElementAt("vertices", i)
    BY DEF ElementAt
  <2>2. c.half = Link(x, "vertices") /\ p = x["vertices"]
    BY <1>3 DEF Link, LinkOf
  <2>. QED BY <2>1, <2>2, <1>1, <1>4, <1>6, NextAdds
<1>8. PICK W : W = Grown(V, i)
  OBVIOUS
<1>9. i \in Nat /\ i \notin LiveOf(p)
  BY <1>4, <1>7, AddsUnused
<1>10. /\ LiveOf(p) \subseteq V /\ GoneOf(p) \subseteq V /\ LiveOf(p) \cap GoneOf(p) = {}
       /\ LiveOf(q) \subseteq E /\ GoneOf(q) \subseteq E /\ LiveOf(q) \cap GoneOf(q) = {}
       /\ LiveOf(r) \subseteq F
  BY <1>5, LiveAndGone
<1>12. /\ d \in Arrays(W, D, F) /\ Sound(d, LiveOf(p) \cup {i}, H, LiveOf(r))
       /\ Elsewhere(d, c, V, LiveOf(p) \cup {i}, D, H)
  <2>1. W = V \cup {i}
    BY <1>8 DEF Grown
  <2>2. PICK l, R : l = LiveOf(p) /\ R = LiveOf(r)
    OBVIOUS
  <2>3. c \in Arrays(V, D, F) /\ l \subseteq V /\ Sound(c, l, H, R) /\ i \in Nat /\ i \notin l
    BY <2>2, <1>4, <1>5, <1>9, <1>10
  <2>4. d \in Arrays(W, D, F) /\ Sound(d, l \cup {i}, H, R) /\ Elsewhere(d, c, V, l \cup {i}, D, H)
    BY <2>1, <2>3, <1>6, AddedVertexSound
  <2>. QED BY <2>2, <2>4
<1>13. /\ Same(d.half, c.half, NodesOf("vertices", Without(GoneOf(p), i)))
       /\ Same(d.next, c.next, NodesOf("edges", GoneOf(q)))
       /\ Same(d.fhalf, c.fhalf, NodesOf("faces", GoneOf(r)))
  <2>1. Natural(E) /\ Natural(LiveOf(q))
    BY <1>1, <1>10, NumberedIs DEF Natural
  <2>2. PICK L : L = LiveOf(p) \cup {i}
    OBVIOUS
  <2>3. Beyond(Without(GoneOf(p), i), V, L) /\ Beyond(GoneOf(q), E, LiveOf(q))
    BY <2>2, <1>10 DEF Beyond, Without
  <2>4. Elsewhere(d, c, V, L, D, H)
    BY <2>2, <1>12
  <2>. QED BY <2>1, <2>3, <2>4, <1>2, <1>3, ElsewhereSame
<1>14. /\ LiveOf(a) = LiveOf(p) \cup {i} /\ GoneOf(a) \subseteq GoneOf(p) /\ Kept(p, a, t)
       /\ IsKind(a, "vertices", W, d.half, t + 1)
  BY <1>4, <1>7, <1>8, <1>13, KindAdded
<1>15. IsKind(q, "edges", E, d.next, t + 1) /\ IsKind(r, "faces", F, d.fhalf, t + 1)
  BY <1>4, <1>13, KindKept
<1>16. y = MeshOf(a, q, r, x.garbage, x.recycle, d)
  <2>1. y = MeshOf(a, x.edges, x.faces, x.garbage, x.recycle, d)
    <3>1. i = ElementAt("vertices", i) /\ d = WithElement(x.conn, "vertices", i)
      BY <1>3, <1>6 DEF ElementAt, WithElement
    <3>. QED BY <3>1, <1>4, <1>6, AddedIs DEF Kinds
  <2>. QED BY <2>1, <1>3
<1>17. IsMesh(y, W, E, F, t + 1)
  <2>1. x.garbage \/ NoneGone(a, q, r)
    BY <1>4, <1>14 DEF NoneGone
  <2>. QED BY <2>1, <1>2, <1>3, <1>5, <1>12, <1>14, <1>15, <1>16, MeshIs
<1>18. MeshOK(y, t + 1)
  BY <1>1, <1>7, <1>8, <1>17 DEF MeshOK
<1>19. Follows(x, y, t)
  BY <1>3, <1>14, <1>16, KeptItself DEF Follows, MeshOf
<1>. QED BY <1>18, <1>19

(* The halfedges of live edges, among those of all edges. *)
LEMMA HalvesIs ==
  ASSUME NEW E, Natural(E), NEW L, L \subseteq E, NEW D, D = HalvesOf(E)
  PROVE  HalvesOf(L) = {h \in D : h \div 2 \in L}
<1>1. \A e \in E : (2 * e) \div 2 = e /\ (2 * e + 1) \div 2 = e
  BY DEF Natural
<1>. QED BY <1>1 DEF HalvesOf

(* Where a new edge may begin or end. *)
LEMMA EndsOpen ==
  ASSUME NEW x, NEW V, NEW E, NEW F, x \in MeshRecords(V, E, F), Natural(E),
         NEW H, H = HalvesOf(LiveOf(x.edges)), NEW v, NEW g \in Ends(x, v)
  PROVE  Opening(x.conn, H, v, g)
<1>1. x.edges \in KindRecords(E) /\ DOMAIN x.conn.next = HalvesOf(E)
  BY DEF MeshRecords, Arrays
<1>2. LiveOf(x.edges) \subseteq E
  BY <1>1, LiveAndGone
<1>3. Live(x, "edges") = LiveOf(x.edges)
  BY DEF Live, LiveOf
<1>4. H = {h \in DOMAIN x.conn.next : h \div 2 \in LiveOf(x.edges)}
  BY <1>1, <1>2, HalvesIs
<1>5. CASE x.conn.half[v] = Null
  BY <1>5 DEF Ends, Opening
<1>6. CASE x.conn.half[v] # Null
  <2>1. /\ g \in DOMAIN x.conn.next /\ g \div 2 \in Live(x, "edges")
        /\ x.conn.target[g] = v /\ x.conn.face[g] = Null
    BY <1>6 DEF Ends
  <2>. QED BY <2>1, <1>3, <1>4, <1>6 DEF Opening
<1>. QED BY <1>5, <1>6

(* add_edge, wired by its caller, keeps the invariant of its mesh. *)
LEMMA AddEdgeStep ==
  ASSUME NEW t \in Nat, NEW x, MeshOK(x, t), NEW h, h = NextNode(x, "edges"),
         NEW u, NEW v, u \in Live(x, "vertices"), v \in Live(x, "vertices"), u # v,
         NEW g, NEW k, g \in Ends(x, u), k \in Ends(x, v),
         NEW y, y = [Added(x, "edges", t) EXCEPT !.conn = Connect(@, h, u, g, v, k)]
  PROVE  MeshOK(y, t + 1) /\ Follows(x, y, t)
<1>1. PICK V, E, F : /\ Numbered(V) /\ Numbered(E) /\ Numbered(F)
                     /\ IsMesh(x, V, E, F, t)
  BY DEF MeshOK
<1>2. PICK D : D = HalvesOf(E)
  OBVIOUS
<1>3. PICK p, q, r, c, H : /\ p = x.vertices /\ q = x.edges /\ r = x.faces /\ c = x.conn
                           /\ H = HalvesOf(LiveOf(q))
  OBVIOUS
<1>4. /\ x \in MeshRecords(V, E, F) /\ IsKind(p, "vertices", V, c.half, t)
      /\ IsKind(q, "edges", E, c.next, t) /\ IsKind(r, "faces", F, c.fhalf, t)
      /\ Sound(c, LiveOf(p), H, LiveOf(r)) /\ (x.garbage \/ NoneGone(p, q, r))
  BY <1>1, <1>3 DEF IsMesh
<1>5. /\ c \in Arrays(V, D, F) /\ x.garbage \in BOOLEAN /\ x.recycle \in BOOLEAN
      /\ p \in KindRecords(V) /\ q \in KindRecords(E) /\ r \in KindRecords(F)
  BY <1>2, <1>3, <1>4, MeshFields
<1>6. PICK i, a, e, d : /\ i = ElementAt("edges", h) /\ a = AddedKind(x, "edges", i, h, t)
                        /\ e = WithEdge(c, h) /\ d = Connect(e, h, u, g, v, k)
  OBVIOUS
<1>7. /\ h = Node("edges", i) /\ AddsTo(q, "edges", E, c.next, i, a, t)
      /\ Numbered(Grown(E, i))
  <2>1. c.next = Link(x, "edges") /\ q = x["edges"]
    BY <1>3 DEF Link, LinkOf
  <2>. QED BY <2>1, <1>1, <1>4, <1>6, NextAdds
<1>8. PICK W, K, o : W = Grown(E, i) /\ K = HalvesOf(W) /\ o = 2 * i + 1
  OBVIOUS
<1>9. i \in Nat /\ i \notin LiveOf(q) /\ h = 2 * i
  <2>1. i \in Nat /\ i \notin LiveOf(q)
    BY <1>4, <1>7, AddsUnused
  <2>. QED BY <2>1, <1>7 DEF Node
<1>10. /\ LiveOf(p) \subseteq V /\ GoneOf(p) \subseteq V /\ LiveOf(p) \cap GoneOf(p) = {}
       /\ LiveOf(q) \subseteq E /\ GoneOf(q) \subseteq E /\ LiveOf(q) \cap GoneOf(q) = {}
       /\ LiveOf(r) \subseteq F
  BY <1>5, LiveAndGone
<1>11. /\ Natural(E) /\ Natural(W) /\ Natural(LiveOf(q)) /\ Natural(K) /\ Null \notin D
       /\ Integral(V) /\ Integral(K)
  <2>1. Natural(E) /\ Natural(W) /\ Natural(LiveOf(q)) /\ Integral(V)
    BY <1>1, <1>7, <1>8, <1>10, NumberedIs DEF Natural
  <2>. QED BY <2>1, <1>2, <1>8, HalvesAre
<1>12. PICK L : L = Grown(LiveOf(q), i)
  OBVIOUS
<1>13. K = WithPair(D, h, o) /\ HalvesOf(L) = WithPair(H, h, o)
  <2>1. W = E \cup {i} /\ L = LiveOf(q) \cup {i}
    BY <1>8, <1>12 DEF Grown
  <2>. QED BY <2>1, <1>2, <1>3, <1>8, <1>9, HalvesGrow DEF WithPair
<1>14. /\ d \in Arrays(V, K, F) /\ Sound(d, LiveOf(p), WithPair(H, h, o), LiveOf(r))
       /\ Elsewhere(d, c, V, LiveOf(p), D, WithPair(H, h, o))
  <2>1. PICK l, R : l = LiveOf(p) /\ R = LiveOf(r)
    OBVIOUS
  <2>2. IsEdge(h, o) /\ h \notin H /\ o \notin H
    <3>1. IsEdge(h, o)
      BY <1>8, <1>9, EdgeHalves
    <3>2. h \notin H /\ o \notin H
      BY <1>3, <1>8, <1>9, <1>11, HalfIn
    <3>. QED BY <3>1, <3>2
  <2>3. Opening(c, H, u, g) /\ Opening(c, H, v, k)
    BY <1>3, <1>4, <1>11, EndsOpen
  <2>4. Inside(l, H, R, V, D, F)
    BY <2>1, <1>2, <1>3, <1>10, HalvesWithin DEF Inside
  <2>5. u \in l /\ v \in l
    BY <2>1, <1>3 DEF Live, LiveOf
  <2>6. Sound(c, l, H, R)
    BY <2>1, <1>4
  <2>7. d = Connect(WithEdge(c, h), h, u, g, v, k)
    BY <1>6
  <2>8. /\ d \in Arrays(V, K, F) /\ Sound(d, l, WithPair(H, h, o), R)
        /\ Elsewhere(d, c, V, l, D, WithPair(H, h, o))
    BY <2>2, <2>3, <2>4, <2>5, <2>6, <2>7, <1>5, <1>11, <1>13, AddedEdgeSound
  <2>. QED BY <2>1, <2>8
<1>15. /\ Same(d.half, c.half, NodesOf("vertices", GoneOf(p)))
       /\ Same(d.next, c.next, NodesOf("edges", Without(GoneOf(q), i)))
       /\ Same(d.fhalf, c.fhalf, NodesOf("faces", GoneOf(r)))
  <2>1. Natural(L)
    BY <1>9, <1>11, <1>12 DEF Natural, Grown
  <2>2. Beyond(Without(GoneOf(q), i), E, L) /\ Beyond(GoneOf(p), V, LiveOf(p))
    BY <1>10, <1>12 DEF Beyond, Without, Grown
  <2>3. PICK M : M = HalvesOf(L)
    OBVIOUS
  <2>4. Elsewhere(d, c, V, LiveOf(p), D, M)
    BY <2>3, <1>13, <1>14
  <2>. QED BY <2>1, <2>2, <2>3, <2>4, <1>2, <1>11, ElsewhereSame
<1>16. /\ LiveOf(a) = LiveOf(q) \cup {i} /\ GoneOf(a) \subseteq GoneOf(q) /\ Kept(q, a, t)
       /\ IsKind(a, "edges", W, d.next, t + 1)
  BY <1>4, <1>7, <1>8, <1>15, KindAdded
<1>17. IsKind(p, "vertices", V, d.half, t + 1) /\ IsKind(r, "faces", F, d.fhalf, t + 1)
  BY <1>4, <1>15, KindKept
<1>18. y = MeshOf(p, a, r, x.garbage, x.recycle, d)
  <2>1. PICK z : z = Added(x, "edges", t)
    OBVIOUS
  <2>2. z = MeshOf(p, a, r, x.garbage, x.recycle, e)
    <3>1. e = WithElement(x.conn, "edges", h)
      BY <1>3, <1>6 DEF WithElement
    <3>2. z = MeshOf(x.vertices, a, x.faces, x.garbage, x.recycle, e)
      BY <3>1, <2>1, <1>4, <1>6, AddedIs DEF Kinds
    <3>. QED BY <3>2, <1>3
  <2>3. y = [z EXCEPT !.conn = Connect(@, h, u, g, v, k)]
    BY <2>1
  <2>. QED BY <2>2, <2>3, <1>6 DEF MeshOf
<1>19. IsMesh(y, V, W, F, t + 1)
  <2>1. x.garbage \/ NoneGone(p, a, r)
    BY <1>4, <1>16 DEF NoneGone
  <2>2. HalvesOf(LiveOf(a)) = WithPair(H, h, o)
    BY <1>12, <1>13, <1>16 DEF Grown
  <2>3. Sound(d, LiveOf(p), HalvesOf(LiveOf(a)), LiveOf(r)) /\ d \in Arrays(V, HalvesOf(W), F)
    BY <2>2, <1>8, <1>14
  <2>. QED BY <2>1, <2>3, <1>5, <1>16, <1>17, <1>18, MeshIs
<1>20. MeshOK(y, t + 1)
  BY <1>1, <1>7, <1>8, <1>19 DEF MeshOK
<1>21. Follows(x, y, t)
  BY <1>3, <1>16, <1>18, KeptItself DEF Follows, MeshOf
<1>. QED BY <1>20, <1>21

(* An element is in use if both, or either, of its halfedges are. *)
LEMMA HalfOfEdge ==
  ASSUME NEW x, NEW V, NEW E, NEW F, x \in MeshRecords(V, E, F), Natural(E),
         NEW h \in DOMAIN x.conn.next, h \div 2 \in Live(x, "edges")
  PROVE  h \in HalvesOf(LiveOf(x.edges))
<1>1. x.edges \in KindRecords(E) /\ DOMAIN x.conn.next = HalvesOf(E)
  BY DEF MeshRecords, Arrays
<1>2. LiveOf(x.edges) \subseteq E
  BY <1>1, LiveAndGone
<1>3. Live(x, "edges") = LiveOf(x.edges)
  BY DEF Live, LiveOf
<1>4. HalvesOf(LiveOf(x.edges)) = {g \in DOMAIN x.conn.next : g \div 2 \in LiveOf(x.edges)}
  BY <1>1, <1>2, HalvesIs
<1>. QED BY <1>3, <1>4

(* Finitely many edges have finitely many halfedges. *)
LEMMA HalvesFinite ==
  ASSUME NEW E, Numbered(E)
  PROVE  IsFiniteSet(HalvesOf(E))
<1>1. PICK f : f = [e \in E |-> 2 * e]
  OBVIOUS
<1>2. PICK g : g = [e \in E |-> 2 * e + 1]
  OBVIOUS
<1>3. IsFiniteSet(E)
  BY NumberedIs
<1>4. IsFiniteSet({2 * e : e \in E})
  <2>1. f \in Surjection(E, {2 * e : e \in E})
    BY <1>1 DEF Surjection
  <2>. QED BY <2>1, <1>3, FS_Surjection
<1>5. IsFiniteSet({2 * e + 1 : e \in E})
  <2>1. g \in Surjection(E, {2 * e + 1 : e \in E})
    BY <1>2 DEF Surjection
  <2>. QED BY <2>1, <1>3, FS_Surjection
<1>. QED BY <1>4, <1>5, FS_Union DEF HalvesOf

(* add_face, in a hole of the mesh, keeps the invariant of its mesh. *)
LEMMA AddFaceStep ==
  ASSUME NEW t \in Nat, NEW x, MeshOK(x, t), NEW i, i = NextNode(x, "faces"),
         NEW h, h \in DOMAIN x.conn.next, h \div 2 \in Live(x, "edges"),
         x.conn.face[h] = Null,
         NEW y, y = [Added(x, "faces", t) EXCEPT !.conn = Fill(@, h, i)]
  PROVE  MeshOK(y, t + 1) /\ Follows(x, y, t)
<1>1. PICK V, E, F : /\ Numbered(V) /\ Numbered(E) /\ Numbered(F)
                     /\ IsMesh(x, V, E, F, t)
  BY DEF MeshOK
<1>2. PICK D : D = HalvesOf(E)
  OBVIOUS
<1>3. PICK p, q, r, c, H : /\ p = x.vertices /\ q = x.edges /\ r = x.faces /\ c = x.conn
                           /\ H = HalvesOf(LiveOf(q))
  OBVIOUS
<1>4. /\ x \in MeshRecords(V, E, F) /\ IsKind(p, "vertices", V, c.half, t)
      /\ IsKind(q, "edges", E, c.next, t) /\ IsKind(r, "faces", F, c.fhalf, t)
      /\ Sound(c, LiveOf(p), H, LiveOf(r)) /\ (x.garbage \/ NoneGone(p, q, r))
  BY <1>1, <1>3 DEF IsMesh
<1>5. /\ c \in Arrays(V, D, F) /\ x.garbage \in BOOLEAN /\ x.recycle \in BOOLEAN
      /\ p \in KindRecords(V) /\ q \in KindRecords(E) /\ r \in KindRecords(F)
  BY <1>2, <1>3, <1>4, MeshFields
<1>6. PICK a, e, d : /\ a = AddedKind(x, "faces", i, i, t)
                     /\ e = WithFace(c, i) /\ d = Fill(e, h, i)
  OBVIOUS
<1>7. AddsTo(r, "faces", F, c.fhalf, i, a, t) /\ Numbered(Grown(F, i))
  <2>1. i = ElementAt("faces", i)
    BY DEF ElementAt
  <2>2. c.fhalf = Link(x, "faces") /\ r = x["faces"]
    BY <1>3 DEF Link, LinkOf
  <2>. QED BY <2>1, <2>2, <1>1, <1>4, <1>6, NextAdds
<1>8. PICK W : W = Grown(F, i)
  OBVIOUS
<1>9. i \in Nat /\ i \notin LiveOf(r)
  BY <1>4, <1>7, AddsUnused
<1>10. /\ LiveOf(p) \subseteq V /\ LiveOf(q) \subseteq E
       /\ LiveOf(r) \subseteq F /\ GoneOf(r) \subseteq F
  BY <1>5, LiveAndGone
<1>11. IsFiniteSet(D) /\ Integral(D) /\ Natural(E)
  BY <1>1, <1>2, NumberedIs, HalvesAre, HalvesFinite
<1>12. /\ d \in Arrays(V, D, W) /\ Sound(d, LiveOf(p), H, Grown(LiveOf(r), i))
       /\ d.half = c.half /\ d.next = c.next /\ Same(d.fhalf, c.fhalf, Without(F, i))
  <2>1. PICK l, R : l = LiveOf(p) /\ R = LiveOf(r)
    OBVIOUS
  <2>2. Inside(l, H, R, V, D, F)
    BY <2>1, <1>2, <1>3, <1>10, HalvesWithin DEF Inside
  <2>3. h \in H /\ c.face[h] = Null
    BY <1>3, <1>4, <1>11, HalfOfEdge
  <2>4. d = Fill(WithFace(c, i), h, i)
    BY <1>6
  <2>5. Sound(c, l, H, R) /\ i \notin R
    BY <2>1, <1>4, <1>9
  <2>6. /\ d \in Arrays(V, D, W) /\ Sound(d, l, H, Grown(R, i))
        /\ d.half = c.half /\ d.next = c.next /\ Same(d.fhalf, c.fhalf, Without(F, i))
    BY <2>2, <2>3, <2>4, <2>5, <1>5, <1>8, <1>9, <1>11, FilledSound
  <2>. QED BY <2>1, <2>6
<1>13. /\ Same(d.half, c.half, NodesOf("vertices", GoneOf(p)))
       /\ Same(d.next, c.next, NodesOf("edges", GoneOf(q)))
       /\ Same(d.fhalf, c.fhalf, NodesOf("faces", Without(GoneOf(r), i)))
  <2>1. Same(d.half, c.half, NodesOf("vertices", GoneOf(p)))
    BY <1>12 DEF Same
  <2>2. Same(d.next, c.next, NodesOf("edges", GoneOf(q)))
    BY <1>12 DEF Same
  <2>3. Same(d.fhalf, c.fhalf, NodesOf("faces", Without(GoneOf(r), i)))
    BY <1>10, <1>12 DEF Same, NodesOf, Node, Without
  <2>. QED BY <2>1, <2>2, <2>3
<1>14. /\ LiveOf(a) = LiveOf(r) \cup {i} /\ GoneOf(a) \subseteq GoneOf(r) /\ Kept(r, a, t)
       /\ IsKind(a, "faces", W, d.fhalf, t + 1)
  BY <1>4, <1>7, <1>8, <1>13, KindAdded
<1>15. IsKind(p, "vertices", V, d.half, t + 1) /\ IsKind(q, "edges", E, d.next, t + 1)
  BY <1>4, <1>13, KindKept
<1>16. y = MeshOf(p, q, a, x.garbage, x.recycle, d)
  <2>1. PICK z : z = Added(x, "faces", t)
    OBVIOUS
  <2>2. z = MeshOf(p, q, a, x.garbage, x.recycle, e)
    <3>1. e = WithElement(x.conn, "faces", i) /\ i = ElementAt("faces", i)
      BY <1>3, <1>6 DEF WithElement, ElementAt
    <3>2. z = MeshOf(x.vertices, x.edges, a, x.garbage, x.recycle, e)
      BY <3>1, <2>1, <1>4, <1>6, AddedIs DEF Kinds
    <3>. QED BY <3>2, <1>3
  <2>3. y = [z EXCEPT !.conn = Fill(@, h, i)]
    BY <2>1
  <2>. QED BY <2>2, <2>3, <1>6 DEF MeshOf
<1>17. IsMesh(y, V, E, W, t + 1)
  <2>1. x.garbage \/ NoneGone(p, q, a)
    BY <1>4, <1>14 DEF NoneGone
  <2>2. LiveOf(a) = Grown(LiveOf(r), i)
    BY <1>14 DEF Grown
  <2>3. Sound(d, LiveOf(p), HalvesOf(LiveOf(q)), LiveOf(a)) /\ d \in Arrays(V, HalvesOf(E), W)
    BY <2>2, <1>2, <1>3, <1>12
  <2>. QED BY <2>1, <2>3, <1>5, <1>14, <1>15, <1>16, MeshIs
<1>18. MeshOK(y, t + 1)
  BY <1>1, <1>7, <1>8, <1>17 DEF MeshOK
<1>19. Follows(x, y, t)
  BY <1>3, <1>14, <1>16, KeptItself DEF Follows, MeshOf
<1>. QED BY <1>18, <1>19

-----------------------------------------------------------------------------
(***************************************************************************)
(* Calls that remove an element.                                           *)
(***************************************************************************)
(* The link of a removed element is stored. *)
WithLink(c, f, i, z) == [c EXCEPT ![f] = [@ EXCEPT ![i] = z]]

Flagged(y) == y.garbage = TRUE

(* A mesh with a vertex removed, field by field. *)
LEMMA RemovedVertexIs ==
  ASSUME NEW V, NEW E, NEW F, NEW x \in MeshRecords(V, E, F), NEW i,
         NEW z, z = x.vertices.free, NEW d, d = WithLink(x.conn, "half", i, z),
         NEW a, a = RemovedKind(x.vertices, "vertices", i),
         NEW y, y = Removed(x, "vertices", i)
  PROVE  /\ Flagged(y)
         /\ y = MeshOf(a, x.edges, x.faces, y.garbage, x.recycle, d)
<1>1. d = [x.conn EXCEPT !.half = [@ EXCEPT ![i] = z]]
  BY DEF WithLink
<1>2. y = [x EXCEPT !.vertices.removed[i] = TRUE, !.vertices.count = @ + 1, !.vertices.free = i,
                    !.garbage = TRUE, !.conn.half[i] = z]
  BY DEF Removed, LinkOf, Node
<1>3. a = Members([x.vertices.removed EXCEPT ![i] = TRUE], i, x.vertices.count + 1, x.vertices.name)
  BY DEF RemovedKind, Node
<1>4. y.garbage = TRUE
  BY <1>2 DEF MeshRecords
<1>5. y.conn = d
  BY <1>1, <1>2 DEF MeshRecords, Arrays
<1>6. y.vertices = a
  <2>1. PICK q : q = x.vertices /\ q \in [removed : [DOMAIN q.removed -> BOOLEAN], free : Int,
                                          count : Nat, name : [DOMAIN q.name -> Nat]]
    BY DEF MeshRecords, KindRecords
  <2>2. y.vertices = [q EXCEPT !.removed = [@ EXCEPT ![i] = TRUE], !.count = @ + 1, !.free = i]
    BY <1>2, <2>1 DEF MeshRecords
  <2>3. a = Members([q.removed EXCEPT ![i] = TRUE], i, q.count + 1, q.name)
    BY <1>3, <2>1
  <2>. QED BY <2>1, <2>2, <2>3 DEF Members
<1>7. y = MeshOf(a, x.edges, x.faces, y.garbage, x.recycle, d)
  BY <1>2, <1>5, <1>6 DEF MeshOf, MeshRecords
<1>. QED BY <1>4, <1>7 DEF Flagged

(* A mesh with an edge removed, field by field. *)
LEMMA RemovedEdgeIs ==
  ASSUME NEW V, NEW E, NEW F, NEW x \in MeshRecords(V, E, F), NEW i, NEW m, m = 2 * i,
         NEW z, z = x.edges.free, NEW d, d = WithLink(x.conn, "next", m, z),
         NEW a, a = RemovedKind(x.edges, "edges", i),
         NEW y, y = Removed(x, "edges", i)
  PROVE  /\ Flagged(y)
         /\ y = MeshOf(x.vertices, a, x.faces, y.garbage, x.recycle, d)
<1>1. d = [x.conn EXCEPT !.next = [@ EXCEPT ![m] = z]]
  BY DEF WithLink
<1>2. y = [x EXCEPT !.edges.removed[i] = TRUE, !.edges.count = @ + 1, !.edges.free = m,
                    !.garbage = TRUE, !.conn.next[m] = z]
  BY DEF Removed, LinkOf, Node
<1>3. a = Members([x.edges.removed EXCEPT ![i] = TRUE], m, x.edges.count + 1, x.edges.name)
  BY DEF RemovedKind, Node
<1>4. y.garbage = TRUE
  BY <1>2 DEF MeshRecords
<1>5. y.conn = d
  BY <1>1, <1>2 DEF MeshRecords, Arrays
<1>6. y.edges = a
  <2>1. PICK q : q = x.edges /\ q \in [removed : [DOMAIN q.removed -> BOOLEAN], free : Int,
                                          count : Nat, name : [DOMAIN q.name -> Nat]]
    BY DEF MeshRecords, KindRecords
  <2>2. y.edges = [q EXCEPT !.removed = [@ EXCEPT ![i] = TRUE], !.count = @ + 1, !.free = m]
    BY <1>2, <2>1 DEF MeshRecords
  <2>3. a = Members([q.removed EXCEPT ![i] = TRUE], m, q.count + 1, q.name)
    BY <1>3, <2>1
  <2>. QED BY <2>1, <2>2, <2>3 DEF Members
<1>7. y = MeshOf(x.vertices, a, x.faces, y.garbage, x.recycle, d)
  BY <1>2, <1>5, <1>6 DEF MeshOf, MeshRecords
<1>. QED BY <1>4, <1>7 DEF Flagged

(* A mesh with a face removed, field by field. *)
LEMMA RemovedFaceIs ==
  ASSUME NEW V, NEW E, NEW F, NEW x \in MeshRecords(V, E, F), NEW i,
         NEW z, z = x.faces.free, NEW d, d = WithLink(x.conn, "fhalf", i, z),
         NEW a, a = RemovedKind(x.faces, "faces", i),
         NEW y, y = Removed(x, "faces", i)
  PROVE  /\ Flagged(y)
         /\ y = MeshOf(x.vertices, x.edges, a, y.garbage, x.recycle, d)
<1>1. d = [x.conn EXCEPT !.fhalf = [@ EXCEPT ![i] = z]]
  BY DEF WithLink
<1>2. y = [x EXCEPT !.faces.removed[i] = TRUE, !.faces.count = @ + 1, !.faces.free = i,
                    !.garbage = TRUE, !.conn.fhalf[i] = z]
  BY DEF Removed, LinkOf, Node
<1>3. a = Members([x.faces.removed EXCEPT ![i] = TRUE], i, x.faces.count + 1, x.faces.name)
  BY DEF RemovedKind, Node
<1>4. y.garbage = TRUE
  BY <1>2 DEF MeshRecords
<1>5. y.conn = d
  BY <1>1, <1>2 DEF MeshRecords, Arrays
<1>6. y.faces = a
  <2>1. PICK q : q = x.faces /\ q \in [removed : [DOMAIN q.removed -> BOOLEAN], free : Int,
                                          count : Nat, name : [DOMAIN q.name -> Nat]]
    BY DEF MeshRecords, KindRecords
  <2>2. y.faces = [q EXCEPT !.removed = [@ EXCEPT ![i] = TRUE], !.count = @ + 1, !.free = i]
    BY <1>2, <2>1 DEF MeshRecords
  <2>3. a = Members([q.removed EXCEPT ![i] = TRUE], i, q.count + 1, q.name)
    BY <1>3, <2>1
  <2>. QED BY <2>1, <2>2, <2>3 DEF Members
<1>7. y = MeshOf(x.vertices, x.edges, a, y.garbage, x.recycle, d)
  BY <1>2, <1>5, <1>6 DEF MeshOf, MeshRecords
<1>. QED BY <1>4, <1>7 DEF Flagged

(* remove_vertex, of a lonely vertex, keeps the invariant of its mesh. *)
LEMMA RemoveVertexStep ==
  ASSUME NEW t \in Nat, NEW x, MeshOK(x, t),
         NEW i, i \in Live(x, "vertices"), x.conn.half[i] = Null,
         NEW y, y = Removed(x, "vertices", i)
  PROVE  MeshOK(y, t) /\ Follows(x, y, t)
<1>1. PICK V, E, F : /\ Numbered(V) /\ Numbered(E) /\ Numbered(F)
                     /\ IsMesh(x, V, E, F, t)
  BY DEF MeshOK
<1>2. PICK D : D = HalvesOf(E)
  OBVIOUS
<1>3. PICK p, q, r, c, H : /\ p = x.vertices /\ q = x.edges /\ r = x.faces /\ c = x.conn
                           /\ H = HalvesOf(LiveOf(q))
  OBVIOUS
<1>4. /\ x \in MeshRecords(V, E, F) /\ IsKind(p, "vertices", V, c.half, t)
      /\ IsKind(q, "edges", E, c.next, t) /\ IsKind(r, "faces", F, c.fhalf, t)
      /\ Sound(c, LiveOf(p), H, LiveOf(r))
  BY <1>1, <1>3 DEF IsMesh
<1>5. /\ c \in Arrays(V, D, F) /\ x.recycle \in BOOLEAN
      /\ p \in KindRecords(V) /\ q \in KindRecords(E) /\ r \in KindRecords(F)
  BY <1>2, <1>3, <1>4, MeshFields
<1>a. PICK a, d : /\ a = RemovedKind(p, "vertices", i)
                  /\ d = WithLink(c, "half", i, p.free)
  OBVIOUS
<1>7. i \in LiveOf(p) /\ c.half[i] = Null
  BY <1>3 DEF Live, LiveOf
<1>8. /\ LiveOf(p) \subseteq V /\ GoneOf(p) \subseteq V /\ LiveOf(p) \cap GoneOf(p) = {}
  BY <1>5, LiveAndGone
<1>9. /\ d \in Arrays(V, D, F) /\ d.half[i] = p.free
      /\ \A w \in V : w # i => d.half[w] = c.half[w]
      /\ d.target = c.target /\ d.next = c.next /\ d.prev = c.prev /\ d.face = c.face
      /\ d.fhalf = c.fhalf
  <2>1. p.free \in Int /\ i \in V
    BY <1>5, <1>7, <1>8 DEF KindRecords
  <2>. QED BY <2>1, <1>5, <1>a DEF Arrays, WithLink
<1>10. Sound(d, Without(LiveOf(p), i), H, LiveOf(r))
  <2>1. PICK l, R, W : l = LiveOf(p) /\ R = LiveOf(r) /\ W = Without(l, i)
    OBVIOUS
  <2>2. {h \in H : c.target[h] = i} \subseteq {}
    <3>1. \A S \in SUBSET H :
            c.half[i] \in S \cup {Null} /\ (\A h \in S : Rotated(c, h) \in S) =>
              {h \in H : c.target[h] = i} \subseteq S
      BY <1>4, <1>7 DEF Sound, IsManifold
    <3>2. PICK S \in SUBSET H : S = {}
      OBVIOUS
    <3>3. c.half[i] \in S \cup {Null} /\ (\A h \in S : Rotated(c, h) \in S)
      BY <3>2, <1>7
    <3>. QED BY <3>1, <3>2, <3>3
  <2>3. \A h \in H : c.target[h] \in l /\ c.face[h] \in R \cup {Null}
    BY <2>1, <1>4 DEF Sound, IsValid
  <2>4. \A h \in H : c.target[h] \in W /\ c.face[h] \in R \cup {Null}
    BY <2>1, <2>2, <2>3 DEF Without
  <2>5. Agree(d, c, W, H, R)
    BY <2>1, <1>8, <1>9 DEF Agree, Without
  <2>6. W \in SUBSET l /\ R \in SUBSET R /\ Sound(c, l, H, R)
    BY <2>1, <1>4 DEF Without
  <2>7. Sound(d, W, H, R)
    BY <2>4, <2>5, <2>6, AgreeingSound
  <2>. QED BY <2>1, <2>7
<1>11. /\ Same(d.half, c.half, NodesOf("vertices", GoneOf(p)))
       /\ Same(d.next, c.next, NodesOf("edges", GoneOf(q)))
       /\ Same(d.fhalf, c.fhalf, NodesOf("faces", GoneOf(r)))
  BY <1>7, <1>8, <1>9 DEF Same, NodesOf, Node
<1>12. /\ LiveOf(a) = Without(LiveOf(p), i) /\ Kept(p, a, t) /\ IsKind(a, "vertices", V, d.half, t)
  <2>1. PICK m, k : m = Node("vertices", i) /\ k = "vertices"
    OBVIOUS
  <2>2. PICK link, other : link = c.half /\ other = d.half
    OBVIOUS
  <2>3. other[m] = p.free
    BY <2>1, <2>2, <1>9 DEF Node
  <2>4. IsKind(p, k, V, link, t) /\ Same(other, link, NodesOf(k, GoneOf(p)))
    BY <2>1, <2>2, <1>4, <1>11
  <2>5. a = RemovedKind(p, k, i) /\ m = Node(k, i)
    BY <2>1, <1>a
  <2>6. LiveOf(a) = Without(LiveOf(p), i) /\ Kept(p, a, t) /\ IsKind(a, k, V, other, t)
    BY <2>3, <2>4, <2>5, <1>7, KindRemoved
  <2>. QED BY <2>1, <2>2, <2>6
<1>13. IsKind(q, "edges", E, d.next, t) /\ IsKind(r, "faces", F, d.fhalf, t)
  <2>1. t <= t
    OBVIOUS
  <2>. QED BY <2>1, <1>4, <1>11, KindKept
<1>14. y.garbage = TRUE /\ y = MeshOf(a, q, r, y.garbage, x.recycle, d)
  <2>1. PICK z : z = x.vertices.free
    OBVIOUS
  <2>2. d = WithLink(x.conn, "half", i, z) /\ a = RemovedKind(x.vertices, "vertices", i)
    BY <2>1, <1>3, <1>a
  <2>4. Flagged(y) /\ y = MeshOf(a, x.edges, x.faces, y.garbage, x.recycle, d)
    BY <2>1, <2>2, <1>4, RemovedVertexIs
  <2>. QED BY <2>4, <1>3 DEF Flagged
<1>15. IsMesh(y, V, E, F, t)
  <2>1. LiveOf(a) = Without(LiveOf(p), i)
    BY <1>12
  <2>2. Sound(d, LiveOf(a), HalvesOf(LiveOf(q)), LiveOf(r)) /\ d \in Arrays(V, HalvesOf(E), F)
    BY <2>1, <1>2, <1>3, <1>9, <1>10
  <2>3. PICK g \in BOOLEAN : g = y.garbage /\ g
    BY <1>14
  <2>. QED BY <2>2, <2>3, <1>5, <1>12, <1>13, <1>14, MeshIs
<1>16. Follows(x, y, t)
  BY <1>3, <1>12, <1>14, KeptItself DEF Follows, MeshOf
<1>. QED BY <1>1, <1>15, <1>16 DEF MeshOK

(* remove_edge, of a border edge, keeps the invariant of its mesh. *)
LEMMA RemoveEdgeStep ==
  ASSUME NEW t \in Nat, NEW x, MeshOK(x, t), NEW e, e \in Live(x, "edges"),
         NEW h, h = 2 * e, NEW o, o = 2 * e + 1, x.conn.face[h] = Null, x.conn.face[o] = Null,
         NEW y, y = Removed([x EXCEPT !.conn = Disconnect(@, h)], "edges", e)
  PROVE  MeshOK(y, t) /\ Follows(x, y, t)
<1>1. PICK V, E, F : /\ Numbered(V) /\ Numbered(E) /\ Numbered(F)
                     /\ IsMesh(x, V, E, F, t)
  BY DEF MeshOK
<1>2. PICK D : D = HalvesOf(E)
  OBVIOUS
<1>3. PICK p, q, r, c, H : /\ p = x.vertices /\ q = x.edges /\ r = x.faces /\ c = x.conn
                           /\ H = HalvesOf(LiveOf(q))
  OBVIOUS
<1>4. /\ x \in MeshRecords(V, E, F) /\ IsKind(p, "vertices", V, c.half, t)
      /\ IsKind(q, "edges", E, c.next, t) /\ IsKind(r, "faces", F, c.fhalf, t)
      /\ Sound(c, LiveOf(p), H, LiveOf(r))
  BY <1>1, <1>3 DEF IsMesh
<1>5. /\ c \in Arrays(V, D, F) /\ x.recycle \in BOOLEAN
      /\ p \in KindRecords(V) /\ q \in KindRecords(E) /\ r \in KindRecords(F)
  BY <1>2, <1>3, <1>4, MeshFields
<1>6. PICK a, b, z, d : /\ a = RemovedKind(q, "edges", e) /\ b = Disconnect(c, h)
                        /\ z = [x EXCEPT !.conn = b] /\ d = WithLink(b, "next", h, q.free)
  OBVIOUS
<1>7. e \in LiveOf(q)
  BY <1>3 DEF Live, LiveOf
<1>8. /\ LiveOf(p) \subseteq V /\ GoneOf(p) \subseteq V /\ LiveOf(p) \cap GoneOf(p) = {}
      /\ LiveOf(q) \subseteq E /\ GoneOf(q) \subseteq E /\ LiveOf(q) \cap GoneOf(q) = {}
      /\ LiveOf(r) \subseteq F
  BY <1>5, LiveAndGone
<1>9. Natural(E) /\ Natural(LiveOf(q)) /\ e \in Nat /\ Integral(V) /\ Integral(D)
  <2>1. Natural(E) /\ Natural(LiveOf(q)) /\ e \in Nat /\ Integral(V)
    BY <1>1, <1>7, <1>8, NumberedIs DEF Natural
  <2>. QED BY <2>1, <1>2, HalvesAre
<1>10. h \in H /\ o \in H /\ IsEdge(h, o) /\ h \in D
  <2>1. h \in H /\ o \in H
    BY <1>3, <1>7, <1>9, HalfIn
  <2>2. IsEdge(h, o)
    BY <1>9, EdgeHalves
  <2>3. h \in D
    BY <1>2, <1>7, <1>8, <1>9, HalfIn
  <2>. QED BY <2>1, <2>2, <2>3
<1>11. PICK K : K = HalvesOf(Without(LiveOf(q), e))
  OBVIOUS
<1>12. K = WithoutPair(H, h, o)
  <2>1. Without(LiveOf(q), e) = LiveOf(q) \ {e}
    BY DEF Without
  <2>. QED BY <2>1, <1>3, <1>7, <1>9, <1>11, HalvesShrink DEF WithoutPair
<1>13. b \in Arrays(V, D, F) /\ Sound(b, LiveOf(p), K, LiveOf(r)) /\ Elsewhere(b, c, V, LiveOf(p), D, H)
  <2>1. PICK l, R : l = LiveOf(p) /\ R = LiveOf(r)
    OBVIOUS
  <2>2. Inside(l, H, R, V, D, F)
    BY <2>1, <1>2, <1>3, <1>8, HalvesWithin DEF Inside
  <2>3. Sound(c, l, H, R) /\ c.face[h] = Null /\ c.face[o] = Null
    BY <2>1, <1>3, <1>4
  <2>4. b \in Arrays(V, D, F) /\ Sound(b, l, WithoutPair(H, h, o), R) /\ Elsewhere(b, c, V, l, D, H)
    BY <2>2, <2>3, <1>5, <1>6, <1>9, <1>10, RemovedEdgeSound
  <2>. QED BY <2>1, <2>4, <1>12
<1>14. /\ d \in Arrays(V, D, F) /\ d.next[h] = q.free
       /\ \A w \in D : w # h => d.next[w] = b.next[w]
       /\ d.half = b.half /\ d.target = b.target /\ d.prev = b.prev /\ d.face = b.face
       /\ d.fhalf = b.fhalf
  <2>1. q.free \in Int
    BY <1>5 DEF KindRecords
  <2>. QED BY <2>1, <1>6, <1>10, <1>13 DEF Arrays, WithLink
<1>15. Sound(d, LiveOf(p), K, LiveOf(r))
  <2>1. PICK l, R : l = LiveOf(p) /\ R = LiveOf(r)
    OBVIOUS
  <2>2. Sound(b, l, K, R)
    BY <2>1, <1>13
  <2>3. \A w \in K : b.target[w] \in l /\ b.face[w] \in R \cup {Null}
    BY <2>2 DEF Sound, IsValid
  <2>4. K \subseteq D /\ h \notin K
    <3>1. H \subseteq D
      BY <1>2, <1>3, <1>8, HalvesWithin
    <3>. QED BY <3>1, <1>12 DEF WithoutPair
  <2>5. Agree(d, b, l, K, R)
    BY <2>4, <1>14 DEF Agree
  <2>6. l \in SUBSET l /\ R \in SUBSET R
    OBVIOUS
  <2>7. Sound(d, l, K, R)
    BY <2>2, <2>3, <2>5, <2>6, AgreeingSound
  <2>. QED BY <2>1, <2>7
<1>16. /\ Same(d.half, c.half, NodesOf("vertices", GoneOf(p)))
       /\ Same(d.next, c.next, NodesOf("edges", GoneOf(q)))
       /\ Same(d.fhalf, c.fhalf, NodesOf("faces", GoneOf(r)))
  <2>1. Beyond(GoneOf(q), E, LiveOf(q)) /\ Beyond(GoneOf(p), V, LiveOf(p))
    BY <1>8 DEF Beyond
  <2>2. Elsewhere(d, c, V, LiveOf(p), D, H)
    BY <1>10, <1>13, <1>14 DEF Elsewhere
  <2>3. PICK L : L = LiveOf(q) /\ H = HalvesOf(L) /\ Natural(L) /\ Beyond(GoneOf(q), E, L)
    BY <2>1, <1>3, <1>9
  <2>. QED BY <2>1, <2>2, <2>3, <1>2, <1>9, ElsewhereSame
<1>17. /\ LiveOf(a) = Without(LiveOf(q), e) /\ Kept(q, a, t) /\ IsKind(a, "edges", E, d.next, t)
  <2>1. PICK m, k : m = Node("edges", e) /\ k = "edges"
    OBVIOUS
  <2>2. PICK link, other : link = c.next /\ other = d.next
    OBVIOUS
  <2>3. other[m] = q.free
    BY <2>1, <2>2, <1>14 DEF Node
  <2>4. IsKind(q, k, E, link, t) /\ Same(other, link, NodesOf(k, GoneOf(q)))
    BY <2>1, <2>2, <1>4, <1>16
  <2>5. a = RemovedKind(q, k, e) /\ m = Node(k, e)
    BY <2>1, <1>6
  <2>6. LiveOf(a) = Without(LiveOf(q), e) /\ Kept(q, a, t) /\ IsKind(a, k, E, other, t)
    BY <2>3, <2>4, <2>5, <1>7, KindRemoved
  <2>. QED BY <2>1, <2>2, <2>6
<1>18. IsKind(p, "vertices", V, d.half, t) /\ IsKind(r, "faces", F, d.fhalf, t)
  <2>1. t <= t
    OBVIOUS
  <2>. QED BY <2>1, <1>4, <1>16, KindKept
<1>19. y.garbage = TRUE /\ y = MeshOf(p, a, r, y.garbage, x.recycle, d)
  <2>1. z \in MeshRecords(V, E, F)
    BY <1>2, <1>4, <1>6, <1>13 DEF MeshRecords
  <2>2. /\ z.vertices = p /\ z.edges = q /\ z.faces = r /\ z.recycle = x.recycle
        /\ z.conn = b
    BY <1>3, <1>4, <1>6 DEF MeshRecords
  <2>3. PICK f : f = z.edges.free
    OBVIOUS
  <2>4. /\ d = WithLink(z.conn, "next", h, f) /\ a = RemovedKind(z.edges, "edges", e)
        /\ y = Removed(z, "edges", e)
    BY <2>2, <2>3, <1>3, <1>6
  <2>5. Flagged(y) /\ y = MeshOf(z.vertices, a, z.faces, y.garbage, z.recycle, d)
    BY <2>1, <2>3, <2>4, RemovedEdgeIs
  <2>. QED BY <2>2, <2>5 DEF Flagged
<1>20. IsMesh(y, V, E, F, t)
  <2>1. LiveOf(a) = Without(LiveOf(q), e)
    BY <1>17
  <2>2. Sound(d, LiveOf(p), HalvesOf(LiveOf(a)), LiveOf(r)) /\ d \in Arrays(V, HalvesOf(E), F)
    BY <2>1, <1>2, <1>11, <1>14, <1>15
  <2>3. PICK g \in BOOLEAN : g = y.garbage /\ g
    BY <1>19
  <2>. QED BY <2>2, <2>3, <1>5, <1>17, <1>18, <1>19, MeshIs
<1>21. Follows(x, y, t)
  BY <1>3, <1>17, <1>19, KeptItself DEF Follows, MeshOf
<1>. QED BY <1>1, <1>20, <1>21 DEF MeshOK

(* remove_face keeps the invariant of its mesh. *)
LEMMA RemoveFaceStep ==
  ASSUME NEW t \in Nat, NEW x, MeshOK(x, t), NEW f, f \in Live(x, "faces"),
         NEW y, y = Removed([x EXCEPT !.conn = SetFace(x.conn, x.conn.fhalf[f], Null)], "faces", f)
  PROVE  MeshOK(y, t) /\ Follows(x, y, t)
<1>1. PICK V, E, F : /\ Numbered(V) /\ Numbered(E) /\ Numbered(F)
                     /\ IsMesh(x, V, E, F, t)
  BY DEF MeshOK
<1>2. PICK D : D = HalvesOf(E)
  OBVIOUS
<1>3. PICK p, q, r, c, H : /\ p = x.vertices /\ q = x.edges /\ r = x.faces /\ c = x.conn
                           /\ H = HalvesOf(LiveOf(q))
  OBVIOUS
<1>4. /\ x \in MeshRecords(V, E, F) /\ IsKind(p, "vertices", V, c.half, t)
      /\ IsKind(q, "edges", E, c.next, t) /\ IsKind(r, "faces", F, c.fhalf, t)
      /\ Sound(c, LiveOf(p), H, LiveOf(r))
  BY <1>1, <1>3 DEF IsMesh
<1>5. /\ c \in Arrays(V, D, F) /\ x.recycle \in BOOLEAN
      /\ p \in KindRecords(V) /\ q \in KindRecords(E) /\ r \in KindRecords(F)
  BY <1>2, <1>3, <1>4, MeshFields
<1>6. PICK a, b, z, d : /\ a = RemovedKind(r, "faces", f) /\ b = SetFace(c, c.fhalf[f], Null)
                        /\ z = [x EXCEPT !.conn = b] /\ d = WithLink(b, "fhalf", f, r.free)
  OBVIOUS
<1>7. f \in LiveOf(r)
  BY <1>3 DEF Live, LiveOf
<1>8. /\ LiveOf(p) \subseteq V /\ LiveOf(q) \subseteq E
      /\ LiveOf(r) \subseteq F /\ GoneOf(r) \subseteq F /\ LiveOf(r) \cap GoneOf(r) = {}
  BY <1>5, LiveAndGone
<1>9. IsFiniteSet(D) /\ Integral(D)
  <2>1. Natural(E)
    BY <1>1, NumberedIs
  <2>. QED BY <2>1, <1>1, <1>2, HalvesAre, HalvesFinite
<1>10. PICK K : K = Without(LiveOf(r), f)
  OBVIOUS
<1>11. /\ b \in Arrays(V, D, F) /\ Sound(b, LiveOf(p), H, K)
       /\ b.half = c.half /\ b.next = c.next /\ b.fhalf = c.fhalf
  <2>1. PICK l, R : l = LiveOf(p) /\ R = LiveOf(r)
    OBVIOUS
  <2>2. Inside(l, H, R, V, D, F)
    BY <2>1, <1>2, <1>3, <1>8, HalvesWithin DEF Inside
  <2>3. Sound(c, l, H, R) /\ f \in R
    BY <2>1, <1>4, <1>7
  <2>4. /\ b \in Arrays(V, D, F) /\ Sound(b, l, H, Without(R, f))
        /\ b.half = c.half /\ b.next = c.next /\ b.fhalf = c.fhalf
    BY <2>2, <2>3, <1>5, <1>6, <1>9, ClearedSound
  <2>. QED BY <2>1, <2>4, <1>10
<1>12. /\ d \in Arrays(V, D, F) /\ d.fhalf[f] = r.free
       /\ \A w \in F : w # f => d.fhalf[w] = b.fhalf[w]
       /\ d.half = b.half /\ d.target = b.target /\ d.prev = b.prev /\ d.face = b.face
       /\ d.next = b.next
  <2>1. r.free \in Int /\ f \in F
    BY <1>5, <1>7, <1>8 DEF KindRecords
  <2>. QED BY <2>1, <1>6, <1>11 DEF Arrays, WithLink
<1>13. Sound(d, LiveOf(p), H, K)
  <2>1. PICK l : l = LiveOf(p)
    OBVIOUS
  <2>2. Sound(b, l, H, K)
    BY <2>1, <1>11
  <2>3. \A w \in H : b.target[w] \in l /\ b.face[w] \in K \cup {Null}
    BY <2>2 DEF Sound, IsValid
  <2>5. Agree(d, b, l, H, K)
    BY <1>8, <1>10, <1>12 DEF Agree, Without
  <2>6. l \in SUBSET l /\ K \in SUBSET K
    OBVIOUS
  <2>7. Sound(d, l, H, K)
    BY <2>2, <2>3, <2>5, <2>6, AgreeingSound
  <2>. QED BY <2>1, <2>7
<1>14. /\ Same(d.half, c.half, NodesOf("vertices", GoneOf(p)))
       /\ Same(d.next, c.next, NodesOf("edges", GoneOf(q)))
       /\ Same(d.fhalf, c.fhalf, NodesOf("faces", GoneOf(r)))
  <2>1. Same(d.half, c.half, NodesOf("vertices", GoneOf(p)))
    BY <1>11, <1>12 DEF Same
  <2>2. Same(d.next, c.next, NodesOf("edges", GoneOf(q)))
    BY <1>11, <1>12 DEF Same
  <2>3. Same(d.fhalf, c.fhalf, NodesOf("faces", GoneOf(r)))
    BY <1>7, <1>8, <1>11, <1>12 DEF Same, NodesOf, Node
  <2>. QED BY <2>1, <2>2, <2>3
<1>15. /\ LiveOf(a) = Without(LiveOf(r), f) /\ Kept(r, a, t) /\ IsKind(a, "faces", F, d.fhalf, t)
  <2>1. PICK m, k : m = Node("faces", f) /\ k = "faces"
    OBVIOUS
  <2>2. PICK link, other : link = c.fhalf /\ other = d.fhalf
    OBVIOUS
  <2>3. other[m] = r.free
    BY <2>1, <2>2, <1>12 DEF Node
  <2>4. IsKind(r, k, F, link, t) /\ Same(other, link, NodesOf(k, GoneOf(r)))
    BY <2>1, <2>2, <1>4, <1>14
  <2>5. a = RemovedKind(r, k, f) /\ m = Node(k, f)
    BY <2>1, <1>6
  <2>6. LiveOf(a) = Without(LiveOf(r), f) /\ Kept(r, a, t) /\ IsKind(a, k, F, other, t)
    BY <2>3, <2>4, <2>5, <1>7, KindRemoved
  <2>. QED BY <2>1, <2>2, <2>6
<1>16. IsKind(p, "vertices", V, d.half, t) /\ IsKind(q, "edges", E, d.next, t)
  <2>1. t <= t
    OBVIOUS
  <2>. QED BY <2>1, <1>4, <1>14, KindKept
<1>17. y.garbage = TRUE /\ y = MeshOf(p, q, a, y.garbage, x.recycle, d)
  <2>1. z \in MeshRecords(V, E, F)
    BY <1>2, <1>4, <1>6, <1>11 DEF MeshRecords
  <2>2. /\ z.vertices = p /\ z.edges = q /\ z.faces = r /\ z.recycle = x.recycle
        /\ z.conn = b
    BY <1>3, <1>4, <1>6 DEF MeshRecords
  <2>3. PICK g : g = z.faces.free
    OBVIOUS
  <2>4. /\ d = WithLink(z.conn, "fhalf", f, g) /\ a = RemovedKind(z.faces, "faces", f)
        /\ y = Removed(z, "faces", f)
    BY <2>2, <2>3, <1>3, <1>6
  <2>5. Flagged(y) /\ y = MeshOf(z.vertices, z.edges, a, y.garbage, z.recycle, d)
    BY <2>1, <2>3, <2>4, RemovedFaceIs
  <2>. QED BY <2>2, <2>5 DEF Flagged
<1>18. IsMesh(y, V, E, F, t)
  <2>1. LiveOf(a) = K
    BY <1>10, <1>15
  <2>2. Sound(d, LiveOf(p), HalvesOf(LiveOf(q)), LiveOf(a)) /\ d \in Arrays(V, HalvesOf(E), F)
    BY <2>1, <1>2, <1>3, <1>12, <1>13
  <2>3. PICK g \in BOOLEAN : g = y.garbage /\ g
    BY <1>17
  <2>. QED BY <2>2, <2>3, <1>5, <1>15, <1>16, <1>17, MeshIs
<1>19. Follows(x, y, t)
  BY <1>3, <1>15, <1>17, KeptItself DEF Follows, MeshOf
<1>. QED BY <1>1, <1>18, <1>19 DEF MeshOK

-----------------------------------------------------------------------------
(***************************************************************************)
(* Calls that change no element, or leave none.                            *)
(***************************************************************************)
LEMMA MeshLater ==
  ASSUME NEW t \in Nat, NEW u \in Nat, t <= u, NEW x, MeshOK(x, t)
  PROVE  MeshOK(x, u)
<1>1. PICK V, E, F : /\ Numbered(V) /\ Numbered(E) /\ Numbered(F)
                     /\ IsMesh(x, V, E, F, t)
  BY DEF MeshOK
<1>2. /\ IsKind(x.vertices, "vertices", V, x.conn.half, t)
      /\ IsKind(x.edges, "edges", E, x.conn.next, t)
      /\ IsKind(x.faces, "faces", F, x.conn.fhalf, t)
  BY <1>1 DEF IsMesh
<1>3. \A f, S : Same(f, f, S)
  BY DEF Same
<1>4. /\ IsKind(x.vertices, "vertices", V, x.conn.half, u)
      /\ IsKind(x.edges, "edges", E, x.conn.next, u)
      /\ IsKind(x.faces, "faces", F, x.conn.fhalf, u)
  BY <1>2, <1>3, KindKept
<1>5. IsMesh(x, V, E, F, u)
  BY <1>1, <1>4 DEF IsMesh
<1>. QED BY <1>1, <1>5 DEF MeshOK

(* set_recycle_garbage keeps the invariant of its mesh. *)
LEMMA RecycleStep ==
  ASSUME NEW t \in Nat, NEW x, MeshOK(x, t), NEW b \in BOOLEAN,
         NEW y, y = [x EXCEPT !.recycle = b]
  PROVE  MeshOK(y, t) /\ Follows(x, y, t)
<1>1. PICK V, E, F : /\ Numbered(V) /\ Numbered(E) /\ Numbered(F)
                     /\ IsMesh(x, V, E, F, t)
  BY DEF MeshOK
<1>2. x \in MeshRecords(V, E, F)
  BY <1>1 DEF IsMesh
<1>3. y \in MeshRecords(V, E, F)
  BY <1>2 DEF MeshRecords
<1>4. /\ y.vertices = x.vertices /\ y.edges = x.edges /\ y.faces = x.faces
      /\ y.garbage = x.garbage /\ y.conn = x.conn
  BY <1>2 DEF MeshRecords
<1>5. IsMesh(y, V, E, F, t)
  BY <1>1, <1>3, <1>4 DEF IsMesh
<1>. QED BY <1>1, <1>4, <1>5, KeptItself DEF MeshOK, Follows

(* The function on no elements. *)
LEMMA NothingIs ==
  \A S : Nothing \in [{} -> S]
BY DEF Nothing

(* A kind without elements. *)
LEMMA EmptyKind ==
  ASSUME NEW k, NEW t, NEW link
  PROVE  /\ IsKind(Empty, k, {}, link, t) /\ LiveOf(Empty) = {} /\ GoneOf(Empty) = {}
<1>1. /\ Empty.removed = Nothing /\ Empty.free = Null /\ Empty.count = 0
      /\ Empty.name = Nothing
  BY DEF Empty
<1>2. Empty \in KindRecords({})
  BY NothingIs DEF Empty, KindRecords, Null
<1>3. LiveOf(Empty) = {} /\ GoneOf(Empty) = {}
  BY <1>1 DEF LiveOf, GoneOf, Nothing
<1>4. NodesOf(k, GoneOf(Empty)) = {}
  BY <1>3 DEF NodesOf
<1>5. Chain(link, Empty.free, Null, NodesOf(k, GoneOf(Empty)), Empty.count)
  BY <1>1, <1>4, ChainEmpty
<1>6. Named(Empty, t) /\ Natural({})
  BY <1>3 DEF Named, Natural
<1>. QED BY <1>2, <1>3, <1>5, <1>6 DEF IsKind

(* clear leaves a mesh that has the invariant. *)
LEMMA ClearStep ==
  ASSUME NEW t, NEW x
  PROVE  MeshOK(Cleared, t) /\ Follows(x, Cleared, t)
<1>1. PICK I, c, q : I = {} /\ c = NoConnectivity /\ q = Empty
  OBVIOUS
<1>2. HalvesOf(I) = {} /\ LiveOf(q) = {} /\ GoneOf(q) = {}
  BY <1>1, EmptyKind DEF HalvesOf
<1>3. c \in Arrays(I, HalvesOf(I), I)
  BY <1>1, <1>2, NothingIs DEF NoConnectivity, Arrays
<1>4. Sound(c, LiveOf(q), HalvesOf(LiveOf(q)), LiveOf(q))
  <2>1. LiveOf(q) = {} /\ HalvesOf(LiveOf(q)) = {}
    BY <1>2 DEF HalvesOf
  <2>2. Sound(c, {}, {}, {})
    BY DEF Sound, AreNumbers, IsValid, IsManifold
  <2>. QED BY <2>1, <2>2
<1>5. /\ IsKind(q, "vertices", I, c.half, t) /\ IsKind(q, "edges", I, c.next, t)
      /\ IsKind(q, "faces", I, c.fhalf, t)
  BY <1>1, EmptyKind
<1>6. Numbered(I)
  <2>1. 0 \in Nat /\ I = 0 .. 0 - 1
    BY <1>1
  <2>. QED BY <2>1 DEF Numbered
<1>7. PICK g \in BOOLEAN, b \in BOOLEAN : g = FALSE /\ b = TRUE
  OBVIOUS
<1>8. Cleared = MeshOf(q, q, q, g, b, c)
  BY <1>1, <1>7 DEF Cleared, MeshOf
<1>9. IsMesh(Cleared, I, I, I, t)
  <2>1. g \/ NoneGone(q, q, q)
    BY <1>2 DEF NoneGone
  <2>. QED BY <2>1, <1>3, <1>4, <1>5, <1>8, MeshIs
<1>10. Follows(x, Cleared, t)
  BY <1>2, <1>8 DEF Follows, Kept, MeshOf
<1>. QED BY <1>6, <1>9, <1>10 DEF MeshOK

-----------------------------------------------------------------------------
(***************************************************************************)
(* Following a free list from its head.                                    *)
(***************************************************************************)
LEMMA FreeNodeIs ==
  ASSUME NEW x, NEW k, NEW D, NEW link \in [D -> Int], link = Link(x, k),
         NEW h \in Int, h = x[k].free, NEW f, f = FreeNode(x, k)
  PROVE  f[0] = h /\ \A i \in Nat : f[i + 1] = IF f[i] \in D THEN link[f[i]] ELSE Null
<1>1. FreeNode(x, k) = WalkOf(link, h, Null)
  BY DEF FreeNode, WalkOf
<1>. QED BY <1>1, WalkOfIs DEF Null, IsArray

(* There are as many nodes as elements. *)
LEMMA NodesCount ==
  ASSUME NEW k, NEW S, Natural(S), IsFiniteSet(S)
  PROVE  IsFiniteSet(NodesOf(k, S)) /\ Cardinality(NodesOf(k, S)) = Cardinality(S)
<1>1. PICK N : N = NodesOf(k, S)
  OBVIOUS
<1>2. PICK f : f = [i \in S |-> Node(k, i)]
  OBVIOUS
<1>3. f \in [S -> N]
  BY <1>1, <1>2 DEF NodesOf
<1>4. \A i, j \in S : f[i] = f[j] => i = j
  BY <1>2, NodesDiffer DEF Natural
<1>5. \A m \in N : \E i \in S : f[i] = m
  BY <1>1, <1>2 DEF NodesOf
<1>6. f \in Bijection(S, N)
  BY <1>3, <1>4, <1>5 DEF Bijection, Injection, IsInjective, Surjection
<1>. QED BY <1>1, <1>6, FS_Bijection DEF ExistsBijection

(* The first n nodes are those of N, all others Null. *)
ListsExactly(f, n, N) ==
  {f[i] : i \in 0 .. n - 1} = N /\ \A i \in Nat : i >= n => f[i] = Null

(* A free list for these nodes can run through link. *)
Holds(link, N) ==
  link \in [DOMAIN link -> Int] /\ N \subseteq DOMAIN link /\ Null \notin DOMAIN link

(* A free list holds exactly the removed elements, and ends. *)
LEMMA FreeListIs ==
  ASSUME NEW x, NEW k, NEW t, NEW I, Numbered(I), NEW link, link = Link(x, k),
         NEW q, q = x[k], IsKind(q, k, I, link, t), Holds(link, NodesOf(k, I))
  PROVE  /\ ListsExactly(FreeNode(x, k), q.count, NodesOf(k, GoneOf(q)))
         /\ q.count = Cardinality(GoneOf(q)) /\ q.count <= Num(x, k) /\ Num(x, k) \in Nat
<1>1. /\ Chain(link, q.free, Null, NodesOf(k, GoneOf(q)), q.count)
      /\ Natural(I) /\ q \in KindRecords(I) /\ q.free \in Int
  BY DEF IsKind, KindRecords
<1>2. GoneOf(q) \subseteq I /\ DOMAIN q.removed = I /\ IsFiniteSet(I)
  BY <1>1, LiveAndGone, NumberedIs
<1>3. PICK n, N, f, e : /\ n = q.count /\ N = NodesOf(k, GoneOf(q)) /\ f = FreeNode(x, k)
                        /\ e = q.free
  OBVIOUS
<1>0. PICK E : link \in [E -> Int] /\ NodesOf(k, I) \subseteq E /\ Null \notin E
  BY DEF Holds
<1>4. N \subseteq E
  BY <1>0, <1>2, <1>3 DEF NodesOf
<1>5. f[0] = e /\ \A i \in Nat : f[i + 1] = IF f[i] \in E THEN link[f[i]] ELSE Null
  BY <1>0, <1>1, <1>3, FreeNodeIs
<1>6. Chain(link, e, Null, N, n)
  BY <1>1, <1>3
<1>7. {f[i] : i \in 0 .. n - 1} = N /\ \A i \in Nat : i >= n => f[i] = Null
  BY <1>0, <1>4, <1>5, <1>6, ChainWalk
<1>8. Cardinality(N) = n
  BY <1>6, ChainCount
<1>9. IsFiniteSet(GoneOf(q)) /\ Cardinality(GoneOf(q)) <= Cardinality(I)
  BY <1>2, FS_Subset
<1>10. Natural(GoneOf(q))
  BY <1>1, <1>2 DEF Natural
<1>11. Cardinality(GoneOf(q)) = n
  BY <1>3, <1>8, <1>9, <1>10, NodesCount
<1>12. Num(x, k) = Cardinality(I) /\ Cardinality(I) \in Nat
  BY <1>2, FS_CardinalityType DEF Num
<1>. QED BY <1>3, <1>7, <1>9, <1>11, <1>12 DEF ListsExactly

(* The nodes on the free list are those of the removed elements. *)
LEMMA OnFreeListIs ==
  ASSUME NEW x, NEW k, NEW t, NEW I, Numbered(I), NEW link, link = Link(x, k),
         NEW q, q = x[k], IsKind(q, k, I, link, t), Holds(link, NodesOf(k, I))
  PROVE  OnFreeList(x, k) = NodesOf(k, GoneOf(q))
<1>1. PICK n, m, N, f : /\ n = q.count /\ m = Num(x, k) /\ N = NodesOf(k, GoneOf(q))
                        /\ f = FreeNode(x, k)
  OBVIOUS
<1>0. ListsExactly(f, n, N) /\ n <= m /\ m \in Nat
  BY <1>1, FreeListIs
<1>2. {f[i] : i \in 0 .. n - 1} = N /\ \A i \in Nat : i >= n => f[i] = Null
  BY <1>0 DEF ListsExactly
<1>3. n \in Nat /\ Natural(I) /\ GoneOf(q) \subseteq I
  BY <1>1, LiveAndGone DEF IsKind, KindRecords
<1>4. Natural(GoneOf(q))
  BY <1>3 DEF Natural
<1>5. Null \notin N
  BY <1>1, <1>4, NoNullNode
<1>6. OnFreeList(x, k) = {f[i] : i \in 0 .. m} \ {Null}
  BY <1>1 DEF OnFreeList
<1>7. ASSUME NEW i \in 0 .. m PROVE f[i] = Null \/ f[i] \in N
  BY <1>0, <1>2, <1>3
<1>8. ASSUME NEW i \in 0 .. n - 1 PROVE i \in 0 .. m /\ f[i] # Null
  BY <1>0, <1>2, <1>3, <1>5
<1>. QED BY <1>1, <1>2, <1>6, <1>7, <1>8

-----------------------------------------------------------------------------
(***************************************************************************)
(* join: the elements of another mesh, their numbers higher.               *)
(***************************************************************************)
UpTo(n) == 0 .. n - 1

Higher(z, d) == IF z = Null THEN Null ELSE z + d

(* There are n numbers below n. *)
LEMMA UpToCount ==
  ASSUME NEW n \in Nat
  PROVE  IsFiniteSet(UpTo(n)) /\ Cardinality(UpTo(n)) = n
<1>1. 0 \in Int /\ n - 1 \in Int /\ (n = 0 <=> 0 > n - 1)
  OBVIOUS
<1>2. IsFiniteSet(0 .. n - 1) /\ Cardinality(0 .. n - 1) = n
  BY <1>1, FS_Interval
<1>. QED BY <1>2 DEF UpTo

IsOn(r, S) == r = [i \in S |-> r[i]]

(* g after f. *)
Follow(r, f, g, n, m, d) ==
  /\ IsOn(r, UpTo(n + m)) /\ Same(r, f, UpTo(n))
  /\ \A j \in UpTo(m) : r[j + n] = Higher(g[j], d)

(* An array that was appended to another, with shifted indices. *)
LEMMA AppendedIs ==
  ASSUME NEW n \in Nat, NEW m \in Nat, NEW f, NEW g, DOMAIN f = UpTo(n), DOMAIN g = UpTo(m),
         NEW d, NEW r, r = Appended(f, g, d)
  PROVE  Follow(r, f, g, n, m, d)
<1>1. Cardinality(DOMAIN f) = n /\ Cardinality(DOMAIN g) = m
  BY UpToCount
<1>2. r = [i \in 0 .. n + m - 1 |->
             IF i < n THEN f[i] ELSE IF g[i - n] = Null THEN Null ELSE g[i - n] + d]
  BY <1>1 DEF Appended
<1>3. UpTo(n + m) = 0 .. n + m - 1 /\ UpTo(n) = 0 .. n - 1 /\ UpTo(m) = 0 .. m - 1
  BY DEF UpTo
<1>4. Same(r, f, UpTo(n))
  BY <1>2, <1>3 DEF Same
<1>5. ASSUME NEW j \in UpTo(m) PROVE r[j + n] = Higher(g[j], d)
  <2>1. j + n \in 0 .. n + m - 1 /\ ~(j + n < n) /\ (j + n) - n = j
    BY <1>3
  <2>. QED BY <2>1, <1>2 DEF Higher
<1>. QED BY <1>2, <1>3, <1>4, <1>5 DEF Follow, IsOn

(* An array that another one was copied behind. *)
LEMMA ResizedIs ==
  ASSUME NEW n \in Nat, NEW m \in Nat, NEW f, NEW g, DOMAIN f = UpTo(n), DOMAIN g = UpTo(m),
         NEW r, r = Resized(f, g)
  PROVE  /\ DOMAIN r = UpTo(n + m) /\ Same(r, f, UpTo(n))
         /\ \A j \in UpTo(m) : r[j + n] = g[j]
         /\ \A i \in UpTo(n + m) : r[i] \in {f[x] : x \in UpTo(n)} \cup {g[x] : x \in UpTo(m)}
<1>1. Cardinality(DOMAIN f) = n /\ Cardinality(DOMAIN g) = m
  BY UpToCount
<1>2. r = [i \in 0 .. n + m - 1 |-> IF i < n THEN f[i] ELSE g[i - n]]
  BY <1>1 DEF Resized
<1>3. UpTo(n + m) = 0 .. n + m - 1 /\ UpTo(n) = 0 .. n - 1 /\ UpTo(m) = 0 .. m - 1
  BY DEF UpTo
<1>4. Same(r, f, UpTo(n))
  BY <1>2, <1>3 DEF Same
<1>5. ASSUME NEW j \in UpTo(m) PROVE r[j + n] = g[j]
  <2>1. j + n \in 0 .. n + m - 1 /\ ~(j + n < n) /\ (j + n) - n = j
    BY <1>3
  <2>. QED BY <2>1, <1>2
<1>6. ASSUME NEW i \in UpTo(n + m)
      PROVE  r[i] \in {f[x] : x \in UpTo(n)} \cup {g[x] : x \in UpTo(m)}
  <2>1. CASE i < n
    BY <2>1, <1>2, <1>3
  <2>2. CASE ~(i < n)
    <3>1. i - n \in UpTo(m)
      BY <2>2, <1>3
    <3>. QED BY <2>2, <3>1, <1>2, <1>3
  <2>. QED BY <2>1, <2>2
<1>. QED BY <1>2, <1>3, <1>4, <1>5, <1>6

(* An index in two meshes, one after the other. *)
LEMMA EitherMesh ==
  ASSUME NEW n \in Nat, NEW m \in Nat, NEW i \in UpTo(n + m)
  PROVE  i \in UpTo(n) \/ (i - n \in UpTo(m) /\ (i - n) + n = i)
BY DEF UpTo

(* The indices of two meshes, one after the other. *)
LEMMA ShiftedApart ==
  ASSUME NEW n \in Nat, NEW m \in Nat
  PROVE  /\ UpTo(n + m) = UpTo(n) \cup Shifted(UpTo(m), n)
         /\ UpTo(n) \cap Shifted(UpTo(m), n) = {}
<1>1. \A j \in UpTo(m) : j + n \in UpTo(n + m) /\ j + n \notin UpTo(n)
  BY DEF UpTo
<1>2. UpTo(n) \subseteq UpTo(n + m)
  BY DEF UpTo
<1>. QED BY <1>1, <1>2, EitherMesh DEF Shifted

(* The members of one kind in both meshes. *)
JoinedMembers(p, q, d, t) ==
  Members(Resized(p.removed, q.removed), IF q.free = Null THEN p.free ELSE q.free + d,
          p.count + q.count, Appended(p.name, q.name, t))

(* Nodes are shifted with their elements. *)
LEMMA NodesShifted ==
  ASSUME NEW k, NEW S, Natural(S), NEW n \in Nat
  PROVE  NodesOf(k, Shifted(S, n)) = Shifted(NodesOf(k, S), Node(k, n))
<1>1. \A i \in S : Node(k, i + n) = Node(k, i) + Node(k, n)
  BY DEF Natural, Node
<1>. QED BY <1>1 DEF NodesOf, Shifted

(* The elements of both kinds, live and removed, after a join. *)
LEMMA JoinedElements ==
  ASSUME NEW n \in Nat, NEW m \in Nat, NEW p \in KindRecords(UpTo(n)),
         NEW q \in KindRecords(UpTo(m)), NEW r, NEW d, NEW t, r = JoinedMembers(p, q, d, t)
  PROVE  /\ r.removed \in [UpTo(n + m) -> BOOLEAN]
         /\ LiveOf(r) = LiveOf(p) \cup Shifted(LiveOf(q), n)
         /\ GoneOf(r) = GoneOf(p) \cup Shifted(GoneOf(q), n)
<1>1. p.removed \in [UpTo(n) -> BOOLEAN] /\ q.removed \in [UpTo(m) -> BOOLEAN]
  BY DEF KindRecords
<1>2. PICK f, g, e : f = p.removed /\ g = q.removed /\ e = r.removed /\ e = Resized(f, g)
  BY DEF JoinedMembers, Members
<1>3. DOMAIN f = UpTo(n) /\ DOMAIN g = UpTo(m)
  BY <1>1, <1>2
<1>4. /\ DOMAIN e = UpTo(n + m) /\ Same(e, f, UpTo(n))
      /\ \A j \in UpTo(m) : e[j + n] = g[j]
      /\ \A i \in UpTo(n + m) : e[i] \in {f[x] : x \in UpTo(n)} \cup {g[x] : x \in UpTo(m)}
  BY <1>2, <1>3, ResizedIs
<1>5. e \in [UpTo(n + m) -> BOOLEAN]
  <2>1. e = [i \in UpTo(n + m) |-> e[i]]
    BY <1>2, <1>4 DEF Resized
  <2>2. \A i \in UpTo(n + m) : e[i] \in BOOLEAN
    BY <1>1, <1>2, <1>4
  <2>. QED BY <2>1, <2>2
<1>6. \A i \in UpTo(n) : e[i] = f[i] /\ i \in UpTo(n + m)
  BY <1>4 DEF Same, UpTo
<1>7. \A j \in UpTo(m) : e[j + n] = g[j] /\ j + n \in UpTo(n + m)
  BY <1>4 DEF UpTo
<1>8. \A i \in UpTo(n + m) : i \in UpTo(n) \/ (i - n \in UpTo(m) /\ (i - n) + n = i)
  BY EitherMesh
<1>9. LiveOf(r) = LiveOf(p) \cup Shifted(LiveOf(q), n)
  BY <1>1, <1>2, <1>3, <1>4, <1>6, <1>7, <1>8 DEF LiveOf, Shifted
<1>10. GoneOf(r) = GoneOf(p) \cup Shifted(GoneOf(q), n)
  BY <1>1, <1>2, <1>3, <1>4, <1>6, <1>7, <1>8 DEF GoneOf, Shifted
<1>. QED BY <1>2, <1>5, <1>9, <1>10

(* Names after a join: those of the second mesh are raised. *)
LEMMA JoinedNames ==
  ASSUME NEW n \in Nat, NEW m \in Nat, NEW p \in KindRecords(UpTo(n)),
         NEW q \in KindRecords(UpTo(m)), NEW d, NEW t \in Nat, Named(p, t), Named(q, t),
         NEW r, r = JoinedMembers(p, q, d, t), NEW u, u = 2 * t
  PROVE  r.name \in [UpTo(n + m) -> Nat] /\ Named(r, u) /\ Kept(p, r, t)
<1>1. p.name \in [UpTo(n) -> Nat] /\ q.name \in [UpTo(m) -> Nat]
  BY DEF KindRecords
<1>2. PICK f, g, e : f = p.name /\ g = q.name /\ e = r.name /\ e = Appended(f, g, t)
  BY DEF JoinedMembers, Members
<1>3. Follow(e, f, g, n, m, t)
  <2>1. DOMAIN f = UpTo(n) /\ DOMAIN g = UpTo(m)
    BY <1>1, <1>2
  <2>. QED BY <2>1, <1>2, AppendedIs
<1>4. \A i \in UpTo(n) : e[i] = f[i] /\ f[i] \in Nat
  BY <1>1, <1>2, <1>3 DEF Follow, Same
<1>5. \A j \in UpTo(m) : e[j + n] = g[j] + t /\ g[j] \in Nat
  BY <1>1, <1>2, <1>3 DEF Follow, Higher, Null
<1>6. \A i \in UpTo(n + m) : i \in UpTo(n) \/ (i - n \in UpTo(m) /\ (i - n) + n = i)
  BY EitherMesh
<1>7. e \in [UpTo(n + m) -> Nat]
  <2>1. e = [i \in UpTo(n + m) |-> e[i]]
    BY <1>3 DEF Follow, IsOn
  <2>2. ASSUME NEW i \in UpTo(n + m) PROVE e[i] \in Nat
    BY <1>4, <1>5, <1>6
  <2>. QED BY <2>1, <2>2
<1>8. LiveOf(r) = LiveOf(p) \cup Shifted(LiveOf(q), n)
  BY JoinedElements
<1>9. LiveOf(p) \subseteq UpTo(n) /\ LiveOf(q) \subseteq UpTo(m)
  BY LiveAndGone
<1>10. \A i \in LiveOf(p) : e[i] = f[i] /\ e[i] < t /\ e[i] \in Nat
  BY <1>2, <1>4, <1>9 DEF Named
<1>11. \A j \in LiveOf(q) : e[j + n] = g[j] + t /\ g[j] < t /\ g[j] \in Nat
  BY <1>2, <1>5, <1>9 DEF Named
<1>12. \A i \in LiveOf(r) : i \in LiveOf(p) \/ \E j \in LiveOf(q) : i = j + n
  BY <1>8 DEF Shifted
<1>13. ASSUME NEW i \in LiveOf(r)
       PROVE  e[i] < u /\ (e[i] < t => i \in LiveOf(p) /\ f[i] = e[i])
  <2>1. CASE i \in LiveOf(p)
    BY <2>1, <1>10
  <2>2. CASE \E j \in LiveOf(q) : i = j + n
    BY <2>2, <1>11
  <2>. QED BY <2>1, <2>2, <1>12
<1>14. ASSUME NEW i \in LiveOf(r), NEW l \in LiveOf(r), e[i] = e[l] PROVE i = l
  <2>1. CASE i \in LiveOf(p) /\ l \in LiveOf(p)
    BY <2>1, <1>2, <1>10, <1>14 DEF Named
  <2>2. CASE i \in LiveOf(p) /\ l \notin LiveOf(p)
    BY <2>2, <1>10, <1>11, <1>12, <1>14
  <2>3. CASE i \notin LiveOf(p) /\ l \in LiveOf(p)
    BY <2>3, <1>10, <1>11, <1>12, <1>14
  <2>4. CASE i \notin LiveOf(p) /\ l \notin LiveOf(p)
    <3>1. PICK a \in LiveOf(q), b \in LiveOf(q) : i = a + n /\ l = b + n
      BY <2>4, <1>12
    <3>2. g[a] = g[b]
      BY <3>1, <1>11, <1>14
    <3>. QED BY <3>1, <3>2, <1>2 DEF Named
  <2>. QED BY <2>1, <2>2, <2>3, <2>4
<1>15. Named(r, u)
  BY <1>2, <1>13, <1>14 DEF Named
<1>16. Kept(p, r, t)
  BY <1>2, <1>13 DEF Kept
<1>. QED BY <1>2, <1>7, <1>15, <1>16

(* Two kinds are joined: the free list of the second one is put before     *)
(* that of the first.                                                      *)
LEMMA KindJoined ==
  ASSUME NEW k, NEW t \in Nat, NEW n \in Nat, NEW m \in Nat, NEW p, NEW q, NEW a, NEW b,
         IsKind(p, k, UpTo(n), a, t), IsKind(q, k, UpTo(m), b, t),
         NEW d, d = Node(k, n), NEW r, r = JoinedMembers(p, q, d, t),
         NEW link, Same(link, a, NodesOf(k, GoneOf(p))),
         Spliced(link, b, Null, NodesOf(k, GoneOf(q)), d, p.free), NEW u, u = 2 * t
  PROVE  IsKind(r, k, UpTo(n + m), link, u) /\ Kept(p, r, t)
<1>1. /\ p \in KindRecords(UpTo(n)) /\ q \in KindRecords(UpTo(m)) /\ Named(p, t) /\ Named(q, t)
      /\ Chain(a, p.free, Null, NodesOf(k, GoneOf(p)), p.count)
      /\ Chain(b, q.free, Null, NodesOf(k, GoneOf(q)), q.count)
  BY DEF IsKind
<1>2. /\ r.removed \in [UpTo(n + m) -> BOOLEAN] /\ GoneOf(r) = GoneOf(p) \cup Shifted(GoneOf(q), n)
      /\ r.name \in [UpTo(n + m) -> Nat] /\ Named(r, u) /\ Kept(p, r, t)
  BY <1>1, JoinedElements, JoinedNames
<1>3. /\ r.free = IF q.free = Null THEN p.free ELSE q.free + d
      /\ r.count = p.count + q.count
  BY DEF JoinedMembers, Members
<1>4. PICK M, N, f, g, i, j : /\ M = NodesOf(k, GoneOf(p)) /\ N = NodesOf(k, GoneOf(q))
                              /\ f = p.free /\ g = q.free /\ i = p.count /\ j = q.count
  OBVIOUS
<1>5. d \in Nat /\ f \in Int /\ g \in Int /\ i \in Nat /\ j \in Nat
  BY <1>1, <1>4, NodeIs DEF KindRecords
<1>6. /\ GoneOf(p) \subseteq UpTo(n) /\ GoneOf(q) \subseteq UpTo(m)
      /\ Natural(GoneOf(p)) /\ Natural(GoneOf(q)) /\ Natural(UpTo(n + m))
  <2>1. GoneOf(p) \subseteq UpTo(n) /\ GoneOf(q) \subseteq UpTo(m)
    BY <1>1, LiveAndGone
  <2>2. Natural(GoneOf(p)) /\ Natural(GoneOf(q)) /\ Natural(UpTo(n + m))
    BY <2>1 DEF UpTo, Natural
  <2>. QED BY <2>1, <2>2
<1>7. N \subseteq Int /\ Null \notin N
  BY <1>4, <1>6, NoNullNode DEF Natural
<1>8. Chain(link, f, Null, M, i)
  <2>1. Chain(a, f, Null, M, i) /\ \A x \in M : link[x] = a[x]
    BY <1>1, <1>4 DEF Same
  <2>. QED BY <2>1, ChainAgree
<1>9. Chain(link, r.free, f, Shifted(N, d), j)
  <2>1. Chain(b, g, Null, N, j)
    BY <1>1, <1>4
  <2>2. PICK h, e : h = r.free /\ e = Null
    OBVIOUS
  <2>3. Spliced(link, b, e, N, d, f) /\ e \notin N /\ Integral(N) /\ d \in Int
    BY <2>2, <1>4, <1>5, <1>7 DEF Integral
  <2>4. h = IF g = e THEN f ELSE g + d
    BY <2>2, <1>3, <1>4
  <2>5. Chain(b, g, e, N, j)
    BY <2>1, <2>2
  <2>6. Chain(link, h, f, Shifted(N, d), j)
    BY <2>3, <2>4, <2>5, ChainSpliced
  <2>. QED BY <2>2, <2>6
<1>10. NodesOf(k, GoneOf(r)) = Shifted(N, d) \cup M /\ Shifted(N, d) \cap M = {}
  <2>1. NodesOf(k, Shifted(GoneOf(q), n)) = Shifted(N, d)
    BY <1>4, <1>6, NodesShifted
  <2>2. NodesOf(k, GoneOf(r)) = M \cup NodesOf(k, Shifted(GoneOf(q), n))
    BY <1>2, <1>4 DEF NodesOf
  <2>3. ASSUME NEW x \in GoneOf(p), NEW z \in Shifted(GoneOf(q), n), Node(k, x) = Node(k, z)
        PROVE  FALSE
    <3>1. x \in UpTo(n) /\ x \in Nat /\ z \in Nat /\ z \notin UpTo(n)
      BY <1>6 DEF Shifted, UpTo, Natural
    <3>2. x = z
      BY <3>1, <2>3, NodesDiffer
    <3>. QED BY <3>1, <3>2
  <2>4. Shifted(N, d) \cap M = {}
    BY <2>1, <2>3, <1>4 DEF NodesOf
  <2>. QED BY <2>1, <2>2, <2>4
<1>11. Chain(link, r.free, Null, NodesOf(k, GoneOf(r)), r.count)
  <2>1. PICK S, h, c : S = Shifted(N, d) /\ h = r.free /\ c = r.count
    OBVIOUS
  <2>2. Chain(link, h, f, S, j) /\ S \cap M = {}
    BY <2>1, <1>9, <1>10
  <2>3. Chain(link, h, Null, S \cup M, j + i)
    BY <2>2, <1>8, ChainConcat
  <2>4. c = j + i
    BY <2>1, <1>3, <1>4, <1>5
  <2>. QED BY <2>1, <2>3, <2>4, <1>10
<1>12. r \in KindRecords(UpTo(n + m))
  <2>1. r.free \in Int /\ r.count \in Nat
    BY <1>3, <1>4, <1>5
  <2>2. r = Members(r.removed, r.free, r.count, r.name)
    BY DEF JoinedMembers, Members
  <2>. QED BY <2>1, <2>2, <1>2, AreMembers
<1>. QED BY <1>2, <1>6, <1>11, <1>12 DEF IsKind

(* Links lead to nodes. *)
LEMMA LinksAreNatural ==
  ASSUME NEW q, NEW k, NEW I, NEW link, NEW t, IsKind(q, k, I, link, t),
         NEW m \in NodesOf(k, GoneOf(q)), link[m] # Null
  PROVE  link[m] \in Nat
<1>1. /\ Chain(link, q.free, Null, NodesOf(k, GoneOf(q)), q.count)
      /\ Natural(I) /\ q \in KindRecords(I)
  BY DEF IsKind
<1>2. PICK N, n : N = NodesOf(k, GoneOf(q)) /\ n = q.count
  OBVIOUS
<1>3. Natural(N)
  <2>1. Natural(GoneOf(q))
    BY <1>1, LiveAndGone DEF Natural
  <2>. QED BY <2>1, <1>2, NoNullNode
<1>4. PICK s : n \in Nat /\ IsWalk(s, link, q.free, Null, N, n)
  BY <1>1, <1>2 DEF Chain
<1>5. PICK i \in 0 .. n - 1 : s[i] = m
  BY <1>2, <1>4 DEF IsWalk
<1>6. link[m] = s[i + 1]
  BY <1>4, <1>5 DEF IsWalk
<1>7. i + 1 \in 0 .. n - 1
  <2>1. i + 1 # n
    BY <1>4, <1>6 DEF IsWalk
  <2>. QED BY <2>1, <1>4
<1>8. s[i + 1] \in N
  BY <1>4, <1>7 DEF IsWalk
<1>. QED BY <1>3, <1>6, <1>8 DEF Natural

(* Relinked changes the links of the removed elements only. *)
RelinkedAs(r, f, g, n, m, N, d, h) ==
  /\ IsOn(r, UpTo(n + m)) /\ Same(r, f, UpTo(n)) /\ Spliced(r, g, Null, N, n, h)
  /\ \A j \in UpTo(m) : j \notin N => r[j + n] = Higher(g[j], d)

(* The links of the second mesh are shifted, and corrected on its free     *)
(* list.                                                                   *)
LEMMA RelinkedIs ==
  ASSUME NEW x, NEW y, NEW k \in Kinds, NEW N, N = OnFreeList(y, k), NEW n \in Nat, NEW m \in Nat,
         n = Node(k, Num(x, k)), NEW d \in Nat, d = 2 * Num(x, "edges"), Num(x, k) \in Nat,
         NEW h, h = x[k].free, NEW f, NEW g, DOMAIN f = UpTo(n), g \in [UpTo(m) -> Int],
         N \subseteq UpTo(m), \A j \in N : g[j] = Null \/ g[j] \in Nat,
         NEW r, r = Relinked(x, y, k, Appended(f, g, d))
  PROVE  RelinkedAs(r, f, g, n, m, N, d, h)
<1>1. PICK a : a = Appended(f, g, d)
  OBVIOUS
<1>2. Follow(a, f, g, n, m, d)
  <2>1. DOMAIN g = UpTo(m)
    OBVIOUS
  <2>. QED BY <2>1, <1>1, AppendedIs
<1>3. /\ DOMAIN a = UpTo(n + m) /\ Same(a, f, UpTo(n))
      /\ \A j \in UpTo(m) : a[j + n] = Higher(g[j], d)
  BY <1>2 DEF Follow, IsOn
<1>4. Correction(x, k) = n - d
  BY DEF Correction, Node, Kinds
<1>5. r = [i \in UpTo(n + m) |-> IF i \notin Shifted(N, n) THEN a[i]
                                 ELSE IF a[i] = Null THEN h ELSE a[i] + Correction(x, k)]
  BY <1>1, <1>3 DEF Relinked, Shifted
<1>6. \A i \in UpTo(n) : i \in UpTo(n + m) /\ i \notin Shifted(N, n)
  BY DEF UpTo, Shifted
<1>7. Same(r, f, UpTo(n))
  BY <1>3, <1>5, <1>6 DEF Same
<1>8. ASSUME NEW j \in UpTo(m)
      PROVE  j + n \in UpTo(n + m) /\ (j + n \in Shifted(N, n) <=> j \in N)
  <2>1. \A i \in N : i + n = j + n => i = j
    BY DEF UpTo
  <2>. QED BY <2>1 DEF UpTo, Shifted
<1>9. ASSUME NEW j \in UpTo(m), j \notin N PROVE r[j + n] = Higher(g[j], d)
  BY <1>3, <1>5, <1>8, <1>9
<1>10. ASSUME NEW j \in N PROVE r[j + n] = IF g[j] = Null THEN h ELSE g[j] + n
  <2>1. j \in UpTo(m) /\ a[j + n] = Higher(g[j], d)
    BY <1>3
  <2>2. r[j + n] = IF a[j + n] = Null THEN h ELSE a[j + n] + Correction(x, k)
    BY <2>1, <1>5, <1>8
  <2>3. CASE g[j] = Null
    BY <2>1, <2>2, <2>3 DEF Higher
  <2>4. CASE g[j] # Null
    <3>1. g[j] \in Nat /\ a[j + n] = g[j] + d /\ g[j] + d # Null
      BY <2>1, <2>4 DEF Higher, Null
    <3>. QED BY <2>2, <2>4, <3>1, <1>4
  <2>. QED BY <2>3, <2>4
<1>11. Spliced(r, g, Null, N, n, h)
  BY <1>10 DEF Spliced
<1>. QED BY <1>5, <1>7, <1>9, <1>11 DEF RelinkedAs, IsOn
(* An appended array has the type of its parts. *)
LEMMA FollowIsArray ==
  ASSUME NEW n \in Nat, NEW m \in Nat, NEW f, NEW g, NEW d \in Int, NEW r, Follow(r, f, g, n, m, d),
         f \in [UpTo(n) -> Int], g \in [UpTo(m) -> Int]
  PROVE  r \in [UpTo(n + m) -> Int]
<1>1. /\ IsOn(r, UpTo(n + m)) /\ Same(r, f, UpTo(n))
      /\ \A j \in UpTo(m) : r[j + n] = Higher(g[j], d)
  BY DEF Follow
<1>2. \A i \in UpTo(n + m) : i \in UpTo(n) \/ (i - n \in UpTo(m) /\ (i - n) + n = i)
  BY EitherMesh
<1>3. ASSUME NEW i \in UpTo(n + m) PROVE r[i] \in Int
  <2>1. CASE i \in UpTo(n)
    BY <2>1, <1>1 DEF Same
  <2>2. CASE i - n \in UpTo(m) /\ (i - n) + n = i
    <3>1. PICK j \in UpTo(m) : r[i] = Higher(g[j], d) /\ g[j] \in Int
      BY <2>2, <1>1
    <3>. QED BY <3>1 DEF Higher, Null
  <2>. QED BY <2>1, <2>2, <1>2
<1>. QED BY <1>1, <1>3 DEF IsOn

(* So has one that was corrected. *)
LEMMA RelinkedIsArray ==
  ASSUME NEW n \in Nat, NEW m \in Nat, NEW f, NEW g, NEW N, NEW d \in Int, NEW h \in Int,
         NEW r, RelinkedAs(r, f, g, n, m, N, d, h),
         f \in [UpTo(n) -> Int], g \in [UpTo(m) -> Int]
  PROVE  r \in [UpTo(n + m) -> Int]
<1>1. /\ IsOn(r, UpTo(n + m)) /\ Same(r, f, UpTo(n)) /\ Spliced(r, g, Null, N, n, h)
      /\ \A j \in UpTo(m) : j \notin N => r[j + n] = Higher(g[j], d)
  BY DEF RelinkedAs
<1>2. \A i \in UpTo(n + m) : i \in UpTo(n) \/ (i - n \in UpTo(m) /\ (i - n) + n = i)
  BY EitherMesh
<1>3. ASSUME NEW i \in UpTo(n + m) PROVE r[i] \in Int
  <2>1. CASE i \in UpTo(n)
    BY <2>1, <1>1 DEF Same
  <2>2. CASE i - n \in UpTo(m) /\ (i - n) + n = i
    <3>1. PICK j \in UpTo(m) : j + n = i /\ g[j] \in Int
      BY <2>2
    <3>2. CASE j \in N
      BY <3>1, <3>2, <1>1 DEF Spliced
    <3>3. CASE j \notin N
      BY <3>1, <3>3, <1>1 DEF Higher, Null
    <3>. QED BY <3>2, <3>3
  <2>. QED BY <2>1, <2>2, <1>2
<1>. QED BY <1>1, <1>3 DEF IsOn

(* The elements V, H, F of c, their numbers higher. *)
Moved(e, c, V, H, F, n, d, m) ==
  /\ \A v \in V : e.half[v + n] = Higher(c.half[v], d)
  /\ \A h \in H : /\ e.target[h + d] = Higher(c.target[h], n)
                  /\ e.next[h + d] = Higher(c.next[h], d)
                  /\ e.prev[h + d] = Higher(c.prev[h], d)
                  /\ e.face[h + d] = Higher(c.face[h], m)
  /\ \A f \in F : e.fhalf[f + m] = Higher(c.fhalf[f], d)

(* A shift can be undone. *)
LEMMA BackIs ==
  ASSUME NEW S, Natural(S), NEW n \in Nat, NEW a, a = [x \in Shifted(S, n) |-> x - n]
  PROVE  OneToOne(a, Shifted(S, n), S) /\ Natural(Shifted(S, n)) /\ \A s \in S : a[s + n] = s
BY DEF Natural, Shifted, OneToOne

(* A sound connectivity that is shifted is sound. *)
LEMMA MovedSound ==
  ASSUME NEW c, NEW V, NEW H, NEW F, Sound(c, V, H, F),
         NEW n \in Nat, NEW i \in Nat, NEW d, d = 2 * i, NEW m \in Nat,
         NEW e, Moved(e, c, V, H, F, n, d, m),
         NEW W, W = Shifted(V, n), NEW K, K = Shifted(H, d), NEW G, G = Shifted(F, m)
  PROVE  Sound(e, W, K, G)
<1>1. Natural(V) /\ Natural(H) /\ Natural(F) /\ d \in Nat
  BY DEF Sound, AreNumbers, Natural
<1>2. PICK av, ah, af : /\ av = [x \in Shifted(V, n) |-> x - n]
                        /\ ah = [x \in Shifted(H, d) |-> x - d]
                        /\ af = [x \in Shifted(F, m) |-> x - m]
  OBVIOUS
<1>3. /\ OneToOne(av, W, V) /\ OneToOne(ah, K, H) /\ OneToOne(af, G, F)
      /\ Natural(W) /\ Natural(K) /\ Natural(G)
      /\ \A s \in V : av[s + n] = s
      /\ \A s \in H : ah[s + d] = s
      /\ \A s \in F : af[s + m] = s
  BY <1>1, <1>2, BackIs
<1>4. /\ \A s \in V : s + n \in W /\ s # Null
      /\ \A s \in H : s + d \in K /\ s # Null
      /\ \A s \in F : s + m \in G /\ s # Null
  BY <1>1 DEF Shifted, Natural, Null
<1>5. \A h \in H : /\ c.next[h] \in H /\ c.prev[h] \in H /\ c.target[h] \in V
                   /\ c.face[h] \in F \cup {Null} /\ Opposite(h) \in H
  BY DEF Sound, IsValid, IsManifold
<1>6. /\ \A v \in V : c.half[v] # Null => c.half[v] \in H
      /\ \A f \in F : c.fhalf[f] \in H
  BY DEF Sound, IsValid
<1>7. \A h \in H : Opposite(h + d) = Opposite(h) + d
  BY <1>1 DEF Natural, Opposite
<1>8. ASSUME NEW h \in H
      PROVE  /\ e.next[h + d] \in K /\ ah[e.next[h + d]] = c.next[h]
             /\ e.prev[h + d] \in K /\ ah[e.prev[h + d]] = c.prev[h]
             /\ e.target[h + d] \in W /\ av[e.target[h + d]] = c.target[h]
             /\ \/ e.face[h + d] = Null /\ c.face[h] = Null
                \/ e.face[h + d] \in G /\ af[e.face[h + d]] = c.face[h]
             /\ Opposite(h + d) \in K /\ ah[Opposite(h + d)] = Opposite(h)
  <2>1. /\ e.target[h + d] = Higher(c.target[h], n) /\ e.next[h + d] = Higher(c.next[h], d)
        /\ e.prev[h + d] = Higher(c.prev[h], d) /\ e.face[h + d] = Higher(c.face[h], m)
    BY DEF Moved
  <2>2. /\ e.target[h + d] = c.target[h] + n /\ e.next[h + d] = c.next[h] + d
        /\ e.prev[h + d] = c.prev[h] + d
        /\ IF c.face[h] = Null THEN e.face[h + d] = Null ELSE e.face[h + d] = c.face[h] + m
    BY <2>1, <1>4, <1>5 DEF Higher
  <2>3. Opposite(h + d) \in K /\ ah[Opposite(h + d)] = Opposite(h)
    BY <1>3, <1>4, <1>5, <1>7
  <2>4. \/ e.face[h + d] = Null /\ c.face[h] = Null
        \/ e.face[h + d] \in G /\ af[e.face[h + d]] = c.face[h]
    BY <2>2, <1>3, <1>4, <1>5
  <2>. QED BY <2>2, <2>3, <2>4, <1>3, <1>4, <1>5
<1>9. ASSUME NEW h \in K
      PROVE  /\ e.next[h] \in K /\ ah[e.next[h]] = c.next[ah[h]]
             /\ e.prev[h] \in K /\ ah[e.prev[h]] = c.prev[ah[h]]
             /\ e.target[h] \in W /\ av[e.target[h]] = c.target[ah[h]]
             /\ \/ e.face[h] = Null /\ c.face[ah[h]] = Null
                \/ e.face[h] \in G /\ af[e.face[h]] = c.face[ah[h]]
             /\ Opposite(h) \in K /\ ah[Opposite(h)] = Opposite(ah[h])
  <2>1. PICK g \in H : h = g + d
    BY DEF Shifted
  <2>2. ah[h] = g
    BY <2>1, <1>3
  <2>. QED BY <2>1, <2>2, <1>8
<1>10. ASSUME NEW v \in W
       PROVE  \/ e.half[v] = Null /\ c.half[av[v]] = Null
              \/ e.half[v] \in K /\ ah[e.half[v]] = c.half[av[v]]
  <2>1. PICK w \in V : v = w + n
    BY DEF Shifted
  <2>2. av[v] = w /\ e.half[v] = Higher(c.half[w], d)
    BY <2>1, <1>3 DEF Moved
  <2>. QED BY <2>2, <1>3, <1>4, <1>6 DEF Higher
<1>11. ASSUME NEW f \in G PROVE e.fhalf[f] \in K /\ ah[e.fhalf[f]] = c.fhalf[af[f]]
  <2>1. PICK g \in F : f = g + m
    BY DEF Shifted
  <2>2. af[f] = g /\ e.fhalf[f] = Higher(c.fhalf[g], d)
    BY <2>1, <1>3 DEF Moved
  <2>. QED BY <2>2, <1>3, <1>4, <1>6 DEF Higher
<1>12. Renumbers(e, W, K, G, c, av, ah, af)
  BY <1>9, <1>10, <1>11 DEF Renumbers
<1>13. AreNumbers(W, K, G)
  BY <1>3 DEF AreNumbers, Natural
<1>. QED BY <1>3, <1>12, <1>13, RenumberedSound

(* The halfedges of the first n edges. *)
LEMMA HalvesUpTo ==
  ASSUME NEW n \in Nat
  PROVE  HalvesOf(UpTo(n)) = UpTo(2 * n)
<1>1. ASSUME NEW e \in UpTo(n) PROVE 2 * e \in UpTo(2 * n) /\ 2 * e + 1 \in UpTo(2 * n)
  BY DEF UpTo
<1>2. ASSUME NEW h \in UpTo(2 * n) PROVE h \in HalvesOf(UpTo(n))
  <2>1. h \div 2 \in UpTo(n) /\ (h = 2 * (h \div 2) \/ h = 2 * (h \div 2) + 1)
    BY DEF UpTo
  <2>. QED BY <2>1 DEF HalvesOf
<1>. QED BY <1>1, <1>2 DEF HalvesOf

(* Halfedges are shifted by twice as much as their edges. *)
LEMMA HalvesShifted ==
  ASSUME NEW S, Natural(S), NEW n \in Nat, NEW d, d = 2 * n
  PROVE  HalvesOf(Shifted(S, n)) = Shifted(HalvesOf(S), d)
<1>1. \A e \in S : 2 * (e + n) = 2 * e + d /\ 2 * (e + n) + 1 = (2 * e + 1) + d
  BY DEF Natural
<1>. QED BY <1>1 DEF HalvesOf, Shifted

(* The halfedges of two sets of edges. *)
LEMMA HalvesUnion ==
  ASSUME NEW S, NEW T
  PROVE  HalvesOf(S \cup T) = HalvesOf(S) \cup HalvesOf(T)
BY DEF HalvesOf

Within(S, T) == S \subseteq T

JoinsElements(z, p, q, n) ==
  /\ LiveOf(z) = LiveOf(p) \cup Shifted(LiveOf(q), n)
  /\ GoneOf(z) = GoneOf(p) \cup Shifted(GoneOf(q), n)

(* One kind of the elements of two meshes; the free lists are in r. *)
JoinsKind(z, r, k, p, q, f, g, n, m, d, t) ==
  /\ z = JoinedMembers(p, q, Node(k, n), t)
  /\ RelinkedAs(r, f, g, Node(k, n), Node(k, m), NodesOf(k, GoneOf(q)), d, p.free)
  /\ IsArray(r, UpTo(Node(k, n) + Node(k, m)))
  /\ Within(NodesOf(k, GoneOf(p)), UpTo(Node(k, n)))

(* A kind after a join has the invariant. *)
LEMMA KindSpliced ==
  ASSUME NEW k, NEW t \in Nat, NEW n \in Nat, NEW m \in Nat, NEW p, NEW q, NEW f, NEW g,
         IsKind(p, k, UpTo(n), f, t), IsKind(q, k, UpTo(m), g, t),
         NEW z, NEW r, NEW d, JoinsKind(z, r, k, p, q, f, g, n, m, d, t), NEW u, u = 2 * t
  PROVE  IsKind(z, k, UpTo(n + m), r, u) /\ Kept(p, z, t) /\ JoinsElements(z, p, q, n)
<1>1. PICK a, N : a = Node(k, n) /\ N = NodesOf(k, GoneOf(q))
  OBVIOUS
<1>2. RelinkedAs(r, f, g, a, Node(k, m), N, d, p.free) /\ z = JoinedMembers(p, q, a, t)
  BY <1>1 DEF JoinsKind
<1>3. Same(r, f, NodesOf(k, GoneOf(p)))
  BY <1>1, <1>2 DEF JoinsKind, RelinkedAs, Same, Within
<1>4. Spliced(r, g, Null, NodesOf(k, GoneOf(q)), a, p.free)
  BY <1>1, <1>2 DEF RelinkedAs
<1>5. IsKind(z, k, UpTo(n + m), r, u) /\ Kept(p, z, t)
  BY <1>1, <1>2, <1>3, <1>4, KindJoined
<1>6. /\ p \in KindRecords(UpTo(n)) /\ q \in KindRecords(UpTo(m))
  BY DEF IsKind
<1>7. JoinsElements(z, p, q, n)
  BY <1>2, <1>6, JoinedElements DEF JoinsElements
<1>. QED BY <1>5, <1>7

(* What join makes of a kind is such a kind. *)
LEMMA KindsJoin ==
  ASSUME NEW x, NEW y, NEW k \in Kinds, NEW t, t = clock,
         NEW n \in Nat, NEW m \in Nat, n = Num(x, k), m = Num(y, k),
         NEW p, NEW q, p = x[k], q = y[k], NEW f, NEW g, f = Link(x, k), g = Link(y, k),
         IsKind(p, k, UpTo(n), f, t), IsKind(q, k, UpTo(m), g, t),
         IsArray(f, UpTo(Node(k, n))), IsArray(g, UpTo(Node(k, m))),
         NEW d \in Nat, d = 2 * Num(x, "edges"),
         NEW z, z = JoinedKind(x, y, k), NEW r, r = Relinked(x, y, k, Appended(f, g, d))
  PROVE  JoinsKind(z, r, k, p, q, f, g, n, m, d, t)
<1>1. PICK a, b, h, N : /\ a = Node(k, n) /\ b = Node(k, m) /\ h = p.free
                        /\ N = NodesOf(k, GoneOf(q))
  OBVIOUS
<1>2. a \in Nat /\ b \in Nat /\ h \in Int /\ d \in Int
  BY <1>1, NodeIs DEF IsKind, KindRecords
<1>3. /\ p \in KindRecords(UpTo(n)) /\ q \in KindRecords(UpTo(m))
  BY DEF IsKind
<1>4. NodesOf(k, UpTo(m)) \subseteq UpTo(b) /\ NodesOf(k, UpTo(n)) \subseteq UpTo(a)
  <2>1. ASSUME NEW l \in Nat, NEW i \in UpTo(l) PROVE Node(k, i) \in UpTo(Node(k, l))
    BY DEF Node, UpTo
  <2>. QED BY <2>1, <1>1 DEF NodesOf
<1>5. N \subseteq UpTo(b) /\ Within(NodesOf(k, GoneOf(p)), UpTo(a))
  <2>1. GoneOf(q) \subseteq UpTo(m) /\ GoneOf(p) \subseteq UpTo(n)
    BY <1>3, LiveAndGone
  <2>. QED BY <2>1, <1>1, <1>4 DEF NodesOf, Within
<1>6. N = OnFreeList(y, k)
  <2>1. Numbered(UpTo(m))
    BY DEF Numbered, UpTo
  <2>2. Holds(g, NodesOf(k, UpTo(m)))
    BY <1>1, <1>4 DEF Holds, UpTo, Null, IsArray
  <2>3. PICK I : I = UpTo(m)
    OBVIOUS
  <2>4. Numbered(I) /\ Holds(g, NodesOf(k, I)) /\ IsKind(q, k, I, g, t)
    BY <2>1, <2>2, <2>3
  <2>. QED BY <2>4, <1>1, OnFreeListIs
<1>7. \A j \in N : g[j] = Null \/ g[j] \in Nat
  BY <1>1, LinksAreNatural
<1>8. RelinkedAs(r, f, g, a, b, N, d, h)
  <2>1. a = Node(k, Num(x, k)) /\ Num(x, k) \in Nat /\ h = x[k].free
    BY <1>1
  <2>2. DOMAIN f = UpTo(a) /\ g \in [UpTo(b) -> Int]
    BY <1>1 DEF IsArray
  <2>. QED BY <2>1, <2>2, <1>2, <1>5, <1>6, <1>7, RelinkedIs
<1>9. r \in [UpTo(a + b) -> Int]
  <2>1. f \in [UpTo(a) -> Int] /\ g \in [UpTo(b) -> Int]
    BY <1>1 DEF IsArray
  <2>. QED BY <2>1, <1>2, <1>8, RelinkedIsArray
<1>10. z = JoinedMembers(p, q, a, t)
  BY <1>1 DEF JoinedKind, JoinedMembers, Members
<1>. QED BY <1>1, <1>5, <1>8, <1>9, <1>10 DEF JoinsKind, IsArray

(* A mesh with n vertices, e edges and m faces, removed ones included. *)
Sized(x, n, e, m, t) ==
  /\ n \in Nat /\ e \in Nat /\ m \in Nat
  /\ n = Num(x, "vertices") /\ e = Num(x, "edges") /\ m = Num(x, "faces")
  /\ IsMesh(x, UpTo(n), UpTo(e), UpTo(m), t)

(* A mesh has a number of elements of each kind. *)
LEMMA MeshSized ==
  ASSUME NEW x, NEW t, MeshOK(x, t)
  PROVE  \E n, e, m : Sized(x, n, e, m, t)
<1>1. PICK V, E, F : Numbered(V) /\ Numbered(E) /\ Numbered(F) /\ IsMesh(x, V, E, F, t)
  BY DEF MeshOK
<1>2. PICK n \in Nat, e \in Nat, m \in Nat : V = UpTo(n) /\ E = UpTo(e) /\ F = UpTo(m)
  BY <1>1 DEF Numbered, UpTo
<1>3. /\ x.vertices \in KindRecords(UpTo(n)) /\ x.edges \in KindRecords(UpTo(e))
      /\ x.faces \in KindRecords(UpTo(m))
  BY <1>1, <1>2 DEF IsMesh, MeshRecords
<1>4. n = Num(x, "vertices") /\ e = Num(x, "edges") /\ m = Num(x, "faces")
  <2>1. PICK a, b, c : a = "vertices" /\ b = "edges" /\ c = "faces"
    OBVIOUS
  <2>2. /\ x[a] \in KindRecords(0 .. n - 1) /\ x[b] \in KindRecords(0 .. e - 1)
        /\ x[c] \in KindRecords(0 .. m - 1)
    BY <1>3, <2>1 DEF UpTo
  <2>3. Num(x, a) = n /\ Num(x, b) = e /\ Num(x, c) = m
    BY <2>2, NumIs
  <2>. QED BY <2>1, <2>3
<1>. QED BY <1>1, <1>2, <1>4 DEF Sized

(* What Sized says of the arrays. *)
LEMMA SizedArrays ==
  ASSUME NEW x, NEW n, NEW e, NEW m, NEW t, Sized(x, n, e, m, t), NEW c, c = x.conn
  PROVE  /\ IsArray(c.half, UpTo(Node("vertices", n)))
         /\ IsArray(c.next, UpTo(Node("edges", e))) /\ IsArray(c.fhalf, UpTo(Node("faces", m)))
         /\ IsArray(c.target, UpTo(2 * e)) /\ IsArray(c.prev, UpTo(2 * e))
         /\ IsArray(c.face, UpTo(2 * e))
<1>1. c \in Arrays(UpTo(n), HalvesOf(UpTo(e)), UpTo(m)) /\ e \in Nat
  BY DEF Sized, IsMesh, MeshRecords
<1>2. PICK D : D = HalvesOf(UpTo(e)) /\ D = UpTo(2 * e)
  BY <1>1, HalvesUpTo
<1>3. /\ Node("vertices", n) = n /\ Node("edges", e) = 2 * e /\ Node("faces", m) = m
  BY DEF Node
<1>4. /\ c.half \in [UpTo(n) -> Int] /\ c.fhalf \in [UpTo(m) -> Int]
      /\ c.next \in [D -> Int] /\ c.target \in [D -> Int] /\ c.prev \in [D -> Int]
      /\ c.face \in [D -> Int]
  BY <1>1, <1>2 DEF Arrays
<1>. QED BY <1>2, <1>3, <1>4 DEF IsArray

(* The three kinds after a join. *)
LEMMA JoinedKinds ==
  ASSUME NEW x, NEW y, NEW n, NEW e, NEW m, NEW a, NEW b, NEW c, NEW t, t = clock,
         Sized(x, n, e, m, t), Sized(y, a, b, c, t), NEW d, d = 2 * e, NEW z, z = Joined(x, y)
  PROVE  /\ JoinsKind(z.vertices, z.conn.half, "vertices", x.vertices, y.vertices,
                      x.conn.half, y.conn.half, n, a, d, t)
         /\ JoinsKind(z.edges, z.conn.next, "edges", x.edges, y.edges,
                      x.conn.next, y.conn.next, e, b, d, t)
         /\ JoinsKind(z.faces, z.conn.fhalf, "faces", x.faces, y.faces,
                      x.conn.fhalf, y.conn.fhalf, m, c, d, t)
<1>1. /\ n \in Nat /\ e \in Nat /\ m \in Nat /\ a \in Nat /\ b \in Nat /\ c \in Nat
      /\ n = Num(x, "vertices") /\ e = Num(x, "edges") /\ m = Num(x, "faces")
      /\ a = Num(y, "vertices") /\ b = Num(y, "edges") /\ c = Num(y, "faces")
  BY DEF Sized
<1>2. /\ IsKind(x.vertices, "vertices", UpTo(n), x.conn.half, t)
      /\ IsKind(x.edges, "edges", UpTo(e), x.conn.next, t)
      /\ IsKind(x.faces, "faces", UpTo(m), x.conn.fhalf, t)
      /\ IsKind(y.vertices, "vertices", UpTo(a), y.conn.half, t)
      /\ IsKind(y.edges, "edges", UpTo(b), y.conn.next, t)
      /\ IsKind(y.faces, "faces", UpTo(c), y.conn.fhalf, t)
  BY DEF Sized, IsMesh
<1>3. /\ IsArray(x.conn.half, UpTo(Node("vertices", n)))
      /\ IsArray(x.conn.next, UpTo(Node("edges", e)))
      /\ IsArray(x.conn.fhalf, UpTo(Node("faces", m)))
      /\ IsArray(y.conn.half, UpTo(Node("vertices", a)))
      /\ IsArray(y.conn.next, UpTo(Node("edges", b)))
      /\ IsArray(y.conn.fhalf, UpTo(Node("faces", c)))
  BY SizedArrays
<1>4. d \in Nat /\ d = 2 * Num(x, "edges")
  BY <1>1
<1>5. /\ z.vertices = JoinedKind(x, y, "vertices") /\ z.edges = JoinedKind(x, y, "edges")
      /\ z.faces = JoinedKind(x, y, "faces")
      /\ z.conn.half = Relinked(x, y, "vertices", Appended(x.conn.half, y.conn.half, d))
      /\ z.conn.next = Relinked(x, y, "edges", Appended(x.conn.next, y.conn.next, d))
      /\ z.conn.fhalf = Relinked(x, y, "faces", Appended(x.conn.fhalf, y.conn.fhalf, d))
  BY <1>1 DEF Joined
<1>6. JoinsKind(z.vertices, z.conn.half, "vertices", x.vertices, y.vertices,
                x.conn.half, y.conn.half, n, a, d, t)
  <2>1. PICK k, p, q, f, g, w, r : /\ k = "vertices" /\ p = x[k] /\ q = y[k]
                                   /\ f = Link(x, k) /\ g = Link(y, k)
                                   /\ w = z.vertices /\ r = z.conn.half
    OBVIOUS
  <2>2. k \in Kinds /\ p = x.vertices /\ q = y.vertices /\ f = x.conn.half /\ g = y.conn.half
    BY <2>1 DEF Kinds, Link, LinkOf
  <2>3. /\ n = Num(x, k) /\ a = Num(y, k)
        /\ IsKind(p, k, UpTo(n), f, t) /\ IsKind(q, k, UpTo(a), g, t)
        /\ IsArray(f, UpTo(Node(k, n))) /\ IsArray(g, UpTo(Node(k, a)))
        /\ w = JoinedKind(x, y, k) /\ r = Relinked(x, y, k, Appended(f, g, d))
    BY <1>1, <1>2, <1>3, <1>5, <2>1, <2>2
  <2>4. JoinsKind(w, r, k, p, q, f, g, n, a, d, t)
    BY <1>1, <1>4, <2>1, <2>2, <2>3, KindsJoin
  <2>. QED BY <2>1, <2>2, <2>4
<1>7. JoinsKind(z.edges, z.conn.next, "edges", x.edges, y.edges,
                x.conn.next, y.conn.next, e, b, d, t)
  <2>1. PICK k, p, q, f, g, w, r : /\ k = "edges" /\ p = x[k] /\ q = y[k]
                                   /\ f = Link(x, k) /\ g = Link(y, k)
                                   /\ w = z.edges /\ r = z.conn.next
    OBVIOUS
  <2>2. k \in Kinds /\ p = x.edges /\ q = y.edges /\ f = x.conn.next /\ g = y.conn.next
    BY <2>1 DEF Kinds, Link, LinkOf
  <2>3. /\ e = Num(x, k) /\ b = Num(y, k)
        /\ IsKind(p, k, UpTo(e), f, t) /\ IsKind(q, k, UpTo(b), g, t)
        /\ IsArray(f, UpTo(Node(k, e))) /\ IsArray(g, UpTo(Node(k, b)))
        /\ w = JoinedKind(x, y, k) /\ r = Relinked(x, y, k, Appended(f, g, d))
    BY <1>1, <1>2, <1>3, <1>5, <2>1, <2>2
  <2>4. JoinsKind(w, r, k, p, q, f, g, e, b, d, t)
    BY <1>1, <1>4, <2>1, <2>2, <2>3, KindsJoin
  <2>. QED BY <2>1, <2>2, <2>4
<1>8. JoinsKind(z.faces, z.conn.fhalf, "faces", x.faces, y.faces,
                x.conn.fhalf, y.conn.fhalf, m, c, d, t)
  <2>1. PICK k, p, q, f, g, w, r : /\ k = "faces" /\ p = x[k] /\ q = y[k]
                                   /\ f = Link(x, k) /\ g = Link(y, k)
                                   /\ w = z.faces /\ r = z.conn.fhalf
    OBVIOUS
  <2>2. k \in Kinds /\ p = x.faces /\ q = y.faces /\ f = x.conn.fhalf /\ g = y.conn.fhalf
    BY <2>1 DEF Kinds, Link, LinkOf
  <2>3. /\ m = Num(x, k) /\ c = Num(y, k)
        /\ IsKind(p, k, UpTo(m), f, t) /\ IsKind(q, k, UpTo(c), g, t)
        /\ IsArray(f, UpTo(Node(k, m))) /\ IsArray(g, UpTo(Node(k, c)))
        /\ w = JoinedKind(x, y, k) /\ r = Relinked(x, y, k, Appended(f, g, d))
    BY <1>1, <1>2, <1>3, <1>5, <2>1, <2>2
  <2>4. JoinsKind(w, r, k, p, q, f, g, m, c, d, t)
    BY <1>1, <1>4, <2>1, <2>2, <2>3, KindsJoin
  <2>. QED BY <2>1, <2>2, <2>4
<1>. QED BY <1>6, <1>7, <1>8

(* The other arrays of the connectivity. *)
LEMMA JoinedArrays ==
  ASSUME NEW x, NEW y, NEW n, NEW e, NEW m, NEW a, NEW b, NEW c, NEW t,
         Sized(x, n, e, m, t), Sized(y, a, b, c, t), NEW d, d = 2 * e, NEW z, z = Joined(x, y),
         NEW l, l = 2 * b
  PROVE  /\ Follow(z.conn.target, x.conn.target, y.conn.target, d, l, n)
         /\ Follow(z.conn.prev, x.conn.prev, y.conn.prev, d, l, d)
         /\ Follow(z.conn.face, x.conn.face, y.conn.face, d, l, m)
<1>1. /\ n \in Nat /\ e \in Nat /\ m \in Nat /\ b \in Nat
      /\ n = Num(x, "vertices") /\ e = Num(x, "edges") /\ m = Num(x, "faces")
  BY DEF Sized
<1>2. d \in Nat /\ l \in Nat
  BY <1>1
<1>3. /\ IsArray(x.conn.target, UpTo(d)) /\ IsArray(x.conn.prev, UpTo(d))
      /\ IsArray(x.conn.face, UpTo(d)) /\ IsArray(y.conn.target, UpTo(l))
      /\ IsArray(y.conn.prev, UpTo(l)) /\ IsArray(y.conn.face, UpTo(l))
  BY SizedArrays
<1>4. /\ z.conn.target = Appended(x.conn.target, y.conn.target, n)
      /\ z.conn.prev = Appended(x.conn.prev, y.conn.prev, d)
      /\ z.conn.face = Appended(x.conn.face, y.conn.face, m)
  BY <1>1 DEF Joined
<1>5. ASSUME NEW f, NEW g, IsArray(f, UpTo(d)), IsArray(g, UpTo(l)), NEW i, NEW r,
             r = Appended(f, g, i)
      PROVE  Follow(r, f, g, d, l, i)
  <2>1. DOMAIN f = UpTo(d) /\ DOMAIN g = UpTo(l)
    BY <1>5 DEF IsArray
  <2>. QED BY <2>1, <1>2, <1>5, AppendedIs
<1>. QED BY <1>3, <1>4, <1>5

(* What is stored at h belongs to element i. *)
Belongs(k, h, i) == h = Node(k, i) \/ (k = "edges" /\ h = 2 * i + 1)

(* The link at h is found again at h + s. *)
Lifted(r, g, h, s, d) == r[h + s] = Higher(g[h], d)

(* A live element of the second mesh is not on its free list. *)
LEMMA LiveLinks ==
  ASSUME NEW k, NEW n \in Nat, NEW m \in Nat, NEW p, NEW q, NEW f, NEW g, NEW t,
         IsKind(q, k, UpTo(m), g, t), NEW z, NEW r, NEW d,
         JoinsKind(z, r, k, p, q, f, g, n, m, d, t), NEW h \in UpTo(Node(k, m)), NEW i \in LiveOf(q),
         Belongs(k, h, i), NEW s, s = Node(k, n)
  PROVE  Lifted(r, g, h, s, d)
<1>1. q \in KindRecords(UpTo(m))
  BY DEF IsKind
<1>2. i \in Nat /\ i \notin GoneOf(q) /\ GoneOf(q) \subseteq Nat
  BY <1>1, LiveAndGone DEF UpTo
<1>3. \A j \in GoneOf(q) : h # Node(k, j)
  <2>1. CASE h = Node(k, i)
    BY <1>2, <2>1, NodesDiffer
  <2>2. CASE k = "edges" /\ h = 2 * i + 1
    <3>1. \A j \in Nat : 2 * j # 2 * i + 1
      BY <1>2
    <3>. QED BY <1>2, <2>2, <3>1 DEF Node
  <2>. QED BY <2>1, <2>2 DEF Belongs
<1>4. h \notin NodesOf(k, GoneOf(q))
  BY <1>3 DEF NodesOf
<1>. QED BY <1>4 DEF JoinsKind, RelinkedAs, Lifted

(* The connectivity of both meshes is found in e. *)
LEMMA BothSound ==
  ASSUME NEW c, NEW V, NEW H, NEW F, Sound(c, V, H, F),
         NEW g, NEW W, NEW K, NEW G, Sound(g, W, K, G),
         NEW n \in Nat, NEW i \in Nat, NEW d, d = 2 * i, NEW m \in Nat,
         NEW e, Agree(e, c, V, H, F), Moved(e, g, W, K, G, n, d, m),
         V \subseteq UpTo(n), H \subseteq UpTo(d), F \subseteq UpTo(m)
  PROVE  Sound(e, V \cup Shifted(W, n), H \cup Shifted(K, d), F \cup Shifted(G, m))
<1>1. Sound(e, V, H, F)
  <2>1. \A h \in H : c.target[h] \in V /\ c.face[h] \in F \cup {Null}
    BY DEF Sound, IsValid
  <2>2. V \in SUBSET V /\ F \in SUBSET F
    OBVIOUS
  <2>. QED BY <2>1, <2>2, AgreeingSound
<1>2. PICK X, D, Y : X = Shifted(W, n) /\ D = Shifted(K, d) /\ Y = Shifted(G, m)
  OBVIOUS
<1>3. Sound(e, X, D, Y)
  BY <1>2, MovedSound
<1>4. V \cap X = {} /\ H \cap D = {} /\ F \cap Y = {}
  <2>1. W \subseteq Nat /\ K \subseteq Nat /\ G \subseteq Nat /\ d \in Nat
    BY DEF Sound, AreNumbers
  <2>2. ASSUME NEW S, S \subseteq Nat, NEW j \in Nat, NEW T, T \subseteq UpTo(j)
        PROVE  T \cap Shifted(S, j) = {}
    <3>1. \A s \in S : s + j \notin UpTo(j)
      BY <2>2 DEF UpTo
    <3>. QED BY <2>2, <3>1 DEF Shifted
  <2>3. V \cap Shifted(W, n) = {}
    BY <2>1, <2>2
  <2>4. H \cap Shifted(K, d) = {}
    BY <2>1, <2>2
  <2>5. F \cap Shifted(G, m) = {}
    BY <2>1, <2>2
  <2>. QED BY <1>2, <2>3, <2>4, <2>5
<1>5. Sound(e, V \cup X, H \cup D, F \cup Y)
  BY <1>1, <1>3, <1>4, UnionSound
<1>. QED BY <1>2, <1>5

(* The joined arrays. *)
JoinedLike(z, x, y, n, e, m, a, b, c, t) ==
  LET d == 2 * e
  IN  /\ JoinsKind(z.vertices, z.conn.half, "vertices", x.vertices, y.vertices,
                   x.conn.half, y.conn.half, n, a, d, t)
      /\ JoinsKind(z.edges, z.conn.next, "edges", x.edges, y.edges,
                   x.conn.next, y.conn.next, e, b, d, t)
      /\ JoinsKind(z.faces, z.conn.fhalf, "faces", x.faces, y.faces,
                   x.conn.fhalf, y.conn.fhalf, m, c, d, t)
      /\ Follow(z.conn.target, x.conn.target, y.conn.target, d, 2 * b, n)
      /\ Follow(z.conn.prev, x.conn.prev, y.conn.prev, d, 2 * b, d)
      /\ Follow(z.conn.face, x.conn.face, y.conn.face, d, 2 * b, m)

(* The mesh after a join, field by field. *)
LEMMA JoinedIs ==
  ASSUME NEW x, NEW y, NEW n, NEW e, NEW m, NEW a, NEW b, NEW c, NEW t, t = clock,
         Sized(x, n, e, m, t), Sized(y, a, b, c, t), NEW z, z = Joined(x, y)
  PROVE  JoinedLike(z, x, y, n, e, m, a, b, c, t)
<1>1. PICK d, l : d = 2 * e /\ l = 2 * b
  OBVIOUS
<1>2. /\ JoinsKind(z.vertices, z.conn.half, "vertices", x.vertices, y.vertices,
                   x.conn.half, y.conn.half, n, a, d, t)
      /\ JoinsKind(z.edges, z.conn.next, "edges", x.edges, y.edges,
                   x.conn.next, y.conn.next, e, b, d, t)
      /\ JoinsKind(z.faces, z.conn.fhalf, "faces", x.faces, y.faces,
                   x.conn.fhalf, y.conn.fhalf, m, c, d, t)
  BY <1>1, JoinedKinds
<1>3. /\ Follow(z.conn.target, x.conn.target, y.conn.target, d, l, n)
      /\ Follow(z.conn.prev, x.conn.prev, y.conn.prev, d, l, d)
      /\ Follow(z.conn.face, x.conn.face, y.conn.face, d, l, m)
  BY <1>1, JoinedArrays
<1>. QED BY <1>1, <1>2, <1>3 DEF JoinedLike

(* Live elements are among all elements. *)
LEMMA LiveWithin ==
  ASSUME NEW x, NEW n, NEW e, NEW m, NEW t, Sized(x, n, e, m, t)
  PROVE  /\ LiveOf(x.vertices) \subseteq UpTo(n) /\ LiveOf(x.edges) \subseteq UpTo(e)
         /\ LiveOf(x.faces) \subseteq UpTo(m)
         /\ HalvesOf(LiveOf(x.edges)) \subseteq UpTo(2 * e)
<1>1. /\ x.vertices \in KindRecords(UpTo(n)) /\ x.edges \in KindRecords(UpTo(e))
      /\ x.faces \in KindRecords(UpTo(m)) /\ e \in Nat
  BY DEF Sized, IsMesh, IsKind
<1>2. /\ LiveOf(x.vertices) \subseteq UpTo(n) /\ LiveOf(x.edges) \subseteq UpTo(e)
      /\ LiveOf(x.faces) \subseteq UpTo(m)
  BY <1>1, LiveAndGone
<1>3. HalvesOf(LiveOf(x.edges)) \subseteq HalvesOf(UpTo(e))
  BY <1>2, HalvesWithin
<1>. QED BY <1>1, <1>2, <1>3, HalvesUpTo

(* In a joined mesh the first one is where it was, the second one is       *)
(* shifted.                                                                *)
LEMMA JoinedAgrees ==
  ASSUME NEW x, NEW y, NEW n, NEW e, NEW m, NEW a, NEW b, NEW c, NEW t,
         Sized(x, n, e, m, t), Sized(y, a, b, c, t), NEW z,
         JoinedLike(z, x, y, n, e, m, a, b, c, t), NEW d, d = 2 * e
  PROVE  /\ Agree(z.conn, x.conn, LiveOf(x.vertices), HalvesOf(LiveOf(x.edges)),
                  LiveOf(x.faces))
         /\ Moved(z.conn, y.conn, LiveOf(y.vertices), HalvesOf(LiveOf(y.edges)),
                  LiveOf(y.faces), n, d, m)
<1>1. /\ JoinsKind(z.vertices, z.conn.half, "vertices", x.vertices, y.vertices,
                   x.conn.half, y.conn.half, n, a, d, t)
      /\ JoinsKind(z.edges, z.conn.next, "edges", x.edges, y.edges,
                   x.conn.next, y.conn.next, e, b, d, t)
      /\ JoinsKind(z.faces, z.conn.fhalf, "faces", x.faces, y.faces,
                   x.conn.fhalf, y.conn.fhalf, m, c, d, t)
  BY DEF JoinedLike
<1>2. /\ Follow(z.conn.target, x.conn.target, y.conn.target, d, 2 * b, n)
      /\ Follow(z.conn.prev, x.conn.prev, y.conn.prev, d, 2 * b, d)
      /\ Follow(z.conn.face, x.conn.face, y.conn.face, d, 2 * b, m)
  BY DEF JoinedLike
<1>3. /\ n \in Nat /\ e \in Nat /\ m \in Nat /\ a \in Nat /\ b \in Nat /\ c \in Nat
      /\ IsKind(y.vertices, "vertices", UpTo(a), y.conn.half, t)
      /\ IsKind(y.edges, "edges", UpTo(b), y.conn.next, t)
      /\ IsKind(y.faces, "faces", UpTo(c), y.conn.fhalf, t)
  BY DEF Sized, IsMesh
<1>4. /\ Node("vertices", n) = n /\ Node("edges", e) = d /\ Node("faces", m) = m
      /\ Node("vertices", a) = a /\ Node("edges", b) = 2 * b /\ Node("faces", c) = c
      /\ \A i : Node("vertices", i) = i /\ Node("faces", i) = i /\ Node("edges", i) = 2 * i
  BY DEF Node
<1>5. /\ LiveOf(x.vertices) \subseteq UpTo(n) /\ LiveOf(x.faces) \subseteq UpTo(m)
      /\ HalvesOf(LiveOf(x.edges)) \subseteq UpTo(d)
  BY LiveWithin
<1>6. /\ LiveOf(y.vertices) \subseteq UpTo(a) /\ LiveOf(y.faces) \subseteq UpTo(c)
      /\ HalvesOf(LiveOf(y.edges)) \subseteq UpTo(2 * b)
  BY LiveWithin
<1>7. /\ Same(z.conn.half, x.conn.half, UpTo(n)) /\ Same(z.conn.next, x.conn.next, UpTo(d))
      /\ Same(z.conn.fhalf, x.conn.fhalf, UpTo(m))
  BY <1>1, <1>4 DEF JoinsKind, RelinkedAs
<1>8. /\ Same(z.conn.target, x.conn.target, UpTo(d)) /\ Same(z.conn.prev, x.conn.prev, UpTo(d))
      /\ Same(z.conn.face, x.conn.face, UpTo(d))
  BY <1>2 DEF Follow
<1>9. Agree(z.conn, x.conn, LiveOf(x.vertices), HalvesOf(LiveOf(x.edges)), LiveOf(x.faces))
  BY <1>5, <1>7, <1>8 DEF Agree, Same
<1>10. ASSUME NEW v \in LiveOf(y.vertices)
       PROVE  z.conn.half[v + n] = Higher(y.conn.half[v], d)
  <2>1. PICK k, h : k = "vertices" /\ h = v
    OBVIOUS
  <2>2. /\ h \in UpTo(Node(k, a)) /\ Belongs(k, h, v) /\ Node(k, n) = n
        /\ JoinsKind(z.vertices, z.conn.half, k, x.vertices, y.vertices,
                     x.conn.half, y.conn.half, n, a, d, t)
        /\ IsKind(y.vertices, k, UpTo(a), y.conn.half, t)
    BY <1>1, <1>3, <1>4, <1>6, <2>1 DEF Belongs
  <2>3. Lifted(z.conn.half, y.conn.half, h, n, d)
    BY <1>3, <2>2, LiveLinks
  <2>. QED BY <2>1, <2>3 DEF Lifted
<1>11. ASSUME NEW v \in LiveOf(y.faces)
       PROVE  z.conn.fhalf[v + m] = Higher(y.conn.fhalf[v], d)
  <2>1. PICK k, h : k = "faces" /\ h = v
    OBVIOUS
  <2>2. /\ h \in UpTo(Node(k, c)) /\ Belongs(k, h, v) /\ Node(k, m) = m
        /\ JoinsKind(z.faces, z.conn.fhalf, k, x.faces, y.faces,
                     x.conn.fhalf, y.conn.fhalf, m, c, d, t)
        /\ IsKind(y.faces, k, UpTo(c), y.conn.fhalf, t)
    BY <1>1, <1>3, <1>4, <1>6, <2>1 DEF Belongs
  <2>3. Lifted(z.conn.fhalf, y.conn.fhalf, h, m, d)
    BY <1>3, <2>2, LiveLinks
  <2>. QED BY <2>1, <2>3 DEF Lifted
<1>12. ASSUME NEW h \in HalvesOf(LiveOf(y.edges))
       PROVE  z.conn.next[h + d] = Higher(y.conn.next[h], d)
  <2>1. PICK i \in LiveOf(y.edges) : h = 2 * i \/ h = 2 * i + 1
    BY DEF HalvesOf
  <2>2. PICK k : k = "edges"
    OBVIOUS
  <2>3. /\ h \in UpTo(Node(k, b)) /\ Belongs(k, h, i)
        /\ Node(k, e) = d
        /\ JoinsKind(z.edges, z.conn.next, k, x.edges, y.edges,
                     x.conn.next, y.conn.next, e, b, d, t)
        /\ IsKind(y.edges, k, UpTo(b), y.conn.next, t)
    BY <1>1, <1>3, <1>4, <1>6, <2>1, <2>2 DEF Belongs
  <2>4. Lifted(z.conn.next, y.conn.next, h, d, d)
    BY <1>3, <2>3, LiveLinks
  <2>. QED BY <2>4 DEF Lifted
<1>13. ASSUME NEW h \in HalvesOf(LiveOf(y.edges))
       PROVE  /\ z.conn.target[h + d] = Higher(y.conn.target[h], n)
              /\ z.conn.prev[h + d] = Higher(y.conn.prev[h], d)
              /\ z.conn.face[h + d] = Higher(y.conn.face[h], m)
  BY <1>2, <1>6 DEF Follow
<1>. QED BY <1>9, <1>10, <1>11, <1>12, <1>13 DEF Moved

(* The arrays of a joined mesh have the lengths of both. *)
LEMMA JoinedConn ==
  ASSUME NEW x, NEW y, NEW n, NEW e, NEW m, NEW a, NEW b, NEW c, NEW t,
         Sized(x, n, e, m, t), Sized(y, a, b, c, t), NEW z, z = Joined(x, y),
         JoinedLike(z, x, y, n, e, m, a, b, c, t)
  PROVE  z.conn \in Arrays(UpTo(n + a), HalvesOf(UpTo(e + b)), UpTo(m + c))
<1>1. /\ n \in Nat /\ e \in Nat /\ m \in Nat /\ a \in Nat /\ b \in Nat /\ c \in Nat
  BY DEF Sized
<1>2. PICK d, l : d = 2 * e /\ l = 2 * b
  OBVIOUS
<1>3. d \in Nat /\ l \in Nat /\ 2 * (e + b) = d + l
  BY <1>1, <1>2
<1>4. /\ Node("vertices", n) + Node("vertices", a) = n + a
      /\ Node("edges", e) + Node("edges", b) = d + l
      /\ Node("faces", m) + Node("faces", c) = m + c
  BY <1>2 DEF Node
<1>5. /\ IsArray(z.conn.half, UpTo(n + a)) /\ IsArray(z.conn.next, UpTo(d + l))
      /\ IsArray(z.conn.fhalf, UpTo(m + c))
  BY <1>4 DEF JoinedLike, JoinsKind
<1>6. /\ IsArray(x.conn.target, UpTo(d)) /\ IsArray(x.conn.prev, UpTo(d))
      /\ IsArray(x.conn.face, UpTo(d)) /\ IsArray(y.conn.target, UpTo(l))
      /\ IsArray(y.conn.prev, UpTo(l)) /\ IsArray(y.conn.face, UpTo(l))
  BY <1>2, SizedArrays
<1>7. /\ Follow(z.conn.target, x.conn.target, y.conn.target, d, l, n)
      /\ Follow(z.conn.prev, x.conn.prev, y.conn.prev, d, l, d)
      /\ Follow(z.conn.face, x.conn.face, y.conn.face, d, l, m)
  BY <1>2 DEF JoinedLike
<1>8. ASSUME NEW r, NEW f, NEW g, NEW i \in Nat, Follow(r, f, g, d, l, i),
             IsArray(f, UpTo(d)), IsArray(g, UpTo(l))
      PROVE  IsArray(r, UpTo(d + l))
  <2>1. f \in [UpTo(d) -> Int] /\ g \in [UpTo(l) -> Int] /\ i \in Int
    BY <1>8 DEF IsArray
  <2>2. r \in [UpTo(d + l) -> Int]
    BY <1>3, <1>8, <2>1, FollowIsArray
  <2>. QED BY <2>2 DEF IsArray
<1>9. /\ IsArray(z.conn.target, UpTo(d + l)) /\ IsArray(z.conn.prev, UpTo(d + l))
      /\ IsArray(z.conn.face, UpTo(d + l))
  BY <1>1, <1>3, <1>6, <1>7, <1>8
<1>10. HalvesOf(UpTo(e + b)) = UpTo(d + l)
  <2>1. e + b \in Nat
    BY <1>1
  <2>. QED BY <2>1, <1>3, HalvesUpTo
<1>11. z.conn = [half |-> z.conn.half, target |-> z.conn.target, next |-> z.conn.next,
                 prev |-> z.conn.prev, face |-> z.conn.face, fhalf |-> z.conn.fhalf]
  BY DEF Joined
<1>12. PICK V, D, F : V = UpTo(n + a) /\ D = UpTo(d + l) /\ F = UpTo(m + c)
  OBVIOUS
<1>13. z.conn \in Arrays(V, D, F)
  <2>1. /\ z.conn.half \in [V -> Int] /\ z.conn.target \in [D -> Int]
        /\ z.conn.next \in [D -> Int] /\ z.conn.prev \in [D -> Int]
        /\ z.conn.face \in [D -> Int] /\ z.conn.fhalf \in [F -> Int]
    BY <1>5, <1>9, <1>12 DEF IsArray
  <2>. QED BY <2>1, <1>11 DEF Arrays
<1>. QED BY <1>10, <1>12, <1>13

(* The kinds of elements of both meshes. *)
LEMMA JoinedSteps ==
  ASSUME NEW x, NEW y, NEW n, NEW e, NEW m, NEW a, NEW b, NEW c, NEW t \in Nat,
         Sized(x, n, e, m, t), Sized(y, a, b, c, t), NEW z,
         JoinedLike(z, x, y, n, e, m, a, b, c, t), NEW u, u = 2 * t
  PROVE  /\ IsKind(z.vertices, "vertices", UpTo(n + a), z.conn.half, u)
         /\ IsKind(z.edges, "edges", UpTo(e + b), z.conn.next, u)
         /\ IsKind(z.faces, "faces", UpTo(m + c), z.conn.fhalf, u)
         /\ JoinsElements(z.vertices, x.vertices, y.vertices, n)
         /\ JoinsElements(z.edges, x.edges, y.edges, e)
         /\ JoinsElements(z.faces, x.faces, y.faces, m)
         /\ Follows(x, z, t)
<1>1. PICK d : d = 2 * e
  OBVIOUS
<1>2. /\ JoinsKind(z.vertices, z.conn.half, "vertices", x.vertices, y.vertices,
                   x.conn.half, y.conn.half, n, a, d, t)
      /\ JoinsKind(z.edges, z.conn.next, "edges", x.edges, y.edges,
                   x.conn.next, y.conn.next, e, b, d, t)
      /\ JoinsKind(z.faces, z.conn.fhalf, "faces", x.faces, y.faces,
                   x.conn.fhalf, y.conn.fhalf, m, c, d, t)
  BY <1>1 DEF JoinedLike
<1>3. /\ n \in Nat /\ e \in Nat /\ m \in Nat /\ a \in Nat /\ b \in Nat /\ c \in Nat
      /\ IsKind(x.vertices, "vertices", UpTo(n), x.conn.half, t)
      /\ IsKind(x.edges, "edges", UpTo(e), x.conn.next, t)
      /\ IsKind(x.faces, "faces", UpTo(m), x.conn.fhalf, t)
      /\ IsKind(y.vertices, "vertices", UpTo(a), y.conn.half, t)
      /\ IsKind(y.edges, "edges", UpTo(b), y.conn.next, t)
      /\ IsKind(y.faces, "faces", UpTo(c), y.conn.fhalf, t)
  BY DEF Sized, IsMesh
<1>4. /\ IsKind(z.vertices, "vertices", UpTo(n + a), z.conn.half, u)
      /\ Kept(x.vertices, z.vertices, t) /\ JoinsElements(z.vertices, x.vertices, y.vertices, n)
  BY <1>2, <1>3, KindSpliced
<1>5. /\ IsKind(z.edges, "edges", UpTo(e + b), z.conn.next, u)
      /\ Kept(x.edges, z.edges, t) /\ JoinsElements(z.edges, x.edges, y.edges, e)
  BY <1>2, <1>3, KindSpliced
<1>6. /\ IsKind(z.faces, "faces", UpTo(m + c), z.conn.fhalf, u)
      /\ Kept(x.faces, z.faces, t) /\ JoinsElements(z.faces, x.faces, y.faces, m)
  BY <1>2, <1>3, KindSpliced
<1>. QED BY <1>4, <1>5, <1>6 DEF Follows

(* The joined connectivity is sound, as a disjoint union. *)
LEMMA JoinedMeshSound ==
  ASSUME NEW x, NEW y, NEW n, NEW e, NEW m, NEW a, NEW b, NEW c, NEW t,
         Sized(x, n, e, m, t), Sized(y, a, b, c, t), NEW z,
         JoinedLike(z, x, y, n, e, m, a, b, c, t),
         JoinsElements(z.vertices, x.vertices, y.vertices, n),
         JoinsElements(z.edges, x.edges, y.edges, e),
         JoinsElements(z.faces, x.faces, y.faces, m)
  PROVE  Sound(z.conn, LiveOf(z.vertices), HalvesOf(LiveOf(z.edges)), LiveOf(z.faces))
<1>1. PICK d, V, H, F, W, K, G :
        /\ d = 2 * e /\ V = LiveOf(x.vertices) /\ H = HalvesOf(LiveOf(x.edges))
        /\ F = LiveOf(x.faces) /\ W = LiveOf(y.vertices) /\ K = HalvesOf(LiveOf(y.edges))
        /\ G = LiveOf(y.faces)
  OBVIOUS
<1>2. Sound(x.conn, V, H, F) /\ Sound(y.conn, W, K, G)
  BY <1>1 DEF Sized, IsMesh
<1>3. Agree(z.conn, x.conn, V, H, F) /\ Moved(z.conn, y.conn, W, K, G, n, d, m)
  BY <1>1, JoinedAgrees
<1>4. V \subseteq UpTo(n) /\ H \subseteq UpTo(d) /\ F \subseteq UpTo(m)
  BY <1>1, LiveWithin
<1>5. n \in Nat /\ e \in Nat /\ m \in Nat
  BY DEF Sized
<1>6. Sound(z.conn, V \cup Shifted(W, n), H \cup Shifted(K, d), F \cup Shifted(G, m))
  BY <1>1, <1>2, <1>3, <1>4, <1>5, BothSound
<1>7. /\ LiveOf(z.vertices) = V \cup Shifted(W, n) /\ LiveOf(z.faces) = F \cup Shifted(G, m)
      /\ LiveOf(z.edges) = LiveOf(x.edges) \cup Shifted(LiveOf(y.edges), e)
  BY <1>1 DEF JoinsElements
<1>8. HalvesOf(LiveOf(z.edges)) = H \cup Shifted(K, d)
  <2>1. Natural(LiveOf(y.edges))
    <3>1. LiveOf(y.edges) \subseteq UpTo(b) /\ b \in Nat
      BY LiveWithin DEF Sized
    <3>. QED BY <3>1 DEF Natural, UpTo
  <2>2. HalvesOf(Shifted(LiveOf(y.edges), e)) = Shifted(K, d)
    BY <1>1, <1>5, <2>1, HalvesShifted
  <2>3. HalvesOf(LiveOf(z.edges)) = H \cup HalvesOf(Shifted(LiveOf(y.edges), e))
    BY <1>1, <1>7, HalvesUnion
  <2>. QED BY <2>2, <2>3
<1>. QED BY <1>6, <1>7, <1>8

(* join keeps the invariant of its mesh. *)
LEMMA JoinStep ==
  ASSUME NEW t \in Nat, t = clock, NEW x, MeshOK(x, t), NEW y, MeshOK(y, t),
         NEW z, z = Joined(x, y), NEW u, u = 2 * t
  PROVE  MeshOK(z, u) /\ Follows(x, z, t)
<1>1. PICK n, e, m : Sized(x, n, e, m, t)
  BY MeshSized
<1>2. PICK a, b, c : Sized(y, a, b, c, t)
  BY MeshSized
<1>3. JoinedLike(z, x, y, n, e, m, a, b, c, t)
  BY <1>1, <1>2, JoinedIs
<1>4. /\ IsKind(z.vertices, "vertices", UpTo(n + a), z.conn.half, u)
      /\ IsKind(z.edges, "edges", UpTo(e + b), z.conn.next, u)
      /\ IsKind(z.faces, "faces", UpTo(m + c), z.conn.fhalf, u)
      /\ JoinsElements(z.vertices, x.vertices, y.vertices, n)
      /\ JoinsElements(z.edges, x.edges, y.edges, e)
      /\ JoinsElements(z.faces, x.faces, y.faces, m)
      /\ Follows(x, z, t)
  BY <1>1, <1>2, <1>3, JoinedSteps
<1>5. Sound(z.conn, LiveOf(z.vertices), HalvesOf(LiveOf(z.edges)), LiveOf(z.faces))
  BY <1>1, <1>2, <1>3, <1>4, JoinedMeshSound
<1>6. z.conn \in Arrays(UpTo(n + a), HalvesOf(UpTo(e + b)), UpTo(m + c))
  BY <1>1, <1>2, <1>3, JoinedConn
<1>7. PICK V, E, F : V = UpTo(n + a) /\ E = UpTo(e + b) /\ F = UpTo(m + c)
  OBVIOUS
<1>8. z.garbage = (x.garbage \/ y.garbage) /\ z.recycle = x.recycle
  BY DEF Joined, GarbageOfBoth
<1>9. /\ x.garbage \in BOOLEAN /\ x.recycle \in BOOLEAN /\ y.garbage \in BOOLEAN
      /\ x.garbage \/ NoneGone(x.vertices, x.edges, x.faces)
      /\ y.garbage \/ NoneGone(y.vertices, y.edges, y.faces)
  BY <1>1, <1>2 DEF Sized, IsMesh, MeshRecords
<1>10. z.garbage \in BOOLEAN /\ z.recycle \in BOOLEAN
  BY <1>8, <1>9, Zenon
<1>11. z.garbage \/ NoneGone(z.vertices, z.edges, z.faces)
  <2>1. CASE x.garbage \/ y.garbage
    BY <2>1, <1>8, Zenon
  <2>2. CASE ~(x.garbage \/ y.garbage)
    <3>1. NoneGone(x.vertices, x.edges, x.faces) /\ NoneGone(y.vertices, y.edges, y.faces)
      BY <2>2, <1>9
    <3>2. NoneGone(z.vertices, z.edges, z.faces)
      BY <3>1, <1>4 DEF NoneGone, JoinsElements, Shifted
    <3>. QED BY <3>2
  <2>. QED BY <2>1, <2>2
<1>12. z = MeshOf(z.vertices, z.edges, z.faces, z.garbage, z.recycle, z.conn)
  BY DEF Joined, MeshOf
<1>13. PICK p, q, r, g, l, k : /\ p = z.vertices /\ q = z.edges /\ r = z.faces
                               /\ g = z.garbage /\ l = z.recycle /\ k = z.conn
  OBVIOUS
<1>14. /\ IsKind(p, "vertices", V, k.half, u) /\ IsKind(q, "edges", E, k.next, u)
       /\ IsKind(r, "faces", F, k.fhalf, u)
       /\ Sound(k, LiveOf(p), HalvesOf(LiveOf(q)), LiveOf(r))
       /\ k \in Arrays(V, HalvesOf(E), F) /\ z = MeshOf(p, q, r, g, l, k)
  BY <1>4, <1>5, <1>6, <1>7, <1>12, <1>13
<1>15. g \in BOOLEAN /\ l \in BOOLEAN /\ (g \/ NoneGone(p, q, r))
  BY <1>10, <1>11, <1>13
<1>16. IsMesh(z, V, E, F, u)
  BY <1>14, <1>15, MeshIs
<1>17. Numbered(V) /\ Numbered(E) /\ Numbered(F)
  <2>1. n + a \in Nat /\ e + b \in Nat /\ m + c \in Nat
    BY <1>1, <1>2 DEF Sized
  <2>. QED BY <2>1, <1>7 DEF Numbered, UpTo
<1>. QED BY <1>4, <1>16, <1>17 DEF MeshOK

-----------------------------------------------------------------------------
(***************************************************************************)
(* collect_garbage: the live elements change places with removed ones, the *)
(* last with the first, and are numbered from 0 then.                      *)
(***************************************************************************)
(* The removed elements in front, the live ones behind. *)
Holes(G, n) == {i \in G : i < n}

Movers(L, n) == {j \in L : j >= n}

(* There are as many removed elements among the first indices as live ones *)
(* after them.                                                             *)
LEMMA SameSizes ==
  ASSUME NEW N \in Nat, NEW L, NEW G, L \cup G = UpTo(N), L \cap G = {},
         NEW n, n = Cardinality(L)
  PROVE  /\ n \in Nat /\ n <= N /\ IsFiniteSet(L) /\ IsFiniteSet(Holes(G, n))
         /\ IsFiniteSet(Movers(L, n)) /\ Cardinality(Holes(G, n)) = Cardinality(Movers(L, n))
<1>1. IsFiniteSet(UpTo(N)) /\ Cardinality(UpTo(N)) = N
  BY UpToCount
<1>2. L \subseteq UpTo(N) /\ G \subseteq UpTo(N)
  OBVIOUS
<1>3. IsFiniteSet(L) /\ n <= N /\ n \in Nat
  BY <1>1, <1>2, FS_Subset, FS_CardinalityType
<1>4. IsFiniteSet(UpTo(n)) /\ Cardinality(UpTo(n)) = n
  BY <1>3, UpToCount
<1>5. UpTo(n) \ L = Holes(G, n) /\ L \ UpTo(n) = Movers(L, n) /\ L \cap UpTo(n) = UpTo(n) \cap L
  BY <1>2, <1>3 DEF UpTo, Holes, Movers
<1>6. /\ IsFiniteSet(UpTo(n) \ L)
      /\ Cardinality(UpTo(n) \ L) = Cardinality(UpTo(n)) - Cardinality(UpTo(n) \cap L)
  BY <1>4, FS_Difference
<1>7. /\ IsFiniteSet(L \ UpTo(n))
      /\ Cardinality(L \ UpTo(n)) = Cardinality(L) - Cardinality(L \cap UpTo(n))
  BY <1>3, FS_Difference
<1>. QED BY <1>3, <1>4, <1>5, <1>6, <1>7

(* f leads from each of S to one of T and, where it leads to, back. *)
Swapping(f, S, T) ==
  /\ \A i \in S : f[i] \in T /\ f[f[i]] = i
  /\ \A j \in T : f[j] \in S /\ f[f[j]] = j

(* What Swaps computes for the live L and the removed G. *)
IsSwap(f, L, G, n, D) ==
  \A i \in D : f[i] =
    CASE i \in G /\ i < n ->
           CHOOSE j \in L : j >= n /\ Cardinality(Above(L, j)) = Cardinality(Below(G, i))
      [] i \in L /\ i >= n ->
           CHOOSE j \in G : j < n /\ Cardinality(Below(G, j)) = Cardinality(Above(L, i))
      [] OTHER -> i

(* The swaps of collect_garbage exchange each of the former with one of    *)
(* the latter.                                                             *)
LEMMA SwapsIs ==
  ASSUME NEW x, NEW k, NEW L, L = Live(x, k), NEW G, G = Gone(x, k), NEW n, n = Cardinality(L),
         NEW f, f = Swaps(x, k), NEW D, D = DOMAIN x[k].removed
  PROVE  IsSwap(f, L, G, n, D)
BY DEF Swaps, Above, Below, IsSwap

(* They bring the live elements to the front. *)
LEMMA SwapsPair ==
  ASSUME NEW x, NEW k, NEW L, L = Live(x, k), NEW G, G = Gone(x, k), NEW n, n = Cardinality(L),
         NEW f, f = Swaps(x, k), NEW N \in Nat, DOMAIN x[k].removed = UpTo(N),
         L \cup G = UpTo(N), L \cap G = {}
  PROVE  Swapping(f, UpTo(n), L)
<1>1. PICK S, T : S = Holes(G, n) /\ T = Movers(L, n)
  OBVIOUS
<1>2. n \in Nat /\ n <= N /\ IsFiniteSet(S) /\ IsFiniteSet(T) /\ Cardinality(S) = Cardinality(T)
  BY <1>1, SameSizes
<1>3. PICK r, s : /\ r = [i \in S |-> Cardinality(Below(S, i))]
                  /\ s = [j \in T |-> Cardinality(Above(T, j))]
  OBVIOUS
<1>4. /\ \A i \in L \cup G : i \in Nat /\ i < N
      /\ \A i \in Nat : i < n => i \in UpTo(N) /\ i \in UpTo(n)
  BY <1>2 DEF UpTo
<1>5. Integral(S) /\ Integral(T)
  BY <1>1, <1>4 DEF Holes, Movers, Integral
<1>6. Ranks(r, S) /\ Ranks(s, T)
  BY <1>2, <1>3, <1>5, BelowRanks, AboveRanks
<1>7. /\ \A i \in S : \E j \in T : s[j] = r[i]
      /\ \A j \in T : \E i \in S : r[i] = s[j]
  BY <1>2, <1>6, RanksMeet
<1>8. /\ \A i : i \in S <=> i \in G /\ i < n
      /\ \A j : j \in T <=> j \in L /\ j >= n
  BY <1>1 DEF Holes, Movers
<1>9. ASSUME NEW i \in S PROVE r[i] = Cardinality(Below(G, i))
  <2>1. \A j \in G : j < i => j < n
    BY <1>2, <1>4, <1>8
  <2>2. Below(G, i) = Below(S, i)
    BY <1>8, <2>1 DEF Below
  <2>. QED BY <1>3, <2>2
<1>10. ASSUME NEW j \in T PROVE s[j] = Cardinality(Above(L, j))
  <2>1. \A i \in L : i > j => i >= n
    BY <1>2, <1>4, <1>8
  <2>2. Above(L, j) = Above(T, j)
    BY <1>8, <2>1 DEF Above
  <2>. QED BY <1>3, <2>2
<1>11. \A i \in UpTo(N) : f[i] =
         CASE i \in G /\ i < n ->
                CHOOSE j \in L : j >= n /\ Cardinality(Above(L, j)) = Cardinality(Below(G, i))
           [] i \in L /\ i >= n ->
                CHOOSE j \in G : j < n /\ Cardinality(Below(G, j)) = Cardinality(Above(L, i))
           [] OTHER -> i
  <2>1. IsSwap(f, L, G, n, UpTo(N))
    BY SwapsIs
  <2>. QED BY <2>1 DEF IsSwap
<1>12. ASSUME NEW i \in S PROVE f[i] \in T /\ s[f[i]] = r[i]
  <2>1. i \in UpTo(N) /\ i \in G /\ i < n
    BY <1>8
  <2>2. f[i] = CHOOSE j \in L : j >= n /\ Cardinality(Above(L, j)) = Cardinality(Below(G, i))
    BY <2>1, <1>11
  <2>3. \E j \in L : j >= n /\ Cardinality(Above(L, j)) = Cardinality(Below(G, i))
    BY <1>7, <1>8, <1>9, <1>10
  <2>4. /\ f[i] \in L /\ f[i] >= n
        /\ Cardinality(Above(L, f[i])) = Cardinality(Below(G, i))
    BY <2>2, <2>3
  <2>. QED BY <2>4, <1>8, <1>9, <1>10
<1>13. ASSUME NEW i \in T PROVE f[i] \in S /\ r[f[i]] = s[i]
  <2>1. i \in UpTo(N) /\ i \in L /\ i \notin G /\ i >= n
    BY <1>8
  <2>2. f[i] = CHOOSE j \in G : j < n /\ Cardinality(Below(G, j)) = Cardinality(Above(L, i))
    BY <2>1, <1>11
  <2>3. \E j \in G : j < n /\ Cardinality(Below(G, j)) = Cardinality(Above(L, i))
    BY <1>7, <1>8, <1>9, <1>10
  <2>4. /\ f[i] \in G /\ f[i] < n
        /\ Cardinality(Below(G, f[i])) = Cardinality(Above(L, i))
    BY <2>2, <2>3
  <2>. QED BY <2>4, <1>8, <1>9, <1>10
<1>14. /\ \A i \in S : f[i] \in T /\ f[f[i]] = i
       /\ \A j \in T : f[j] \in S /\ f[f[j]] = j
  BY <1>6, <1>12, <1>13, RanksPair
<1>15. ASSUME NEW i \in L, i < n PROVE f[i] = i /\ i \in UpTo(n)
  <2>1. i \in UpTo(N) /\ i \in UpTo(n) /\ i \notin G /\ ~(i >= n)
    BY <1>2, <1>4, <1>15
  <2>. QED BY <2>1, <1>11
<1>16. ASSUME NEW i \in UpTo(n) PROVE f[i] \in L /\ f[f[i]] = i
  <2>1. i \in UpTo(N) /\ i < n
    BY <1>2 DEF UpTo
  <2>2. CASE i \in L
    BY <2>1, <2>2, <1>15
  <2>3. CASE i \in G
    BY <2>1, <2>3, <1>8, <1>14
  <2>. QED BY <2>1, <2>2, <2>3
<1>17. ASSUME NEW j \in L PROVE f[j] \in UpTo(n) /\ f[f[j]] = j
  <2>1. CASE j < n
    BY <2>1, <1>15
  <2>2. CASE ~(j < n)
    <3>1. j \in T
      BY <2>2, <1>2, <1>4, <1>8
    <3>2. f[j] \in S /\ f[f[j]] = j
      BY <3>1, <1>14
    <3>3. f[j] \in UpTo(n)
      BY <3>2, <1>4, <1>8
    <3>. QED BY <3>2, <3>3
  <2>. QED BY <2>1, <2>2
<1>. QED BY <1>16, <1>17 DEF Swapping

(* The halfedges go with their edges. *)
OnHalves(g, f, D) == g = [h \in D |-> 2 * f[h \div 2] + (h % 2)]

KeepsPairs(g, H) == \A h \in H : g[Opposite(h)] = Opposite(g[h])

(* Halfedges are swapped with their edges. *)
LEMMA HalvesSwapping ==
  ASSUME NEW S, NEW T, Natural(S), Natural(T), NEW f, Swapping(f, S, T), NEW D,
         Within(HalvesOf(S), D), Within(HalvesOf(T), D), NEW g, OnHalves(g, f, D)
  PROVE  Swapping(g, HalvesOf(S), HalvesOf(T)) /\ KeepsPairs(g, HalvesOf(S))
<1>0. /\ HalvesOf(S) \subseteq D /\ HalvesOf(T) \subseteq D
      /\ g = [h \in D |-> 2 * f[h \div 2] + (h % 2)]
  BY DEF Within, OnHalves
<1>1. ASSUME NEW U, NEW W, Natural(U), Natural(W), HalvesOf(U) \subseteq D,
             HalvesOf(W) \subseteq D, \A i \in U : f[i] \in W /\ f[f[i]] = i,
             NEW h \in HalvesOf(U)
      PROVE  /\ g[h] \in HalvesOf(W) /\ g[g[h]] = h
             /\ g[Opposite(h)] = Opposite(g[h])
  <2>1. PICK e \in U : h = 2 * e \/ h = 2 * e + 1
    BY DEF HalvesOf
  <2>2. PICK d : d = f[e] /\ d \in W /\ f[d] = e
    BY <1>1
  <2>3. e \in Nat /\ d \in Nat
    BY <1>1, <2>2 DEF Natural
  <2>4. /\ 2 * e \in D /\ 2 * e + 1 \in D /\ 2 * d \in D /\ 2 * d + 1 \in D
        /\ 2 * d \in HalvesOf(W) /\ 2 * d + 1 \in HalvesOf(W)
    BY <1>1, <2>2 DEF HalvesOf
  <2>5. /\ (2 * e) \div 2 = e /\ (2 * e) % 2 = 0 /\ (2 * e + 1) \div 2 = e /\ (2 * e + 1) % 2 = 1
        /\ (2 * d) \div 2 = d /\ (2 * d) % 2 = 0 /\ (2 * d + 1) \div 2 = d /\ (2 * d + 1) % 2 = 1
    BY <2>3
  <2>6. /\ g[2 * e] = 2 * d /\ g[2 * e + 1] = 2 * d + 1
        /\ g[2 * d] = 2 * e /\ g[2 * d + 1] = 2 * e + 1
    BY <1>0, <2>2, <2>3, <2>4, <2>5
  <2>7. /\ Opposite(2 * e) = 2 * e + 1 /\ Opposite(2 * e + 1) = 2 * e
        /\ Opposite(2 * d) = 2 * d + 1 /\ Opposite(2 * d + 1) = 2 * d
    BY <2>3, OppositeTwice
  <2>. QED BY <2>1, <2>4, <2>6, <2>7
<1>2. /\ \A i \in S : f[i] \in T /\ f[f[i]] = i
      /\ \A j \in T : f[j] \in S /\ f[f[j]] = j
  BY DEF Swapping
<1>3. ASSUME NEW h \in HalvesOf(S)
      PROVE  /\ g[h] \in HalvesOf(T) /\ g[g[h]] = h
             /\ g[Opposite(h)] = Opposite(g[h])
  BY <1>0, <1>1, <1>2
<1>4. ASSUME NEW h \in HalvesOf(T) PROVE g[h] \in HalvesOf(S) /\ g[g[h]] = h
  BY <1>0, <1>1, <1>2
<1>. QED BY <1>3, <1>4 DEF Swapping, KeepsPairs

(* The live elements of q, from 0. *)
Packed(z, q, f, n) ==
  /\ z.removed = [i \in UpTo(n) |-> FALSE] /\ z.name = [i \in UpTo(n) |-> q.name[f[i]]]
  /\ z = Members(z.removed, Null, 0, z.name)

(* A kind after garbage collection, field by field. *)
LEMMA CollectedKindIs ==
  ASSUME NEW x, NEW k, NEW n, n = Cardinality(Live(x, k)), NEW f, f = Swaps(x, k),
         NEW z, z = CollectedKind(x, k), NEW q, q = x[k]
  PROVE  Packed(z, q, f, n)
<1>1. z = Members([i \in UpTo(n) |-> FALSE], Null, 0, [i \in UpTo(n) |-> q.name[f[i]]])
  BY DEF CollectedKind, Members, UpTo
<1>. QED BY <1>1 DEF Packed, Members

(* It has no removed elements. *)
LEMMA KindPacked ==
  ASSUME NEW q, NEW k, NEW I, NEW t, q \in KindRecords(I), Named(q, t), NEW n \in Nat, NEW f,
         Swapping(f, UpTo(n), LiveOf(q)), NEW z, Packed(z, q, f, n), NEW link
  PROVE  IsKind(z, k, UpTo(n), link, t) /\ LiveOf(z) = UpTo(n) /\ GoneOf(z) = {}
<1>1. PICK S, removed, name :
        /\ S = UpTo(n) /\ removed = [i \in S |-> FALSE] /\ name = [i \in S |-> q.name[f[i]]]
  OBVIOUS
<1>2. z = Members(removed, Null, 0, name)
  BY <1>1 DEF Packed
<1>3. z.removed = removed /\ z.name = name /\ z.free = Null /\ z.count = 0
  BY <1>2 DEF Members
<1>4. LiveOf(z) = S /\ GoneOf(z) = {}
  BY <1>1, <1>3 DEF LiveOf, GoneOf
<1>5. \A i \in S : f[i] \in LiveOf(q) /\ f[f[i]] = i
  BY <1>1 DEF Swapping
<1>6. q.name \in [I -> Nat] /\ LiveOf(q) \subseteq I
  BY LiveAndGone DEF KindRecords
<1>7. \A i \in S : name[i] = q.name[f[i]] /\ name[i] \in Nat
  BY <1>1, <1>5, <1>6
<1>8. z \in KindRecords(S)
  <2>1. removed \in [S -> BOOLEAN] /\ name \in [S -> Nat]
    BY <1>1, <1>7
  <2>2. PICK e, l : e = Null /\ l = 0
    OBVIOUS
  <2>3. e \in Int /\ l \in Nat /\ z = Members(removed, e, l, name)
    BY <2>2, <1>2 DEF Null
  <2>4. /\ z.removed \in [S -> BOOLEAN] /\ z.name \in [S -> Nat] /\ z.free \in Int
        /\ z.count \in Nat
    BY <2>1, <2>2, <2>3, <1>3
  <2>. QED BY <2>3, <2>4, AreMembers
<1>9. Named(z, t)
  <2>1. ASSUME NEW i \in S PROVE name[i] < t
    BY <1>5, <1>7 DEF Named
  <2>2. ASSUME NEW i \in S, NEW j \in S, name[i] = name[j] PROVE i = j
    <3>1. f[i] = f[j]
      BY <2>2, <1>5, <1>7 DEF Named
    <3>2. f[f[i]] = i /\ f[f[j]] = j
      BY <1>5
    <3>. QED BY <3>1, <3>2
  <2>. QED BY <2>1, <2>2, <1>3, <1>4 DEF Named
<1>10. Chain(link, z.free, Null, NodesOf(k, GoneOf(z)), z.count)
  <2>1. NodesOf(k, GoneOf(z)) = {}
    BY <1>4 DEF NodesOf
  <2>. QED BY <2>1, <1>3, ChainEmpty
<1>11. Natural(S)
  BY <1>1 DEF Natural, UpTo
<1>. QED BY <1>1, <1>4, <1>8, <1>9, <1>10, <1>11 DEF IsKind

(* The connectivity of c in the numbers that the swaps give. *)
Repacked(d, c, av, ah, af, V, H, F) ==
  /\ \A v \in V : d.half[v] = IF c.half[av[v]] = Null THEN Null ELSE ah[c.half[av[v]]]
  /\ \A h \in H : /\ d.target[h] = av[c.target[ah[h]]] /\ d.next[h] = ah[c.next[ah[h]]]
                  /\ (\E g \in H : d.next[g] = h) => d.prev[h] \in H /\ d.next[d.prev[h]] = h
                  /\ d.face[h] = IF c.face[ah[h]] = Null THEN Null ELSE af[c.face[ah[h]]]
  /\ \A f \in F : d.fhalf[f] = ah[c.fhalf[af[f]]]

(* The arrays that the last loops of collect_garbage write. *)
LEMMA RenumberedIs ==
  ASSUME NEW c, NEW av, NEW ah, NEW af, NEW n, NEW l, NEW m,
         NEW d, d = Renumbered(c, av, ah, af, n, l, m)
  PROVE  /\ Repacked(d, c, av, ah, af, UpTo(n), UpTo(l), UpTo(m))
         /\ IsOn(d.half, UpTo(n)) /\ IsOn(d.target, UpTo(l)) /\ IsOn(d.next, UpTo(l))
         /\ IsOn(d.prev, UpTo(l)) /\ IsOn(d.face, UpTo(l)) /\ IsOn(d.fhalf, UpTo(m))
         /\ d = [half |-> d.half, target |-> d.target, next |-> d.next, prev |-> d.prev,
                 face |-> d.face, fhalf |-> d.fhalf]
<1>1. PICK V, H, F : V = UpTo(n) /\ H = UpTo(l) /\ F = UpTo(m)
  OBVIOUS
<1>2. V = 0 .. n - 1 /\ H = 0 .. l - 1 /\ F = 0 .. m - 1
  BY <1>1 DEF UpTo
<1>3. PICK next : next = [h \in H |-> ah[c.next[ah[h]]]]
  OBVIOUS
<1>4. d.half = [v \in V |-> IF c.half[av[v]] = Null THEN Null ELSE ah[c.half[av[v]]]]
  BY <1>2 DEF Renumbered
<1>5. d.target = [h \in H |-> av[c.target[ah[h]]]]
  BY <1>2 DEF Renumbered
<1>6. d.next = next
  BY <1>2, <1>3 DEF Renumbered
<1>7. d.prev = [h \in H |-> CHOOSE g \in H : next[g] = h]
  BY <1>2, <1>3 DEF Renumbered
<1>8. d.face = [h \in H |-> IF c.face[ah[h]] = Null THEN Null ELSE af[c.face[ah[h]]]]
  BY <1>2 DEF Renumbered
<1>9. d.fhalf = [f \in F |-> ah[c.fhalf[af[f]]]]
  BY <1>2 DEF Renumbered
<1>10. d = [half |-> d.half, target |-> d.target, next |-> d.next, prev |-> d.prev,
            face |-> d.face, fhalf |-> d.fhalf]
  BY DEF Renumbered
<1>11. ASSUME NEW h \in H
       PROVE  /\ d.target[h] = av[c.target[ah[h]]] /\ d.next[h] = ah[c.next[ah[h]]]
              /\ (\E g \in H : d.next[g] = h) => d.prev[h] \in H /\ d.next[d.prev[h]] = h
              /\ d.face[h] = IF c.face[ah[h]] = Null THEN Null ELSE af[c.face[ah[h]]]
  <2>1. d.prev[h] = CHOOSE g \in H : next[g] = h
    BY <1>7
  <2>2. (\E g \in H : next[g] = h) => d.prev[h] \in H /\ next[d.prev[h]] = h
    BY <2>1
  <2>. QED BY <2>2, <1>3, <1>5, <1>6, <1>8
<1>12. Repacked(d, c, av, ah, af, V, H, F)
  BY <1>4, <1>9, <1>11 DEF Repacked
<1>13. /\ IsOn(d.half, V) /\ IsOn(d.target, H) /\ IsOn(d.next, H) /\ IsOn(d.prev, H)
       /\ IsOn(d.face, H) /\ IsOn(d.fhalf, F)
  BY <1>3, <1>4, <1>5, <1>6, <1>7, <1>8, <1>9 DEF IsOn
<1>. QED BY <1>1, <1>10, <1>12, <1>13
(* A sound connectivity that is repacked is sound. *)
LEMMA RepackedSound ==
  ASSUME NEW c, NEW V, NEW H, NEW F, Sound(c, V, H, F),
         NEW W, NEW K, NEW G, AreNumbers(W, K, G), NEW av, NEW ah, NEW af,
         Swapping(av, W, V), Swapping(ah, K, H), Swapping(af, G, F),
         \A h \in K : Opposite(h) \in K /\ ah[Opposite(h)] = Opposite(ah[h]),
         NEW d, Repacked(d, c, av, ah, af, W, K, G)
  PROVE  /\ Sound(d, W, K, G)
         /\ \A v \in W : d.half[v] \in Int
         /\ \A h \in K : /\ d.target[h] \in Int /\ d.next[h] \in Int /\ d.prev[h] \in Int
                         /\ d.face[h] \in Int
         /\ \A f \in G : d.fhalf[f] \in Int
<1>1. /\ \A i \in W : av[i] \in V /\ av[av[i]] = i
      /\ \A i \in V : av[i] \in W /\ av[av[i]] = i
      /\ \A i \in K : ah[i] \in H /\ ah[ah[i]] = i
      /\ \A i \in H : ah[i] \in K /\ ah[ah[i]] = i
      /\ \A i \in G : af[i] \in F /\ af[af[i]] = i
      /\ \A i \in F : af[i] \in G /\ af[af[i]] = i
  BY DEF Swapping
<1>2. /\ \A h \in H : /\ c.next[h] \in H /\ c.prev[c.next[h]] = h
                      /\ c.prev[h] \in H /\ c.next[c.prev[h]] = h
                      /\ c.target[h] \in V /\ c.face[h] \in F \cup {Null}
      /\ \A v \in V : c.half[v] # Null => c.half[v] \in H
      /\ \A f \in F : c.fhalf[f] \in H
  BY DEF Sound, IsValid
<1>3. /\ \A v \in W : d.half[v] = IF c.half[av[v]] = Null THEN Null ELSE ah[c.half[av[v]]]
      /\ \A h \in K :
           /\ d.target[h] = av[c.target[ah[h]]] /\ d.next[h] = ah[c.next[ah[h]]]
           /\ (\E g \in K : d.next[g] = h) => d.prev[h] \in K /\ d.next[d.prev[h]] = h
           /\ d.face[h] = IF c.face[ah[h]] = Null THEN Null ELSE af[c.face[ah[h]]]
      /\ \A f \in G : d.fhalf[f] = ah[c.fhalf[af[f]]]
  BY DEF Repacked
<1>4. ASSUME NEW h \in K PROVE d.prev[h] \in K /\ ah[d.prev[h]] = c.prev[ah[h]]
  <2>1. PICK g : g = ah[c.prev[ah[h]]]
    OBVIOUS
  <2>2. g \in K /\ ah[g] = c.prev[ah[h]]
    BY <2>1, <1>1, <1>2
  <2>3. d.next[g] = h
    BY <2>2, <1>1, <1>2, <1>3
  <2>4. d.prev[h] \in K /\ d.next[d.prev[h]] = h
    BY <2>2, <2>3, <1>3
  <2>5. PICK f \in K : f = d.prev[h] /\ ah[c.next[ah[f]]] = h
    BY <2>4, <1>3
  <2>6. c.next[ah[f]] = ah[h]
    BY <2>5, <1>1, <1>2
  <2>7. c.prev[ah[h]] = ah[f]
    BY <2>5, <2>6, <1>1, <1>2
  <2>. QED BY <2>5, <2>7
<1>5. ASSUME NEW h \in K
      PROVE  /\ d.next[h] \in K /\ ah[d.next[h]] = c.next[ah[h]]
             /\ d.target[h] \in W /\ av[d.target[h]] = c.target[ah[h]]
             /\ \/ d.face[h] = Null /\ c.face[ah[h]] = Null
                \/ d.face[h] \in G /\ af[d.face[h]] = c.face[ah[h]]
  <2>1. ah[h] \in H
    BY <1>1
  <2>2. d.next[h] \in K /\ ah[d.next[h]] = c.next[ah[h]]
    BY <2>1, <1>1, <1>2, <1>3
  <2>3. d.target[h] \in W /\ av[d.target[h]] = c.target[ah[h]]
    BY <2>1, <1>1, <1>2, <1>3
  <2>4. \/ d.face[h] = Null /\ c.face[ah[h]] = Null
        \/ d.face[h] \in G /\ af[d.face[h]] = c.face[ah[h]]
    BY <2>1, <1>1, <1>2, <1>3
  <2>. QED BY <2>2, <2>3, <2>4
<1>6. ASSUME NEW v \in W
      PROVE  \/ d.half[v] = Null /\ c.half[av[v]] = Null
             \/ d.half[v] \in K /\ ah[d.half[v]] = c.half[av[v]]
  BY <1>1, <1>2, <1>3
<1>7. ASSUME NEW f \in G PROVE d.fhalf[f] \in K /\ ah[d.fhalf[f]] = c.fhalf[af[f]]
  BY <1>1, <1>2, <1>3
<1>8. Renumbers(d, W, K, G, c, av, ah, af)
  BY <1>4, <1>5, <1>6, <1>7 DEF Renumbers
<1>9. OneToOne(av, W, V) /\ OneToOne(ah, K, H) /\ OneToOne(af, G, F)
  BY <1>1 DEF OneToOne
<1>10. Sound(d, W, K, G)
  BY <1>8, <1>9, RenumberedSound
<1>11. \A i \in W \cup K \cup G \cup {Null} : i \in Int
  BY DEF AreNumbers, Null
<1>. QED BY <1>4, <1>5, <1>6, <1>7, <1>10, <1>11

(* One kind of elements after the swaps. *)
PackedKind(x, y, k, n, N, t) ==
  /\ n \in Nat /\ n <= N /\ Swapping(Swaps(x, k), UpTo(n), LiveOf(x[k]))
  /\ \A link : IsKind(y, k, UpTo(n), link, t)
  /\ LiveOf(y) = UpTo(n) /\ GoneOf(y) = {}

(* What garbage collection makes of a kind is such a kind. *)
LEMMA KindCollected ==
  ASSUME NEW x, NEW k, NEW N \in Nat, NEW q, q = x[k], NEW link, NEW t,
         IsKind(q, k, UpTo(N), link, t), NEW n, n = Cardinality(Live(x, k)),
         NEW y, y = CollectedKind(x, k)
  PROVE  PackedKind(x, y, k, n, N, t)
<1>1. PICK f, L, G : f = Swaps(x, k) /\ L = Live(x, k) /\ G = Gone(x, k)
  OBVIOUS
<1>2. q \in KindRecords(UpTo(N)) /\ Named(q, t)
  BY DEF IsKind
<1>3. L = LiveOf(q) /\ G = GoneOf(q)
  BY <1>1 DEF Live, Gone, LiveOf, GoneOf
<1>4. L \cup G = UpTo(N) /\ L \cap G = {} /\ DOMAIN x[k].removed = UpTo(N)
  BY <1>2, <1>3, LiveAndGone
<1>5. n \in Nat /\ n <= N
  BY <1>1, <1>4, SameSizes
<1>6. Swapping(f, UpTo(n), L)
  BY <1>1, <1>4, SwapsPair
<1>7. Packed(y, q, f, n)
  BY <1>1, CollectedKindIs
<1>8. ASSUME NEW l
      PROVE  IsKind(y, k, UpTo(n), l, t) /\ LiveOf(y) = UpTo(n) /\ GoneOf(y) = {}
  BY <1>2, <1>3, <1>5, <1>6, <1>7, KindPacked
<1>. QED BY <1>1, <1>3, <1>5, <1>6, <1>8 DEF PackedKind

(* The three kinds after garbage collection. *)
LEMMA CollectedKinds ==
  ASSUME NEW x, NEW a, NEW b, NEW c, NEW t, Sized(x, a, b, c, t), NEW n, NEW e, NEW m,
         n = Cardinality(Live(x, "vertices")), e = Cardinality(Live(x, "edges")),
         m = Cardinality(Live(x, "faces"))
  PROVE  /\ PackedKind(x, CollectedKind(x, "vertices"), "vertices", n, a, t)
         /\ PackedKind(x, CollectedKind(x, "edges"), "edges", e, b, t)
         /\ PackedKind(x, CollectedKind(x, "faces"), "faces", m, c, t)
<1>1. /\ a \in Nat /\ b \in Nat /\ c \in Nat
      /\ IsKind(x.vertices, "vertices", UpTo(a), x.conn.half, t)
      /\ IsKind(x.edges, "edges", UpTo(b), x.conn.next, t)
      /\ IsKind(x.faces, "faces", UpTo(c), x.conn.fhalf, t)
  BY DEF Sized, IsMesh
<1>2. PICK i, j, l : i = "vertices" /\ j = "edges" /\ l = "faces"
  OBVIOUS
<1>3. x.vertices = x[i] /\ x.edges = x[j] /\ x.faces = x[l]
  BY <1>2
<1>4. PackedKind(x, CollectedKind(x, i), i, n, a, t)
  BY <1>1, <1>2, <1>3, KindCollected
<1>5. PackedKind(x, CollectedKind(x, j), j, e, b, t)
  BY <1>1, <1>2, <1>3, KindCollected
<1>6. PackedKind(x, CollectedKind(x, l), l, m, c, t)
  BY <1>1, <1>2, <1>3, KindCollected
<1>. QED BY <1>2, <1>4, <1>5, <1>6

(* The connectivity after garbage collection is sound. *)
LEMMA CollectedConnSound ==
  ASSUME NEW x, NEW a, NEW b, NEW c, NEW t, Sized(x, a, b, c, t), NEW n, NEW e, NEW m,
         n = Cardinality(Live(x, "vertices")), e = Cardinality(Live(x, "edges")),
         m = Cardinality(Live(x, "faces")), NEW d, d = CollectedConnectivity(x)
  PROVE  /\ Sound(d, UpTo(n), HalvesOf(UpTo(e)), UpTo(m))
         /\ d \in Arrays(UpTo(n), HalvesOf(UpTo(e)), UpTo(m))
<1>1. /\ PackedKind(x, CollectedKind(x, "vertices"), "vertices", n, a, t)
      /\ PackedKind(x, CollectedKind(x, "edges"), "edges", e, b, t)
      /\ PackedKind(x, CollectedKind(x, "faces"), "faces", m, c, t)
  BY CollectedKinds
<1>2. PICK g, av, ae, ah, af, l :
        /\ g = x.conn /\ av = Swaps(x, "vertices") /\ ae = Swaps(x, "edges")
        /\ ah = HalfedgeSwaps(x) /\ af = Swaps(x, "faces") /\ l = 2 * e
  OBVIOUS
<1>3. PICK V, E, H, F : /\ V = LiveOf(x.vertices) /\ E = LiveOf(x.edges)
                        /\ H = HalvesOf(E) /\ F = LiveOf(x.faces)
  OBVIOUS
<1>4. /\ n \in Nat /\ e \in Nat /\ m \in Nat /\ e <= b /\ b \in Nat
      /\ Swapping(av, UpTo(n), V) /\ Swapping(ae, UpTo(e), E) /\ Swapping(af, UpTo(m), F)
  BY <1>1, <1>2, <1>3 DEF PackedKind, Sized
<1>5. Sound(g, V, H, F)
  BY <1>2, <1>3 DEF Sized, IsMesh
<1>6. PICK W, K, G : W = UpTo(n) /\ K = HalvesOf(UpTo(e)) /\ G = UpTo(m)
  OBVIOUS
<1>7. K = UpTo(l)
  BY <1>2, <1>4, <1>6, HalvesUpTo
<1>8. /\ Swapping(ah, K, H)
      /\ \A h \in K : ah[Opposite(h)] = Opposite(ah[h])
  <2>1. DOMAIN g.next = HalvesOf(UpTo(b))
    BY <1>2 DEF Sized, IsMesh, MeshRecords, Arrays
  <2>2. PICK D : D = HalvesOf(UpTo(b))
    OBVIOUS
  <2>3. ah = [h \in D |-> 2 * ae[h \div 2] + (h % 2)]
    BY <1>2, <2>1, <2>2 DEF HalfedgeSwaps
  <2>4. E \subseteq UpTo(b) /\ UpTo(e) \subseteq UpTo(b)
    <3>1. E \subseteq UpTo(b)
      BY <1>3, LiveWithin
    <3>2. UpTo(e) \subseteq UpTo(b)
      BY <1>4 DEF UpTo
    <3>. QED BY <3>1, <3>2
  <2>5. HalvesOf(E) \subseteq D /\ HalvesOf(UpTo(e)) \subseteq D
    BY <2>2, <2>4, HalvesWithin
  <2>6. Natural(E) /\ Natural(UpTo(e))
    BY <1>4, <2>4 DEF Natural, UpTo
  <2>7. PICK S : S = UpTo(e)
    OBVIOUS
  <2>8. /\ Natural(S) /\ Natural(E) /\ Swapping(ae, S, E) /\ Within(HalvesOf(S), D)
        /\ Within(HalvesOf(E), D) /\ OnHalves(ah, ae, D)
    BY <1>4, <2>3, <2>5, <2>6, <2>7 DEF Within, OnHalves
  <2>9. Swapping(ah, HalvesOf(S), HalvesOf(E)) /\ KeepsPairs(ah, HalvesOf(S))
    BY <2>8, HalvesSwapping
  <2>. QED BY <1>3, <1>6, <2>7, <2>9 DEF KeepsPairs
<1>9. d = Renumbered(g, av, ah, af, n, l, m)
  BY <1>2 DEF CollectedConnectivity
<1>10. /\ Repacked(d, g, av, ah, af, W, K, G)
       /\ IsOn(d.half, W) /\ IsOn(d.target, K) /\ IsOn(d.next, K) /\ IsOn(d.prev, K)
       /\ IsOn(d.face, K) /\ IsOn(d.fhalf, G)
       /\ d = [half |-> d.half, target |-> d.target, next |-> d.next, prev |-> d.prev,
               face |-> d.face, fhalf |-> d.fhalf]
  BY <1>6, <1>7, <1>9, RenumberedIs
<1>11. AreNumbers(W, K, G)
  <2>1. l \in Nat
    BY <1>2, <1>4
  <2>2. \A i \in Nat : UpTo(i) \subseteq Nat
    BY DEF UpTo
  <2>. QED BY <2>1, <2>2, <1>4, <1>6, <1>7 DEF AreNumbers
<1>12. \A h \in K : Opposite(h) \in K /\ ah[Opposite(h)] = Opposite(ah[h])
  <2>1. ASSUME NEW h \in K PROVE Opposite(h) \in K
    <3>1. PICK i \in UpTo(e) : h = 2 * i \/ h = 2 * i + 1
      BY <1>6 DEF HalvesOf
    <3>2. i \in Nat /\ 2 * i \in K /\ 2 * i + 1 \in K
      BY <1>4, <1>6 DEF UpTo, HalvesOf
    <3>3. Opposite(2 * i) = 2 * i + 1 /\ Opposite(2 * i + 1) = 2 * i
      BY <3>2, OppositeTwice
    <3>. QED BY <3>1, <3>2, <3>3
  <2>. QED BY <1>8, <2>1
<1>13. /\ Sound(d, W, K, G)
       /\ \A v \in W : d.half[v] \in Int
       /\ \A h \in K : /\ d.target[h] \in Int /\ d.next[h] \in Int /\ d.prev[h] \in Int
                       /\ d.face[h] \in Int
       /\ \A f \in G : d.fhalf[f] \in Int
  BY <1>4, <1>5, <1>6, <1>8, <1>10, <1>11, <1>12, RepackedSound
<1>14. /\ d.half \in [W -> Int] /\ d.target \in [K -> Int] /\ d.next \in [K -> Int]
       /\ d.prev \in [K -> Int] /\ d.face \in [K -> Int] /\ d.fhalf \in [G -> Int]
  BY <1>10, <1>13 DEF IsOn
<1>15. d \in Arrays(W, K, G)
  BY <1>10, <1>14 DEF Arrays
<1>. QED BY <1>6, <1>13, <1>15

(* collect_garbage keeps the invariant of its mesh. *)
LEMMA CollectStep ==
  ASSUME NEW t, NEW x, MeshOK(x, t), NEW y, y = Collected(x)
  PROVE  MeshOK(y, t)
<1>1. CASE ~x.garbage
  BY <1>1 DEF Collected
<1>2. CASE x.garbage
  <2>1. PICK a, b, c : Sized(x, a, b, c, t)
    BY MeshSized
  <2>2. PICK n, e, m : /\ n = Cardinality(Live(x, "vertices"))
                       /\ e = Cardinality(Live(x, "edges"))
                       /\ m = Cardinality(Live(x, "faces"))
    OBVIOUS
  <2>3. PICK p, q, r, d : /\ p = CollectedKind(x, "vertices") /\ q = CollectedKind(x, "edges")
                          /\ r = CollectedKind(x, "faces") /\ d = CollectedConnectivity(x)
    OBVIOUS
  <2>4. /\ PackedKind(x, p, "vertices", n, a, t) /\ PackedKind(x, q, "edges", e, b, t)
        /\ PackedKind(x, r, "faces", m, c, t)
    BY <2>1, <2>2, <2>3, CollectedKinds
  <2>5. PICK V, E, F : V = UpTo(n) /\ E = UpTo(e) /\ F = UpTo(m)
    OBVIOUS
  <2>6. Sound(d, V, HalvesOf(E), F) /\ d \in Arrays(V, HalvesOf(E), F)
    BY <2>1, <2>2, <2>3, <2>5, CollectedConnSound
  <2>7. /\ IsKind(p, "vertices", V, d.half, t) /\ IsKind(q, "edges", E, d.next, t)
        /\ IsKind(r, "faces", F, d.fhalf, t)
        /\ LiveOf(p) = V /\ LiveOf(q) = E /\ LiveOf(r) = F
        /\ GoneOf(p) = {} /\ GoneOf(q) = {} /\ GoneOf(r) = {}
        /\ n \in Nat /\ e \in Nat /\ m \in Nat
    BY <2>4, <2>5 DEF PackedKind
  <2>8. PICK g \in BOOLEAN, s \in BOOLEAN : g = FALSE /\ s = x.recycle
    BY <2>1 DEF Sized, IsMesh, MeshRecords
  <2>9. y = MeshOf(p, q, r, g, s, d)
    BY <1>2, <2>3, <2>8 DEF Collected, MeshOf
  <2>10. Sound(d, LiveOf(p), HalvesOf(LiveOf(q)), LiveOf(r)) /\ (g \/ NoneGone(p, q, r))
    BY <2>6, <2>7 DEF NoneGone
  <2>11. IsMesh(y, V, E, F, t)
    BY <2>6, <2>7, <2>9, <2>10, MeshIs
  <2>12. Numbered(V) /\ Numbered(E) /\ Numbered(F)
    BY <2>5, <2>7 DEF Numbered, UpTo
  <2>. QED BY <2>11, <2>12 DEF MeshOK
<1>. QED BY <1>1, <1>2

-----------------------------------------------------------------------------
(***************************************************************************)
(* The beginning.                                                          *)
(***************************************************************************)
LEMMA KindUnremoved ==
  ASSUME NEW S, Natural(S), NEW t, \A i \in S : i < t, NEW q, q = Unremoved(S), NEW k, NEW link
  PROVE  IsKind(q, k, S, link, t) /\ LiveOf(q) = S /\ GoneOf(q) = {}
<1>1. PICK removed, name, e, l :
        removed = [i \in S |-> FALSE] /\ name = [i \in S |-> i] /\ e = Null /\ l = 0
  OBVIOUS
<1>2. q = Members(removed, e, l, name)
  BY <1>1 DEF Unremoved, Members, Empty
<1>3. q.removed = removed /\ q.name = name /\ q.free = e /\ q.count = l
  BY <1>2 DEF Members
<1>4. LiveOf(q) = S /\ GoneOf(q) = {}
  BY <1>1, <1>3 DEF LiveOf, GoneOf
<1>5. q \in KindRecords(S)
  <2>1. /\ q.removed \in [S -> BOOLEAN] /\ q.free \in Int /\ q.count \in Nat
        /\ q.name \in [S -> Nat]
    BY <1>1, <1>3 DEF Natural, Null
  <2>. QED BY <1>2, <2>1, AreMembers
<1>6. Named(q, t)
  BY <1>1, <1>3, <1>4 DEF Named
<1>7. Chain(link, q.free, Null, NodesOf(k, GoneOf(q)), q.count)
  <2>1. NodesOf(k, GoneOf(q)) = {}
    BY <1>4 DEF NodesOf
  <2>. QED BY <2>1, <1>1, <1>3, ChainEmpty
<1>. QED BY <1>4, <1>5, <1>6, <1>7 DEF IsKind

(* A first mesh, field by field. *)
LEMMA FreshIs ==
  ASSUME NEW c, NEW V, NEW E, NEW F, V = DOMAIN c.half, E = {h \div 2 : h \in DOMAIN c.next},
         F = DOMAIN c.fhalf
  PROVE  Fresh(c) = MeshOf(Unremoved(V), Unremoved(E), Unremoved(F), FALSE, TRUE, c)
BY DEF Fresh, MeshOf

(* A first mesh has the invariant. *)
LEMMA FreshStep ==
  ASSUME NEW c \in Firsts, NEW x, x = Fresh(c), NEW t, t = Size(c)
  PROVE  MeshOK(x, t) /\ t \in Nat
<1>1. PICK a \in Nat, b \in Nat, l \in Nat :
        /\ c \in Arrays(0 .. a - 1, 0 .. 2 * b - 1, 0 .. l - 1)
        /\ IsValid(c, 0 .. a - 1, 0 .. 2 * b - 1, 0 .. l - 1)
        /\ IsManifold(c, 0 .. a - 1, 0 .. 2 * b - 1, 0 .. l - 1)
  <2>1. PICK a \in 0 .. MaxSize["vertices"], b \in 0 .. MaxSize["edges"],
             l \in 0 .. MaxSize["faces"] :
          /\ c \in Arrays(0 .. a - 1, 0 .. 2 * b - 1, 0 .. l - 1)
          /\ IsValid(c, 0 .. a - 1, 0 .. 2 * b - 1, 0 .. l - 1)
          /\ IsManifold(c, 0 .. a - 1, 0 .. 2 * b - 1, 0 .. l - 1)
    BY FirstsAssumption
  <2>2. a \in Nat /\ b \in Nat /\ l \in Nat
    BY BoundAssumption DEF Kinds
  <2>. QED BY <2>1, <2>2
<1>2. PICK V, E, H, F, d : V = UpTo(a) /\ E = UpTo(b) /\ H = HalvesOf(E) /\ F = UpTo(l) /\ d = 2 * b
  OBVIOUS
<1>3. H = UpTo(d) /\ d \in Nat
  BY <1>2, HalvesUpTo
<1>4. V = 0 .. a - 1 /\ H = 0 .. 2 * b - 1 /\ F = 0 .. l - 1
  BY <1>2, <1>3 DEF UpTo
<1>5. c \in Arrays(V, H, F) /\ IsValid(c, V, H, F) /\ IsManifold(c, V, H, F)
  BY <1>1, <1>4
<1>6. DOMAIN c.half = V /\ DOMAIN c.next = H /\ DOMAIN c.fhalf = F
  BY <1>5 DEF Arrays
<1>7. E = {h \div 2 : h \in H}
  <2>1. ASSUME NEW e \in E PROVE e \in {h \div 2 : h \in H}
    <3>1. 2 * e \in H /\ (2 * e) \div 2 = e
      BY <1>2 DEF HalvesOf, UpTo
    <3>. QED BY <3>1
  <2>2. ASSUME NEW h \in H PROVE h \div 2 \in E
    BY <1>2, <1>4 DEF UpTo
  <2>. QED BY <2>1, <2>2
<1>8. t = a + d + l /\ t \in Nat
  <2>1. Cardinality(V) = a /\ Cardinality(H) = d /\ Cardinality(F) = l
    BY <1>2, <1>3, UpToCount
  <2>. QED BY <1>3, <1>6, <2>1 DEF Size
<1>9. /\ Natural(V) /\ Natural(E) /\ Natural(F)
      /\ \A i \in V : i < t
      /\ \A i \in E : i < t
      /\ \A i \in F : i < t
  BY <1>2, <1>8 DEF UpTo, Natural
<1>10. PICK p, q, r, g, s : /\ p = Unremoved(V) /\ q = Unremoved(E) /\ r = Unremoved(F)
                            /\ g = FALSE /\ s = TRUE
  OBVIOUS
<1>11. x = MeshOf(p, q, r, g, s, c)
  BY <1>6, <1>7, <1>10, FreshIs
<1>12. /\ IsKind(p, "vertices", V, c.half, t) /\ IsKind(q, "edges", E, c.next, t)
       /\ IsKind(r, "faces", F, c.fhalf, t)
       /\ LiveOf(p) = V /\ LiveOf(q) = E /\ LiveOf(r) = F
       /\ GoneOf(p) = {} /\ GoneOf(q) = {} /\ GoneOf(r) = {}
  BY <1>9, <1>10, KindUnremoved
<1>13. Sound(c, LiveOf(p), HalvesOf(LiveOf(q)), LiveOf(r))
  <2>1. AreNumbers(V, H, F)
    BY <1>4, <1>9 DEF AreNumbers, Natural
  <2>. QED BY <2>1, <1>2, <1>5, <1>12 DEF Sound
<1>14. /\ g \in BOOLEAN /\ s \in BOOLEAN /\ (g \/ NoneGone(p, q, r))
       /\ c \in Arrays(V, HalvesOf(E), F)
  BY <1>2, <1>5, <1>10, <1>12 DEF NoneGone
<1>15. IsMesh(x, V, E, F, t)
  BY <1>11, <1>12, <1>13, <1>14, MeshIs
<1>16. Numbered(V) /\ Numbered(E) /\ Numbered(F)
  BY <1>2 DEF Numbered, UpTo
<1>. QED BY <1>8, <1>15, <1>16 DEF MeshOK

-----------------------------------------------------------------------------
(***************************************************************************)
(* The calls.                                                              *)
(***************************************************************************)
IInv ==
  /\ DOMAIN mesh = Meshes /\ clock \in Nat /\ calls \in 0 .. MaxCalls
  /\ \A a \in Meshes : MeshOK(mesh[a], clock)

(* Mesh a becomes x. *)
Becomes(a, x) ==
  Call(a, x) /\ MeshOK(x, clock') /\ clock' \in Nat /\ clock <= clock'

(* Mesh a keeps its elements, or adds some. *)
Steady(a) == \E x : Becomes(a, x) /\ Follows(mesh[a], x, clock)

Renewed(a) == \E x : Becomes(a, x)

(* add_vertex keeps indices. *)
LEMMA AddVertexSteady ==
  ASSUME IInv, NEW a \in Meshes, AddVertex(a)
  PROVE  Steady(a)
<1>1. PICK t, u, x : t = clock /\ u = t + 1 /\ x = mesh[a]
  OBVIOUS
<1>2. t \in Nat /\ MeshOK(x, t) /\ clock' = u /\ u \in Nat /\ t <= u
  BY <1>1 DEF IInv, AddVertex
<1>3. PICK y : y = Added(x, "vertices", t)
  OBVIOUS
<1>4. MeshOK(y, u) /\ Follows(x, y, t)
  BY <1>1, <1>2, <1>3, AddVertexStep
<1>5. Call(a, y)
  BY <1>1, <1>3 DEF AddVertex
<1>. QED BY <1>1, <1>2, <1>4, <1>5 DEF Steady, Becomes

(* add_edge keeps indices. *)
LEMMA AddEdgeSteady ==
  ASSUME IInv, NEW a \in Meshes, AddEdge(a)
  PROVE  Steady(a)
<1>1. PICK s, m, x : s = clock /\ m = s + 1 /\ x = mesh[a]
  OBVIOUS
<1>2. s \in Nat /\ MeshOK(x, s) /\ clock' = m /\ m \in Nat /\ s <= m
  BY <1>1 DEF IInv, AddEdge
<1>3. PICK h : h = NextNode(x, "edges")
  OBVIOUS
<1>4. PICK u \in Live(x, "vertices"), v \in Live(x, "vertices") :
        /\ u # v
        /\ \E g \in Ends(x, u), k \in Ends(x, v) :
             Call(a, [Added(x, "edges", s) EXCEPT !.conn = Connect(@, h, u, g, v, k)])
  BY <1>1, <1>3 DEF AddEdge
<1>5. PICK g \in Ends(x, u), k \in Ends(x, v) :
        Call(a, [Added(x, "edges", s) EXCEPT !.conn = Connect(@, h, u, g, v, k)])
  BY <1>4
<1>6. PICK y : y = [Added(x, "edges", s) EXCEPT !.conn = Connect(@, h, u, g, v, k)]
  OBVIOUS
<1>7. MeshOK(y, m) /\ Follows(x, y, s)
  BY <1>1, <1>2, <1>3, <1>4, <1>5, <1>6, AddEdgeStep
<1>8. Call(a, y)
  BY <1>5, <1>6
<1>. QED BY <1>1, <1>2, <1>7, <1>8 DEF Steady, Becomes

(* add_face keeps indices. *)
LEMMA AddFaceSteady ==
  ASSUME IInv, NEW a \in Meshes, AddFace(a)
  PROVE  Steady(a)
<1>1. PICK s, m, x : s = clock /\ m = s + 1 /\ x = mesh[a]
  OBVIOUS
<1>2. s \in Nat /\ MeshOK(x, s) /\ clock' = m /\ m \in Nat /\ s <= m
  BY <1>1 DEF IInv, AddFace
<1>3. PICK i : i = NextNode(x, "faces")
  OBVIOUS
<1>4. PICK h \in DOMAIN x.conn.next :
        /\ h \div 2 \in Live(x, "edges") /\ x.conn.face[h] = Null
        /\ Call(a, [Added(x, "faces", s) EXCEPT !.conn = Fill(@, h, i)])
  BY <1>1, <1>3 DEF AddFace
<1>5. PICK y : y = [Added(x, "faces", s) EXCEPT !.conn = Fill(@, h, i)]
  OBVIOUS
<1>6. MeshOK(y, m) /\ Follows(x, y, s)
  BY <1>1, <1>2, <1>3, <1>4, <1>5, AddFaceStep
<1>. QED BY <1>1, <1>2, <1>4, <1>5, <1>6 DEF Steady, Becomes

(* remove_vertex keeps indices. *)
LEMMA RemoveVertexSteady ==
  ASSUME IInv, NEW a \in Meshes, RemoveVertex(a)
  PROVE  Steady(a)
<1>1. PICK s, x : s = clock /\ x = mesh[a]
  OBVIOUS
<1>2. s \in Nat /\ MeshOK(x, s) /\ clock' = s
  BY <1>1 DEF IInv, RemoveVertex
<1>3. PICK v \in Live(x, "vertices") :
        x.conn.half[v] = Null /\ Call(a, Removed(x, "vertices", v))
  BY <1>1 DEF RemoveVertex
<1>4. PICK y : y = Removed(x, "vertices", v)
  OBVIOUS
<1>5. MeshOK(y, s) /\ Follows(x, y, s)
  BY <1>2, <1>3, <1>4, RemoveVertexStep
<1>. QED BY <1>1, <1>2, <1>3, <1>4, <1>5 DEF Steady, Becomes

(* remove_edge keeps indices. *)
LEMMA RemoveEdgeSteady ==
  ASSUME IInv, NEW a \in Meshes, RemoveEdge(a)
  PROVE  Steady(a)
<1>1. PICK s, x : s = clock /\ x = mesh[a]
  OBVIOUS
<1>2. s \in Nat /\ MeshOK(x, s) /\ clock' = s
  BY <1>1 DEF IInv, RemoveEdge
<1>3. PICK e \in Live(x, "edges") :
        /\ \A h \in {2 * e, 2 * e + 1} : x.conn.face[h] = Null
        /\ Call(a, Removed([x EXCEPT !.conn = Disconnect(@, 2 * e)], "edges", e))
  BY <1>1 DEF RemoveEdge
<1>4. PICK h, o : h = 2 * e /\ o = 2 * e + 1
  OBVIOUS
<1>5. x.conn.face[h] = Null /\ x.conn.face[o] = Null
  BY <1>3, <1>4
<1>6. PICK y : y = Removed([x EXCEPT !.conn = Disconnect(@, h)], "edges", e)
  OBVIOUS
<1>7. MeshOK(y, s) /\ Follows(x, y, s)
  BY <1>2, <1>3, <1>4, <1>5, <1>6, RemoveEdgeStep
<1>8. Call(a, y)
  BY <1>3, <1>4, <1>6
<1>. QED BY <1>1, <1>2, <1>7, <1>8 DEF Steady, Becomes

(* remove_face keeps indices. *)
LEMMA RemoveFaceSteady ==
  ASSUME IInv, NEW a \in Meshes, RemoveFace(a)
  PROVE  Steady(a)
<1>1. PICK s, x : s = clock /\ x = mesh[a]
  OBVIOUS
<1>2. s \in Nat /\ MeshOK(x, s) /\ clock' = s
  BY <1>1 DEF IInv, RemoveFace
<1>3. PICK f \in Live(x, "faces") :
        Call(a, Removed([x EXCEPT !.conn = SetFace(x.conn, x.conn.fhalf[f], Null)], "faces", f))
  BY <1>1 DEF RemoveFace
<1>4. PICK y :
        y = Removed([x EXCEPT !.conn = SetFace(x.conn, x.conn.fhalf[f], Null)], "faces", f)
  OBVIOUS
<1>5. MeshOK(y, s) /\ Follows(x, y, s)
  BY <1>2, <1>3, <1>4, RemoveFaceStep
<1>. QED BY <1>1, <1>2, <1>3, <1>4, <1>5 DEF Steady, Becomes

(* set_recycle_garbage keeps indices. *)
LEMMA RecycleSteady ==
  ASSUME IInv, NEW a \in Meshes, NEW b \in BOOLEAN, SetRecycleGarbage(a, b)
  PROVE  Steady(a)
<1>1. PICK s, x, y : s = clock /\ x = mesh[a] /\ y = [x EXCEPT !.recycle = b]
  OBVIOUS
<1>2. s \in Nat /\ MeshOK(x, s) /\ clock' = s /\ Call(a, y)
  BY <1>1 DEF IInv, SetRecycleGarbage
<1>3. MeshOK(y, s) /\ Follows(x, y, s)
  BY <1>1, <1>2, RecycleStep
<1>. QED BY <1>1, <1>2, <1>3 DEF Steady, Becomes

(* clear leaves no element whose index could be wrong. *)
LEMMA ClearSteady ==
  ASSUME IInv, NEW a \in Meshes, Clear(a)
  PROVE  Steady(a)
<1>1. clock \in Nat /\ clock' = clock /\ Call(a, Cleared)
  BY DEF IInv, Clear
<1>2. MeshOK(Cleared, clock) /\ Follows(mesh[a], Cleared, clock)
  BY ClearStep
<1>. QED BY <1>1, <1>2 DEF Steady, Becomes

(* join keeps the indices of the first mesh. *)
LEMMA JoinSteady ==
  ASSUME IInv, NEW a \in Meshes, NEW b \in Meshes, Join(a, b)
  PROVE  Steady(a)
<1>1. PICK t, u, x, y, z : /\ t = clock /\ u = 2 * t /\ x = mesh[a] /\ y = mesh[b]
                           /\ z = Joined(x, y)
  OBVIOUS
<1>2. t \in Nat /\ MeshOK(x, t) /\ MeshOK(y, t) /\ clock' = u /\ Call(a, z)
  BY <1>1 DEF IInv, Join
<1>3. MeshOK(z, u) /\ Follows(x, z, t)
  BY <1>1, <1>2, JoinStep
<1>4. u \in Nat /\ t <= u
  BY <1>1, <1>2
<1>. QED BY <1>1, <1>2, <1>3, <1>4 DEF Steady, Becomes

(* collect_garbage keeps the invariant, but not the indices. *)
LEMMA CollectRenewed ==
  ASSUME IInv, NEW a \in Meshes, CollectGarbage(a)
  PROVE  Renewed(a)
<1>1. PICK t, x, y : t = clock /\ x = mesh[a] /\ y = Collected(x)
  OBVIOUS
<1>2. t \in Nat /\ MeshOK(x, t) /\ clock' = t /\ Call(a, y)
  BY <1>1 DEF IInv, CollectGarbage
<1>3. MeshOK(y, t)
  BY <1>1, <1>2, CollectStep
<1>. QED BY <1>1, <1>2, <1>3 DEF Renewed, Becomes

(* Neither does an assignment keep them. *)
LEMMA AssignRenewed ==
  ASSUME IInv, NEW a \in Meshes, NEW b \in Meshes, Assign(a, b)
  PROVE  Renewed(a)
<1>1. clock \in Nat /\ MeshOK(mesh[b], clock) /\ clock' = clock /\ Call(a, mesh[b])
  BY DEF IInv, Assign
<1>. QED BY <1>1 DEF Renewed, Becomes

(* A call changes one mesh, whose new contents are consistent. *)
LEMMA NextIs ==
  ASSUME IInv, Next
  PROVE  \E a \in Meshes :
           /\ Renewed(a)
           /\ Steady(a) \/ CollectGarbage(a) \/ \E b \in Meshes \ {a} : Assign(a, b)
<1>1. PICK a \in Meshes :
        \/ AddVertex(a) \/ AddEdge(a) \/ AddFace(a)
        \/ RemoveVertex(a) \/ RemoveEdge(a) \/ RemoveFace(a)
        \/ CollectGarbage(a) \/ Clear(a)
        \/ \E b \in BOOLEAN : SetRecycleGarbage(a, b)
        \/ \E b \in Meshes \ {a} : Assign(a, b) \/ Join(a, b)
  BY DEF Next
<1>2. Steady(a) => Renewed(a)
  BY DEF Steady, Renewed
<1>3. CASE \/ AddVertex(a) \/ AddEdge(a) \/ AddFace(a)
           \/ RemoveVertex(a) \/ RemoveEdge(a) \/ RemoveFace(a)
  <2>1. Steady(a)
    BY <1>3, AddVertexSteady, AddEdgeSteady, AddFaceSteady, RemoveVertexSteady,
       RemoveEdgeSteady, RemoveFaceSteady
  <2>. QED BY <1>2, <2>1
<1>4. CASE CollectGarbage(a)
  BY <1>4, CollectRenewed
<1>5. CASE Clear(a)
  BY <1>2, <1>5, ClearSteady
<1>6. CASE \E b \in BOOLEAN : SetRecycleGarbage(a, b)
  BY <1>2, <1>6, RecycleSteady
<1>7. CASE \E b \in Meshes \ {a} : Assign(a, b)
  BY <1>7, AssignRenewed
<1>8. CASE \E b \in Meshes \ {a} : Join(a, b)
  BY <1>2, <1>8, JoinSteady
<1>. QED BY <1>1, <1>3, <1>4, <1>5, <1>6, <1>7, <1>8

(* What a call does to the array of meshes. *)
LEMMA CallIs ==
  ASSUME IInv, NEW a \in Meshes, NEW x, Call(a, x)
  PROVE  /\ DOMAIN mesh' = Meshes /\ mesh'[a] = x
         /\ \A b \in Meshes : b # a => mesh'[b] = mesh[b]
         /\ calls' \in 0 .. MaxCalls
BY BoundAssumption DEF IInv, Call

(* The invariant holds at first. *)
LEMMA InitInvariant == Init => IInv
<1> SUFFICES ASSUME Init PROVE IInv
  OBVIOUS
<1>1. PICK c \in Firsts : mesh = [a \in Meshes |-> Fresh(c)] /\ clock = Size(c)
  BY DEF Init
<1>2. PICK x, t : x = Fresh(c) /\ t = Size(c)
  OBVIOUS
<1>3. MeshOK(x, t) /\ t \in Nat
  BY <1>2, FreshStep
<1>4. \A a \in Meshes : mesh[a] = x
  BY <1>1, <1>2
<1>5. calls \in 0 .. MaxCalls
  BY BoundAssumption DEF Init
<1>6. DOMAIN mesh = Meshes
  BY <1>1
<1>. QED BY <1>1, <1>2, <1>3, <1>4, <1>5, <1>6 DEF IInv

(* Every step keeps it. *)
LEMMA NextInvariant == IInv /\ [Next]_vars => IInv'
<1> SUFFICES ASSUME IInv, [Next]_vars PROVE IInv'
  OBVIOUS
<1>1. CASE Next
  <2>1. PICK a \in Meshes : Renewed(a)
    BY <1>1, NextIs
  <2>2. PICK x : Call(a, x) /\ MeshOK(x, clock') /\ clock' \in Nat /\ clock <= clock'
    BY <2>1 DEF Renewed, Becomes
  <2>3. /\ DOMAIN mesh' = Meshes /\ mesh'[a] = x
        /\ \A b \in Meshes : b # a => mesh'[b] = mesh[b]
        /\ calls' \in 0 .. MaxCalls
    BY <2>2, CallIs
  <2>4. ASSUME NEW b \in Meshes, b # a PROVE MeshOK(mesh'[b], clock')
    <3>1. MeshOK(mesh[b], clock) /\ clock \in Nat
      BY DEF IInv
    <3>2. MeshOK(mesh[b], clock')
      BY <2>2, <3>1, MeshLater
    <3>. QED BY <2>3, <2>4, <3>2
  <2>5. \A b \in Meshes : MeshOK(mesh'[b], clock')
    BY <2>2, <2>3, <2>4
  <2>. QED BY <2>2, <2>3, <2>5 DEF IInv
<1>2. CASE UNCHANGED vars
  BY <1>2 DEF vars, IInv
<1>. QED BY <1>1, <1>2

(* The inductive invariant: every mesh has exact free lists, sound *)
(* connectivity and names that have been given.                    *)
THEOREM Consistency == Spec => []IInv
<1>. QED BY InitInvariant, NextInvariant, PTL DEF Spec

-----------------------------------------------------------------------------
(***************************************************************************)
(* What the invariant says of a mesh, in the terms of the specification.   *)
(***************************************************************************)
(* The elements of one kind, and the array of their free list. *)
IsStore(x, k, n, t) ==
  /\ n \in Nat /\ n = Num(x, k) /\ IsKind(x[k], k, UpTo(n), Link(x, k), t)
  /\ IsArray(Link(x, k), UpTo(Node(k, n)))

(* What the invariant says of each kind of a mesh. *)
LEMMA MeshStores ==
  ASSUME NEW x, NEW t, MeshOK(x, t), NEW k \in Kinds
  PROVE  \E n : IsStore(x, k, n, t)
<1>1. PICK n, e, m : Sized(x, n, e, m, t)
  BY MeshSized
<1>2. /\ IsArray(x.conn.half, UpTo(Node("vertices", n)))
      /\ IsArray(x.conn.next, UpTo(Node("edges", e)))
      /\ IsArray(x.conn.fhalf, UpTo(Node("faces", m)))
  BY <1>1, SizedArrays
<1>3. /\ n \in Nat /\ e \in Nat /\ m \in Nat
      /\ n = Num(x, "vertices") /\ e = Num(x, "edges") /\ m = Num(x, "faces")
      /\ IsKind(x.vertices, "vertices", UpTo(n), x.conn.half, t)
      /\ IsKind(x.edges, "edges", UpTo(e), x.conn.next, t)
      /\ IsKind(x.faces, "faces", UpTo(m), x.conn.fhalf, t)
  BY <1>1 DEF Sized, IsMesh
<1>4. CASE k = "vertices"
  BY <1>2, <1>3, <1>4 DEF IsStore, Link, LinkOf
<1>5. CASE k = "edges"
  BY <1>2, <1>3, <1>5 DEF IsStore, Link, LinkOf
<1>6. CASE k = "faces"
  BY <1>2, <1>3, <1>6 DEF IsStore, Link, LinkOf
<1>. QED BY <1>4, <1>5, <1>6 DEF Kinds

(* Every node of a kind has a link. *)
LEMMA StoreHolds ==
  ASSUME NEW k, NEW n \in Nat, NEW link, IsArray(link, UpTo(Node(k, n)))
  PROVE  Holds(link, NodesOf(k, UpTo(n)))
<1>1. link \in [UpTo(Node(k, n)) -> Int] /\ DOMAIN link = UpTo(Node(k, n))
  BY DEF IsArray
<1>2. Node(k, n) \in Nat
  BY NodeIs
<1>3. NodesOf(k, UpTo(n)) \subseteq UpTo(Node(k, n))
  <2>1. ASSUME NEW i \in UpTo(n) PROVE Node(k, i) \in UpTo(Node(k, n))
    BY DEF UpTo, Node
  <2>. QED BY <2>1 DEF NodesOf
<1>4. Null \notin UpTo(Node(k, n))
  BY <1>2 DEF UpTo, Null
<1>. QED BY <1>1, <1>3, <1>4 DEF Holds

(* The numbers below n, as an interval. *)
LEMMA UpToNumbered ==
  ASSUME NEW n \in Nat
  PROVE  Numbered(UpTo(n)) /\ UpTo(n) = 0 .. n - 1
BY DEF Numbered, UpTo

(* The members of a kind have their types. *)
LEMMA StoreIsTyped ==
  ASSUME NEW x, NEW k, NEW n, NEW t, IsStore(x, k, n, t)
  PROVE  /\ x[k].removed \in [0 .. n - 1 -> BOOLEAN] /\ x[k].name \in [0 .. n - 1 -> Nat]
         /\ x[k].count \in Nat
         /\ x[k].free \in {Null} \cup {Node(k, i) : i \in 0 .. n - 1}
<1>1. PICK q, link : q = x[k] /\ link = Link(x, k)
  OBVIOUS
<1>2. n \in Nat /\ IsKind(q, k, UpTo(n), link, t)
  BY <1>1 DEF IsStore
<1>3. q \in KindRecords(UpTo(n))
  BY <1>2 DEF IsKind
<1>4. UpTo(n) = 0 .. n - 1
  BY <1>2, UpToNumbered
<1>5. /\ q.removed \in [UpTo(n) -> BOOLEAN] /\ q.name \in [UpTo(n) -> Nat]
      /\ q.count \in Nat
  BY <1>3 DEF KindRecords
<1>6. q.free # Null => q.free \in NodesOf(k, GoneOf(q))
  BY <1>2, FreeIsGone
<1>7. GoneOf(q) \subseteq UpTo(n)
  BY <1>3, LiveAndGone
<1>8. NodesOf(k, GoneOf(q)) \subseteq {Node(k, i) : i \in 0 .. n - 1}
  BY <1>4, <1>7 DEF NodesOf
<1>. QED BY <1>1, <1>4, <1>5, <1>6, <1>8

(* The free list of a kind visits its removed elements. *)
LEMMA StoreIsListed ==
  ASSUME NEW x, NEW k, NEW n, NEW t, IsStore(x, k, n, t)
  PROVE  /\ x[k].count = Cardinality(Gone(x, k))
         /\ {FreeNode(x, k)[i] : i \in 0 .. x[k].count - 1} = {Node(k, i) : i \in Gone(x, k)}
         /\ FreeNode(x, k)[x[k].count] = Null
<1>1. PICK q, link, I : q = x[k] /\ link = Link(x, k) /\ I = UpTo(n)
  OBVIOUS
<1>2. n \in Nat /\ IsKind(q, k, I, link, t) /\ IsArray(link, UpTo(Node(k, n)))
  BY <1>1 DEF IsStore
<1>3. Holds(link, NodesOf(k, I))
  BY <1>1, <1>2, StoreHolds
<1>4. Numbered(I)
  BY <1>1, <1>2, UpToNumbered
<1>5. ListsExactly(FreeNode(x, k), q.count, NodesOf(k, GoneOf(q)))
  BY <1>1, <1>2, <1>3, <1>4, FreeListIs
<1>6. q.count = Cardinality(GoneOf(q))
  BY <1>1, <1>2, <1>3, <1>4, FreeListIs
<1>7. Gone(x, k) = GoneOf(q)
  BY <1>1 DEF Gone, GoneOf
<1>8. q.count \in Nat
  BY <1>2 DEF IsKind, KindRecords
<1>9. /\ {FreeNode(x, k)[i] : i \in 0 .. q.count - 1} = NodesOf(k, GoneOf(q))
      /\ FreeNode(x, k)[q.count] = Null
  BY <1>5, <1>8 DEF ListsExactly
<1>. QED BY <1>1, <1>6, <1>7, <1>9 DEF NodesOf

(* The members of a mesh have their types. *)
LEMMA MeshIsTyped ==
  ASSUME NEW x, NEW t, MeshOK(x, t)
  PROVE  /\ x.garbage \in BOOLEAN /\ x.recycle \in BOOLEAN
         /\ DOMAIN x.conn.half = 0 .. Num(x, "vertices") - 1
         /\ DOMAIN x.conn.fhalf = 0 .. Num(x, "faces") - 1
         /\ \A f \in {"target", "next", "prev", "face"} :
              DOMAIN x.conn[f] = 0 .. 2 * Num(x, "edges") - 1
<1>1. PICK n, e, m : Sized(x, n, e, m, t)
  BY MeshSized
<1>2. x.garbage \in BOOLEAN /\ x.recycle \in BOOLEAN
  BY <1>1 DEF Sized, IsMesh, MeshRecords
<1>3. PICK c : c = x.conn
  OBVIOUS
<1>4. /\ IsArray(c.half, UpTo(Node("vertices", n)))
      /\ IsArray(c.next, UpTo(Node("edges", e))) /\ IsArray(c.fhalf, UpTo(Node("faces", m)))
      /\ IsArray(c.target, UpTo(2 * e)) /\ IsArray(c.prev, UpTo(2 * e))
      /\ IsArray(c.face, UpTo(2 * e))
  BY <1>1, <1>3, SizedArrays
<1>5. n = Num(x, "vertices") /\ e = Num(x, "edges") /\ m = Num(x, "faces")
  BY <1>1 DEF Sized
<1>6. Node("vertices", n) = n /\ Node("edges", e) = 2 * e /\ Node("faces", m) = m
  BY DEF Node
<1>7. /\ DOMAIN c.half = UpTo(n) /\ DOMAIN c.fhalf = UpTo(m) /\ DOMAIN c.next = UpTo(2 * e)
      /\ DOMAIN c.target = UpTo(2 * e) /\ DOMAIN c.prev = UpTo(2 * e)
      /\ DOMAIN c.face = UpTo(2 * e)
  BY <1>4, <1>6 DEF IsArray
<1>. QED BY <1>2, <1>3, <1>5, <1>7 DEF UpTo

(* The live elements of a mesh are valid. *)
LEMMA MeshIsValid ==
  ASSUME NEW x, NEW t, MeshOK(x, t)
  PROVE  IsValid(x.conn, Live(x, "vertices"),
                 {h \in DOMAIN x.conn.next : h \div 2 \in Live(x, "edges")}, Live(x, "faces"))
<1>1. PICK n, e, m : Sized(x, n, e, m, t)
  BY MeshSized
<1>2. /\ e \in Nat /\ x \in MeshRecords(UpTo(n), UpTo(e), UpTo(m))
      /\ Sound(x.conn, LiveOf(x.vertices), HalvesOf(LiveOf(x.edges)), LiveOf(x.faces))
  BY <1>1 DEF Sized, IsMesh
<1>3. PICK E, L, D : E = UpTo(e) /\ L = LiveOf(x.edges) /\ D = DOMAIN x.conn.next
  OBVIOUS
<1>4. /\ Live(x, "vertices") = LiveOf(x.vertices) /\ Live(x, "edges") = L
      /\ Live(x, "faces") = LiveOf(x.faces)
  BY <1>3 DEF Live, LiveOf
<1>5. x.edges \in KindRecords(E) /\ x.conn \in Arrays(UpTo(n), HalvesOf(E), UpTo(m))
  BY <1>2, <1>3, MeshFields
<1>6. L \subseteq E /\ D = HalvesOf(E)
  <2>1. L \subseteq E
    BY <1>3, <1>5, LiveAndGone
  <2>2. D = HalvesOf(E)
    BY <1>3, <1>5 DEF Arrays
  <2>. QED BY <2>1, <2>2
<1>7. Natural(E)
  BY <1>2, <1>3 DEF Natural, UpTo
<1>8. HalvesOf(L) = {h \in D : h \div 2 \in L}
  BY <1>6, <1>7, HalvesIs
<1>. QED BY <1>2, <1>3, <1>4, <1>8 DEF Sound

(* A mesh that is not flagged has no removed elements. *)
LEMMA MeshIsFlagged ==
  ASSUME NEW x, NEW t, MeshOK(x, t), ~x.garbage, NEW k \in Kinds
  PROVE  Gone(x, k) = {}
<1>1. GoneOf(x.vertices) = {} /\ GoneOf(x.edges) = {} /\ GoneOf(x.faces) = {}
  BY DEF MeshOK, IsMesh, NoneGone
<1>2. Gone(x, k) = GoneOf(x[k])
  BY DEF Gone, GoneOf
<1>3. CASE k = "vertices"
  BY <1>1, <1>2, <1>3
<1>4. CASE k = "edges"
  BY <1>1, <1>2, <1>4
<1>5. CASE k = "faces"
  BY <1>1, <1>2, <1>5
<1>. QED BY <1>3, <1>4, <1>5 DEF Kinds

(* Live elements with the same name, before and after. *)
LEMMA SameElement ==
  ASSUME NEW x, NEW y, NEW t, MeshOK(x, t), Follows(x, y, t),
         NEW k \in Kinds, NEW i \in Live(x, k), NEW j \in Live(y, k),
         x[k].name[i] = y[k].name[j]
  PROVE  i = j
<1>1. PICK q, r : q = x[k] /\ r = y[k]
  OBVIOUS
<1>2. i \in LiveOf(q) /\ j \in LiveOf(r) /\ q.name[i] = r.name[j]
  BY <1>1 DEF Live, LiveOf
<1>3. PICK n : IsStore(x, k, n, t)
  BY MeshStores
<1>4. Named(q, t)
  BY <1>1, <1>3 DEF IsStore, IsKind
<1>5. Kept(q, r, t)
  <2>1. CASE k = "vertices"
    BY <1>1, <2>1 DEF Follows
  <2>2. CASE k = "edges"
    BY <1>1, <2>2 DEF Follows
  <2>3. CASE k = "faces"
    BY <1>1, <2>3 DEF Follows
  <2>. QED BY <2>1, <2>2, <2>3 DEF Kinds
<1>6. q.name[i] < t
  BY <1>2, <1>4 DEF Named
<1>7. j \in LiveOf(q) /\ q.name[j] = r.name[j]
  BY <1>2, <1>5, <1>6 DEF Kept
<1>. QED BY <1>2, <1>4, <1>7 DEF Named

-----------------------------------------------------------------------------
(***************************************************************************)
(* The properties.                                                         *)
(***************************************************************************)
(* The arrays of a mesh have the lengths that its vectors say, and a free  *)
(* list begins at one of its indices or is empty.                          *)
THEOREM Typing == Spec => []TypeOK
<1>1. IInv => TypeOK
  <2> SUFFICES ASSUME IInv PROVE TypeOK
    OBVIOUS
  <2>1. clock \in Nat /\ calls \in 0 .. MaxCalls
    BY DEF IInv
  <2>2. ASSUME NEW a \in Meshes, NEW x, x = mesh[a]
        PROVE  /\ x.garbage \in BOOLEAN /\ x.recycle \in BOOLEAN
               /\ \A k \in Kinds :
                    /\ x[k].removed \in [0 .. Num(x, k) - 1 -> BOOLEAN]
                    /\ x[k].free \in {Null} \cup {Node(k, i) : i \in 0 .. Num(x, k) - 1}
                    /\ x[k].count \in Nat
                    /\ x[k].name \in [0 .. Num(x, k) - 1 -> Nat]
               /\ DOMAIN x.conn.half = 0 .. Num(x, "vertices") - 1
               /\ DOMAIN x.conn.fhalf = 0 .. Num(x, "faces") - 1
               /\ \A f \in {"target", "next", "prev", "face"} :
                    DOMAIN x.conn[f] = 0 .. 2 * Num(x, "edges") - 1
    <3>1. MeshOK(x, clock)
      BY <2>2 DEF IInv
    <3>2. ASSUME NEW k \in Kinds
          PROVE  /\ x[k].removed \in [0 .. Num(x, k) - 1 -> BOOLEAN]
                 /\ x[k].free \in {Null} \cup {Node(k, i) : i \in 0 .. Num(x, k) - 1}
                 /\ x[k].count \in Nat
                 /\ x[k].name \in [0 .. Num(x, k) - 1 -> Nat]
      <4>1. PICK n : IsStore(x, k, n, clock)
        BY <3>1, MeshStores
      <4>2. n = Num(x, k)
        BY <4>1 DEF IsStore
      <4>. QED BY <4>1, <4>2, StoreIsTyped
    <3>. QED BY <3>1, <3>2, MeshIsTyped
  <2>. QED BY <2>1, <2>2 DEF TypeOK
<1>. QED BY <1>1, Consistency, PTL

(* Whatever is removed, recycled, joined and collected: the free list of a *)
(* kind visits the removed elements, each once, ends, and is counted.      *)
THEOREM ExactFreeLists == Spec => []FreeListsAreExact
<1>1. IInv => FreeListsAreExact
  <2> SUFFICES ASSUME IInv PROVE FreeListsAreExact
    OBVIOUS
  <2>1. ASSUME NEW a \in Meshes, NEW k \in Kinds, NEW x, x = mesh[a]
        PROVE  /\ x[k].count = Cardinality(Gone(x, k))
               /\ {FreeNode(x, k)[i] : i \in 0 .. x[k].count - 1}
                    = {Node(k, i) : i \in Gone(x, k)}
               /\ FreeNode(x, k)[x[k].count] = Null
    <3>1. MeshOK(x, clock)
      BY <2>1 DEF IInv
    <3>2. PICK n : IsStore(x, k, n, clock)
      BY <3>1, MeshStores
    <3>. QED BY <3>2, StoreIsListed
  <2>. QED BY <2>1 DEF FreeListsAreExact
<1>. QED BY <1>1, Consistency, PTL

(* Live elements refer to live elements, as is_valid demands it. *)
THEOREM WellConnected == Spec => []ElementsAreWellConnected
<1>1. IInv => ElementsAreWellConnected
  <2> SUFFICES ASSUME IInv PROVE ElementsAreWellConnected
    OBVIOUS
  <2>1. ASSUME NEW a \in Meshes, NEW x, x = mesh[a]
        PROVE  IsValid(x.conn, Live(x, "vertices"),
                       {h \in DOMAIN x.conn.next : h \div 2 \in Live(x, "edges")},
                       Live(x, "faces"))
    <3>1. MeshOK(x, clock)
      BY <2>1 DEF IInv
    <3>. QED BY <3>1, MeshIsValid
  <2>. QED BY <2>1 DEF ElementsAreWellConnected
<1>. QED BY <1>1, Consistency, PTL

(* collect_garbage never returns early and leaves removed elements. *)
THEOREM FlaggedGarbage == Spec => []GarbageIsFlagged
<1>1. IInv => GarbageIsFlagged
  <2> SUFFICES ASSUME IInv, NEW a \in Meshes, ~mesh[a].garbage, NEW k \in Kinds
               PROVE  Gone(mesh[a], k) = {}
    BY DEF GarbageIsFlagged
  <2>1. MeshOK(mesh[a], clock)
    BY DEF IInv
  <2>. QED BY <2>1, MeshIsFlagged
<1>. QED BY <1>1, Consistency, PTL

(* Only collect_garbage and assignment move an element that stays. *)
THEOREM StableIndices == Spec => IndicesAreStable
<1> DEFINE Stable(a) ==
      ~CollectGarbage(a) /\ (\A b \in Meshes \ {a} : ~Assign(a, b)) =>
        \A k \in Kinds : \A i \in Live(mesh[a], k), j \in Live(mesh'[a], k) :
          mesh[a][k].name[i] = mesh'[a][k].name[j] => i = j
<1>1. ASSUME NEW x, NEW t, MeshOK(x, t), NEW k \in Kinds, NEW i \in Live(x, k),
             NEW j \in Live(x, k), x[k].name[i] = x[k].name[j]
      PROVE  i = j
  <2>1. Follows(x, x, t)
    BY KeptItself DEF Follows
  <2>. QED BY <1>1, <2>1, SameElement
<1>2. ASSUME IInv, NEW a \in Meshes, mesh'[a] = mesh[a] PROVE Stable(a)
  <2>1. MeshOK(mesh[a], clock)
    BY <1>2 DEF IInv
  <2>2. PICK x : x = mesh[a] /\ x = mesh'[a]
    BY <1>2
  <2>3. \A k \in Kinds : \A i \in Live(x, k), j \in Live(x, k) :
          x[k].name[i] = x[k].name[j] => i = j
    BY <1>1, <2>1, <2>2
  <2>. QED BY <2>2, <2>3
<1>3. ASSUME IInv, Next, NEW a \in Meshes PROVE Stable(a)
  <2>1. PICK c \in Meshes :
          /\ Renewed(c)
          /\ Steady(c) \/ CollectGarbage(c) \/ \E b \in Meshes \ {c} : Assign(c, b)
    BY <1>3, NextIs
  <2>2. CASE a # c
    <3>1. PICK y : Call(c, y)
      BY <2>1 DEF Renewed, Becomes
    <3>2. mesh'[a] = mesh[a]
      BY <1>3, <2>2, <3>1, CallIs
    <3>. QED BY <1>2, <1>3, <3>2
  <2>3. CASE a = c /\ Steady(c)
    <3>1. PICK y : Call(a, y) /\ Follows(mesh[a], y, clock)
      BY <2>3 DEF Steady, Becomes
    <3>2. mesh'[a] = y
      BY <1>3, <3>1, CallIs
    <3>3. PICK x : x = mesh[a]
      OBVIOUS
    <3>4. MeshOK(x, clock)
      BY <1>3, <3>3 DEF IInv
    <3>5. \A k \in Kinds : \A i \in Live(x, k), j \in Live(y, k) :
            x[k].name[i] = y[k].name[j] => i = j
      BY <3>1, <3>3, <3>4, SameElement
    <3>. QED BY <3>2, <3>3, <3>5
  <2>4. CASE a = c /\ (CollectGarbage(c) \/ \E b \in Meshes \ {c} : Assign(c, b))
    BY <2>4
  <2>. QED BY <2>1, <2>2, <2>3, <2>4
<1>4. IInv /\ [Next]_vars => [\A a \in Meshes : Stable(a)]_vars
  BY <1>3
<1>5. Spec => [][\A a \in Meshes : Stable(a)]_vars
  BY <1>4, Consistency, PTL DEF Spec
<1>. QED BY <1>5 DEF IndicesAreStable

-----------------------------------------------------------------------------
(***************************************************************************)
(* Surface_mesh implements MeshGraph: the definitions that both modules    *)
(* extend are the same, seen from either.                                  *)
(***************************************************************************)

(* MeshGraph and SurfaceMesh add a vertex to a connectivity alike. *)
LEMMA SameVertex ==
  ASSUME NEW c, NEW v PROVE Promised!WithVertex(c, v) = WithVertex(c, v)
BY DEF Promised!WithVertex, WithVertex, Promised!Bind, Bind, Promised!Null, Null

(* They add an edge alike. *)
LEMMA SameEdge ==
  ASSUME NEW c, NEW v PROVE Promised!WithEdge(c, v) = WithEdge(c, v)
BY DEF Promised!WithEdge, WithEdge, Promised!Bind, Bind, Promised!Null, Null

(* They add a face alike. *)
LEMMA SameFace ==
  ASSUME NEW c, NEW v PROVE Promised!WithFace(c, v) = WithFace(c, v)
BY DEF Promised!WithFace, WithFace, Promised!Bind, Bind, Promised!Null, Null

(* They pair the halfedges alike. *)
LEMMA SameOpposite ==
  ASSUME NEW h PROVE Promised!Opposite(h) = Opposite(h)
BY DEF Promised!Opposite, Opposite

(* They link two halfedges alike. *)
LEMMA SameNext ==
  ASSUME NEW c, NEW h, NEW n PROVE Promised!SetNext(c, h, n) = SetNext(c, h, n)
BY DEF Promised!SetNext, SetNext

(* They connect an edge alike. *)
LEMMA SameConnect ==
  ASSUME NEW c, NEW h, NEW u, NEW g, NEW v, NEW k
  PROVE Promised!Connect(c, h, u, g, v, k) = Connect(c, h, u, g, v, k)
BY DEF Promised!Connect, Connect, Promised!SetNext, SetNext, Promised!Null, Null, Promised!Opposite, Opposite

(* They disconnect an edge alike. *)
LEMMA SameDisconnect ==
  ASSUME NEW c, NEW h
  PROVE Promised!Disconnect(c, h) = Disconnect(c, h)
BY DEF Promised!Disconnect, Disconnect, Promised!SetNext, SetNext, Promised!Null, Null, Promised!Opposite, Opposite

(* They count alike. *)
LEMMA SameSize ==
  ASSUME NEW S PROVE Promised!Cardinality(S) = Cardinality(S)
BY DEF Promised!Cardinality, Cardinality, Promised!IsFiniteSet, IsFiniteSet

(* They go around a face alike. *)
LEMMA SameCycle ==
  ASSUME NEW c, NEW h PROVE Promised!Cycle(c, h) = Cycle(c, h)
BY SameSize DEF Promised!Cycle, Cycle

(* They mark the cycle of a halfedge alike. *)
LEMMA SameSetFace ==
  ASSUME NEW c, NEW h, NEW f
  PROVE Promised!SetFace(c, h, f) = SetFace(c, h, f)
BY SameCycle DEF Promised!SetFace, SetFace, Promised!Bind, Bind

(* They fill a face alike. *)
LEMMA SameFill ==
  ASSUME NEW c, NEW h, NEW f
  PROVE Promised!Fill(c, h, f) = Fill(c, h, f)
BY SameSetFace DEF Promised!Fill, Fill

-----------------------------------------------------------------------------
(***************************************************************************)
(* The elements under names, when they are moved and when they are joined. *)
(***************************************************************************)

(* An element that was moved keeps its name. *)
Carried(bv, av, sv, S) == \A i \in S : bv[i] = av[sv[i]]

(* The elements that were moved have the names of those they were. *)
LEMMA CarriedMatches ==
  ASSUME NEW av, NEW V, NEW W, Matches(av, V, W), NEW sv, NEW S, Swapping(sv, S, V),
         NEW bv, Carried(bv, av, sv, S)
  PROVE  Matches(bv, S, W)
<1>1. /\ \A i \in S : sv[i] \in V /\ sv[sv[i]] = i /\ bv[i] = av[sv[i]]
      /\ \A j \in V : sv[j] \in S /\ sv[sv[j]] = j
      /\ \A x, y \in V : av[x] = av[y] => x = y
      /\ \A x \in V : av[x] \in W
  BY DEF Swapping, Carried, Matches, OneToOne
<1>2. \A x, y \in S : bv[x] = bv[y] => x = y
  BY <1>1
<1>3. ASSUME NEW w \in W PROVE \E s \in S : bv[s] = w
  <2>1. PICK v \in V : av[v] = w
    BY DEF Matches
  <2>2. sv[v] \in S /\ bv[sv[v]] = w
    BY <2>1, <1>1
  <2>. QED BY <2>2
<1>. QED BY <1>1, <1>2, <1>3 DEF Matches, OneToOne

(* collect_garbage: the elements are moved and renumbered, not renamed. *)
LEMMA RepackedAlike ==
  ASSUME NEW c, NEW V, NEW H, NEW F, Sound(c, V, H, F),
         NEW av, NEW ah, NEW af, NEW d, Alike(d, c, V, H, F, av, ah, af),
         NEW S, NEW L, NEW M, NEW sv, NEW sh, NEW sf,
         Swapping(sv, S, V), Swapping(sh, L, H), Swapping(sf, M, F),
         NEW b, Repacked(b, c, sv, sh, sf, S, L, M), Sound(b, S, L, M),
         NEW bv, NEW bh, NEW bf, Carried(bv, av, sv, S), Carried(bh, ah, sh, L),
         Carried(bf, af, sf, M)
  PROVE  Alike(d, b, S, L, M, bv, bh, bf)
<1>1. /\ \A i \in S : sv[i] \in V /\ sv[sv[i]] = i /\ bv[i] = av[sv[i]]
      /\ \A i \in V : sv[i] \in S /\ sv[sv[i]] = i
  BY DEF Swapping, Carried
<1>2. /\ \A i \in L : sh[i] \in H /\ sh[sh[i]] = i /\ bh[i] = ah[sh[i]]
      /\ \A i \in H : sh[i] \in L /\ sh[sh[i]] = i
  BY DEF Swapping, Carried
<1>3. /\ \A i \in M : sf[i] \in F /\ sf[sf[i]] = i /\ bf[i] = af[sf[i]]
      /\ \A i \in F : sf[i] \in M /\ sf[sf[i]] = i
  BY DEF Swapping, Carried
<1>4. /\ \A x \in H : /\ c.next[x] \in H /\ c.prev[x] \in H /\ c.target[x] \in V
                      /\ c.next[c.prev[x]] = x /\ (c.face[x] = Null \/ c.face[x] \in F)
      /\ \A x \in V : c.half[x] = Null \/ c.half[x] \in H
      /\ \A x \in F : c.fhalf[x] \in H
  BY DEF Sound, IsValid
<1>5. /\ \A x \in L : x # Null /\ b.prev[b.next[x]] = x
      /\ \A x \in M : x # Null
  BY DEF Sound, IsValid, AreNumbers, Null
<1>6. \A x \in H : /\ d.target[ah[x]] = av[c.target[x]] /\ d.next[ah[x]] = ah[c.next[x]]
                   /\ d.prev[ah[x]] = ah[c.prev[x]] /\ d.face[ah[x]] = Across(af, c.face[x])
  BY DEF Alike
<1>7. /\ \A v \in S : b.half[v] = IF c.half[sv[v]] = Null THEN Null ELSE sh[c.half[sv[v]]]
      /\ \A h \in L : /\ b.target[h] = sv[c.target[sh[h]]] /\ b.next[h] = sh[c.next[sh[h]]]
                      /\ b.face[h] = IF c.face[sh[h]] = Null THEN Null ELSE sf[c.face[sh[h]]]
      /\ \A f \in M : b.fhalf[f] = sh[c.fhalf[sf[f]]]
  BY DEF Repacked
<1>8. ASSUME NEW h \in L
      PROVE  /\ d.target[bh[h]] = bv[b.target[h]] /\ d.next[bh[h]] = bh[b.next[h]]
             /\ d.prev[bh[h]] = bh[b.prev[h]] /\ d.face[bh[h]] = Across(bf, b.face[h])
  <2>1. PICK x \in H : x = sh[h] /\ bh[h] = ah[x] /\ sh[x] = h
    BY <1>2
  <2>2. d.target[bh[h]] = bv[b.target[h]]
    <3>1. PICK y \in V : y = c.target[x]
      BY <1>4
    <3>2. b.target[h] = sv[y] /\ bv[sv[y]] = av[y]
      BY <2>1, <3>1, <1>1, <1>7
    <3>. QED BY <2>1, <3>1, <3>2, <1>6
  <2>3. d.next[bh[h]] = bh[b.next[h]]
    <3>1. PICK y \in H : y = c.next[x]
      BY <1>4
    <3>2. b.next[h] = sh[y] /\ bh[sh[y]] = ah[y]
      BY <2>1, <3>1, <1>2, <1>7
    <3>. QED BY <2>1, <3>1, <3>2, <1>6
  <2>4. d.prev[bh[h]] = bh[b.prev[h]]
    <3>1. PICK y \in H : y = c.prev[x] /\ c.next[y] = x
      BY <1>4
    <3>2. PICK g \in L : g = sh[y] /\ sh[g] = y /\ bh[g] = ah[y]
      BY <1>2
    <3>3. b.next[g] = h
      BY <2>1, <3>1, <3>2, <1>7
    <3>4. b.prev[h] = g
      BY <3>3, <1>5
    <3>. QED BY <2>1, <3>1, <3>2, <3>4, <1>6
  <2>5. d.face[bh[h]] = Across(bf, b.face[h])
    <3>1. CASE c.face[x] = Null
      BY <2>1, <3>1, <1>6, <1>7 DEF Across
    <3>2. CASE c.face[x] # Null
      <4>1. PICK y \in F : y = c.face[x]
        BY <3>2, <1>4
      <4>2. b.face[h] = sf[y] /\ bf[sf[y]] = af[y] /\ sf[y] # Null
        BY <2>1, <3>2, <4>1, <1>3, <1>5, <1>7
      <4>3. d.face[bh[h]] = af[y]
        BY <2>1, <3>2, <4>1, <1>6 DEF Across
      <4>. QED BY <4>2, <4>3 DEF Across
    <3>. QED BY <3>1, <3>2
  <2>. QED BY <2>2, <2>3, <2>4, <2>5
<1>9. ASSUME NEW v \in S PROVE d.half[bv[v]] = Across(bh, b.half[v])
  <2>1. PICK x \in V : x = sv[v] /\ bv[v] = av[x]
    BY <1>1
  <2>2. d.half[bv[v]] = Across(ah, c.half[x])
    BY <2>1 DEF Alike
  <2>3. CASE c.half[x] = Null
    BY <2>1, <2>2, <2>3, <1>7 DEF Across
  <2>4. CASE c.half[x] # Null
    <3>1. PICK y \in H : y = c.half[x]
      BY <2>4, <1>4
    <3>2. b.half[v] = sh[y] /\ bh[sh[y]] = ah[y] /\ sh[y] # Null
      BY <2>1, <2>4, <3>1, <1>2, <1>5, <1>7
    <3>3. d.half[bv[v]] = ah[y]
      BY <2>2, <2>4, <3>1 DEF Across
    <3>. QED BY <3>2, <3>3 DEF Across
  <2>. QED BY <2>3, <2>4
<1>10. ASSUME NEW f \in M PROVE d.fhalf[bf[f]] = bh[b.fhalf[f]]
  <2>1. PICK x \in F : x = sf[f] /\ bf[f] = af[x]
    BY <1>3
  <2>2. PICK y \in H : y = c.fhalf[x] /\ d.fhalf[af[x]] = ah[y]
    BY <1>4 DEF Alike
  <2>3. b.fhalf[f] = sh[y] /\ bh[sh[y]] = ah[y]
    BY <2>1, <2>2, <1>2, <1>7
  <2>. QED BY <2>1, <2>2, <2>3
<1>. QED BY <1>8, <1>9, <1>10 DEF Alike

(* join: each element of the second is k higher, and its name is t higher. *)
Lent(bv, av, V, k, t) == \A v \in V : bv[v + k] = av[v] + t

(* The elements of both meshes have different names after the join. *)
LEMMA LentMatches ==
  ASSUME NEW av, NEW V, NEW W, Matches(av, V, W), NEW cv, NEW S, NEW T, Matches(cv, S, T),
         Natural(V), Natural(S), Natural(W), Natural(T), NEW k \in Nat, NEW t \in Nat,
         \A x \in V : x < k, \A x \in W : x < t,
         NEW bv, Same(bv, av, V), Lent(bv, cv, S, k, t)
  PROVE  Matches(bv, V \cup Shifted(S, k), W \cup Shifted(T, t))
<1>1. /\ \A x \in V : x \in Nat /\ x < k /\ bv[x] = av[x] /\ av[x] \in W /\ av[x] \in Nat /\ av[x] < t
      /\ \A x, y \in V : av[x] = av[y] => x = y
  BY DEF Matches, OneToOne, Same, Natural
<1>2. /\ \A x \in S : x \in Nat /\ bv[x + k] = cv[x] + t /\ cv[x] \in T /\ cv[x] \in Nat
      /\ \A x, y \in S : cv[x] = cv[y] => x = y
  BY DEF Matches, OneToOne, Lent, Natural
<1>3. \A x \in Shifted(S, k) : \E y \in S : x = y + k
  BY DEF Shifted
<1>4. \A y \in S : y + k \in Shifted(S, k)
  BY DEF Shifted
<1>5. \A y \in T : y + t \in Shifted(T, t)
  BY DEF Shifted
<1>6. ASSUME NEW x \in V \cup Shifted(S, k) PROVE bv[x] \in W \cup Shifted(T, t)
  BY <1>1, <1>2, <1>3, <1>5
<1>7. ASSUME NEW x \in V, NEW y \in Shifted(S, k) PROVE bv[x] # bv[y]
  <2>1. PICK z \in S : y = z + k
    BY <1>3
  <2>2. bv[y] = cv[z] + t /\ cv[z] \in Nat
    BY <2>1, <1>2
  <2>3. bv[x] \in Nat /\ bv[x] < t
    BY <1>1
  <2>4. cv[z] + t >= t
    BY <2>2
  <2>. QED BY <2>2, <2>3, <2>4
<1>8. ASSUME NEW x \in Shifted(S, k), NEW y \in Shifted(S, k), bv[x] = bv[y] PROVE x = y
  <2>1. PICK a \in S, b \in S : x = a + k /\ y = b + k
    BY <1>3
  <2>2. PICK m \in Nat, n \in Nat : m = cv[a] /\ n = cv[b] /\ m + t = n + t
    BY <2>1, <1>2, <1>8
  <2>3. m = n
    BY <2>2
  <2>. QED BY <2>1, <2>2, <2>3, <1>2
<1>9. ASSUME NEW x \in V \cup Shifted(S, k), NEW y \in V \cup Shifted(S, k), bv[x] = bv[y]
      PROVE  x = y
  <2>1. CASE x \in V /\ y \in V
    BY <2>1, <1>1, <1>9
  <2>2. CASE x \in Shifted(S, k) /\ y \in Shifted(S, k)
    BY <2>2, <1>8, <1>9
  <2>. QED BY <2>1, <2>2, <1>7, <1>9
<1>10. ASSUME NEW w \in W \cup Shifted(T, t) PROVE \E x \in V \cup Shifted(S, k) : bv[x] = w
  <2>1. CASE w \in W
    BY <2>1, <1>1 DEF Matches
  <2>2. CASE w \in Shifted(T, t)
    <3>1. PICK n \in T : w = n + t
      BY <2>2 DEF Shifted
    <3>2. PICK y \in S : cv[y] = n
      BY DEF Matches
    <3>. QED BY <3>1, <3>2, <1>2, <1>4
  <2>. QED BY <2>1, <2>2
<1>. QED BY <1>6, <1>9, <1>10 DEF Matches, OneToOne

(* The names of the second mesh after the join. *)
LEMMA LentAcross ==
  ASSUME NEW bf, NEW cf, NEW S, NEW m \in Nat, NEW t \in Nat, Lent(bf, cf, S, m, t),
         NEW T, OneToOne(cf, S, T), Natural(S), Natural(T), NEW x, x = Null \/ x \in S
  PROVE  Higher(Across(cf, x), t) = Across(bf, Higher(x, m))
<1>1. CASE x = Null
  BY <1>1 DEF Higher, Across
<1>2. CASE x \in S
  <2>1. x \in Nat /\ cf[x] \in Nat /\ bf[x + m] = cf[x] + t
    BY <1>2 DEF Natural, OneToOne, Lent
  <2>2. x # Null /\ cf[x] # Null /\ x + m # Null
    BY <2>1 DEF Null
  <2>. QED BY <2>1, <2>2 DEF Higher, Across
<1>. QED BY <1>1, <1>2

(* join: the second mesh is appended by index to the one and by name to    *)
(* the other.                                                              *)
LEMMA JoinedAlike ==
  ASSUME NEW c, NEW V, NEW H, NEW F, Sound(c, V, H, F), NEW g, NEW S, NEW L, NEW M, Sound(g, S, L, M),
         NEW av, NEW ah, NEW af, NEW W, NEW K, NEW G,
         Matches(av, V, W), Matches(ah, H, K), Matches(af, F, G),
         NEW cv, NEW ch, NEW cf, NEW X, NEW D, NEW Y,
         Matches(cv, S, X), Matches(ch, L, D), Matches(cf, M, Y), AreNumbers(X, D, Y),
         NEW n \in Nat, NEW k \in Nat, NEW m \in Nat, NEW t \in Nat, NEW u \in Nat,
         NEW bv, NEW bh, NEW bf, Same(bv, av, V), Same(bh, ah, H), Same(bf, af, F),
         Lent(bv, cv, S, n, t), Lent(bh, ch, L, k, u), Lent(bf, cf, M, m, t),
         NEW d, Alike(d, c, V, H, F, av, ah, af), NEW f, Alike(f, g, S, L, M, cv, ch, cf),
         NEW b, Agree(b, c, V, H, F), Moved(b, g, S, L, M, n, k, m),
         NEW e, Agree(e, d, W, K, G), Moved(e, f, X, D, Y, t, u, t)
  PROVE  Alike(e, b, V \cup Shifted(S, n), H \cup Shifted(L, k), F \cup Shifted(M, m), bv, bh, bf)
<1>1. /\ \A x \in V : av[x] \in W /\ bv[x] = av[x]
      /\ \A x \in H : ah[x] \in K /\ bh[x] = ah[x]
      /\ \A x \in F : af[x] \in G /\ bf[x] = af[x]
  BY DEF Matches, OneToOne, Same
<1>2. /\ \A x \in H : /\ c.next[x] \in H /\ c.prev[x] \in H /\ c.target[x] \in V
                      /\ c.face[x] = Null \/ c.face[x] \in F
      /\ \A x \in V : c.half[x] = Null \/ c.half[x] \in H
      /\ \A x \in F : c.fhalf[x] \in H
  BY DEF Sound, IsValid
<1>3. /\ \A x \in L : /\ g.next[x] \in L /\ g.prev[x] \in L /\ g.target[x] \in S
                      /\ g.face[x] = Null \/ g.face[x] \in M
      /\ \A x \in S : g.half[x] = Null \/ g.half[x] \in L
      /\ \A x \in M : g.fhalf[x] \in L
  BY DEF Sound, IsValid
<1>4. /\ Natural(S) /\ Natural(L) /\ Natural(M) /\ Natural(X) /\ Natural(D) /\ Natural(Y)
      /\ OneToOne(cv, S, X) /\ OneToOne(ch, L, D) /\ OneToOne(cf, M, Y)
  BY DEF Sound, AreNumbers, Natural, Matches
<1>5. /\ \A x \in S : bv[x + n] = cv[x] + t /\ cv[x] \in X /\ x # Null /\ cv[x] # Null
      /\ \A x \in L : bh[x + k] = ch[x] + u /\ ch[x] \in D /\ x # Null /\ ch[x] # Null
      /\ \A x \in M : bf[x + m] = cf[x] + t /\ cf[x] \in Y
  BY <1>4 DEF Lent, OneToOne, Natural, Null
<1>6. ASSUME NEW x \in H
      PROVE  /\ e.target[bh[x]] = bv[b.target[x]] /\ e.next[bh[x]] = bh[b.next[x]]
             /\ e.prev[bh[x]] = bh[b.prev[x]] /\ e.face[bh[x]] = Across(bf, b.face[x])
  <2>1. /\ e.target[bh[x]] = d.target[ah[x]] /\ e.next[bh[x]] = d.next[ah[x]]
        /\ e.prev[bh[x]] = d.prev[ah[x]] /\ e.face[bh[x]] = d.face[ah[x]]
    BY <1>1 DEF Agree
  <2>2. /\ b.target[x] = c.target[x] /\ b.next[x] = c.next[x]
        /\ b.prev[x] = c.prev[x] /\ b.face[x] = c.face[x]
    BY DEF Agree
  <2>3. /\ d.target[ah[x]] = av[c.target[x]] /\ d.next[ah[x]] = ah[c.next[x]]
        /\ d.prev[ah[x]] = ah[c.prev[x]] /\ d.face[ah[x]] = Across(af, c.face[x])
    BY DEF Alike
  <2>4. Across(bf, c.face[x]) = Across(af, c.face[x])
    BY <1>1, <1>2 DEF Across
  <2>. QED BY <2>1, <2>2, <2>3, <2>4, <1>1, <1>2
<1>7. ASSUME NEW x \in L, NEW y, y = x + k
      PROVE  /\ e.target[bh[y]] = bv[b.target[y]] /\ e.next[bh[y]] = bh[b.next[y]]
             /\ e.prev[bh[y]] = bh[b.prev[y]] /\ e.face[bh[y]] = Across(bf, b.face[y])
  <2>0. PICK i : i = ch[x] /\ i \in D /\ bh[y] = i + u
    BY <1>5, <1>7
  <2>1. /\ e.target[bh[y]] = Higher(f.target[i], t) /\ e.next[bh[y]] = Higher(f.next[i], u)
        /\ e.prev[bh[y]] = Higher(f.prev[i], u) /\ e.face[bh[y]] = Higher(f.face[i], t)
    BY <2>0 DEF Moved
  <2>2. /\ b.target[y] = Higher(g.target[x], n) /\ b.next[y] = Higher(g.next[x], k)
        /\ b.prev[y] = Higher(g.prev[x], k) /\ b.face[y] = Higher(g.face[x], m)
    BY <1>7 DEF Moved
  <2>3. /\ f.target[i] = cv[g.target[x]] /\ f.next[i] = ch[g.next[x]]
        /\ f.prev[i] = ch[g.prev[x]] /\ f.face[i] = Across(cf, g.face[x])
    BY <2>0 DEF Alike
  <2>4. e.target[bh[y]] = bv[b.target[y]]
    <3>1. PICK z \in S : z = g.target[x]
      BY <1>3
    <3>2. e.target[bh[y]] = cv[z] + t /\ b.target[y] = z + n
      BY <3>1, <2>1, <2>2, <2>3, <1>5 DEF Higher
    <3>. QED BY <3>2, <1>5
  <2>5. e.next[bh[y]] = bh[b.next[y]]
    <3>1. PICK z \in L : z = g.next[x]
      BY <1>3
    <3>2. e.next[bh[y]] = ch[z] + u /\ b.next[y] = z + k
      BY <3>1, <2>1, <2>2, <2>3, <1>5 DEF Higher
    <3>. QED BY <3>2, <1>5
  <2>6. e.prev[bh[y]] = bh[b.prev[y]]
    <3>1. PICK z \in L : z = g.prev[x]
      BY <1>3
    <3>2. e.prev[bh[y]] = ch[z] + u /\ b.prev[y] = z + k
      BY <3>1, <2>1, <2>2, <2>3, <1>5 DEF Higher
    <3>. QED BY <3>2, <1>5
  <2>7. e.face[bh[y]] = Across(bf, b.face[y])
    <3>1. PICK z : z = g.face[x] /\ (z = Null \/ z \in M)
      BY <1>3
    <3>2. Higher(Across(cf, z), t) = Across(bf, Higher(z, m))
      BY <3>1, <1>4, LentAcross
    <3>. QED BY <3>1, <3>2, <2>1, <2>2, <2>3
  <2>. QED BY <2>4, <2>5, <2>6, <2>7
<1>8. ASSUME NEW v \in V PROVE e.half[bv[v]] = Across(bh, b.half[v])
  <2>1. e.half[bv[v]] = d.half[av[v]] /\ b.half[v] = c.half[v]
    BY <1>1 DEF Agree
  <2>2. d.half[av[v]] = Across(ah, c.half[v])
    BY DEF Alike
  <2>3. Across(bh, c.half[v]) = Across(ah, c.half[v])
    BY <1>1, <1>2 DEF Across
  <2>. QED BY <2>1, <2>2, <2>3
<1>9. ASSUME NEW v \in S, NEW y, y = v + n PROVE e.half[bv[y]] = Across(bh, b.half[y])
  <2>1. PICK i : i = cv[v] /\ i \in X /\ bv[y] = i + t
    BY <1>5, <1>9
  <2>2. PICK z : z = g.half[v] /\ (z = Null \/ z \in L)
    BY <1>3
  <2>3. e.half[bv[y]] = Higher(f.half[i], u) /\ b.half[y] = Higher(z, k)
    BY <2>1, <2>2, <1>9 DEF Moved
  <2>4. f.half[i] = Across(ch, z)
    BY <2>1, <2>2 DEF Alike
  <2>5. Higher(Across(ch, z), u) = Across(bh, Higher(z, k))
    BY <2>2, <1>4, LentAcross
  <2>. QED BY <2>3, <2>4, <2>5
<1>10. ASSUME NEW y \in F PROVE e.fhalf[bf[y]] = bh[b.fhalf[y]]
  <2>1. e.fhalf[bf[y]] = d.fhalf[af[y]] /\ b.fhalf[y] = c.fhalf[y]
    BY <1>1 DEF Agree
  <2>2. d.fhalf[af[y]] = ah[c.fhalf[y]]
    BY DEF Alike
  <2>. QED BY <2>1, <2>2, <1>1, <1>2
<1>11. ASSUME NEW x \in M, NEW y, y = x + m PROVE e.fhalf[bf[y]] = bh[b.fhalf[y]]
  <2>1. PICK i : i = cf[x] /\ i \in Y /\ bf[y] = i + t
    BY <1>5, <1>11
  <2>2. PICK z \in L : z = g.fhalf[x]
    BY <1>3
  <2>3. e.fhalf[bf[y]] = Higher(f.fhalf[i], u) /\ b.fhalf[y] = Higher(z, k)
    BY <2>1, <2>2, <1>11 DEF Moved
  <2>4. f.fhalf[i] = ch[z]
    BY <2>1, <2>2 DEF Alike
  <2>5. e.fhalf[bf[y]] = ch[z] + u /\ b.fhalf[y] = z + k
    BY <2>3, <2>4, <1>5 DEF Higher
  <2>. QED BY <2>5, <1>5
<1>12. \A x \in V \cup Shifted(S, n) : x \in V \/ \E z \in S : x = z + n
  BY DEF Shifted
<1>13. \A x \in H \cup Shifted(L, k) : x \in H \/ \E z \in L : x = z + k
  BY DEF Shifted
<1>14. \A x \in F \cup Shifted(M, m) : x \in F \/ \E z \in M : x = z + m
  BY DEF Shifted
<1>15. \A v \in V \cup Shifted(S, n) : e.half[bv[v]] = Across(bh, b.half[v])
  BY <1>8, <1>9, <1>12
<1>16. \A x \in H \cup Shifted(L, k) :
         /\ e.target[bh[x]] = bv[b.target[x]] /\ e.next[bh[x]] = bh[b.next[x]]
         /\ e.prev[bh[x]] = bh[b.prev[x]] /\ e.face[bh[x]] = Across(bf, b.face[x])
  BY <1>6, <1>7, <1>13
<1>17. \A y \in F \cup Shifted(M, m) : e.fhalf[bf[y]] = bh[b.fhalf[y]]
  BY <1>10, <1>11, <1>14
<1>. QED BY <1>15, <1>16, <1>17 DEF Alike

-----------------------------------------------------------------------------
(***************************************************************************)
(* What the elements of a mesh are called.                                 *)
(***************************************************************************)

(* The names of the live elements. *)
NamesOf(q) == {q.name[i] : i \in LiveOf(q)}

(* What the halfedges of the live edges are called: as the edge, twice,    *)
(* with their side.                                                        *)
HalfNames(q) == [h \in HalvesOf(LiveOf(q)) |-> 2 * q.name[h \div 2] + (h % 2)]

(* One kind of elements, with the names that IsKind gives them. *)
IsNamed(q, I, t) == Natural(I) /\ q \in KindRecords(I) /\ Named(q, t)

(* Every live element has a name of its own, that has been given. *)
LEMMA NamesMatch ==
  ASSUME NEW q, NEW I, NEW t, IsNamed(q, I, t)
  PROVE  /\ Matches(q.name, LiveOf(q), NamesOf(q))
         /\ Natural(LiveOf(q)) /\ Natural(NamesOf(q)) /\ \A n \in NamesOf(q) : n < t
<1> USE DEF IsNamed
<1>1. LiveOf(q) \subseteq I /\ q.name \in [I -> Nat]
  BY LiveAndGone DEF KindRecords
<1>2. \A i \in LiveOf(q) : q.name[i] \in Nat /\ q.name[i] < t
  BY <1>1 DEF Named
<1>3. Natural(LiveOf(q)) /\ Natural(NamesOf(q)) /\ \A n \in NamesOf(q) : n < t
  BY <1>1, <1>2 DEF NamesOf, Natural
<1>4. \A i, j \in LiveOf(q) : q.name[i] = q.name[j] => i = j
  BY DEF Named
<1>5. Matches(q.name, LiveOf(q), NamesOf(q))
  BY <1>4 DEF Matches, OneToOne, NamesOf
<1>. QED BY <1>3, <1>5

(* There are finitely many names. *)
LEMMA NamesFinite ==
  ASSUME NEW q, NEW I, q \in KindRecords(I), IsFiniteSet(I)
  PROVE  IsFiniteSet(LiveOf(q)) /\ IsFiniteSet(NamesOf(q))
<1>1. LiveOf(q) \subseteq I
  BY LiveAndGone
<1>2. IsFiniteSet(LiveOf(q))
  BY <1>1, FS_Subset
<1>3. PICK f : f = [i \in LiveOf(q) |-> q.name[i]]
  OBVIOUS
<1>4. f \in Surjection(LiveOf(q), NamesOf(q))
  BY <1>3 DEF Surjection, NamesOf
<1>. QED BY <1>2, <1>4, FS_Surjection

(* Finitely many edges have finitely many halfedges. *)
LEMMA HalvesAlsoFinite ==
  ASSUME NEW E, IsFiniteSet(E)
  PROVE  IsFiniteSet(HalvesOf(E))
<1>1. PICK f : f = [e \in E |-> 2 * e]
  OBVIOUS
<1>2. PICK g : g = [e \in E |-> 2 * e + 1]
  OBVIOUS
<1>4. IsFiniteSet({2 * e : e \in E})
  <2>1. f \in Surjection(E, {2 * e : e \in E})
    BY <1>1 DEF Surjection
  <2>. QED BY <2>1, FS_Surjection
<1>5. IsFiniteSet({2 * e + 1 : e \in E})
  <2>1. g \in Surjection(E, {2 * e + 1 : e \in E})
    BY <1>2 DEF Surjection
  <2>. QED BY <2>1, FS_Surjection
<1>. QED BY <1>4, <1>5, FS_Union DEF HalvesOf

(* The two halfedges of an element. *)
LEMMA HalfIs ==
  ASSUME NEW S, Natural(S), NEW h \in HalvesOf(S)
  PROVE  /\ h \in Nat /\ h \div 2 \in S /\ h \div 2 \in Nat /\ h % 2 \in {0, 1}
         /\ h = 2 * (h \div 2) + (h % 2)
<1>1. PICK e \in S : h = 2 * e \/ h = 2 * e + 1
  BY DEF HalvesOf
<1>2. e \in Nat
  BY DEF Natural
<1>. QED BY <1>1, <1>2

(* The halfedge of the edge e on the side b. *)
HalfAt(e, b) == 2 * e + b

(* h is that halfedge, for an edge of S. *)
IsHalf(h, S, e, b) == h \in HalvesOf(S) /\ h \div 2 = e /\ h % 2 = b

(* The halfedge at an edge and a side is known by them. *)
LEMMA HalfOf ==
  ASSUME NEW S, Natural(S), NEW e \in S, NEW b \in {0, 1}, NEW h, h = HalfAt(e, b)
  PROVE  IsHalf(h, S, e, b)
<1> USE DEF HalfAt, IsHalf
<1>1. e \in Nat
  BY DEF Natural
<1>2. h \in HalvesOf(S)
  <2>1. CASE b = 0
    BY <2>1, <1>1 DEF HalvesOf
  <2>2. CASE b = 1
    BY <2>2, <1>1 DEF HalvesOf
  <2>. QED BY <2>1, <2>2
<1>. QED BY <1>1, <1>2

(* Every halfedge has a name of its own, and opposite halfedges have       *)
(* opposite names.                                                         *)
LEMMA HalfNamesMatch ==
  ASSUME NEW q, NEW I, NEW t, IsNamed(q, I, t)
  PROVE  /\ Matches(HalfNames(q), HalvesOf(LiveOf(q)), HalvesOf(NamesOf(q)))
         /\ Mates(HalfNames(q), HalvesOf(LiveOf(q)))
<1>1. PICK L, W, a, ah : L = LiveOf(q) /\ W = NamesOf(q) /\ a = q.name /\ ah = HalfNames(q)
  OBVIOUS
<1>2. Natural(L) /\ Natural(W) /\ Matches(a, L, W)
  BY <1>1, NamesMatch
<1>3. \A i \in L : a[i] \in W /\ a[i] \in Nat
  BY <1>2 DEF Matches, OneToOne, Natural
<1>4. \A h \in HalvesOf(L) : ah[h] = 2 * a[h \div 2] + (h % 2)
  BY <1>1 DEF HalfNames
<1>5. ASSUME NEW h \in HalvesOf(L)
      PROVE  /\ h \div 2 \in L /\ h % 2 \in {0, 1} /\ h = 2 * (h \div 2) + (h % 2) /\ h \in Nat
             /\ ah[h] \in HalvesOf(W) /\ ah[h] \div 2 = a[h \div 2] /\ ah[h] % 2 = h % 2
  <2>1. /\ h \div 2 \in L /\ h % 2 \in {0, 1} /\ h = 2 * (h \div 2) + (h % 2) /\ h \in Nat
    BY <1>2, HalfIs
  <2>2. PICK e, b, g : e = a[h \div 2] /\ b = h % 2 /\ g = ah[h]
    OBVIOUS
  <2>3. e \in W /\ b \in {0, 1} /\ g = HalfAt(e, b)
    BY <2>1, <2>2, <1>3, <1>4 DEF HalfAt
  <2>4. g \in HalvesOf(W) /\ g \div 2 = e /\ g % 2 = b
    BY <2>3, <1>2, HalfOf DEF IsHalf
  <2>. QED BY <2>1, <2>2, <2>4
<1>6. \A g, h \in HalvesOf(L) : ah[g] = ah[h] => g = h
  <2>1. TAKE g \in HalvesOf(L), h \in HalvesOf(L)
  <2>2. HAVE ah[g] = ah[h]
  <2>3. a[g \div 2] = a[h \div 2] /\ g % 2 = h % 2
    BY <2>2, <1>5
  <2>4. g \div 2 = h \div 2
    BY <2>3, <1>5, <1>2 DEF Matches, OneToOne
  <2>5. g = 2 * (g \div 2) + (g % 2) /\ h = 2 * (h \div 2) + (h % 2)
    BY <1>5
  <2>. QED BY <2>3, <2>4, <2>5
<1>7. ASSUME NEW g \in HalvesOf(W)
      PROVE  \E h \in HalvesOf(L) : ah[h] = g
  <2>1. g \div 2 \in W /\ g % 2 \in {0, 1} /\ g = 2 * (g \div 2) + (g % 2)
    BY <1>2, HalfIs
  <2>2. PICK i \in L : a[i] = g \div 2
    BY <2>1, <1>2 DEF Matches
  <2>3. PICK b : b = g % 2
    OBVIOUS
  <2>4. PICK h : h = HalfAt(i, b)
    OBVIOUS
  <2>5. h \in HalvesOf(L) /\ h \div 2 = i /\ h % 2 = b
    BY <2>1, <2>3, <2>4, <1>2, HalfOf DEF IsHalf
  <2>6. ah[h] = g
    BY <2>1, <2>2, <2>3, <2>5, <1>4
  <2>. QED BY <2>5, <2>6
<1>8. Matches(ah, HalvesOf(L), HalvesOf(W))
  BY <1>5, <1>6, <1>7 DEF Matches, OneToOne
<1>9. ASSUME NEW h \in HalvesOf(L)
      PROVE  Opposite(h) \in HalvesOf(L) /\ ah[Opposite(h)] = Opposite(ah[h])
  <2>1. PICK e, b : e = h \div 2 /\ b = h % 2
    OBVIOUS
  <2>2. e \in L /\ e \in Nat /\ b \in {0, 1} /\ h = 2 * e + b /\ h \in Nat
    BY <1>5, <2>1, <1>2 DEF Natural
  <2>3. PICK n : n = a[e]
    OBVIOUS
  <2>4. n \in Nat
    BY <1>3, <2>2, <2>3
  <2>5. PICK o : o = Opposite(h)
    OBVIOUS
  <2>6. o = HalfAt(e, 1 - b)
    BY <2>1, <2>2, <2>5 DEF Opposite, HalfAt
  <2>7. 1 - b \in {0, 1}
    BY <2>2
  <2>8. PICK d : d = 1 - b
    OBVIOUS
  <2>9. o \in HalvesOf(L) /\ o \div 2 = e /\ o % 2 = d
    BY <2>2, <2>6, <2>7, <2>8, <1>2, HalfOf DEF IsHalf
  <2>10. ah[o] = 2 * n + d
    BY <1>4, <2>9, <2>3
  <2>11. ah[h] = 2 * n + b
    BY <1>4, <2>1, <2>3
  <2>12. Opposite(2 * n + b) = 2 * n + (1 - b)
    <3>1. CASE b = 0
      BY <3>1, <2>4 DEF Opposite
    <3>2. CASE b = 1
      BY <3>2, <2>4 DEF Opposite
    <3>. QED BY <3>1, <3>2, <2>2
  <2>. QED BY <2>5, <2>8, <2>9, <2>10, <2>11, <2>12
<1>10. Mates(ah, HalvesOf(L))
  BY <1>9 DEF Mates
<1>. QED BY <1>1, <1>8, <1>10

-----------------------------------------------------------------------------
(***************************************************************************)
(* The mesh in names is the one connectivity that its own is alike to.     *)
(***************************************************************************)

(* d is the connectivity c of the elements p, q and r, in their names. *)
View(d, c, p, q, r) ==
  /\ d \in Arrays(NamesOf(p), HalvesOf(NamesOf(q)), NamesOf(r))
  /\ Alike(d, c, LiveOf(p), HalvesOf(LiveOf(q)), LiveOf(r), p.name, HalfNames(q), r.name)

(* d is the connectivity of the mesh x, in names. *)
Views(d, x) == View(d, x.conn, x.vertices, x.edges, x.faces)

(* The element that is called n. *)
NameAt(q, n) == CHOOSE i \in LiveOf(q) : q.name[i] = n

(* The halfedge that is called h. *)
HalfNameAt(q, h) == 2 * NameAt(q, h \div 2) + (h % 2)

(* The name of an element that may be null. *)
NameGiven(q, i) == IF i = Null THEN Null ELSE q.name[i]

(* The name of a halfedge that may be null. *)
HalfNameGiven(q, h) == IF h = Null THEN Null ELSE 2 * q.name[h \div 2] + (h % 2)

(* The mesh in names, one array at a time. *)
LEMMA InNamesIs ==
  ASSUME NEW x, NEW W, W = NamesOf(x.vertices), NEW K, K = HalvesOf(NamesOf(x.edges)),
         NEW G, G = NamesOf(x.faces), NEW c, c = x.conn, NEW p, p = x.vertices, NEW q, q = x.edges,
         NEW r, r = x.faces
  PROVE  InNames(x) =
    [half   |-> [n \in W |-> HalfNameGiven(q, c.half[NameAt(p, n)])],
     target |-> [h \in K |-> NameGiven(p, c.target[HalfNameAt(q, h)])],
     next   |-> [h \in K |-> HalfNameGiven(q, c.next[HalfNameAt(q, h)])],
     prev   |-> [h \in K |-> HalfNameGiven(q, c.prev[HalfNameAt(q, h)])],
     face   |-> [h \in K |-> NameGiven(r, c.face[HalfNameAt(q, h)])],
     fhalf  |-> [n \in G |-> HalfNameGiven(q, c.fhalf[NameAt(r, n)])]]
<1>1. InNames(x) =
    [half   |-> [n \in NamesOf(x.vertices) |->
                   HalfNameGiven(x.edges, x.conn.half[NameAt(x.vertices, n)])],
     target |-> [h \in HalvesOf(NamesOf(x.edges)) |->
                   NameGiven(x.vertices, x.conn.target[HalfNameAt(x.edges, h)])],
     next   |-> [h \in HalvesOf(NamesOf(x.edges)) |->
                   HalfNameGiven(x.edges, x.conn.next[HalfNameAt(x.edges, h)])],
     prev   |-> [h \in HalvesOf(NamesOf(x.edges)) |->
                   HalfNameGiven(x.edges, x.conn.prev[HalfNameAt(x.edges, h)])],
     face   |-> [h \in HalvesOf(NamesOf(x.edges)) |->
                   NameGiven(x.faces, x.conn.face[HalfNameAt(x.edges, h)])],
     fhalf  |-> [n \in NamesOf(x.faces) |->
                   HalfNameGiven(x.edges, x.conn.fhalf[NameAt(x.faces, n)])]]
  BY DEF InNames, HalfNameGiven, NameGiven, HalfNameAt, NameAt, NamesOf, HalvesOf, Live, LiveOf
<1>. QED BY <1>1

(* The element of a name is the one that has it. *)
LEMMA NameFound ==
  ASSUME NEW q, NEW I, NEW t, IsNamed(q, I, t)
  PROVE  /\ \A i \in LiveOf(q) : NameAt(q, q.name[i]) = i /\ NameGiven(q, i) = q.name[i]
         /\ \A n \in NamesOf(q) : NameAt(q, n) \in LiveOf(q) /\ q.name[NameAt(q, n)] = n
<1>1. Natural(LiveOf(q))
  BY NamesMatch
<1>2. \A i \in LiveOf(q) : NameAt(q, q.name[i]) = i
  BY DEF NameAt, IsNamed, Named
<1>3. \A i \in LiveOf(q) : NameGiven(q, i) = q.name[i]
  BY <1>1 DEF NameGiven, Natural, Null
<1>. QED BY <1>2, <1>3 DEF NamesOf

(* The halfedge of a name is the one that has it. *)
LEMMA HalfNameFound ==
  ASSUME NEW q, NEW I, NEW t, IsNamed(q, I, t), NEW h \in HalvesOf(LiveOf(q))
  PROVE  HalfNameAt(q, HalfNames(q)[h]) = h /\ HalfNameGiven(q, h) = HalfNames(q)[h]
<1>1. PICK L, W, a, ah : L = LiveOf(q) /\ W = NamesOf(q) /\ a = q.name /\ ah = HalfNames(q)
  OBVIOUS
<1>2. Natural(L) /\ Natural(W) /\ Matches(a, L, W)
  BY <1>1, NamesMatch
<1>3. ah[h] = 2 * a[h \div 2] + (h % 2)
  BY <1>1 DEF HalfNames
<1>4. PICK e, b : e = h \div 2 /\ b = h % 2
  OBVIOUS
<1>5. e \in L /\ b \in {0, 1} /\ h \in Nat /\ h = 2 * e + b
  BY <1>1, <1>2, <1>4, HalfIs
<1>6. PICK n : n = a[e]
  OBVIOUS
<1>7. n \in Nat /\ n \in W
  BY <1>2, <1>5, <1>6 DEF Matches, OneToOne, Natural
<1>8. ah[h] \div 2 = n /\ ah[h] % 2 = b
  BY <1>3, <1>4, <1>5, <1>6, <1>7
<1>9. NameAt(q, n) = e
  BY <1>1, <1>5, <1>6, NameFound
<1>10. HalfNameAt(q, ah[h]) = h
  BY <1>5, <1>8, <1>9 DEF HalfNameAt
<1>11. HalfNameGiven(q, h) = ah[h]
  BY <1>1, <1>3, <1>5 DEF HalfNameGiven, Null
<1>. QED BY <1>1, <1>10, <1>11

(* What is null stays null in names. *)
LEMMA NullUnnamed ==
  ASSUME NEW q
  PROVE  HalfNameGiven(q, Null) = Null /\ NameGiven(q, Null) = Null
BY DEF HalfNameGiven, NameGiven

(* The mesh in names is the connectivity of the mesh, in names. *)
LEMMA ViewIs ==
  ASSUME NEW x, NEW V, NEW E, NEW F, NEW t, IsMesh(x, V, E, F, t), NEW d, d = InNames(x)
  PROVE  Views(d, x)
<1>1. PICK c, p, q, r : c = x.conn /\ p = x.vertices /\ q = x.edges /\ r = x.faces
  OBVIOUS
<1>2. PICK av, ah, af : av = p.name /\ ah = HalfNames(q) /\ af = r.name
  OBVIOUS
<1>3. PICK S, H, M, W, K, G : /\ S = LiveOf(p) /\ H = HalvesOf(LiveOf(q)) /\ M = LiveOf(r)
                              /\ W = NamesOf(p) /\ K = HalvesOf(NamesOf(q)) /\ G = NamesOf(r)
  OBVIOUS
<1>4. IsNamed(p, V, t) /\ IsNamed(q, E, t) /\ IsNamed(r, F, t) /\ Sound(c, S, H, M)
  BY <1>1, <1>3 DEF IsMesh, IsKind, IsNamed
<1>5. Matches(av, S, W) /\ Matches(ah, H, K) /\ Matches(af, M, G)
  BY <1>2, <1>3, <1>4, NamesMatch, HalfNamesMatch
<1>6. Natural(W) /\ Natural(K) /\ Natural(G)
  BY <1>3, <1>4, NamesMatch, HalvesAre
<1>7. /\ \A v \in S : NameAt(p, av[v]) = v /\ NameGiven(p, v) = av[v]
      /\ \A f \in M : NameAt(r, af[f]) = f /\ NameGiven(r, f) = af[f]
  BY <1>2, <1>3, <1>4, NameFound
<1>8. \A h \in H : HalfNameAt(q, ah[h]) = h /\ HalfNameGiven(q, h) = ah[h]
  BY <1>2, <1>3, <1>4, HalfNameFound
<1>9. d =
    [half   |-> [n \in W |-> HalfNameGiven(q, c.half[NameAt(p, n)])],
     target |-> [h \in K |-> NameGiven(p, c.target[HalfNameAt(q, h)])],
     next   |-> [h \in K |-> HalfNameGiven(q, c.next[HalfNameAt(q, h)])],
     prev   |-> [h \in K |-> HalfNameGiven(q, c.prev[HalfNameAt(q, h)])],
     face   |-> [h \in K |-> NameGiven(r, c.face[HalfNameAt(q, h)])],
     fhalf  |-> [n \in G |-> HalfNameGiven(q, c.fhalf[NameAt(r, n)])]]
  BY <1>1, <1>3, InNamesIs
<1>10. /\ \A v \in S : c.half[v] = Null \/ c.half[v] \in H
       /\ \A h \in H : /\ c.target[h] \in S /\ c.next[h] \in H /\ c.prev[h] \in H
                       /\ c.face[h] = Null \/ c.face[h] \in M
       /\ \A f \in M : c.fhalf[f] \in H
  BY <1>4 DEF Sound, IsValid
<1>11. /\ \A v \in S : av[v] \in W
       /\ \A h \in H : ah[h] \in K
       /\ \A f \in M : af[f] \in G
  BY <1>5 DEF Matches, OneToOne
<1>12. HalfNameGiven(q, Null) = Null /\ NameGiven(r, Null) = Null
  BY NullUnnamed
<1>13. \A h \in H : ah[h] # Null
  BY <1>6, <1>11 DEF Natural, Null
<1>14. \A v \in S : d.half[av[v]] = Across(ah, c.half[v])
  BY <1>7, <1>8, <1>9, <1>10, <1>11, <1>12 DEF Across
<1>15. \A h \in H : /\ d.target[ah[h]] = av[c.target[h]]
                    /\ d.next[ah[h]] = ah[c.next[h]]
                    /\ d.prev[ah[h]] = ah[c.prev[h]]
  BY <1>7, <1>8, <1>9, <1>10, <1>11
<1>16. Null \notin H /\ Null \notin M
  BY <1>4 DEF Sound, AreNumbers, Null
<1>17. \A h \in H : d.face[ah[h]] = Across(af, c.face[h])
  BY <1>7, <1>8, <1>9, <1>10, <1>11, <1>12, <1>16 DEF Across
<1>18. \A f \in M : d.fhalf[af[f]] = ah[c.fhalf[f]]
  BY <1>7, <1>8, <1>9, <1>10, <1>11
<1>19. Alike(d, c, S, H, M, av, ah, af)
  BY <1>14, <1>15, <1>17, <1>18 DEF Alike
<1>20. /\ d.half = [n \in W |-> d.half[n]] /\ d.target = [h \in K |-> d.target[h]]
       /\ d.next = [h \in K |-> d.next[h]] /\ d.prev = [h \in K |-> d.prev[h]]
       /\ d.face = [h \in K |-> d.face[h]] /\ d.fhalf = [n \in G |-> d.fhalf[n]]
       /\ d = [half |-> d.half, target |-> d.target, next |-> d.next, prev |-> d.prev,
               face |-> d.face, fhalf |-> d.fhalf]
  BY <1>9
<1>21. /\ \A n \in W : d.half[n] \in Int
       /\ \A h \in K : d.target[h] \in Int /\ d.next[h] \in Int /\ d.prev[h] \in Int
                       /\ d.face[h] \in Int
       /\ \A n \in G : d.fhalf[n] \in Int
  <2>1. /\ \A v \in S : Across(ah, c.half[v]) \in Int
        /\ \A h \in H : av[c.target[h]] \in Int /\ ah[c.next[h]] \in Int /\ ah[c.prev[h]] \in Int
                        /\ Across(af, c.face[h]) \in Int
        /\ \A f \in M : ah[c.fhalf[f]] \in Int
    <3>1. /\ \A v \in S : av[v] \in Int
          /\ \A h \in H : ah[h] \in Int
          /\ \A f \in M : af[f] \in Int
      <4>1. (\A y \in W : y \in Int) /\ (\A y \in K : y \in Int) /\ (\A y \in G : y \in Int)
        BY <1>6 DEF Natural
      <4>. QED BY <4>1, <1>11
    <3>2. /\ \A v \in S : Across(ah, c.half[v]) \in Int
          /\ \A h \in H : Across(af, c.face[h]) \in Int
      BY <3>1, <1>10 DEF Across, Null
    <3>. QED BY <3>1, <3>2, <1>10
  <2>2. /\ \A n \in W : \E v \in S : av[v] = n
        /\ \A n \in K : \E v \in H : ah[v] = n
        /\ \A n \in G : \E v \in M : af[v] = n
    BY <1>5 DEF Matches
  <2>3. /\ \A v \in S : d.half[av[v]] \in Int
        /\ \A h \in H : d.target[ah[h]] \in Int /\ d.next[ah[h]] \in Int /\ d.prev[ah[h]] \in Int
                        /\ d.face[ah[h]] \in Int
        /\ \A f \in M : d.fhalf[af[f]] \in Int
    BY <2>1, <1>14, <1>15, <1>17, <1>18
  <2>. QED BY <2>2, <2>3
<1>22. d \in Arrays(W, K, G)
  BY <1>20, <1>21 DEF Arrays
<1>. QED BY <1>1, <1>2, <1>3, <1>19, <1>22 DEF Views, View

(* A mesh has one connectivity in names. *)
LEMMA ViewOnly ==
  ASSUME NEW x, NEW V, NEW E, NEW F, NEW t, IsMesh(x, V, E, F, t),
         NEW d, Views(d, x), NEW e, Views(e, x)
  PROVE  d = e
<1>1. PICK c, p, q, r : c = x.conn /\ p = x.vertices /\ q = x.edges /\ r = x.faces
  OBVIOUS
<1>2. PICK av, ah, af : av = p.name /\ ah = HalfNames(q) /\ af = r.name
  OBVIOUS
<1>3. PICK S, H, M, W, K, G : /\ S = LiveOf(p) /\ H = HalvesOf(LiveOf(q)) /\ M = LiveOf(r)
                              /\ W = NamesOf(p) /\ K = HalvesOf(NamesOf(q)) /\ G = NamesOf(r)
  OBVIOUS
<1>4. IsNamed(p, V, t) /\ IsNamed(q, E, t) /\ IsNamed(r, F, t)
  BY <1>1 DEF IsMesh, IsKind, IsNamed
<1>5. Matches(av, S, W) /\ Matches(ah, H, K) /\ Matches(af, M, G)
  BY <1>2, <1>3, <1>4, NamesMatch, HalfNamesMatch
<1>6. /\ d \in Arrays(W, K, G) /\ Alike(d, c, S, H, M, av, ah, af)
      /\ e \in Arrays(W, K, G) /\ Alike(e, c, S, H, M, av, ah, af)
  BY <1>1, <1>2, <1>3 DEF Views, View
<1>. QED BY <1>5, <1>6, AlikeOnly

(* What is the connectivity in names of a consistent mesh is that mesh in  *)
(* names.                                                                  *)
LEMMA ViewUnique ==
  ASSUME NEW x, NEW t, MeshOK(x, t), NEW d, Views(d, x)
  PROVE  d = InNames(x)
<1>1. PICK V, E, F : IsMesh(x, V, E, F, t)
  BY DEF MeshOK
<1>2. PICK e : e = InNames(x)
  OBVIOUS
<1>3. Views(e, x)
  BY <1>1, <1>2, ViewIs
<1>4. d = e
  BY <1>1, <1>3, ViewOnly
<1>. QED BY <1>2, <1>4

(* All that is known of a sound connectivity c and of the same             *)
(* connectivity d under the names av, ah and af.                           *)
Seen(d, c, V, H, F, av, ah, af, W, K, G) ==
  /\ Sound(c, V, H, F) /\ Sound(d, W, K, G)
  /\ Matches(av, V, W) /\ Matches(ah, H, K) /\ Matches(af, F, G) /\ Mates(ah, H)
  /\ Natural(W) /\ Natural(K) /\ Natural(G) /\ Null \notin K /\ IsFiniteSet(K)
  /\ d \in Arrays(W, K, G) /\ Alike(d, c, V, H, F, av, ah, af)

(* A consistent mesh and its names are so. *)
LEMMA MeshSeen ==
  ASSUME NEW x, NEW X, NEW E, NEW Y, NEW t, IsMesh(x, X, E, Y, t), Numbered(E),
         NEW c, NEW p, NEW q, NEW r, c = x.conn, p = x.vertices, q = x.edges, r = x.faces,
         NEW V, NEW H, NEW F, V = LiveOf(p), H = HalvesOf(LiveOf(q)), F = LiveOf(r),
         NEW W, NEW N, NEW K, NEW G, W = NamesOf(p), N = NamesOf(q), K = HalvesOf(N), G = NamesOf(r),
         NEW d, d = InNames(x)
  PROVE  /\ Seen(d, c, V, H, F, p.name, HalfNames(q), r.name, W, K, G) /\ Natural(N)
         /\ IsNamed(p, X, t) /\ IsNamed(q, E, t) /\ IsNamed(r, Y, t)
<1>2. PICK av, ah, af : av = p.name /\ ah = HalfNames(q) /\ af = r.name
  OBVIOUS
<1>4. IsNamed(p, X, t) /\ IsNamed(q, E, t) /\ IsNamed(r, Y, t) /\ Sound(c, V, H, F)
  BY DEF IsMesh, IsKind, IsNamed
<1>5. Matches(av, V, W) /\ Matches(ah, H, K) /\ Matches(af, F, G) /\ Mates(ah, H)
  BY <1>2, <1>4, NamesMatch, HalfNamesMatch
<1>6. Natural(W) /\ Natural(N) /\ Natural(K) /\ Natural(G) /\ Null \notin K
  BY <1>4, NamesMatch, HalvesAre
<1>7. IsFiniteSet(K)
  <2>1. q \in KindRecords(E) /\ IsFiniteSet(E)
    BY <1>4, NumberedIs DEF IsNamed
  <2>. QED BY <2>1, NamesFinite, HalvesAlsoFinite
<1>8. Views(d, x)
  BY ViewIs
<1>9. d \in Arrays(W, K, G) /\ Alike(d, c, V, H, F, av, ah, af)
  BY <1>2, <1>8 DEF Views, View
<1>10. AreNumbers(W, K, G)
  BY <1>6 DEF AreNumbers, Natural
<1>11. Sound(d, W, K, G)
  BY <1>4, <1>5, <1>9, <1>10, AlikeSound
<1>. QED BY <1>2, <1>4, <1>5, <1>6, <1>7, <1>9, <1>11 DEF Seen

(* One element more, with a new name. *)
NamesMore(b, q, i, t) ==
  /\ b.name[i] = t /\ Same(b.name, q.name, LiveOf(q)) /\ LiveOf(b) = LiveOf(q) \cup {i}
  /\ NamesOf(b) = NamesOf(q) \cup {t} /\ t \notin NamesOf(q)

(* An element that is added has a name that no other has. *)
LEMMA NamesGrow ==
  ASSUME NEW q, NEW I, NEW t \in Nat, IsNamed(q, I, t), NEW i, i \notin LiveOf(q),
         NEW b, b.name = Renamed(q.name, i, t), LiveOf(b) = LiveOf(q) \cup {i}
  PROVE  NamesMore(b, q, i, t)
<1>1. LiveOf(q) \subseteq I /\ q.name \in [I -> Nat]
  BY LiveAndGone DEF KindRecords, IsNamed
<1>2. b.name = [j \in I \cup {i} |-> IF j \in {i} THEN t ELSE q.name[j]]
  BY <1>1 DEF Renamed, Bind
<1>3. b.name[i] = t /\ \A j \in LiveOf(q) : b.name[j] = q.name[j]
  BY <1>1, <1>2
<1>4. NamesOf(b) = NamesOf(q) \cup {t}
  BY <1>3 DEF NamesOf
<1>5. t \notin NamesOf(q)
  BY NamesMatch
<1>. QED BY <1>3, <1>4, <1>5 DEF NamesMore, Same

(* So have the halfedges of an edge that is added. *)
LEMMA HalfNamesGrow ==
  ASSUME NEW q, NEW b, NEW i \in Nat, NEW t \in Nat, NamesMore(b, q, i, t),
         Natural(LiveOf(q)), Natural(NamesOf(q)), i \notin LiveOf(q),
         NEW h, h = 2 * i, NEW o, o = 2 * i + 1, NEW g, g = 2 * t, NEW k, k = 2 * t + 1
  PROVE  /\ HalfNames(b)[h] = g /\ HalfNames(b)[o] = k
         /\ Same(HalfNames(b), HalfNames(q), HalvesOf(LiveOf(q)))
         /\ HalvesOf(LiveOf(b)) = WithPair(HalvesOf(LiveOf(q)), h, o)
         /\ HalvesOf(NamesOf(b)) = WithPair(HalvesOf(NamesOf(q)), g, k)
         /\ h \notin HalvesOf(LiveOf(q)) /\ o \notin HalvesOf(LiveOf(q))
         /\ g \notin HalvesOf(NamesOf(q)) /\ k \notin HalvesOf(NamesOf(q))
<1>1. PICK L, W : L = LiveOf(q) /\ W = NamesOf(q)
  OBVIOUS
<1>2. LiveOf(b) = L \cup {i} /\ NamesOf(b) = W \cup {t} /\ t \notin W /\ i \notin L
  BY <1>1 DEF NamesMore
<1>3. HalvesOf(LiveOf(b)) = HalvesOf(L) \cup {h, o} /\ HalvesOf(NamesOf(b)) = HalvesOf(W) \cup {g, k}
  BY <1>2, HalvesGrow
<1>4. h \notin HalvesOf(L) /\ o \notin HalvesOf(L) /\ g \notin HalvesOf(W) /\ k \notin HalvesOf(W)
  BY <1>1, <1>2, HalfIn
<1>5. \A x \in HalvesOf(LiveOf(b)) : HalfNames(b)[x] = 2 * b.name[x \div 2] + (x % 2)
  BY DEF HalfNames
<1>6. \A x \in HalvesOf(L) : HalfNames(q)[x] = 2 * q.name[x \div 2] + (x % 2)
  BY <1>1 DEF HalfNames
<1>7. h \div 2 = i /\ o \div 2 = i /\ h % 2 = 0 /\ o % 2 = 1
  OBVIOUS
<1>8. HalfNames(b)[h] = g /\ HalfNames(b)[o] = k
  <2>1. h \in HalvesOf(LiveOf(b)) /\ o \in HalvesOf(LiveOf(b))
    BY <1>3
  <2>2. b.name[i] = t
    BY DEF NamesMore
  <2>3. HalfNames(b)[h] = 2 * t + 0 /\ HalfNames(b)[o] = 2 * t + 1
    BY <2>1, <2>2, <1>5, <1>7
  <2>. QED BY <2>3
<1>9. \A x \in HalvesOf(L) : x \div 2 \in L
  BY <1>1, HalfIs
<1>10. \A x \in HalvesOf(L) : HalfNames(b)[x] = HalfNames(q)[x]
  BY <1>1, <1>3, <1>5, <1>6, <1>9 DEF NamesMore, Same
<1>. QED BY <1>1, <1>3, <1>4, <1>8, <1>10 DEF Same, WithPair

(* A vertex that is added, in a new or a recycled place, is added in       *)
(* names.                                                                  *)
LEMMA AddVertexView ==
  ASSUME NEW t \in Nat, NEW x, MeshOK(x, t), NEW y, y = Added(x, "vertices", t)
  PROVE  InNames(y) = WithVertex(InNames(x), t)
<1>1. PICK X, E, Y : /\ Numbered(X) /\ Numbered(E) /\ Numbered(Y)
                     /\ IsMesh(x, X, E, Y, t)
  BY DEF MeshOK
<1>2. PICK D : D = HalvesOf(E)
  OBVIOUS
<1>3. PICK p, q, r, c, H : /\ p = x.vertices /\ q = x.edges /\ r = x.faces /\ c = x.conn
                           /\ H = HalvesOf(LiveOf(q))
  OBVIOUS
<1>4. /\ x \in MeshRecords(X, E, Y) /\ IsKind(p, "vertices", X, c.half, t)
      /\ c \in Arrays(X, D, Y)
  BY <1>1, <1>2, <1>3, MeshFields DEF IsMesh
<1>6. PICK i, a, d : /\ i = NextNode(x, "vertices") /\ a = AddedKind(x, "vertices", i, i, t)
                     /\ d = WithVertex(c, i)
  OBVIOUS
<1>7. AddsTo(p, "vertices", X, c.half, i, a, t) /\ Numbered(Grown(X, i))
  <2>1. i = ElementAt("vertices", i)
    BY DEF ElementAt
  <2>2. c.half = Link(x, "vertices") /\ p = x["vertices"]
    BY <1>3 DEF Link, LinkOf
  <2>. QED BY <2>1, <2>2, <1>1, <1>4, <1>6, NextAdds
<1>8. PICK V, F, W, N, K, G, C : /\ V = LiveOf(p) /\ F = LiveOf(r) /\ W = NamesOf(p)
                                 /\ N = NamesOf(q) /\ K = HalvesOf(N) /\ G = NamesOf(r)
                                 /\ C = InNames(x)
  OBVIOUS
<1>9. PICK av, ah, af : av = p.name /\ ah = HalfNames(q) /\ af = r.name
  OBVIOUS
<1>10. Seen(C, c, V, H, F, av, ah, af, W, K, G) /\ IsNamed(p, X, t)
  BY <1>1, <1>3, <1>8, <1>9, MeshSeen
<1>11. i \in Nat /\ i \notin V
  BY <1>4, <1>7, <1>8, AddsUnused
<1>12. a.name = Renamed(p.name, i, t) /\ LiveOf(a) = LiveOf(p) \cup {i}
  <2>1. a.name = Renamed(p.name, i, t)
    BY <1>7 DEF AddsTo, Recycled, Extended, Members
  <2>2. Same(c.half, c.half, NodesOf("vertices", Without(GoneOf(p), i)))
    BY DEF Same
  <2>3. PICK J : J = Grown(X, i)
    OBVIOUS
  <2>4. LiveOf(a) = LiveOf(p) \cup {i}
    BY <1>4, <1>7, <2>2, <2>3, KindAdded
  <2>. QED BY <2>1, <2>4
<1>13. NamesMore(a, p, i, t)
  BY <1>8, <1>10, <1>11, <1>12, NamesGrow
<1>14. PICK bv, Z : bv = a.name /\ Z = WithVertex(C, t)
  OBVIOUS
<1>15. bv[i] = t /\ Same(bv, av, V) /\ LiveOf(a) = V \cup {i} /\ NamesOf(a) = W \cup {t} /\ t \notin W
  BY <1>8, <1>9, <1>13, <1>14 DEF NamesMore
<1>16. VertexReset(d, c, X, i) /\ V \subseteq X
  <2>1. PICK J : J = X \cup {i}
    OBVIOUS
  <2>. QED BY <2>1, <1>4, <1>6, <1>8, LiveAndGone, WithVertexIs DEF IsKind
<1>17. Z \in Arrays(W \cup {t}, K, G) /\ VertexReset(Z, C, W, t)
  <2>1. PICK J : J = W \cup {t}
    OBVIOUS
  <2>2. C \in Arrays(W, K, G)
    BY <1>10 DEF Seen
  <2>. QED BY <2>1, <2>2, <1>14, WithVertexIs
<1>18. Alike(Z, d, V \cup {i}, H, F, bv, ah, af)
  BY <1>10, <1>11, <1>15, <1>16, <1>17, VertexAlike DEF Seen
<1>19. y = MeshOf(a, q, r, x.garbage, x.recycle, d)
  <2>1. y = MeshOf(a, x.edges, x.faces, x.garbage, x.recycle, d)
    <3>1. i = ElementAt("vertices", i) /\ d = WithElement(x.conn, "vertices", i)
      BY <1>3, <1>6 DEF ElementAt, WithElement
    <3>. QED BY <3>1, <1>4, <1>6, AddedIs DEF Kinds
  <2>. QED BY <2>1, <1>3
<1>20. y.vertices = a /\ y.edges = q /\ y.faces = r /\ y.conn = d
  BY <1>19 DEF MeshOf
<1>21. View(Z, d, a, q, r)
  BY <1>3, <1>8, <1>9, <1>14, <1>15, <1>17, <1>18 DEF View
<1>22. MeshOK(y, t + 1) /\ Views(Z, y)
  BY <1>20, <1>21, AddVertexStep DEF Views
<1>. QED BY <1>8, <1>14, <1>22, ViewUnique

-----------------------------------------------------------------------------
(***************************************************************************)
(* Adding an edge, and a face, in names.                                   *)
(***************************************************************************)

(* An edge is connected in indices as it is in names. *)
LEMMA EdgeView ==
  ASSUME NEW C, NEW c, NEW V, NEW H, NEW F, NEW av, NEW ah, NEW af, NEW W, NEW K, NEW G,
         Seen(C, c, V, H, F, av, ah, af, W, K, G),
         NEW X, NEW D, NEW Y, c \in Arrays(X, D, Y), Integral(X), Null \notin D,
         Inside(V, H, F, X, D, Y), NEW h, NEW o, IsEdge(h, o), h \notin H, o \notin H,
         NEW E, E = WithPair(D, h, o), Integral(E),
         NEW u \in V, NEW v \in V, u # v, NEW g, NEW k, Opening(c, H, u, g), Opening(c, H, v, k),
         NEW i, NEW j, IsEdge(i, j), i \notin K, j \notin K, NEW M, M = WithPair(K, i, j),
         NEW bh, bh[h] = i, bh[o] = j, Same(bh, ah, H),
         NEW a, a = av[u], NEW b, b = av[v], NEW l, l = Across(ah, g), NEW m, m = Across(ah, k),
         NEW d, d = Connect(WithEdge(c, h), h, u, g, v, k),
         NEW e, e = Connect(WithEdge(C, i), i, a, l, b, m)
  PROVE  /\ a \in W /\ b \in W /\ a # b /\ Opening(C, K, a, l) /\ Opening(C, K, b, m)
         /\ e \in Arrays(W, M, G) /\ Alike(e, d, V, WithPair(H, h, o), F, av, bh, af)
<1>1. /\ Sound(c, V, H, F) /\ Sound(C, W, K, G) /\ Matches(av, V, W) /\ Matches(ah, H, K)
      /\ Matches(af, F, G) /\ Natural(W) /\ Natural(K) /\ Null \notin K
      /\ C \in Arrays(W, K, G) /\ Alike(C, c, V, H, F, av, ah, af)
  BY DEF Seen
<1>2. a \in W /\ b \in W /\ a # b
  BY <1>1 DEF Matches, OneToOne
<1>3. Opening(C, K, a, l) /\ Opening(C, K, b, m)
  BY <1>1, OpeningAlike
<1>4. Wired(d, c, V, H, F, h, o, u, g, v, k)
  BY <1>1, AddedEdgeWired
<1>5. Integral(W) /\ Integral(M)
  <2>1. i \in Int /\ j \in Int
    BY DEF IsEdge
  <2>. QED BY <2>1, <1>1 DEF Integral, Natural, WithPair
<1>6. Inside(W, K, G, W, K, G)
  BY DEF Inside
<1>7. e \in Arrays(W, M, G) /\ Wired(e, C, W, K, G, i, j, a, l, b, m)
  BY <1>1, <1>2, <1>3, <1>5, <1>6, AddedEdgeWired
<1>8. h # o /\ h # Null /\ o # Null
  BY DEF IsEdge, Null
<1>9. Wired(e, C, W, K, G, i, j, av[u], Across(ah, g), av[v], Across(ah, k))
  BY <1>7
<1>10. Alike(e, d, V, WithPair(H, h, o), F, av, bh, af)
  BY <1>1, <1>4, <1>8, <1>9, WiredAlike
<1>. QED BY <1>2, <1>3, <1>7, <1>10

(* MeshGraph permits it. *)
LEMMA PromisedEdge ==
  ASSUME NEW C, NEW W, NEW K, NEW G, C \in Arrays(W, K, G), NEW t,
         NEW a, NEW b, a \in W, b \in W, a # b, NEW l, NEW m,
         Opening(C, K, a, l), Opening(C, K, b, m), NEW i, i = 2 * t,
         NEW e, e = Connect(WithEdge(C, i), i, a, l, b, m)
  PROVE  Promised!AddEdge(C, e, t)
<1>1. DOMAIN C.half = W /\ DOMAIN C.target = K
  BY DEF Arrays
<1>2. l \in Promised!Ends(C, a) /\ m \in Promised!Ends(C, b)
  BY <1>1 DEF Opening, Promised!Ends, Promised!Null, Null
<1>3. e = Promised!Connect(Promised!WithEdge(C, i), i, a, l, b, m)
  <2>1. PICK z : z = WithEdge(C, i)
    OBVIOUS
  <2>2. Promised!WithEdge(C, i) = z
    BY <2>1, SameEdge
  <2>3. Promised!Connect(z, i, a, l, b, m) = Connect(z, i, a, l, b, m)
    BY SameConnect
  <2>. QED BY <2>1, <2>2, <2>3
<1>4. e = Promised!Connect(Promised!WithEdge(C, 2 * t), 2 * t, a, l, b, m)
  BY <1>3
<1>. QED BY <1>1, <1>2, <1>4 DEF Promised!AddEdge

(* An edge that is added is added in names, between the same openings. *)
LEMMA AddEdgeView ==
  ASSUME NEW t \in Nat, NEW x, MeshOK(x, t), NEW h, h = NextNode(x, "edges"),
         NEW u, NEW v, u \in Live(x, "vertices"), v \in Live(x, "vertices"), u # v,
         NEW g, NEW k, g \in Ends(x, u), k \in Ends(x, v),
         NEW y, y = [Added(x, "edges", t) EXCEPT !.conn = Connect(@, h, u, g, v, k)]
  PROVE  Promised!AddEdge(InNames(x), InNames(y), t)
<1>1. PICK X, E, Y : /\ Numbered(X) /\ Numbered(E) /\ Numbered(Y)
                     /\ IsMesh(x, X, E, Y, t)
  BY DEF MeshOK
<1>2. PICK D : D = HalvesOf(E)
  OBVIOUS
<1>3. PICK p, q, r, c, H : /\ p = x.vertices /\ q = x.edges /\ r = x.faces /\ c = x.conn
                           /\ H = HalvesOf(LiveOf(q))
  OBVIOUS
<1>4. /\ x \in MeshRecords(X, E, Y) /\ IsKind(p, "vertices", X, c.half, t)
      /\ IsKind(q, "edges", E, c.next, t) /\ IsKind(r, "faces", Y, c.fhalf, t)
  BY <1>1, <1>3 DEF IsMesh
<1>5. /\ c \in Arrays(X, D, Y)
      /\ p \in KindRecords(X) /\ q \in KindRecords(E) /\ r \in KindRecords(Y)
  BY <1>2, <1>3, <1>4, MeshFields
<1>6. PICK i, a, e, d : /\ i = ElementAt("edges", h) /\ a = AddedKind(x, "edges", i, h, t)
                        /\ e = WithEdge(c, h) /\ d = Connect(e, h, u, g, v, k)
  OBVIOUS
<1>7. /\ h = Node("edges", i) /\ AddsTo(q, "edges", E, c.next, i, a, t)
      /\ Numbered(Grown(E, i))
  <2>1. c.next = Link(x, "edges") /\ q = x["edges"]
    BY <1>3 DEF Link, LinkOf
  <2>. QED BY <2>1, <1>1, <1>4, <1>6, NextAdds
<1>8. PICK V, F, W, N, K, G, C : /\ V = LiveOf(p) /\ F = LiveOf(r) /\ W = NamesOf(p)
                                 /\ N = NamesOf(q) /\ K = HalvesOf(N) /\ G = NamesOf(r)
                                 /\ C = InNames(x)
  OBVIOUS
<1>9. PICK av, ah, af : av = p.name /\ ah = HalfNames(q) /\ af = r.name
  OBVIOUS
<1>10. Seen(C, c, V, H, F, av, ah, af, W, K, G) /\ IsNamed(q, E, t) /\ Natural(N)
  BY <1>1, <1>3, <1>8, <1>9, MeshSeen
<1>11. i \in Nat /\ i \notin LiveOf(q) /\ h = 2 * i
  <2>1. i \in Nat /\ i \notin LiveOf(q)
    BY <1>4, <1>7, AddsUnused
  <2>. QED BY <2>1, <1>7 DEF Node
<1>12. a.name = Renamed(q.name, i, t) /\ LiveOf(a) = LiveOf(q) \cup {i}
  <2>1. a.name = Renamed(q.name, i, t)
    BY <1>7 DEF AddsTo, Recycled, Extended, Members
  <2>2. Same(c.next, c.next, NodesOf("edges", Without(GoneOf(q), i)))
    BY DEF Same
  <2>3. PICK J : J = Grown(E, i)
    OBVIOUS
  <2>4. LiveOf(a) = LiveOf(q) \cup {i}
    BY <1>4, <1>7, <2>2, <2>3, KindAdded
  <2>. QED BY <2>1, <2>4
<1>13. NamesMore(a, q, i, t)
  BY <1>10, <1>11, <1>12, NamesGrow
<1>14. PICK j, o, l, m, bh : j = 2 * t /\ o = 2 * i + 1 /\ m = 2 * t + 1 /\ bh = HalfNames(a)
  OBVIOUS
<1>15. Natural(LiveOf(q)) /\ Natural(NamesOf(q)) /\ Natural(E)
  BY <1>1, <1>10, NamesMatch, NumberedIs
<1>16. /\ bh[h] = j /\ bh[o] = m /\ Same(bh, ah, H)
       /\ HalvesOf(LiveOf(a)) = WithPair(H, h, o) /\ HalvesOf(NamesOf(a)) = WithPair(K, j, m)
       /\ h \notin H /\ o \notin H /\ j \notin K /\ m \notin K
  <2>1. /\ HalfNames(a)[h] = j /\ HalfNames(a)[o] = m
        /\ Same(HalfNames(a), HalfNames(q), HalvesOf(LiveOf(q)))
        /\ HalvesOf(LiveOf(a)) = WithPair(HalvesOf(LiveOf(q)), h, o)
        /\ HalvesOf(NamesOf(a)) = WithPair(HalvesOf(NamesOf(q)), j, m)
        /\ h \notin HalvesOf(LiveOf(q)) /\ o \notin HalvesOf(LiveOf(q))
        /\ j \notin HalvesOf(NamesOf(q)) /\ m \notin HalvesOf(NamesOf(q))
    BY <1>11, <1>13, <1>14, <1>15, HalfNamesGrow
  <2>. QED BY <2>1, <1>3, <1>8, <1>9, <1>14
<1>17. PICK M, R : M = WithPair(K, j, m) /\ R = WithPair(D, h, o)
  OBVIOUS
<1>18. IsEdge(h, o) /\ IsEdge(j, m)
  BY <1>11, <1>14, EdgeHalves
<1>19. Integral(X) /\ Null \notin D /\ Integral(R) /\ Inside(V, H, F, X, D, Y)
  <2>1. Integral(X)
    BY <1>1, NumberedIs
  <2>2. Null \notin D /\ Integral(D)
    BY <1>2, <1>15, HalvesAre
  <2>3. h \in Int /\ o \in Int
    BY <1>18 DEF IsEdge
  <2>4. Integral(R)
    BY <2>2, <2>3, <1>17 DEF Integral, WithPair
  <2>5. V \subseteq X /\ LiveOf(q) \subseteq E /\ F \subseteq Y
    BY <1>5, <1>8, LiveAndGone
  <2>6. Inside(V, H, F, X, D, Y)
    BY <2>5, <1>2, <1>3, HalvesWithin DEF Inside
  <2>. QED BY <2>1, <2>2, <2>4, <2>6
<1>20. Opening(c, H, u, g) /\ Opening(c, H, v, k)
  BY <1>3, <1>4, <1>15, EndsOpen
<1>21. u \in V /\ v \in V
  BY <1>3, <1>8 DEF Live, LiveOf
<1>22. PICK uu, vv, gg, kk : /\ uu = av[u] /\ vv = av[v] /\ gg = Across(ah, g)
                             /\ kk = Across(ah, k)
  OBVIOUS
<1>23. PICK Z : Z = Connect(WithEdge(C, j), j, uu, gg, vv, kk)
  OBVIOUS
<1>24. /\ uu \in W /\ vv \in W /\ uu # vv /\ Opening(C, K, uu, gg) /\ Opening(C, K, vv, kk)
       /\ Z \in Arrays(W, M, G) /\ Alike(Z, d, V, WithPair(H, h, o), F, av, bh, af)
  BY <1>5, <1>6, <1>10, <1>16, <1>17, <1>18, <1>19, <1>20, <1>21, <1>22, <1>23, EdgeView
<1>25. y.vertices = p /\ y.edges = a /\ y.faces = r /\ y.conn = d
  <2>1. PICK z : z = Added(x, "edges", t)
    OBVIOUS
  <2>2. z = MeshOf(p, a, r, x.garbage, x.recycle, e)
    <3>1. e = WithElement(x.conn, "edges", h)
      BY <1>3, <1>6 DEF WithElement
    <3>2. z = MeshOf(x.vertices, a, x.faces, x.garbage, x.recycle, e)
      BY <3>1, <2>1, <1>4, <1>6, AddedIs DEF Kinds
    <3>. QED BY <3>2, <1>3
  <2>3. y = [z EXCEPT !.conn = d]
    BY <2>1, <2>2, <1>6 DEF MeshOf
  <2>. QED BY <2>2, <2>3 DEF MeshOf
<1>26. View(Z, d, p, a, r)
  BY <1>8, <1>9, <1>14, <1>16, <1>17, <1>24 DEF View
<1>27. MeshOK(y, t + 1) /\ Views(Z, y)
  BY <1>25, <1>26, AddEdgeStep DEF Views
<1>28. Z = InNames(y)
  BY <1>27, ViewUnique
<1>29. Promised!AddEdge(C, Z, t)
  BY <1>10, <1>14, <1>23, <1>24, PromisedEdge DEF Seen
<1>. QED BY <1>8, <1>28, <1>29

(* A face is filled in indices as it is in names. *)
LEMMA FaceView ==
  ASSUME NEW C, NEW c, NEW V, NEW H, NEW F, NEW av, NEW ah, NEW af, NEW W, NEW K, NEW G,
         Seen(C, c, V, H, F, av, ah, af, W, K, G),
         NEW X, NEW D, NEW Y, c \in Arrays(X, D, Y), IsFiniteSet(D), Integral(D),
         Inside(V, H, F, X, D, Y), NEW f \in Nat, f \notin F, NEW h \in H, c.face[h] = Null,
         NEW n \in Nat, n \notin G, NEW bf, bf[f] = n, Same(bf, af, F),
         NEW d, d = Fill(WithFace(c, f), h, f), NEW i, i = ah[h],
         NEW e, e = Fill(WithFace(C, n), i, n), NEW Q, Q = Grown(G, n)
  PROVE  /\ i \in K /\ C.face[i] = Null
         /\ e \in Arrays(W, K, Q) /\ Alike(e, d, V, H, F \cup {f}, av, ah, bf)
<1>1. /\ Sound(c, V, H, F) /\ Sound(C, W, K, G) /\ Matches(ah, H, K)
      /\ Matches(af, F, G) /\ Natural(K) /\ IsFiniteSet(K)
      /\ C \in Arrays(W, K, G) /\ Alike(C, c, V, H, F, av, ah, af)
  BY DEF Seen
<1>2. i \in K /\ C.face[i] = Null
  BY <1>1 DEF Matches, OneToOne, Alike, Across
<1>3. PICK A : IsCycle(A, c, H, h) /\ Filled(d, c, H, F, A, h, f)
  <2>1. PICK Z : Z = Grown(Y, f)
    OBVIOUS
  <2>. QED BY <2>1, <1>1, FilledIs
<1>4. Inside(W, K, G, W, K, G) /\ Integral(K)
  BY <1>1 DEF Inside, Integral, Natural
<1>5. e \in Arrays(W, K, Q) /\ \E B : IsCycle(B, C, K, i) /\ Filled(e, C, K, G, B, i, n)
  BY <1>1, <1>2, <1>4, FilledIs
<1>6. PICK B : IsCycle(B, C, K, i) /\ Filled(e, C, K, G, B, i, n)
  BY <1>5
<1>7. IsCycle(B, C, K, ah[h]) /\ Filled(e, C, K, G, B, ah[h], n)
  BY <1>6
<1>8. f # Null
  BY DEF Null
<1>9. Alike(e, d, V, H, F \cup {f}, av, ah, bf)
  BY <1>1, <1>3, <1>7, <1>8, FilledAlike
<1>. QED BY <1>2, <1>5, <1>9

(* MeshGraph permits it. *)
LEMMA PromisedFace ==
  ASSUME NEW C, NEW W, NEW K, NEW G, C \in Arrays(W, K, G), NEW t,
         NEW i, i \in K, C.face[i] = Null, NEW e, e = Fill(WithFace(C, t), i, t)
  PROVE  Promised!AddFace(C, e, t)
<1>1. DOMAIN C.next = K
  BY DEF Arrays
<1>2. e = Promised!Fill(Promised!WithFace(C, t), i, t)
  <2>1. PICK z : z = WithFace(C, t)
    OBVIOUS
  <2>2. Promised!WithFace(C, t) = z
    BY <2>1, SameFace
  <2>3. Promised!Fill(z, i, t) = Fill(z, i, t)
    BY SameFill
  <2>. QED BY <2>1, <2>2, <2>3
<1>. QED BY <1>1, <1>2 DEF Promised!AddFace, Promised!Null, Null

(* A face that is added is added in names, in the same hole. *)
LEMMA AddFaceView ==
  ASSUME NEW t \in Nat, NEW x, MeshOK(x, t), NEW i, i = NextNode(x, "faces"),
         NEW h, h \in DOMAIN x.conn.next, h \div 2 \in Live(x, "edges"),
         x.conn.face[h] = Null,
         NEW y, y = [Added(x, "faces", t) EXCEPT !.conn = Fill(@, h, i)]
  PROVE  Promised!AddFace(InNames(x), InNames(y), t)
<1>1. PICK X, E, Y : /\ Numbered(X) /\ Numbered(E) /\ Numbered(Y)
                     /\ IsMesh(x, X, E, Y, t)
  BY DEF MeshOK
<1>2. PICK D : D = HalvesOf(E)
  OBVIOUS
<1>3. PICK p, q, r, c, H : /\ p = x.vertices /\ q = x.edges /\ r = x.faces /\ c = x.conn
                           /\ H = HalvesOf(LiveOf(q))
  OBVIOUS
<1>4. /\ x \in MeshRecords(X, E, Y) /\ IsKind(p, "vertices", X, c.half, t)
      /\ IsKind(q, "edges", E, c.next, t) /\ IsKind(r, "faces", Y, c.fhalf, t)
  BY <1>1, <1>3 DEF IsMesh
<1>5. /\ c \in Arrays(X, D, Y)
      /\ p \in KindRecords(X) /\ q \in KindRecords(E) /\ r \in KindRecords(Y)
  BY <1>2, <1>3, <1>4, MeshFields
<1>6. PICK a, e, d : /\ a = AddedKind(x, "faces", i, i, t)
                     /\ e = WithFace(c, i) /\ d = Fill(e, h, i)
  OBVIOUS
<1>7. AddsTo(r, "faces", Y, c.fhalf, i, a, t) /\ Numbered(Grown(Y, i))
  <2>1. i = ElementAt("faces", i)
    BY DEF ElementAt
  <2>2. c.fhalf = Link(x, "faces") /\ r = x["faces"]
    BY <1>3 DEF Link, LinkOf
  <2>. QED BY <2>1, <2>2, <1>1, <1>4, <1>6, NextAdds
<1>8. PICK V, F, W, N, K, G, C : /\ V = LiveOf(p) /\ F = LiveOf(r) /\ W = NamesOf(p)
                                 /\ N = NamesOf(q) /\ K = HalvesOf(N) /\ G = NamesOf(r)
                                 /\ C = InNames(x)
  OBVIOUS
<1>9. PICK av, ah, af : av = p.name /\ ah = HalfNames(q) /\ af = r.name
  OBVIOUS
<1>10. Seen(C, c, V, H, F, av, ah, af, W, K, G) /\ IsNamed(r, Y, t)
  BY <1>1, <1>3, <1>8, <1>9, MeshSeen
<1>11. i \in Nat /\ i \notin F
  BY <1>4, <1>7, <1>8, AddsUnused
<1>12. a.name = Renamed(r.name, i, t) /\ LiveOf(a) = LiveOf(r) \cup {i}
  <2>1. a.name = Renamed(r.name, i, t)
    BY <1>7 DEF AddsTo, Recycled, Extended, Members
  <2>2. Same(c.fhalf, c.fhalf, NodesOf("faces", Without(GoneOf(r), i)))
    BY DEF Same
  <2>3. PICK J : J = Grown(Y, i)
    OBVIOUS
  <2>4. LiveOf(a) = LiveOf(r) \cup {i}
    BY <1>4, <1>7, <2>2, <2>3, KindAdded
  <2>. QED BY <2>1, <2>4
<1>13. NamesMore(a, r, i, t)
  BY <1>8, <1>10, <1>11, <1>12, NamesGrow
<1>14. PICK bf, Q : bf = a.name /\ Q = Grown(G, t)
  OBVIOUS
<1>15. bf[i] = t /\ Same(bf, af, F) /\ LiveOf(a) = F \cup {i} /\ NamesOf(a) = Q /\ t \notin G
  BY <1>8, <1>9, <1>13, <1>14 DEF NamesMore, Grown
<1>16. IsFiniteSet(D) /\ Integral(D) /\ Natural(E) /\ Inside(V, H, F, X, D, Y)
  <2>1. IsFiniteSet(D) /\ Integral(D) /\ Natural(E)
    BY <1>1, <1>2, NumberedIs, HalvesAre, HalvesFinite
  <2>2. V \subseteq X /\ LiveOf(q) \subseteq E /\ F \subseteq Y
    BY <1>5, <1>8, LiveAndGone
  <2>3. Inside(V, H, F, X, D, Y)
    BY <2>2, <1>2, <1>3, HalvesWithin DEF Inside
  <2>. QED BY <2>1, <2>3
<1>17. h \in H /\ c.face[h] = Null
  BY <1>3, <1>4, <1>16, HalfOfEdge
<1>18. PICK k : k = ah[h]
  OBVIOUS
<1>19. PICK Z : Z = Fill(WithFace(C, t), k, t)
  OBVIOUS
<1>20. /\ k \in K /\ C.face[k] = Null
       /\ Z \in Arrays(W, K, Q) /\ Alike(Z, d, V, H, F \cup {i}, av, ah, bf)
  BY <1>5, <1>6, <1>10, <1>11, <1>14, <1>15, <1>16, <1>17, <1>18, <1>19, FaceView
<1>21. y.vertices = p /\ y.edges = q /\ y.faces = a /\ y.conn = d
  <2>1. PICK z : z = Added(x, "faces", t)
    OBVIOUS
  <2>2. z = MeshOf(p, q, a, x.garbage, x.recycle, e)
    <3>1. e = WithElement(x.conn, "faces", i) /\ i = ElementAt("faces", i)
      BY <1>3, <1>6 DEF WithElement, ElementAt
    <3>2. z = MeshOf(x.vertices, x.edges, a, x.garbage, x.recycle, e)
      BY <3>1, <2>1, <1>4, <1>6, AddedIs DEF Kinds
    <3>. QED BY <3>2, <1>3
  <2>3. y = [z EXCEPT !.conn = d]
    BY <2>1, <2>2, <1>6 DEF MeshOf
  <2>. QED BY <2>2, <2>3 DEF MeshOf
<1>22. View(Z, d, p, q, a)
  BY <1>3, <1>8, <1>9, <1>14, <1>15, <1>20 DEF View
<1>23. MeshOK(y, t + 1) /\ Views(Z, y)
  BY <1>21, <1>22, AddFaceStep DEF Views
<1>24. Z = InNames(y)
  BY <1>23, ViewUnique
<1>25. Promised!AddFace(C, Z, t)
  BY <1>10, <1>19, <1>20, PromisedFace DEF Seen
<1>. QED BY <1>8, <1>24, <1>25

-----------------------------------------------------------------------------
(***************************************************************************)
(* Removing a vertex, a face and an edge, in names.                        *)
(***************************************************************************)

(* One element less. *)
NamesLess(b, q, i) ==
  b.name = q.name /\ LiveOf(b) = Without(LiveOf(q), i)

(* The name of a removed element is not used any more. *)
LEMMA NamesShrink ==
  ASSUME NEW q, NEW I, NEW t, IsNamed(q, I, t), NEW i \in LiveOf(q), NEW b, NamesLess(b, q, i),
         NEW n, n = q.name[i]
  PROVE  n \in NamesOf(q) /\ NamesOf(b) = Without(NamesOf(q), n)
<1>1. Matches(q.name, LiveOf(q), NamesOf(q))
  BY NamesMatch
<1>2. NamesOf(b) = {q.name[j] : j \in Without(LiveOf(q), i)}
  BY DEF NamesOf, NamesLess
<1>3. NamesOf(q) = {q.name[j] : j \in LiveOf(q)}
  BY DEF NamesOf
<1>4. \A j \in LiveOf(q) : q.name[j] = n => j = i
  BY <1>1 DEF Matches, OneToOne
<1>. QED BY <1>2, <1>3, <1>4 DEF Without

(* Names of other elements do not matter. *)
LEMMA AlikeSame ==
  ASSUME NEW c, NEW V, NEW H, NEW F, Sound(c, V, H, F), NEW av, NEW ah, NEW af,
         NEW d, Alike(d, c, V, H, F, av, ah, af), NEW bv, NEW bh, NEW bf,
         Same(bv, av, V), Same(bh, ah, H), Same(bf, af, F)
  PROVE  Alike(d, c, V, H, F, bv, bh, bf)
<1>1. /\ \A v \in V : c.half[v] = Null \/ c.half[v] \in H
      /\ \A h \in H : /\ c.target[h] \in V /\ c.next[h] \in H /\ c.prev[h] \in H
                      /\ c.face[h] = Null \/ c.face[h] \in F
      /\ \A f \in F : c.fhalf[f] \in H
  BY DEF Sound, IsValid
<1>2. (\A v \in V : bv[v] = av[v]) /\ (\A h \in H : bh[h] = ah[h]) /\ (\A f \in F : bf[f] = af[f])
  BY DEF Same
<1>3. \A v \in V : d.half[bv[v]] = Across(bh, c.half[v])
  BY <1>1, <1>2 DEF Alike, Across
<1>4. \A h \in H : /\ d.target[bh[h]] = bv[c.target[h]]
                   /\ d.next[bh[h]] = bh[c.next[h]]
                   /\ d.prev[bh[h]] = bh[c.prev[h]]
  BY <1>1, <1>2 DEF Alike
<1>5. \A h \in H : d.face[bh[h]] = Across(bf, c.face[h])
  BY <1>1, <1>2 DEF Alike, Across
<1>6. \A f \in F : d.fhalf[bf[f]] = bh[c.fhalf[f]]
  BY <1>1, <1>2 DEF Alike
<1>. QED BY <1>3, <1>4, <1>5, <1>6 DEF Alike

(* A vertex without an edge is taken out in indices as it is in names. *)
LEMMA NoVertexView ==
  ASSUME NEW C, NEW c, NEW V, NEW H, NEW F, NEW av, NEW ah, NEW af, NEW W, NEW K, NEW G,
         Seen(C, c, V, H, F, av, ah, af, W, K, G),
         NEW i \in V, c.half[i] = Null, NEW n, n = av[i], NEW U, U = Without(V, i),
         NEW d, Agree(d, c, U, H, F),
         NEW e, e = [C EXCEPT !.half = Promised!Without(@, {n})]
  PROVE  /\ Promised!RemoveVertex(C, e)
         /\ e \in Arrays(Without(W, n), K, G) /\ Alike(e, d, U, H, F, av, ah, af)
<1>1. /\ Matches(av, V, W) /\ C \in Arrays(W, K, G) /\ Alike(C, c, V, H, F, av, ah, af)
  BY DEF Seen
<1>2. n \in W /\ C.half[n] = Null
  BY <1>1 DEF Matches, OneToOne, Alike, Across
<1>3. Promised!RemoveVertex(C, e)
  BY <1>1, <1>2 DEF Promised!RemoveVertex, Promised!Null, Null, Arrays
<1>4. PICK f : f = [x \in W \ {n} |-> C.half[x]]
  OBVIOUS
<1>5. DOMAIN C.half = W /\ C.half \in [W -> Int]
  BY <1>1 DEF Arrays
<1>6. Promised!Without(C.half, {n}) = f
  BY <1>4, <1>5 DEF Promised!Without
<1>7. e = [C EXCEPT !.half = f]
  BY <1>1, <1>6 DEF Arrays
<1>8. f \in [Without(W, n) -> Int]
  BY <1>4, <1>5 DEF Without
<1>9. e \in Arrays(Without(W, n), K, G)
  BY <1>1, <1>7, <1>8 DEF Arrays
<1>10. /\ e.half = f /\ e.target = C.target /\ e.next = C.next /\ e.prev = C.prev
       /\ e.face = C.face /\ e.fhalf = C.fhalf
  BY <1>1, <1>7 DEF Arrays
<1>11. \A v \in U : v \in V /\ av[v] \in W /\ av[v] # n
  BY <1>1 DEF Without, Matches, OneToOne
<1>12. \A v \in U : e.half[av[v]] = C.half[av[v]]
  BY <1>4, <1>10, <1>11
<1>13. Alike(e, d, U, H, F, av, ah, af)
  BY <1>1, <1>10, <1>11, <1>12 DEF Alike, Agree
<1>. QED BY <1>3, <1>9, <1>13

(* What MeshGraph leaves of the connectivity c without the face n. *)
FaceCut(c, n) ==
  [Promised!SetFace(c, c.fhalf[n], Null) EXCEPT !.fhalf = Promised!Without(@, {n})]

(* d is b, as far as the faces U are concerned. *)
ButFaces(d, b, U) ==
  /\ d.half = b.half /\ d.target = b.target /\ d.next = b.next /\ d.prev = b.prev
  /\ d.face = b.face /\ Same(d.fhalf, b.fhalf, U)

(* A face is taken out in indices as it is in names. *)
LEMMA NoFaceView ==
  ASSUME NEW C, NEW c, NEW V, NEW H, NEW F, NEW av, NEW ah, NEW af, NEW W, NEW K, NEW G,
         Seen(C, c, V, H, F, av, ah, af, W, K, G),
         NEW X, NEW D, NEW Y, c \in Arrays(X, D, Y), IsFiniteSet(D), Inside(V, H, F, X, D, Y),
         NEW f \in F, NEW n, n = af[f], NEW U, U = Without(F, f),
         NEW b, b = SetFace(c, c.fhalf[f], Null), NEW d, ButFaces(d, b, U),
         NEW e, e = FaceCut(C, n)
  PROVE  /\ Promised!RemoveFace(C, e)
         /\ e \in Arrays(W, K, Without(G, n)) /\ Alike(e, d, V, H, U, av, ah, af)
<1> USE DEF FaceCut, ButFaces
<1>1. /\ Sound(c, V, H, F) /\ Sound(C, W, K, G) /\ Matches(ah, H, K)
      /\ Matches(af, F, G) /\ Natural(K) /\ IsFiniteSet(K)
      /\ C \in Arrays(W, K, G) /\ Alike(C, c, V, H, F, av, ah, af)
  BY DEF Seen
<1>2. n \in G
  BY <1>1 DEF Matches, OneToOne
<1>3. Promised!RemoveFace(C, e)
  BY <1>1, <1>2 DEF Promised!RemoveFace, Promised!Null, Null, Arrays
<1>4. PICK h, i : h = c.fhalf[f] /\ i = C.fhalf[n]
  OBVIOUS
<1>5. h \in H /\ i = ah[h] /\ i \in K
  <2>1. h \in H
    BY <1>1, <1>4 DEF Sound, IsValid
  <2>. QED BY <2>1, <1>1, <1>4 DEF Alike, Matches, OneToOne
<1>6. PICK A : IsCycle(A, c, H, h) /\ Opened(b, c, H, F, A)
  BY <1>1, <1>4, <1>5, OpenedIs
<1>7. PICK z : z = SetFace(C, i, Null)
  OBVIOUS
<1>8. Inside(W, K, G, W, K, G)
  BY DEF Inside
<1>9. /\ z \in Arrays(W, K, G) /\ z.fhalf = C.fhalf
      /\ \E B : IsCycle(B, C, K, i) /\ Opened(z, C, K, G, B)
  BY <1>1, <1>5, <1>7, <1>8, OpenedIs
<1>10. PICK B : IsCycle(B, C, K, i) /\ Opened(z, C, K, G, B)
  BY <1>9
<1>11. e = [z EXCEPT !.fhalf = Promised!Without(@, {n})]
  BY <1>4, <1>7, SameSetFace
<1>12. PICK g : g = [x \in G \ {n} |-> z.fhalf[x]]
  OBVIOUS
<1>13. DOMAIN z.fhalf = G /\ z.fhalf \in [G -> Int]
  BY <1>9 DEF Arrays
<1>14. Promised!Without(z.fhalf, {n}) = g
  BY <1>12, <1>13 DEF Promised!Without
<1>15. e = [z EXCEPT !.fhalf = g]
  BY <1>9, <1>11, <1>14 DEF Arrays
<1>16. g \in [Without(G, n) -> Int]
  BY <1>12, <1>13 DEF Without
<1>17. e \in Arrays(W, K, Without(G, n))
  BY <1>9, <1>15, <1>16 DEF Arrays
<1>18. /\ e.half = z.half /\ e.target = z.target /\ e.next = z.next /\ e.prev = z.prev
       /\ e.face = z.face /\ e.fhalf = g
  BY <1>9, <1>15 DEF Arrays
<1>19. Opened(d, c, H, U, A)
  BY <1>6 DEF Opened, Same, Without
<1>20. Opened(e, C, K, Without(G, n), B)
  BY <1>9, <1>10, <1>12, <1>18 DEF Opened, Without
<1>21. IsCycle(B, C, K, ah[h]) /\ Opened(e, C, K, Without(G, af[f]), B)
  BY <1>5, <1>10, <1>20
<1>22. Alike(e, d, V, H, U, av, ah, af)
  BY <1>1, <1>5, <1>6, <1>19, <1>21, OpenedAlike
<1>. QED BY <1>3, <1>17, <1>22

(* A vertex that is removed is removed in names, although its place is     *)
(* only marked.                                                            *)
LEMMA RemoveVertexView ==
  ASSUME NEW t \in Nat, NEW x, MeshOK(x, t),
         NEW i, i \in Live(x, "vertices"), x.conn.half[i] = Null,
         NEW y, y = Removed(x, "vertices", i)
  PROVE  Promised!RemoveVertex(InNames(x), InNames(y))
<1>1. PICK X, E, Y : /\ Numbered(X) /\ Numbered(E) /\ Numbered(Y)
                     /\ IsMesh(x, X, E, Y, t)
  BY DEF MeshOK
<1>2. PICK D : D = HalvesOf(E)
  OBVIOUS
<1>3. PICK p, q, r, c, H : /\ p = x.vertices /\ q = x.edges /\ r = x.faces /\ c = x.conn
                           /\ H = HalvesOf(LiveOf(q))
  OBVIOUS
<1>4. /\ x \in MeshRecords(X, E, Y) /\ IsKind(p, "vertices", X, c.half, t)
  BY <1>1, <1>3 DEF IsMesh
<1>5. /\ c \in Arrays(X, D, Y) /\ p \in KindRecords(X)
  BY <1>2, <1>3, <1>4, MeshFields
<1>6. PICK a, d : /\ a = RemovedKind(p, "vertices", i)
                  /\ d = WithLink(c, "half", i, p.free)
  OBVIOUS
<1>7. i \in LiveOf(p) /\ c.half[i] = Null
  BY <1>3 DEF Live, LiveOf
<1>8. LiveOf(p) \subseteq X /\ GoneOf(p) \subseteq X /\ LiveOf(p) \cap GoneOf(p) = {}
  BY <1>5, LiveAndGone
<1>9. /\ d \in Arrays(X, D, Y) /\ d.half[i] = p.free
      /\ \A w \in X : w # i => d.half[w] = c.half[w]
      /\ d.target = c.target /\ d.next = c.next /\ d.prev = c.prev /\ d.face = c.face
      /\ d.fhalf = c.fhalf
  <2>1. p.free \in Int /\ i \in X
    BY <1>5, <1>7, <1>8 DEF KindRecords
  <2>. QED BY <2>1, <1>5, <1>6 DEF Arrays, WithLink
<1>10. PICK V, F, W, N, K, G, C : /\ V = LiveOf(p) /\ F = LiveOf(r) /\ W = NamesOf(p)
                                  /\ N = NamesOf(q) /\ K = HalvesOf(N) /\ G = NamesOf(r)
                                  /\ C = InNames(x)
  OBVIOUS
<1>11. PICK av, ah, af : av = p.name /\ ah = HalfNames(q) /\ af = r.name
  OBVIOUS
<1>12. Seen(C, c, V, H, F, av, ah, af, W, K, G) /\ IsNamed(p, X, t)
  BY <1>1, <1>3, <1>10, <1>11, MeshSeen
<1>13. PICK n, U, Z : /\ n = av[i] /\ U = Without(V, i)
                      /\ Z = [C EXCEPT !.half = Promised!Without(@, {n})]
  OBVIOUS
<1>14. Agree(d, c, U, H, F)
  BY <1>8, <1>9, <1>10, <1>13 DEF Agree, Without
<1>15. /\ Promised!RemoveVertex(C, Z)
       /\ Z \in Arrays(Without(W, n), K, G) /\ Alike(Z, d, U, H, F, av, ah, af)
  BY <1>7, <1>10, <1>12, <1>13, <1>14, NoVertexView
<1>16. NamesLess(a, p, i)
  <2>1. Same(c.half, c.half, NodesOf("vertices", GoneOf(p)))
    BY DEF Same
  <2>2. a.removed = [p.removed EXCEPT ![i] = TRUE] /\ a.name = p.name
    BY <1>6 DEF RemovedKind, Members
  <2>3. LiveOf(a) = Without(LiveOf(p), i)
    <3>1. p.removed \in [X -> BOOLEAN] /\ i \in X
      BY <1>5, <1>7, <1>8 DEF KindRecords
    <3>. QED BY <2>2, <3>1 DEF LiveOf, Without
  <2>. QED BY <2>2, <2>3 DEF NamesLess
<1>17. NamesOf(a) = Without(W, n)
  BY <1>7, <1>10, <1>11, <1>12, <1>13, <1>16, NamesShrink
<1>18. y.vertices = a /\ y.edges = q /\ y.faces = r /\ y.conn = d
  BY <1>3, <1>4, <1>6, RemovedVertexIs DEF MeshOf
<1>19. View(Z, d, a, q, r)
  BY <1>3, <1>10, <1>11, <1>13, <1>15, <1>16, <1>17 DEF View, NamesLess
<1>20. MeshOK(y, t) /\ Views(Z, y)
  BY <1>18, <1>19, RemoveVertexStep DEF Views
<1>21. Z = InNames(y)
  BY <1>20, ViewUnique
<1>. QED BY <1>10, <1>15, <1>21

(* A face that is removed is removed in names, although its place is only  *)
(* marked.                                                                 *)
LEMMA RemoveFaceView ==
  ASSUME NEW t \in Nat, NEW x, MeshOK(x, t), NEW f, f \in Live(x, "faces"),
         NEW y, y = Removed([x EXCEPT !.conn = SetFace(x.conn, x.conn.fhalf[f], Null)], "faces", f)
  PROVE  Promised!RemoveFace(InNames(x), InNames(y))
<1>1. PICK X, E, Y : /\ Numbered(X) /\ Numbered(E) /\ Numbered(Y)
                     /\ IsMesh(x, X, E, Y, t)
  BY DEF MeshOK
<1>2. PICK D : D = HalvesOf(E)
  OBVIOUS
<1>3. PICK p, q, r, c, H : /\ p = x.vertices /\ q = x.edges /\ r = x.faces /\ c = x.conn
                           /\ H = HalvesOf(LiveOf(q))
  OBVIOUS
<1>4. /\ x \in MeshRecords(X, E, Y) /\ Sound(c, LiveOf(p), H, LiveOf(r))
  BY <1>1, <1>3 DEF IsMesh
<1>5. /\ c \in Arrays(X, D, Y)
      /\ p \in KindRecords(X) /\ q \in KindRecords(E) /\ r \in KindRecords(Y)
  BY <1>2, <1>3, <1>4, MeshFields
<1>6. PICK a, b, z, d : /\ a = RemovedKind(r, "faces", f) /\ b = SetFace(c, c.fhalf[f], Null)
                        /\ z = [x EXCEPT !.conn = b] /\ d = WithLink(b, "fhalf", f, r.free)
  OBVIOUS
<1>7. f \in LiveOf(r)
  BY <1>3 DEF Live, LiveOf
<1>8. LiveOf(p) \subseteq X /\ LiveOf(q) \subseteq E /\ LiveOf(r) \subseteq Y
  BY <1>5, LiveAndGone
<1>9. IsFiniteSet(D) /\ Integral(D)
  <2>1. Natural(E)
    BY <1>1, NumberedIs
  <2>. QED BY <2>1, <1>1, <1>2, HalvesAre, HalvesFinite
<1>10. PICK V, F, W, N, K, G, C : /\ V = LiveOf(p) /\ F = LiveOf(r) /\ W = NamesOf(p)
                                  /\ N = NamesOf(q) /\ K = HalvesOf(N) /\ G = NamesOf(r)
                                  /\ C = InNames(x)
  OBVIOUS
<1>11. PICK av, ah, af : av = p.name /\ ah = HalfNames(q) /\ af = r.name
  OBVIOUS
<1>12. Seen(C, c, V, H, F, av, ah, af, W, K, G) /\ IsNamed(r, Y, t)
  BY <1>1, <1>3, <1>10, <1>11, MeshSeen
<1>13. Inside(V, H, F, X, D, Y)
  BY <1>2, <1>3, <1>8, <1>10, HalvesWithin DEF Inside
<1>14. b \in Arrays(X, D, Y)
  BY <1>4, <1>5, <1>6, <1>7, <1>9, <1>10, <1>13, ClearedSound
<1>15. /\ d.half = b.half /\ d.target = b.target /\ d.prev = b.prev /\ d.face = b.face
       /\ d.next = b.next /\ \A w \in Y : w # f => d.fhalf[w] = b.fhalf[w]
  BY <1>6, <1>14 DEF Arrays, WithLink
<1>16. PICK n, U, Z : /\ n = af[f] /\ U = Without(F, f)
                      /\ Z = FaceCut(C, n)
  OBVIOUS
<1>17. ButFaces(d, b, U)
  BY <1>8, <1>10, <1>15, <1>16 DEF Same, Without, ButFaces
<1>18. /\ Promised!RemoveFace(C, Z)
       /\ Z \in Arrays(W, K, Without(G, n)) /\ Alike(Z, d, V, H, U, av, ah, af)
  BY <1>5, <1>6, <1>7, <1>9, <1>10, <1>12, <1>13, <1>16, <1>17, NoFaceView
<1>19. NamesLess(a, r, f)
  <2>2. a.removed = [r.removed EXCEPT ![f] = TRUE] /\ a.name = r.name
    BY <1>6 DEF RemovedKind, Members
  <2>3. LiveOf(a) = Without(LiveOf(r), f)
    <3>1. r.removed \in [Y -> BOOLEAN] /\ f \in Y
      BY <1>5, <1>7, <1>8 DEF KindRecords
    <3>. QED BY <2>2, <3>1 DEF LiveOf, Without
  <2>. QED BY <2>2, <2>3 DEF NamesLess
<1>20. NamesOf(a) = Without(G, n)
  BY <1>7, <1>10, <1>11, <1>12, <1>16, <1>19, NamesShrink
<1>21. y.vertices = p /\ y.edges = q /\ y.faces = a /\ y.conn = d
  <2>1. x = MeshOf(p, q, r, x.garbage, x.recycle, c)
    BY <1>3, <1>4, MeshFields
  <2>2. z = MeshOf(p, q, r, x.garbage, x.recycle, b)
    BY <2>1, <1>6 DEF MeshOf
  <2>3. z \in MeshRecords(X, E, Y)
    <3>1. x.garbage \in BOOLEAN /\ x.recycle \in BOOLEAN
      BY <1>4, MeshFields
    <3>. QED BY <3>1, <2>2, <1>2, <1>5, <1>14 DEF MeshOf, MeshRecords
  <2>4. z.vertices = p /\ z.edges = q /\ z.faces = r /\ z.conn = b
    BY <2>2 DEF MeshOf
  <2>5. y = Removed(z, "faces", f)
    BY <1>3, <1>6
  <2>6. PICK l : l = z.faces.free
    OBVIOUS
  <2>7. d = WithLink(z.conn, "fhalf", f, l) /\ a = RemovedKind(z.faces, "faces", f)
    BY <2>4, <2>6, <1>6
  <2>8. y = MeshOf(z.vertices, z.edges, a, y.garbage, z.recycle, d)
    BY <2>3, <2>5, <2>6, <2>7, RemovedFaceIs
  <2>. QED BY <2>4, <2>8 DEF MeshOf
<1>22. View(Z, d, p, q, a)
  BY <1>3, <1>10, <1>11, <1>16, <1>18, <1>19, <1>20 DEF View, NamesLess
<1>23. MeshOK(y, t) /\ Views(Z, y)
  BY <1>21, <1>22, RemoveFaceStep DEF Views
<1>24. Z = InNames(y)
  BY <1>23, ViewUnique
<1>. QED BY <1>10, <1>18, <1>24

(* What is left of the connectivity b without the halfedges S. *)
EdgeCut(b, S) ==
  [b EXCEPT !.target = Promised!Without(@, S), !.next = Promised!Without(@, S),
            !.prev = Promised!Without(@, S), !.face = Promised!Without(@, S)]

(* The other elements keep what is stored for them. *)
LEMMA EdgeCutIs ==
  ASSUME NEW W, NEW K, NEW G, NEW b \in Arrays(W, K, G), NEW i, NEW j,
         NEW M, M = WithoutPair(K, i, j), NEW e, e = EdgeCut(b, {i, j})
  PROVE  e \in Arrays(W, M, G) /\ Agree(e, b, W, M, G)
<1>1. PICK S : S = {i, j}
  OBVIOUS
<1>2. M = K \ S
  BY <1>1 DEF WithoutPair
<1>3. ASSUME NEW f \in [K -> Int]
      PROVE  Promised!Without(f, S) \in [M -> Int] /\ \A x \in M : Promised!Without(f, S)[x] = f[x]
  BY <1>2 DEF Promised!Without
<1>4. PICK ta, na, pa, fa : /\ ta = Promised!Without(b.target, S) /\ na = Promised!Without(b.next, S)
                            /\ pa = Promised!Without(b.prev, S) /\ fa = Promised!Without(b.face, S)
  OBVIOUS
<1>5. /\ b.target \in [K -> Int] /\ b.next \in [K -> Int] /\ b.prev \in [K -> Int]
      /\ b.face \in [K -> Int]
  BY DEF Arrays
<1>6. /\ ta \in [M -> Int] /\ \A x \in M : ta[x] = b.target[x]
      /\ na \in [M -> Int] /\ \A x \in M : na[x] = b.next[x]
      /\ pa \in [M -> Int] /\ \A x \in M : pa[x] = b.prev[x]
      /\ fa \in [M -> Int] /\ \A x \in M : fa[x] = b.face[x]
  BY <1>3, <1>4, <1>5
<1>7. e = [b EXCEPT !.target = ta, !.next = na, !.prev = pa, !.face = fa]
  BY <1>1, <1>4 DEF EdgeCut, Arrays
<1>8. e \in Arrays(W, M, G)
  BY <1>6, <1>7 DEF Arrays
<1>9. e.half = b.half /\ e.target = ta /\ e.next = na /\ e.prev = pa /\ e.face = fa /\ e.fhalf = b.fhalf
  BY <1>7 DEF Arrays
<1>. QED BY <1>6, <1>8, <1>9 DEF Agree

(* An edge is taken out in indices as it is in names. *)
LEMMA NoEdgeView ==
  ASSUME NEW C, NEW c, NEW V, NEW H, NEW F, NEW av, NEW ah, NEW af, NEW W, NEW K, NEW G,
         Seen(C, c, V, H, F, av, ah, af, W, K, G),
         NEW X, NEW D, NEW Y, c \in Arrays(X, D, Y), Integral(X), Integral(D),
         Inside(V, H, F, X, D, Y), NEW h \in H, NEW o \in H, IsEdge(h, o),
         c.face[h] = Null, c.face[o] = Null,
         NEW i, NEW j, IsEdge(i, j), i = ah[h], j = ah[o], NEW L, L = WithoutPair(H, h, o),
         NEW b, b = Disconnect(c, h), NEW d, Agree(d, b, V, L, F),
         NEW e, e = EdgeCut(Promised!Disconnect(C, i), {i, j})
  PROVE  /\ Promised!RemoveEdge(C, e)
         /\ e \in Arrays(W, WithoutPair(K, i, j), G) /\ Alike(e, d, V, L, F, av, ah, af)
<1>1. /\ Sound(c, V, H, F) /\ Sound(C, W, K, G) /\ Matches(av, V, W) /\ Matches(ah, H, K)
      /\ Matches(af, F, G) /\ Natural(W) /\ Natural(K) /\ Null \notin K
      /\ C \in Arrays(W, K, G) /\ Alike(C, c, V, H, F, av, ah, af)
  BY DEF Seen
<1>2. i \in K /\ j \in K
  BY <1>1 DEF Matches, OneToOne
<1>3. C.face[i] = Null /\ C.face[j] = Null
  BY <1>1 DEF Alike, Across
<1>4. h # o /\ o = Opposite(h) /\ j = Opposite(i)
  BY DEF IsEdge
<1>5. Promised!RemoveEdge(C, e)
  <2>1. {i, j} = {i, Promised!Opposite(i)}
    BY <1>4, SameOpposite
  <2>2. DOMAIN C.next = K
    BY <1>1 DEF Arrays
  <2>3. \A x \in {i, Promised!Opposite(i)} : C.face[x] = Promised!Null
    BY <1>3, <2>1 DEF Promised!Null, Null
  <2>4. e = EdgeCut(Promised!Disconnect(C, i), {i, Promised!Opposite(i)})
    BY <2>1
  <2>. QED BY <1>2, <2>2, <2>3, <2>4 DEF Promised!RemoveEdge, EdgeCut
<1>6. PICK B : B = Disconnect(C, i)
  OBVIOUS
<1>7. Integral(W) /\ Integral(K) /\ Inside(W, K, G, W, K, G)
  BY <1>1 DEF Integral, Natural, Inside
<1>8. B \in Arrays(W, K, G) /\ Severed(B, C, W, K, G, i, j)
  BY <1>1, <1>2, <1>6, <1>7, RemovedEdgeUnwired
<1>9. PICK M : M = WithoutPair(K, i, j)
  OBVIOUS
<1>10. e \in Arrays(W, M, G) /\ Agree(e, B, W, M, G)
  <2>1. e = EdgeCut(B, {i, j})
    BY <1>6, SameDisconnect
  <2>. QED BY <2>1, <1>8, <1>9, EdgeCutIs
<1>11. Severed(e, C, W, K, G, i, j)
  <2>1. Agree(e, B, W, WithoutPair(K, i, j), G)
    BY <1>9, <1>10
  <2>. QED BY <2>1, <1>1, <1>2, <1>8, ApartElsewhere
<1>12. Severed(d, c, V, H, F, h, o)
  <2>1. Severed(b, c, V, H, F, h, o)
    BY <1>1, RemovedEdgeUnwired
  <2>2. Agree(d, b, V, WithoutPair(H, h, o), F)
    OBVIOUS
  <2>. QED BY <2>1, <2>2, <1>1, ApartElsewhere
<1>13. PICK p, q, n, m : p = c.prev[h] /\ q = c.prev[o] /\ n = c.next[h] /\ m = c.next[o]
  OBVIOUS
<1>14. C.prev[i] = ah[p] /\ C.prev[j] = ah[q] /\ C.next[i] = ah[n] /\ C.next[j] = ah[m]
  BY <1>1, <1>13 DEF Alike
<1>15. Unwired(d, c, V, L, F, h, o, p, q, n, m)
  BY <1>12, <1>13 DEF Severed
<1>16. Unwired(e, C, W, M, G, ah[h], ah[o], ah[p], ah[q], ah[n], ah[m])
  BY <1>9, <1>11, <1>14 DEF Severed
<1>17. M = WithoutPair(K, ah[h], ah[o])
  BY <1>9
<1>18. Alike(e, d, V, L, F, av, ah, af)
  BY <1>1, <1>4, <1>13, <1>15, <1>16, <1>17, UnwiredAlike
<1>. QED BY <1>5, <1>9, <1>10, <1>18

(* The names of its halfedges are not used any more. *)
LEMMA HalfNamesShrink ==
  ASSUME NEW q, NEW I, NEW t, IsNamed(q, I, t), NEW e \in LiveOf(q), NEW b, NamesLess(b, q, e),
         NEW h, h = 2 * e, NEW o, o = 2 * e + 1,
         NEW i, i = HalfNames(q)[h], NEW j, j = HalfNames(q)[o]
  PROVE  /\ IsEdge(i, j) /\ HalvesOf(LiveOf(b)) = WithoutPair(HalvesOf(LiveOf(q)), h, o)
         /\ HalvesOf(NamesOf(b)) = WithoutPair(HalvesOf(NamesOf(q)), i, j)
         /\ Same(HalfNames(b), HalfNames(q), HalvesOf(LiveOf(b)))
<1>1. PICK n, L, W : n = q.name[e] /\ L = LiveOf(q) /\ W = NamesOf(q)
  OBVIOUS
<1>2. Natural(L) /\ Natural(W) /\ n \in W /\ NamesOf(b) = W \ {n} /\ LiveOf(b) = L \ {e} /\ e \in L
  BY <1>1, NamesMatch, NamesShrink DEF Without, NamesLess
<1>3. e \in Nat /\ n \in Nat
  BY <1>2 DEF Natural
<1>4. i = 2 * n /\ j = 2 * n + 1
  <2>1. h \in HalvesOf(L) /\ o \in HalvesOf(L)
    BY <1>2, <1>3, HalfIn
  <2>2. h \div 2 = e /\ o \div 2 = e /\ h % 2 = 0 /\ o % 2 = 1
    BY <1>3
  <2>3. i = 2 * n + 0 /\ j = 2 * n + 1
    BY <2>1, <2>2, <1>1 DEF HalfNames
  <2>. QED BY <2>3, <1>3
<1>5. IsEdge(i, j)
  BY <1>3, <1>4, EdgeHalves
<1>6. HalvesOf(L \ {e}) = HalvesOf(L) \ {h, o} /\ HalvesOf(W \ {n}) = HalvesOf(W) \ {i, j}
  BY <1>2, <1>4, HalvesShrink
<1>7. \A x \in HalvesOf(LiveOf(b)) : HalfNames(b)[x] = HalfNames(q)[x]
  <2>1. \A x \in HalvesOf(LiveOf(b)) : x \in HalvesOf(L)
    BY <1>2, <1>6
  <2>2. \A x \in HalvesOf(LiveOf(b)) : HalfNames(b)[x] = 2 * b.name[x \div 2] + (x % 2)
    BY DEF HalfNames
  <2>3. \A x \in HalvesOf(L) : HalfNames(q)[x] = 2 * q.name[x \div 2] + (x % 2)
    BY <1>1 DEF HalfNames
  <2>. QED BY <2>1, <2>2, <2>3 DEF NamesLess
<1>. QED BY <1>1, <1>2, <1>5, <1>6, <1>7 DEF WithoutPair, Same

(* An edge that is removed is removed in names, although its place is only *)
(* marked and links its free list.                                         *)
LEMMA RemoveEdgeView ==
  ASSUME NEW t \in Nat, NEW x, MeshOK(x, t), NEW e, e \in Live(x, "edges"),
         NEW h, h = 2 * e, NEW o, o = 2 * e + 1, x.conn.face[h] = Null, x.conn.face[o] = Null,
         NEW y, y = Removed([x EXCEPT !.conn = Disconnect(@, h)], "edges", e)
  PROVE  Promised!RemoveEdge(InNames(x), InNames(y))
<1>1. PICK X, E, Y : /\ Numbered(X) /\ Numbered(E) /\ Numbered(Y)
                     /\ IsMesh(x, X, E, Y, t)
  BY DEF MeshOK
<1>2. PICK D : D = HalvesOf(E)
  OBVIOUS
<1>3. PICK p, q, r, c, H : /\ p = x.vertices /\ q = x.edges /\ r = x.faces /\ c = x.conn
                           /\ H = HalvesOf(LiveOf(q))
  OBVIOUS
<1>4. /\ x \in MeshRecords(X, E, Y) /\ Sound(c, LiveOf(p), H, LiveOf(r))
  BY <1>1, <1>3 DEF IsMesh
<1>5. /\ c \in Arrays(X, D, Y) /\ x.garbage \in BOOLEAN /\ x.recycle \in BOOLEAN
      /\ p \in KindRecords(X) /\ q \in KindRecords(E) /\ r \in KindRecords(Y)
  BY <1>2, <1>3, <1>4, MeshFields
<1>6. PICK a, b, z, d : /\ a = RemovedKind(q, "edges", e) /\ b = Disconnect(c, h)
                        /\ z = [x EXCEPT !.conn = b] /\ d = WithLink(b, "next", h, q.free)
  OBVIOUS
<1>7. e \in LiveOf(q)
  BY <1>3 DEF Live, LiveOf
<1>8. LiveOf(p) \subseteq X /\ LiveOf(q) \subseteq E /\ LiveOf(r) \subseteq Y
  BY <1>5, LiveAndGone
<1>9. Natural(E) /\ Natural(LiveOf(q)) /\ e \in Nat /\ Integral(X) /\ Integral(D)
  <2>1. Natural(E) /\ Natural(LiveOf(q)) /\ e \in Nat /\ Integral(X)
    BY <1>1, <1>7, <1>8, NumberedIs DEF Natural
  <2>. QED BY <2>1, <1>2, HalvesAre
<1>10. h \in H /\ o \in H /\ IsEdge(h, o) /\ h \in D
  <2>1. h \in H /\ o \in H
    BY <1>3, <1>7, <1>9, HalfIn
  <2>2. IsEdge(h, o)
    BY <1>9, EdgeHalves
  <2>3. h \in D
    BY <1>2, <1>7, <1>8, <1>9, HalfIn
  <2>. QED BY <2>1, <2>2, <2>3
<1>11. PICK V, F, W, N, K, G, C : /\ V = LiveOf(p) /\ F = LiveOf(r) /\ W = NamesOf(p)
                                  /\ N = NamesOf(q) /\ K = HalvesOf(N) /\ G = NamesOf(r)
                                  /\ C = InNames(x)
  OBVIOUS
<1>12. PICK av, ah, af : av = p.name /\ ah = HalfNames(q) /\ af = r.name
  OBVIOUS
<1>13. Seen(C, c, V, H, F, av, ah, af, W, K, G) /\ IsNamed(q, E, t)
  BY <1>1, <1>3, <1>11, <1>12, MeshSeen
<1>14. Inside(V, H, F, X, D, Y)
  BY <1>2, <1>3, <1>8, <1>11, HalvesWithin DEF Inside
<1>15. b \in Arrays(X, D, Y)
  <2>1. Sound(c, V, H, F)
    BY <1>4, <1>11
  <2>. QED BY <2>1, <1>5, <1>6, <1>9, <1>10, <1>14, RemovedEdgeUnwired
<1>16. PICK i, j, L, Z : /\ i = ah[h] /\ j = ah[o] /\ L = WithoutPair(H, h, o)
                         /\ Z = EdgeCut(Promised!Disconnect(C, i), {i, j})
  OBVIOUS
<1>17. NamesLess(a, q, e)
  <2>1. a.removed = [q.removed EXCEPT ![e] = TRUE] /\ a.name = q.name
    BY <1>6 DEF RemovedKind, Members
  <2>2. LiveOf(a) = Without(LiveOf(q), e)
    <3>1. q.removed \in [E -> BOOLEAN] /\ e \in E
      BY <1>5, <1>7, <1>8 DEF KindRecords
    <3>. QED BY <2>1, <3>1 DEF LiveOf, Without
  <2>. QED BY <2>1, <2>2 DEF NamesLess
<1>18. PICK bh : bh = HalfNames(a)
  OBVIOUS
<1>19. /\ IsEdge(i, j) /\ HalvesOf(LiveOf(a)) = L /\ HalvesOf(NamesOf(a)) = WithoutPair(K, i, j)
       /\ Same(bh, ah, L)
  <2>1. i = HalfNames(q)[h] /\ j = HalfNames(q)[o]
    BY <1>12, <1>16
  <2>2. /\ IsEdge(i, j) /\ HalvesOf(LiveOf(a)) = WithoutPair(HalvesOf(LiveOf(q)), h, o)
        /\ HalvesOf(NamesOf(a)) = WithoutPair(HalvesOf(NamesOf(q)), i, j)
        /\ Same(HalfNames(a), HalfNames(q), HalvesOf(LiveOf(a)))
    BY <2>1, <1>7, <1>13, <1>17, HalfNamesShrink
  <2>. QED BY <2>2, <1>3, <1>11, <1>12, <1>16, <1>18
<1>20. /\ d \in Arrays(X, D, Y) /\ d.half = b.half /\ d.target = b.target /\ d.prev = b.prev
       /\ d.face = b.face /\ d.fhalf = b.fhalf /\ \A w \in D : w # h => d.next[w] = b.next[w]
  <2>1. q.free \in Int
    BY <1>5 DEF KindRecords
  <2>. QED BY <2>1, <1>6, <1>10, <1>15 DEF Arrays, WithLink
<1>21. Agree(d, b, V, L, F)
  <2>1. \A w \in L : w \in D /\ w # h
    BY <1>14, <1>16 DEF Inside, WithoutPair
  <2>. QED BY <2>1, <1>20 DEF Agree
<1>22. /\ Promised!RemoveEdge(C, Z)
       /\ Z \in Arrays(W, WithoutPair(K, i, j), G) /\ Alike(Z, d, V, L, F, av, ah, af)
  <2>1. c.face[h] = Null /\ c.face[o] = Null
    BY <1>3
  <2>. QED BY <2>1, <1>5, <1>6, <1>9, <1>10, <1>13, <1>14, <1>16, <1>19, <1>21, NoEdgeView
<1>23. y.vertices = p /\ y.edges = a /\ y.faces = r /\ y.conn = d
  <2>1. x = MeshOf(p, q, r, x.garbage, x.recycle, c)
    BY <1>3, <1>4, MeshFields
  <2>2. z = MeshOf(p, q, r, x.garbage, x.recycle, b)
    BY <2>1, <1>6 DEF MeshOf
  <2>3. z \in MeshRecords(X, E, Y)
    BY <2>2, <1>2, <1>5, <1>15 DEF MeshOf, MeshRecords
  <2>4. z.vertices = p /\ z.edges = q /\ z.faces = r /\ z.conn = b
    BY <2>2 DEF MeshOf
  <2>5. y = Removed(z, "edges", e)
    <3>1. z = [x EXCEPT !.conn = Disconnect(@, h)]
      BY <2>1, <1>3, <1>6 DEF MeshOf
    <3>. QED BY <3>1
  <2>6. PICK l : l = z.edges.free
    OBVIOUS
  <2>7. d = WithLink(z.conn, "next", h, l) /\ a = RemovedKind(z.edges, "edges", e)
    BY <2>4, <2>6, <1>6
  <2>8. y = MeshOf(z.vertices, a, z.faces, y.garbage, z.recycle, d)
    BY <2>3, <2>5, <2>6, <2>7, RemovedEdgeIs
  <2>. QED BY <2>4, <2>8 DEF MeshOf
<1>24. Sound(d, V, L, F)
  <2>1. MeshOK(y, t)
    BY RemoveEdgeStep
  <2>2. PICK P, Q, R : IsMesh(y, P, Q, R, t)
    BY <2>1 DEF MeshOK
  <2>3. Sound(y.conn, LiveOf(y.vertices), HalvesOf(LiveOf(y.edges)), LiveOf(y.faces))
    BY <2>2 DEF IsMesh
  <2>. QED BY <2>3, <1>11, <1>19, <1>23
<1>25. Alike(Z, d, V, L, F, av, bh, af)
  <2>1. Same(av, av, V) /\ Same(af, af, F)
    BY DEF Same
  <2>. QED BY <2>1, <1>19, <1>22, <1>24, AlikeSame
<1>26. View(Z, d, p, a, r)
  BY <1>11, <1>12, <1>18, <1>19, <1>22, <1>25 DEF View
<1>27. MeshOK(y, t) /\ Views(Z, y)
  BY <1>23, <1>26, RemoveEdgeStep DEF Views
<1>28. Z = InNames(y)
  BY <1>27, ViewUnique
<1>. QED BY <1>11, <1>22, <1>28

-----------------------------------------------------------------------------
(***************************************************************************)
(* What is not seen in names.                                              *)
(***************************************************************************)

(* set_recycle_garbage changes no element. *)
LEMMA RecycleView ==
  ASSUME NEW t \in Nat, NEW x, MeshOK(x, t), NEW b \in BOOLEAN,
         NEW y, y = [x EXCEPT !.recycle = b]
  PROVE  InNames(y) = InNames(x)
<1>1. PICK V, E, F : IsMesh(x, V, E, F, t)
  BY DEF MeshOK
<1>2. PICK d : d = InNames(x)
  OBVIOUS
<1>3. Views(d, x)
  BY <1>1, <1>2, ViewIs
<1>4. y.vertices = x.vertices /\ y.edges = x.edges /\ y.faces = x.faces /\ y.conn = x.conn
  BY <1>1 DEF IsMesh, MeshRecords
<1>5. MeshOK(y, t) /\ Views(d, y)
  BY <1>3, <1>4, RecycleStep DEF Views
<1>. QED BY <1>2, <1>5, ViewUnique

(* A mesh that is cleared has no elements. *)
LEMMA ClearView == InNames(Cleared) = NoConnectivity
<1>1. PICK x, d, p : x = Cleared /\ d = NoConnectivity /\ p = Empty
  OBVIOUS
<1>2. x.vertices = p /\ x.edges = p /\ x.faces = p /\ x.conn = d
  BY <1>1 DEF Cleared
<1>3. LiveOf(p) = {}
  BY <1>1, EmptyKind
<1>4. NamesOf(p) = {} /\ HalvesOf({}) = {}
  BY <1>3 DEF NamesOf, HalvesOf
<1>5. d \in Arrays({}, {}, {})
  BY <1>1, NothingIs DEF NoConnectivity, Arrays
<1>6. Alike(d, d, {}, {}, {}, p.name, HalfNames(p), p.name)
  BY DEF Alike
<1>7. Views(d, x)
  BY <1>2, <1>3, <1>4, <1>5, <1>6 DEF Views, View
<1>8. MeshOK(x, 0)
  BY <1>1, ClearStep
<1>. QED BY <1>1, <1>7, <1>8, ViewUnique

(* The first mesh has its indices for names. *)
LEMMA FreshView ==
  ASSUME NEW c \in Firsts, NEW x, x = Fresh(c)
  PROVE  InNames(x) = c
<1>1. PICK a \in Nat, b \in Nat, l \in Nat : c \in Arrays(0 .. a - 1, 0 .. 2 * b - 1, 0 .. l - 1)
                            /\ IsValid(c, 0 .. a - 1, 0 .. 2 * b - 1, 0 .. l - 1)
  <2>1. PICK a \in 0 .. MaxSize["vertices"], b \in 0 .. MaxSize["edges"],
             l \in 0 .. MaxSize["faces"] :
               c \in Arrays(0 .. a - 1, 0 .. 2 * b - 1, 0 .. l - 1)
               /\ IsValid(c, 0 .. a - 1, 0 .. 2 * b - 1, 0 .. l - 1)
    BY FirstsAssumption
  <2>2. a \in Nat /\ b \in Nat /\ l \in Nat
    BY BoundAssumption DEF Kinds
  <2>. QED BY <2>1, <2>2
<1>2. PICK V, E, H, F : V = UpTo(a) /\ E = UpTo(b) /\ H = HalvesOf(E) /\ F = UpTo(l)
  OBVIOUS
<1>3. H = UpTo(2 * b) /\ 2 * b \in Nat
  BY <1>2, HalvesUpTo
<1>4. V = 0 .. a - 1 /\ H = 0 .. 2 * b - 1 /\ F = 0 .. l - 1
  BY <1>2, <1>3 DEF UpTo
<1>5. c \in Arrays(V, H, F) /\ IsValid(c, V, H, F)
  BY <1>1, <1>4
<1>6. DOMAIN c.half = V /\ DOMAIN c.next = H /\ DOMAIN c.fhalf = F
  BY <1>5 DEF Arrays
<1>7. E = {h \div 2 : h \in H}
  <2>1. ASSUME NEW e \in E PROVE e \in {h \div 2 : h \in H}
    <3>1. 2 * e \in H /\ (2 * e) \div 2 = e
      BY <1>2 DEF HalvesOf, UpTo
    <3>. QED BY <3>1
  <2>2. ASSUME NEW h \in H PROVE h \div 2 \in E
    BY <1>2, <1>4 DEF UpTo
  <2>. QED BY <2>1, <2>2
<1>8. PICK p, q, r : p = Unremoved(V) /\ q = Unremoved(E) /\ r = Unremoved(F)
  OBVIOUS
<1>9. x.vertices = p /\ x.edges = q /\ x.faces = r /\ x.conn = c
  BY <1>6, <1>7, <1>8, FreshIs DEF MeshOf
<1>10. /\ p.name = [i \in V |-> i] /\ p.removed = [i \in V |-> FALSE]
       /\ q.name = [i \in E |-> i] /\ q.removed = [i \in E |-> FALSE]
       /\ r.name = [i \in F |-> i] /\ r.removed = [i \in F |-> FALSE]
  BY <1>8 DEF Unremoved, Empty
<1>11. LiveOf(p) = V /\ LiveOf(q) = E /\ LiveOf(r) = F
  BY <1>10 DEF LiveOf
<1>12. NamesOf(p) = V /\ NamesOf(q) = E /\ NamesOf(r) = F
  BY <1>10, <1>11 DEF NamesOf
<1>13. PICK av, ah, af : av = p.name /\ ah = HalfNames(q) /\ af = r.name
  OBVIOUS
<1>14. Natural(E)
  BY <1>2 DEF UpTo, Natural
<1>15. \A h \in H : ah[h] = h
  <2>1. TAKE h \in H
  <2>2. ah[h] = 2 * q.name[h \div 2] + (h % 2)
    BY <1>2, <1>11, <1>13 DEF HalfNames
  <2>3. h \div 2 \in E /\ h = 2 * (h \div 2) + (h % 2)
    BY <1>2, <1>14, HalfIs
  <2>4. q.name[h \div 2] = h \div 2
    BY <2>3, <1>10
  <2>. QED BY <2>2, <2>3, <2>4
<1>16. (\A v \in V : av[v] = v) /\ (\A f \in F : af[f] = f)
  BY <1>10, <1>13
<1>17. /\ \A h \in H : /\ c.next[h] \in H /\ c.prev[h] \in H /\ c.target[h] \in V
                       /\ c.face[h] = Null \/ c.face[h] \in F
       /\ \A v \in V : c.half[v] = Null \/ c.half[v] \in H
       /\ \A f \in F : c.fhalf[f] \in H
  BY <1>5 DEF IsValid
<1>18. Alike(c, c, V, H, F, av, ah, af)
  BY <1>15, <1>16, <1>17 DEF Alike, Across
<1>19. Views(c, x)
  BY <1>2, <1>5, <1>9, <1>11, <1>12, <1>13, <1>18 DEF Views, View
<1>20. MeshOK(x, Size(c))
  BY FreshStep
<1>. QED BY <1>19, <1>20, ViewUnique

(* The live elements of q, moved by f to the places S of z. *)
Relocated(z, q, f, S) ==
  /\ LiveOf(z) = S /\ Swapping(f, S, LiveOf(q)) /\ Carried(z.name, q.name, f, S)
  /\ NamesOf(z) = NamesOf(q)

(* collect_garbage moves the elements of one kind together, with their     *)
(* names.                                                                  *)
LEMMA KindRelocated ==
  ASSUME NEW x, NEW k, NEW N \in Nat, NEW q, q = x[k], NEW link, NEW t,
         IsKind(q, k, UpTo(N), link, t), NEW n, n = Cardinality(Live(x, k)),
         NEW z, z = CollectedKind(x, k), NEW f, f = Swaps(x, k)
  PROVE  Relocated(z, q, f, UpTo(n)) /\ n \in Nat /\ n <= N
<1>1. PackedKind(x, z, k, n, N, t)
  BY KindCollected
<1>2. PICK S, L : S = UpTo(n) /\ L = LiveOf(q)
  OBVIOUS
<1>3. LiveOf(z) = S /\ Swapping(f, S, L) /\ n \in Nat /\ n <= N
  BY <1>1, <1>2 DEF PackedKind
<1>4. Packed(z, q, f, n)
  BY CollectedKindIs
<1>5. Carried(z.name, q.name, f, S)
  BY <1>2, <1>4 DEF Packed, Carried
<1>6. IsNamed(q, UpTo(N), t) /\ IsNamed(z, S, t)
  <2>1. IsKind(z, k, S, link, t)
    BY <1>1, <1>2 DEF PackedKind
  <2>2. Natural(S) /\ Natural(UpTo(N))
    BY <1>2, <1>3 DEF UpTo, Natural
  <2>. QED BY <2>1, <2>2 DEF IsKind, IsNamed
<1>7. Matches(q.name, L, NamesOf(q)) /\ Matches(z.name, S, NamesOf(z))
  BY <1>2, <1>3, <1>6, NamesMatch
<1>8. Matches(z.name, S, NamesOf(q))
  BY <1>3, <1>5, <1>7, CarriedMatches
<1>9. NamesOf(z) = NamesOf(q)
  BY <1>7, <1>8, MatchesOnly
<1>. QED BY <1>2, <1>3, <1>5, <1>9 DEF Relocated

(* The halfedges move with their edges. *)
LEMMA HalfNamesCarried ==
  ASSUME NEW z, NEW q, NEW f, NEW S, Relocated(z, q, f, S), Natural(S), Natural(LiveOf(q)),
         NEW D, Within(HalvesOf(S), D), NEW ah, OnHalves(ah, f, D)
  PROVE  Carried(HalfNames(z), HalfNames(q), ah, HalvesOf(S))
<1>1. PICK L : L = LiveOf(q)
  OBVIOUS
<1>2. LiveOf(z) = S /\ Natural(L) /\ \A i \in S : f[i] \in L /\ z.name[i] = q.name[f[i]]
  BY <1>1 DEF Relocated, Swapping, Carried
<1>3. ASSUME NEW h \in HalvesOf(S)
      PROVE  HalfNames(z)[h] = HalfNames(q)[ah[h]]
  <2>1. PICK i, b : i = h \div 2 /\ b = h % 2
    OBVIOUS
  <2>2. i \in S /\ b \in {0, 1}
    BY <2>1, HalfIs
  <2>3. PICK j : j = f[i] /\ j \in L
    BY <1>2, <2>2
  <2>4. HalfNames(z)[h] = 2 * z.name[i] + b
    BY <1>2, <2>1 DEF HalfNames
  <2>5. ah[h] = HalfAt(j, b)
    BY <2>1, <2>3 DEF Within, OnHalves, HalfAt
  <2>6. IsHalf(ah[h], L, j, b)
    BY <1>2, <2>2, <2>3, <2>5, HalfOf
  <2>7. HalfNames(q)[ah[h]] = 2 * q.name[j] + b
    BY <1>1, <2>6 DEF IsHalf, HalfNames
  <2>8. z.name[i] = q.name[j]
    BY <1>2, <2>2, <2>3
  <2>. QED BY <2>4, <2>7, <2>8
<1>. QED BY <1>3 DEF Carried

(* A mesh is the same in names after collect_garbage. *)
LEMMA CollectView ==
  ASSUME NEW t, NEW x, MeshOK(x, t), NEW y, y = Collected(x)
  PROVE  InNames(y) = InNames(x)
<1>1. CASE ~x.garbage
  BY <1>1 DEF Collected
<1>2. CASE x.garbage
  <2>1. PICK a, b, l : Sized(x, a, b, l, t)
    BY MeshSized
  <2>2. PICK n, e, m : /\ n = Cardinality(Live(x, "vertices"))
                       /\ e = Cardinality(Live(x, "edges"))
                       /\ m = Cardinality(Live(x, "faces"))
    OBVIOUS
  <2>3. PICK p, q, r, c : /\ p = x.vertices /\ q = x.edges /\ r = x.faces /\ c = x.conn
    OBVIOUS
  <2>4. PICK pp, qq, rr, d : /\ pp = y.vertices /\ qq = y.edges /\ rr = y.faces /\ d = y.conn
    OBVIOUS
  <2>5. /\ pp = CollectedKind(x, "vertices") /\ qq = CollectedKind(x, "edges")
        /\ rr = CollectedKind(x, "faces") /\ d = CollectedConnectivity(x)
    BY <1>2, <2>4 DEF Collected
  <2>6. PICK sv, se, sh, sf : /\ sv = Swaps(x, "vertices") /\ se = Swaps(x, "edges")
                              /\ sh = HalfedgeSwaps(x) /\ sf = Swaps(x, "faces")
    OBVIOUS
  <2>7. PICK S, M, L, G : S = UpTo(n) /\ M = UpTo(e) /\ L = HalvesOf(M) /\ G = UpTo(m)
    OBVIOUS
  <2>8. /\ a \in Nat /\ b \in Nat /\ l \in Nat /\ IsMesh(x, UpTo(a), UpTo(b), UpTo(l), t)
        /\ IsKind(p, "vertices", UpTo(a), c.half, t)
        /\ IsKind(q, "edges", UpTo(b), c.next, t)
        /\ IsKind(r, "faces", UpTo(l), c.fhalf, t)
    BY <2>1, <2>3 DEF Sized, IsMesh
  <2>9. /\ Relocated(pp, p, sv, S) /\ Relocated(qq, q, se, M) /\ Relocated(rr, r, sf, G)
        /\ n \in Nat /\ e \in Nat /\ m \in Nat /\ e <= b
    <3>1. PICK i, j, k : i = "vertices" /\ j = "edges" /\ k = "faces"
      OBVIOUS
    <3>2. p = x[i] /\ q = x[j] /\ r = x[k]
      BY <2>3, <3>1
    <3>3. Relocated(pp, p, sv, S) /\ n \in Nat
      BY <2>2, <2>5, <2>6, <2>7, <2>8, <3>1, <3>2, KindRelocated
    <3>4. Relocated(qq, q, se, M) /\ e \in Nat /\ e <= b
      BY <2>2, <2>5, <2>6, <2>7, <2>8, <3>1, <3>2, KindRelocated
    <3>5. Relocated(rr, r, sf, G) /\ m \in Nat
      BY <2>2, <2>5, <2>6, <2>7, <2>8, <3>1, <3>2, KindRelocated
    <3>. QED BY <3>3, <3>4, <3>5
  <2>10. PICK V, E, H, F : /\ V = LiveOf(p) /\ E = LiveOf(q) /\ H = HalvesOf(E) /\ F = LiveOf(r)
    OBVIOUS
  <2>11. PICK D : D = HalvesOf(UpTo(b))
    OBVIOUS
  <2>12. OnHalves(sh, se, D)
    <3>1. DOMAIN c.next = D
      BY <2>3, <2>8, <2>11 DEF IsMesh, MeshRecords, Arrays
    <3>. QED BY <2>3, <2>6, <3>1 DEF HalfedgeSwaps, OnHalves
  <2>13. Natural(M) /\ Natural(E) /\ Within(L, D) /\ Within(H, D)
    <3>1. E \subseteq UpTo(b)
      BY <2>1, <2>3, <2>10, LiveWithin
    <3>2. M \subseteq UpTo(b)
      BY <2>7, <2>8, <2>9 DEF UpTo
    <3>3. L \subseteq D /\ H \subseteq D
      BY <2>7, <2>10, <2>11, <3>1, <3>2, HalvesWithin
    <3>. QED BY <3>1, <3>2, <3>3, <2>8 DEF Natural, UpTo, Within
  <2>14. Swapping(sh, L, H)
    <3>1. Swapping(se, M, E)
      BY <2>9, <2>10 DEF Relocated
    <3>. QED BY <3>1, <2>7, <2>10, <2>12, <2>13, HalvesSwapping
  <2>15. Sound(d, S, L, G)
    BY <2>1, <2>2, <2>5, <2>7, CollectedConnSound
  <2>16. Repacked(d, c, sv, sh, sf, S, L, G)
    <3>1. PICK u : u = 2 * e
      OBVIOUS
    <3>2. d = Renumbered(c, sv, sh, sf, n, u, m)
      BY <2>2, <2>3, <2>5, <2>6, <3>1 DEF CollectedConnectivity
    <3>3. L = UpTo(u)
      BY <2>7, <2>9, <3>1, HalvesUpTo
    <3>. QED BY <2>7, <3>2, <3>3, RenumberedIs
  <2>17. PICK av, ah, af, bv, bh, bf :
           /\ av = p.name /\ ah = HalfNames(q) /\ af = r.name
           /\ bv = pp.name /\ bh = HalfNames(qq) /\ bf = rr.name
    OBVIOUS
  <2>18. PICK W, N, K, J, C : W = NamesOf(p) /\ N = NamesOf(q) /\ K = HalvesOf(N) /\ J = NamesOf(r)
                        /\ C = InNames(x)
    OBVIOUS
  <2>19. Sound(c, V, H, F) /\ C \in Arrays(W, K, J) /\ Alike(C, c, V, H, F, av, ah, af)
    <3>1. Views(C, x)
      BY <2>8, <2>18, ViewIs
    <3>2. C \in Arrays(W, K, J) /\ Alike(C, c, V, H, F, av, ah, af)
      BY <3>1, <2>3, <2>10, <2>17, <2>18 DEF Views, View
    <3>3. Sound(c, V, H, F)
      BY <2>3, <2>8, <2>10 DEF IsMesh
    <3>. QED BY <3>2, <3>3
  <2>20. /\ Carried(bv, av, sv, S) /\ Carried(bf, af, sf, G) /\ Swapping(sv, S, V) /\ Swapping(sf, G, F)
         /\ LiveOf(pp) = S /\ LiveOf(qq) = M /\ LiveOf(rr) = G
         /\ NamesOf(pp) = W /\ NamesOf(qq) = N /\ NamesOf(rr) = J
    BY <2>9, <2>10, <2>17, <2>18 DEF Relocated
  <2>21. Carried(bh, ah, sh, L)
    BY <2>7, <2>9, <2>10, <2>12, <2>13, <2>17, HalfNamesCarried
  <2>22. Alike(C, d, S, L, G, bv, bh, bf)
    BY <2>14, <2>15, <2>16, <2>19, <2>20, <2>21, RepackedAlike
  <2>23. Views(C, y)
    BY <2>4, <2>7, <2>17, <2>18, <2>19, <2>20, <2>22 DEF Views, View
  <2>24. MeshOK(y, t)
    BY CollectStep
  <2>. QED BY <2>18, <2>23, <2>24, ViewUnique
<1>. QED BY <1>1, <1>2

-----------------------------------------------------------------------------
(***************************************************************************)
(* Joining two meshes, in names.                                           *)
(***************************************************************************)

(* One kind of elements of two meshes: the names of the second are t higher. *)
Borrowed(z, p, q, n, t) ==
  /\ LiveOf(z) = LiveOf(p) \cup Shifted(LiveOf(q), n)
  /\ NamesOf(z) = NamesOf(p) \cup Shifted(NamesOf(q), t)
  /\ Same(z.name, p.name, LiveOf(p)) /\ Lent(z.name, q.name, LiveOf(q), n, t)

(* join gives the elements of one kind of the second mesh other indices    *)
(* and other names.                                                        *)
LEMMA KindBorrowed ==
  ASSUME NEW n \in Nat, NEW m \in Nat, NEW p \in KindRecords(UpTo(n)),
         NEW q \in KindRecords(UpTo(m)), NEW d, NEW t \in Nat,
         NEW r, r = JoinedMembers(p, q, d, t)
  PROVE  Borrowed(r, p, q, n, t)
<1>1. p.name \in [UpTo(n) -> Nat] /\ q.name \in [UpTo(m) -> Nat]
  BY DEF KindRecords
<1>2. PICK f, g, e : f = p.name /\ g = q.name /\ e = r.name /\ e = Appended(f, g, t)
  BY DEF JoinedMembers, Members
<1>3. Follow(e, f, g, n, m, t)
  <2>1. DOMAIN f = UpTo(n) /\ DOMAIN g = UpTo(m)
    BY <1>1, <1>2
  <2>. QED BY <2>1, <1>2, AppendedIs
<1>4. \A i \in UpTo(n) : e[i] = f[i] /\ f[i] \in Nat
  BY <1>1, <1>2, <1>3 DEF Follow, Same
<1>5. \A j \in UpTo(m) : e[j + n] = g[j] + t /\ g[j] \in Nat
  BY <1>1, <1>2, <1>3 DEF Follow, Higher, Null
<1>6. PICK L, S : L = LiveOf(p) /\ S = LiveOf(q)
  OBVIOUS
<1>7. L \subseteq UpTo(n) /\ S \subseteq UpTo(m)
  BY <1>6, LiveAndGone
<1>8. LiveOf(r) = L \cup Shifted(S, n)
  BY <1>6, JoinedElements
<1>9. (\A i \in L : e[i] = f[i]) /\ (\A j \in S : e[j + n] = g[j] + t)
  BY <1>4, <1>5, <1>7
<1>10. NamesOf(r) = {e[i] : i \in L \cup Shifted(S, n)}
  BY <1>2, <1>8 DEF NamesOf
<1>11. NamesOf(p) = {f[i] : i \in L} /\ NamesOf(q) = {g[j] : j \in S}
  BY <1>2, <1>6 DEF NamesOf
<1>12. {e[i] : i \in L \cup Shifted(S, n)} = {f[i] : i \in L} \cup {w + t : w \in {g[j] : j \in S}}
  <2>1. ASSUME NEW i \in L \cup Shifted(S, n)
        PROVE  e[i] \in {f[k] : k \in L} \cup {w + t : w \in {g[j] : j \in S}}
    <3>1. CASE i \in L
      BY <3>1, <1>9
    <3>2. CASE i \in Shifted(S, n)
      <4>1. PICK j \in S : i = j + n
        BY <3>2 DEF Shifted
      <4>. QED BY <4>1, <1>9
    <3>. QED BY <3>1, <3>2
  <2>2. ASSUME NEW i \in L PROVE f[i] \in {e[k] : k \in L \cup Shifted(S, n)}
    BY <1>9
  <2>3. ASSUME NEW j \in S PROVE g[j] + t \in {e[k] : k \in L \cup Shifted(S, n)}
    <3>1. j + n \in L \cup Shifted(S, n)
      BY DEF Shifted
    <3>. QED BY <3>1, <1>9
  <2>. QED BY <2>1, <2>2, <2>3
<1>. QED BY <1>2, <1>6, <1>8, <1>9, <1>10, <1>11, <1>12 DEF Borrowed, Same, Lent, Shifted

(* So it does their halfedges. *)
LEMMA HalfNamesBorrowed ==
  ASSUME NEW n \in Nat, NEW t \in Nat, NEW z, NEW p, NEW q, Borrowed(z, p, q, n, t),
         Natural(LiveOf(p)), Natural(LiveOf(q)), Natural(NamesOf(p)), Natural(NamesOf(q)),
         NEW k, k = 2 * n, NEW u, u = 2 * t
  PROVE  /\ Same(HalfNames(z), HalfNames(p), HalvesOf(LiveOf(p)))
         /\ Lent(HalfNames(z), HalfNames(q), HalvesOf(LiveOf(q)), k, u)
         /\ HalvesOf(LiveOf(z)) = HalvesOf(LiveOf(p)) \cup Shifted(HalvesOf(LiveOf(q)), k)
         /\ HalvesOf(NamesOf(z)) = HalvesOf(NamesOf(p)) \cup Shifted(HalvesOf(NamesOf(q)), u)
<1>1. PICK L, S, W, T : L = LiveOf(p) /\ S = LiveOf(q) /\ W = NamesOf(p) /\ T = NamesOf(q)
  OBVIOUS
<1>2. Natural(L) /\ Natural(S) /\ Natural(W) /\ Natural(T)
  BY <1>1
<1>3. LiveOf(z) = L \cup Shifted(S, n) /\ NamesOf(z) = W \cup Shifted(T, t)
  BY <1>1 DEF Borrowed
<1>4. \A A, B : HalvesOf(A \cup B) = HalvesOf(A) \cup HalvesOf(B)
  BY DEF HalvesOf
<1>5. HalvesOf(LiveOf(z)) = HalvesOf(L) \cup Shifted(HalvesOf(S), k)
  <2>1. HalvesOf(Shifted(S, n)) = Shifted(HalvesOf(S), k)
    BY <1>2, HalvesShifted
  <2>. QED BY <2>1, <1>3, <1>4
<1>6. HalvesOf(NamesOf(z)) = HalvesOf(W) \cup Shifted(HalvesOf(T), u)
  <2>1. HalvesOf(Shifted(T, t)) = Shifted(HalvesOf(T), u)
    BY <1>2, HalvesShifted
  <2>. QED BY <2>1, <1>3, <1>4
<1>7. (\A i \in L : z.name[i] = p.name[i]) /\ (\A j \in S : z.name[j + n] = q.name[j] + t)
  BY <1>1 DEF Borrowed, Same, Lent
<1>8. ASSUME NEW h \in HalvesOf(L)
      PROVE  HalfNames(z)[h] = HalfNames(p)[h]
  <2>1. h \div 2 \in L
    BY <1>2, HalfIs
  <2>2. h \in HalvesOf(LiveOf(z))
    BY <1>5
  <2>. QED BY <2>1, <2>2, <1>1, <1>7 DEF HalfNames
<1>9. ASSUME NEW h \in HalvesOf(S)
      PROVE  HalfNames(z)[h + k] = HalfNames(q)[h] + u
  <2>1. PICK j, b : j = h \div 2 /\ b = h % 2
    OBVIOUS
  <2>2. j \in S /\ j \in Nat /\ b \in {0, 1} /\ h = 2 * j + b /\ h \in Nat
    BY <2>1, <1>2, HalfIs
  <2>3. PICK g : g = h + k
    OBVIOUS
  <2>4. g = 2 * (j + n) + b
    BY <2>2, <2>3
  <2>5. g \div 2 = j + n /\ g % 2 = b
    BY <2>2, <2>4
  <2>6. g \in HalvesOf(LiveOf(z))
    BY <2>3, <1>5 DEF Shifted
  <2>7. HalfNames(z)[g] = 2 * z.name[j + n] + b
    BY <2>5, <2>6 DEF HalfNames
  <2>8. HalfNames(q)[h] = 2 * q.name[j] + b
    BY <2>1, <1>1 DEF HalfNames
  <2>9. PICK w : w = q.name[j]
    OBVIOUS
  <2>10. w \in Nat
    <3>1. w \in T
      BY <2>2, <2>9, <1>1 DEF NamesOf
    <3>. QED BY <3>1, <1>2 DEF Natural
  <2>11. z.name[j + n] = w + t
    BY <2>2, <2>9, <1>7
  <2>12. 2 * (w + t) + b = (2 * w + b) + u
    BY <2>2, <2>10
  <2>. QED BY <2>3, <2>7, <2>8, <2>9, <2>11, <2>12
<1>. QED BY <1>1, <1>5, <1>6, <1>8, <1>9 DEF Same, Lent

(* What MeshGraph promises of a join, one array at a time. *)
Raised(g, d, e) == [x \in {y + d : y \in DOMAIN g} |-> IF g[x - d] = Null THEN Null ELSE g[x - d] + e]

(* s is f on S, and g, so raised, on the elements of T. *)
BothArrays(s, f, g, S, T, d, e) ==
  /\ s \in [S \cup Shifted(T, d) -> Int] /\ Same(s, f, S)
  /\ \A x \in T : s[x + d] = Higher(g[x], e)

(* What MeshGraph promises of a join is so, for each array. *)
LEMMA BothIs ==
  ASSUME NEW S, NEW T, NEW d \in Nat, NEW e \in Nat, Natural(S), Natural(T), \A x \in S : x < d,
         NEW f \in [S -> Int], NEW g \in [T -> Int], NEW s, s = Promised!Both(f, Raised(g, d, e))
  PROVE  BothArrays(s, f, g, S, T, d, e)
<1>1. PICK r : r = Raised(g, d, e)
  OBVIOUS
<1>2. DOMAIN f = S /\ DOMAIN g = T
  OBVIOUS
<1>3. DOMAIN r = Shifted(T, d) /\ \A x \in Shifted(T, d) : r[x] = Higher(g[x - d], e)
  BY <1>1, <1>2 DEF Raised, Shifted, Higher
<1>4. s = [x \in S \cup Shifted(T, d) |-> IF x \in S THEN f[x] ELSE r[x]]
  BY <1>1, <1>2, <1>3 DEF Promised!Both
<1>5. ASSUME NEW x \in T
      PROVE  /\ x + d \notin S /\ x + d \in Shifted(T, d)
             /\ r[x + d] = Higher(g[x], e) /\ Higher(g[x], e) \in Int
  <2>1. x \in Nat
    BY DEF Natural
  <2>2. x + d \notin S
    <3>1. ~(x + d < d)
      BY <2>1
    <3>. QED BY <3>1
  <2>3. x + d \in Shifted(T, d) /\ (x + d) - d = x
    BY <2>1 DEF Shifted
  <2>4. Higher(g[x], e) \in Int
    <3>1. g[x] \in Int
      OBVIOUS
    <3>. QED BY <3>1 DEF Higher, Null
  <2>. QED BY <2>2, <2>3, <2>4, <1>3
<1>6. Same(s, f, S)
  BY <1>4 DEF Same
<1>7. \A x \in T : s[x + d] = Higher(g[x], e)
  BY <1>4, <1>5
<1>8. ASSUME NEW x \in S \cup Shifted(T, d) PROVE s[x] \in Int
  <2>1. CASE x \in S
    BY <2>1, <1>6 DEF Same
  <2>2. CASE x \in Shifted(T, d)
    <3>1. PICK y \in T : x = y + d
      BY <2>2 DEF Shifted
    <3>. QED BY <3>1, <1>5, <1>7
  <2>. QED BY <2>1, <2>2
<1>. QED BY <1>4, <1>6, <1>7, <1>8 DEF BothArrays

(* There is one connectivity that MeshGraph permits for a join: the first  *)
(* as it was, the second moved.                                            *)
LEMMA PromisedJoin ==
  ASSUME NEW W, NEW K, NEW G, NEW X, NEW D, NEW Y, NEW t \in Nat, NEW u \in Nat, u = 2 * t,
         Natural(W), Natural(K), Natural(G), Natural(X), Natural(D), Natural(Y),
         \A x \in W : x < t, \A x \in K : x < u, \A x \in G : x < t,
         NEW c \in Arrays(W, K, G), NEW f \in Arrays(X, D, Y)
  PROVE  \E e \in Arrays(W \cup Shifted(X, t), K \cup Shifted(D, u), G \cup Shifted(Y, t)) :
           Agree(e, c, W, K, G) /\ Moved(e, f, X, D, Y, t, u, t) /\ Promised!Join(c, e, f, t)
<1>1. PICK r : r = Promised!Renamed(f, t)
  OBVIOUS
<1>2. /\ r.half = Raised(f.half, t, u) /\ r.target = Raised(f.target, u, t)
      /\ r.next = Raised(f.next, u, u) /\ r.prev = Raised(f.prev, u, u)
      /\ r.face = Raised(f.face, u, t) /\ r.fhalf = Raised(f.fhalf, t, u)
  BY <1>1 DEF Promised!Renamed, Raised, Promised!Null, Null
<1>3. /\ c.half \in [W -> Int] /\ c.target \in [K -> Int] /\ c.next \in [K -> Int]
      /\ c.prev \in [K -> Int] /\ c.face \in [K -> Int] /\ c.fhalf \in [G -> Int]
      /\ c = [half |-> c.half, target |-> c.target, next |-> c.next, prev |-> c.prev,
              face |-> c.face, fhalf |-> c.fhalf]
  BY DEF Arrays
<1>4. /\ f.half \in [X -> Int] /\ f.target \in [D -> Int] /\ f.next \in [D -> Int]
      /\ f.prev \in [D -> Int] /\ f.face \in [D -> Int] /\ f.fhalf \in [Y -> Int]
  BY DEF Arrays
<1>5. PICK e : e = [half   |-> Promised!Both(c.half, r.half),
                    target |-> Promised!Both(c.target, r.target),
                    next   |-> Promised!Both(c.next, r.next),
                    prev   |-> Promised!Both(c.prev, r.prev),
                    face   |-> Promised!Both(c.face, r.face),
                    fhalf  |-> Promised!Both(c.fhalf, r.fhalf)]
  OBVIOUS
<1>6. /\ e.half = Promised!Both(c.half, r.half) /\ e.target = Promised!Both(c.target, r.target)
      /\ e.next = Promised!Both(c.next, r.next) /\ e.prev = Promised!Both(c.prev, r.prev)
      /\ e.face = Promised!Both(c.face, r.face) /\ e.fhalf = Promised!Both(c.fhalf, r.fhalf)
      /\ e = [half |-> e.half, target |-> e.target, next |-> e.next, prev |-> e.prev,
              face |-> e.face, fhalf |-> e.fhalf]
  BY <1>5
<1>7. BothArrays(e.half, c.half, f.half, W, X, t, u)
  BY <1>2, <1>3, <1>4, <1>6, BothIs
<1>8. BothArrays(e.target, c.target, f.target, K, D, u, t)
  BY <1>2, <1>3, <1>4, <1>6, BothIs
<1>9. BothArrays(e.next, c.next, f.next, K, D, u, u)
  BY <1>2, <1>3, <1>4, <1>6, BothIs
<1>10. BothArrays(e.prev, c.prev, f.prev, K, D, u, u)
  BY <1>2, <1>3, <1>4, <1>6, BothIs
<1>11. BothArrays(e.face, c.face, f.face, K, D, u, t)
  BY <1>2, <1>3, <1>4, <1>6, BothIs
<1>12. BothArrays(e.fhalf, c.fhalf, f.fhalf, G, Y, t, u)
  BY <1>2, <1>3, <1>4, <1>6, BothIs
<1>13. e \in Arrays(W \cup Shifted(X, t), K \cup Shifted(D, u), G \cup Shifted(Y, t))
  BY <1>6, <1>7, <1>8, <1>9, <1>10, <1>11, <1>12 DEF BothArrays, Arrays
<1>14. Agree(e, c, W, K, G)
  BY <1>7, <1>8, <1>9, <1>10, <1>11, <1>12 DEF BothArrays, Agree, Same
<1>15. Moved(e, f, X, D, Y, t, u, t)
  BY <1>7, <1>8, <1>9, <1>10, <1>11, <1>12 DEF BothArrays, Moved
<1>16. Promised!Join(c, e, f, t)
  <2>1. DOMAIN c = {"half", "target", "next", "prev", "face", "fhalf"}
    BY <1>3
  <2>2. e = [k \in DOMAIN c |-> Promised!Both(c[k], r[k])]
    BY <2>1, <1>5
  <2>. QED BY <2>2, <1>1 DEF Promised!Join
<1>. QED BY <1>13, <1>14, <1>15, <1>16

(* join does so for all three kinds. *)
LEMMA MeshBorrowed ==
  ASSUME NEW x, NEW y, NEW n, NEW e, NEW m, NEW a, NEW b, NEW c, NEW t \in Nat,
         Sized(x, n, e, m, t), Sized(y, a, b, c, t), NEW z,
         JoinedLike(z, x, y, n, e, m, a, b, c, t)
  PROVE  /\ Borrowed(z.vertices, x.vertices, y.vertices, n, t)
         /\ Borrowed(z.edges, x.edges, y.edges, e, t)
         /\ Borrowed(z.faces, x.faces, y.faces, m, t)
<1>1. /\ n \in Nat /\ e \in Nat /\ m \in Nat /\ a \in Nat /\ b \in Nat /\ c \in Nat
      /\ x.vertices \in KindRecords(UpTo(n)) /\ y.vertices \in KindRecords(UpTo(a))
      /\ x.edges \in KindRecords(UpTo(e)) /\ y.edges \in KindRecords(UpTo(b))
      /\ x.faces \in KindRecords(UpTo(m)) /\ y.faces \in KindRecords(UpTo(c))
  BY DEF Sized, IsMesh, IsKind
<1>2. PICK i, j, k : i = Node("vertices", n) /\ j = Node("edges", e) /\ k = Node("faces", m)
  OBVIOUS
<1>3. /\ z.vertices = JoinedMembers(x.vertices, y.vertices, i, t)
      /\ z.edges = JoinedMembers(x.edges, y.edges, j, t)
      /\ z.faces = JoinedMembers(x.faces, y.faces, k, t)
  BY <1>2 DEF JoinedLike, JoinsKind
<1>4. PICK p, q, r, f, g, h, v, w, s :
        /\ p = x.vertices /\ q = x.edges /\ r = x.faces
        /\ f = y.vertices /\ g = y.edges /\ h = y.faces
        /\ v = z.vertices /\ w = z.edges /\ s = z.faces
  OBVIOUS
<1>5. Borrowed(v, p, f, n, t)
  BY <1>1, <1>3, <1>4, KindBorrowed
<1>6. Borrowed(w, q, g, e, t)
  BY <1>1, <1>3, <1>4, KindBorrowed
<1>7. Borrowed(s, r, h, m, t)
  BY <1>1, <1>3, <1>4, KindBorrowed
<1>. QED BY <1>4, <1>5, <1>6, <1>7

(* A mesh that is joined to another is joined to it in names. *)
LEMMA JoinView ==
  ASSUME NEW t \in Nat, t = clock, NEW x, MeshOK(x, t), NEW y, MeshOK(y, t),
         NEW z, z = Joined(x, y)
  PROVE  Promised!Join(InNames(x), InNames(z), InNames(y), t)
<1>1. PICK n, e, m : Sized(x, n, e, m, t)
  BY MeshSized
<1>2. PICK a, b, l : Sized(y, a, b, l, t)
  BY MeshSized
<1>3. JoinedLike(z, x, y, n, e, m, a, b, l, t)
  BY <1>1, <1>2, JoinedIs
<1>4. PICK u, i : u = 2 * t /\ i = 2 * e
  OBVIOUS
<1>5. PICK p, q, r, c, p1, q1, r1, c1, p2, q2, r2, c2 :
        /\ p = x.vertices /\ q = x.edges /\ r = x.faces /\ c = x.conn
        /\ p1 = y.vertices /\ q1 = y.edges /\ r1 = y.faces /\ c1 = y.conn
        /\ p2 = z.vertices /\ q2 = z.edges /\ r2 = z.faces /\ c2 = z.conn
  OBVIOUS
<1>6. PICK V, H, F, W, N, K, G, C :
        /\ V = LiveOf(p) /\ H = HalvesOf(LiveOf(q)) /\ F = LiveOf(r) /\ W = NamesOf(p)
        /\ N = NamesOf(q) /\ K = HalvesOf(N) /\ G = NamesOf(r) /\ C = InNames(x)
  OBVIOUS
<1>7. PICK S, L, M, X, O, D, Y, P :
        /\ S = LiveOf(p1) /\ L = HalvesOf(LiveOf(q1)) /\ M = LiveOf(r1) /\ X = NamesOf(p1)
        /\ O = NamesOf(q1) /\ D = HalvesOf(O) /\ Y = NamesOf(r1) /\ P = InNames(y)
  OBVIOUS
<1>8. PICK av, ah, af, cv, ch, cf, bv, bh, bf :
        /\ av = p.name /\ ah = HalfNames(q) /\ af = r.name
        /\ cv = p1.name /\ ch = HalfNames(q1) /\ cf = r1.name
        /\ bv = p2.name /\ bh = HalfNames(q2) /\ bf = r2.name
  OBVIOUS
<1>9. /\ n \in Nat /\ e \in Nat /\ m \in Nat /\ a \in Nat /\ b \in Nat /\ l \in Nat
      /\ IsMesh(x, UpTo(n), UpTo(e), UpTo(m), t) /\ IsMesh(y, UpTo(a), UpTo(b), UpTo(l), t)
  BY <1>1, <1>2 DEF Sized
<1>27. u \in Nat /\ i \in Nat
  BY <1>4, <1>9
<1>10. Numbered(UpTo(e)) /\ Numbered(UpTo(b))
  BY <1>9 DEF Numbered, UpTo
<1>11. /\ Seen(C, c, V, H, F, av, ah, af, W, K, G) /\ Natural(N)
       /\ IsNamed(p, UpTo(n), t) /\ IsNamed(q, UpTo(e), t) /\ IsNamed(r, UpTo(m), t)
  BY <1>5, <1>6, <1>8, <1>9, <1>10, MeshSeen
<1>12. /\ Seen(P, c1, S, L, M, cv, ch, cf, X, D, Y) /\ Natural(O)
       /\ IsNamed(p1, UpTo(a), t) /\ IsNamed(q1, UpTo(b), t) /\ IsNamed(r1, UpTo(l), t)
  BY <1>5, <1>7, <1>8, <1>9, <1>10, MeshSeen
<1>13. Borrowed(p2, p, p1, n, t) /\ Borrowed(q2, q, q1, e, t) /\ Borrowed(r2, r, r1, m, t)
  BY <1>1, <1>2, <1>3, <1>5, MeshBorrowed
<1>14. /\ Natural(LiveOf(q)) /\ Natural(LiveOf(q1)) /\ Natural(N) /\ Natural(O)
       /\ (\A w \in W : w < t) /\ (\A w \in N : w < t) /\ (\A w \in G : w < t)
  BY <1>6, <1>7, <1>11, <1>12, NamesMatch
<1>15. /\ Same(bh, ah, H) /\ Lent(bh, ch, L, i, u)
       /\ HalvesOf(LiveOf(q2)) = H \cup Shifted(L, i)
       /\ HalvesOf(NamesOf(q2)) = K \cup Shifted(D, u)
  BY <1>4, <1>6, <1>7, <1>8, <1>9, <1>13, <1>14, HalfNamesBorrowed
<1>16. /\ Same(bv, av, V) /\ Same(bf, af, F) /\ Lent(bv, cv, S, n, t) /\ Lent(bf, cf, M, m, t)
       /\ LiveOf(p2) = V \cup Shifted(S, n) /\ LiveOf(r2) = F \cup Shifted(M, m)
       /\ NamesOf(p2) = W \cup Shifted(X, t) /\ NamesOf(r2) = G \cup Shifted(Y, t)
  BY <1>6, <1>7, <1>8, <1>13 DEF Borrowed
<1>17. \A h \in K : h < u
  <2>1. TAKE h \in K
  <2>2. h \div 2 \in N /\ h \div 2 \in Nat /\ h % 2 \in {0, 1} /\ h = 2 * (h \div 2) + (h % 2)
    BY <1>6, <1>14, HalfIs
  <2>3. h \div 2 < t
    BY <2>2, <1>14
  <2>. QED BY <2>2, <2>3, <1>4
<1>18. /\ Sound(c, V, H, F) /\ Matches(av, V, W) /\ Matches(ah, H, K) /\ Matches(af, F, G)
       /\ Natural(W) /\ Natural(K) /\ Natural(G) /\ C \in Arrays(W, K, G)
       /\ Alike(C, c, V, H, F, av, ah, af)
  BY <1>11 DEF Seen
<1>19. /\ Sound(c1, S, L, M) /\ Matches(cv, S, X) /\ Matches(ch, L, D) /\ Matches(cf, M, Y)
       /\ Natural(X) /\ Natural(D) /\ Natural(Y) /\ P \in Arrays(X, D, Y)
       /\ Alike(P, c1, S, L, M, cv, ch, cf)
  BY <1>12 DEF Seen
<1>20. PICK Z \in Arrays(W \cup Shifted(X, t), K \cup Shifted(D, u), G \cup Shifted(Y, t)) :
         Agree(Z, C, W, K, G) /\ Moved(Z, P, X, D, Y, t, u, t) /\ Promised!Join(C, Z, P, t)
  BY <1>27, <1>4, <1>14, <1>17, <1>18, <1>19, PromisedJoin
<1>21. Agree(c2, c, V, H, F) /\ Moved(c2, c1, S, L, M, n, i, m)
  BY <1>1, <1>2, <1>3, <1>4, <1>5, <1>6, <1>7, JoinedAgrees
<1>22. AreNumbers(X, D, Y)
  BY <1>19 DEF AreNumbers, Natural
<1>23. Alike(Z, c2, V \cup Shifted(S, n), H \cup Shifted(L, i), F \cup Shifted(M, m), bv, bh, bf)
  BY <1>27, <1>4, <1>9, <1>15, <1>16, <1>18, <1>19, <1>20, <1>21, <1>22, JoinedAlike
<1>24. Views(Z, z)
  BY <1>5, <1>8, <1>15, <1>16, <1>20, <1>23 DEF Views, View
<1>25. MeshOK(z, u)
  BY <1>27, <1>4, JoinStep
<1>26. Z = InNames(z)
  BY <1>24, <1>25, ViewUnique
<1>. QED BY <1>6, <1>7, <1>20, <1>26

-----------------------------------------------------------------------------
(***************************************************************************)
(* Each step is a step that MeshGraph permits, or none.                    *)
(***************************************************************************)

(* What MeshGraph permits for one mesh, it permits for the program, if the *)
(* other meshes stay as they are.                                          *)
LEMMA PermittedNext ==
  ASSUME NEW a \in Meshes, \A b \in Meshes : b # a => mesh'[b] = mesh[b],
         NEW c, c = InNames(mesh[a]), NEW d, d = InNames(mesh'[a]),
         \/ /\ clock' = clock + 1
            /\ Promised!AddVertex(c, d, clock) \/ Promised!AddEdge(c, d, clock) \/ Promised!AddFace(c, d, clock)
         \/ /\ clock' = clock
            /\ Promised!RemoveVertex(c, d) \/ Promised!RemoveEdge(c, d) \/ Promised!RemoveFace(c, d)
         \/ /\ clock' = clock
            /\ d = NoConnectivity \/ \E b \in Meshes \ {a} : d = InNames(mesh[b])
         \/ /\ clock' = 2 * clock
            /\ \E b \in Meshes \ {a} : Promised!Join(c, d, InNames(mesh[b]), clock)
  PROVE  Promised!Next
<1>1. c \in {[b \in Meshes |-> InNames(mesh[b])][a]} /\ d \in {[b \in Meshes |-> InNames(mesh[b])]'[a]}
  OBVIOUS
<1>2. [b \in Meshes |-> InNames(mesh[b])]' = [[b \in Meshes |-> InNames(mesh[b])] EXCEPT ![a] = d]
  <2>1. \A b \in Meshes : InNames(mesh'[b]) = [[e \in Meshes |-> InNames(mesh[e])] EXCEPT ![a] = d][b]
    OBVIOUS
  <2>. QED BY <2>1
<1>3. \A b \in Meshes : [e \in Meshes |-> InNames(mesh[e])][b] = InNames(mesh[b])
  OBVIOUS
<1>4. CASE /\ clock' = clock + 1
           /\ Promised!AddVertex(c, d, clock) \/ Promised!AddEdge(c, d, clock) \/ Promised!AddFace(c, d, clock)
  BY <1>1, <1>2, <1>4 DEF Promised!Next
<1>5. CASE /\ clock' = clock
           /\ Promised!RemoveVertex(c, d) \/ Promised!RemoveEdge(c, d) \/ Promised!RemoveFace(c, d)
  BY <1>1, <1>2, <1>5 DEF Promised!Next
<1>6. CASE clock' = clock /\ d = NoConnectivity
  <2>1. d = Promised!NoConnectivity
    BY <1>6 DEF Promised!NoConnectivity, NoConnectivity, Promised!Nothing, Nothing, Promised!Null, Null
  <2>. QED BY <1>1, <1>2, <1>6, <2>1 DEF Promised!Next
<1>7. CASE clock' = clock /\ \E b \in Meshes \ {a} : d = InNames(mesh[b])
  <2>1. \E b \in Meshes \ {a} : d = [e \in Meshes |-> InNames(mesh[e])][b]
    BY <1>3, <1>7
  <2>. QED BY <1>1, <1>2, <1>7, <2>1 DEF Promised!Next
<1>8. CASE clock' = 2 * clock /\ \E b \in Meshes \ {a} : Promised!Join(c, d, InNames(mesh[b]), clock)
  <2>1. PICK b \in Meshes \ {a} : Promised!Join(c, d, InNames(mesh[b]), clock)
    BY <1>8
  <2>2. Promised!Join(c, d, [e \in Meshes |-> InNames(mesh[e])][b], clock)
    BY <2>1, <1>3, Zenon
  <2>. QED BY <1>1, <1>2, <1>8, <2>2 DEF Promised!Next
<1>. QED BY <1>4, <1>5, <1>6, <1>7, <1>8

(* add_vertex adds a vertex under the next name. *)
LEMMA AddVertexPromised ==
  ASSUME IInv, NEW a \in Meshes, AddVertex(a)
  PROVE  clock' = clock + 1 /\ Promised!AddVertex(InNames(mesh[a]), InNames(mesh'[a]), clock)
<1>1. PICK t, x, y : t = clock /\ x = mesh[a] /\ y = Added(x, "vertices", t)
  OBVIOUS
<1>2. t \in Nat /\ MeshOK(x, t) /\ clock' = t + 1 /\ Call(a, y)
  BY <1>1 DEF IInv, AddVertex
<1>3. mesh'[a] = y
  BY <1>2, CallIs
<1>4. InNames(y) = WithVertex(InNames(x), t)
  BY <1>1, <1>2, AddVertexView
<1>5. Promised!AddVertex(InNames(x), InNames(y), t)
  BY <1>4, SameVertex DEF Promised!AddVertex
<1>. QED BY <1>1, <1>2, <1>3, <1>5

(* add_edge adds an edge under the next name. *)
LEMMA AddEdgePromised ==
  ASSUME IInv, NEW a \in Meshes, AddEdge(a)
  PROVE  clock' = clock + 1 /\ Promised!AddEdge(InNames(mesh[a]), InNames(mesh'[a]), clock)
<1>1. PICK t, x : t = clock /\ x = mesh[a]
  OBVIOUS
<1>2. t \in Nat /\ MeshOK(x, t) /\ clock' = t + 1
  BY <1>1 DEF IInv, AddEdge
<1>3. PICK h : h = NextNode(x, "edges")
  OBVIOUS
<1>4. PICK u \in Live(x, "vertices"), v \in Live(x, "vertices") :
        /\ u # v
        /\ \E g \in Ends(x, u), k \in Ends(x, v) :
             Call(a, [Added(x, "edges", t) EXCEPT !.conn = Connect(@, h, u, g, v, k)])
  BY <1>1, <1>3 DEF AddEdge
<1>5. PICK g \in Ends(x, u), k \in Ends(x, v) :
        Call(a, [Added(x, "edges", t) EXCEPT !.conn = Connect(@, h, u, g, v, k)])
  BY <1>4
<1>6. PICK y : y = [Added(x, "edges", t) EXCEPT !.conn = Connect(@, h, u, g, v, k)]
  OBVIOUS
<1>7. Promised!AddEdge(InNames(x), InNames(y), t)
  BY <1>2, <1>3, <1>4, <1>5, <1>6, AddEdgeView
<1>8. Call(a, y)
  BY <1>5, <1>6
<1>9. mesh'[a] = y
  BY <1>8, CallIs
<1>. QED BY <1>1, <1>2, <1>7, <1>9

(* add_face adds a face under the next name. *)
LEMMA AddFacePromised ==
  ASSUME IInv, NEW a \in Meshes, AddFace(a)
  PROVE  clock' = clock + 1 /\ Promised!AddFace(InNames(mesh[a]), InNames(mesh'[a]), clock)
<1>1. PICK t, x : t = clock /\ x = mesh[a]
  OBVIOUS
<1>2. t \in Nat /\ MeshOK(x, t) /\ clock' = t + 1
  BY <1>1 DEF IInv, AddFace
<1>3. PICK i : i = NextNode(x, "faces")
  OBVIOUS
<1>4. PICK h \in DOMAIN x.conn.next :
        /\ h \div 2 \in Live(x, "edges") /\ x.conn.face[h] = Null
        /\ Call(a, [Added(x, "faces", t) EXCEPT !.conn = Fill(@, h, i)])
  BY <1>1, <1>3 DEF AddFace
<1>5. PICK y : y = [Added(x, "faces", t) EXCEPT !.conn = Fill(@, h, i)]
  OBVIOUS
<1>6. Promised!AddFace(InNames(x), InNames(y), t)
  BY <1>2, <1>3, <1>4, <1>5, AddFaceView
<1>7. mesh'[a] = y
  BY <1>4, <1>5, CallIs
<1>. QED BY <1>1, <1>2, <1>6, <1>7

(* remove_vertex takes a vertex out and gives no name. *)
LEMMA RemoveVertexPromised ==
  ASSUME IInv, NEW a \in Meshes, RemoveVertex(a)
  PROVE  clock' = clock /\ Promised!RemoveVertex(InNames(mesh[a]), InNames(mesh'[a]))
<1>1. PICK t, x : t = clock /\ x = mesh[a]
  OBVIOUS
<1>2. t \in Nat /\ MeshOK(x, t) /\ clock' = t
  BY <1>1 DEF IInv, RemoveVertex
<1>3. PICK v \in Live(x, "vertices") :
        x.conn.half[v] = Null /\ Call(a, Removed(x, "vertices", v))
  BY <1>1 DEF RemoveVertex
<1>4. PICK y : y = Removed(x, "vertices", v)
  OBVIOUS
<1>5. Promised!RemoveVertex(InNames(x), InNames(y))
  BY <1>2, <1>3, <1>4, RemoveVertexView
<1>6. mesh'[a] = y
  BY <1>3, <1>4, CallIs
<1>. QED BY <1>1, <1>2, <1>5, <1>6

(* remove_edge takes an edge out and gives no name. *)
LEMMA RemoveEdgePromised ==
  ASSUME IInv, NEW a \in Meshes, RemoveEdge(a)
  PROVE  clock' = clock /\ Promised!RemoveEdge(InNames(mesh[a]), InNames(mesh'[a]))
<1>1. PICK t, x : t = clock /\ x = mesh[a]
  OBVIOUS
<1>2. t \in Nat /\ MeshOK(x, t) /\ clock' = t
  BY <1>1 DEF IInv, RemoveEdge
<1>3. PICK e \in Live(x, "edges") :
        /\ \A h \in {2 * e, 2 * e + 1} : x.conn.face[h] = Null
        /\ Call(a, Removed([x EXCEPT !.conn = Disconnect(@, 2 * e)], "edges", e))
  BY <1>1 DEF RemoveEdge
<1>4. PICK h, o : h = 2 * e /\ o = 2 * e + 1
  OBVIOUS
<1>5. x.conn.face[h] = Null /\ x.conn.face[o] = Null
  BY <1>3, <1>4
<1>6. PICK y : y = Removed([x EXCEPT !.conn = Disconnect(@, h)], "edges", e)
  OBVIOUS
<1>7. Promised!RemoveEdge(InNames(x), InNames(y))
  BY <1>2, <1>3, <1>4, <1>5, <1>6, RemoveEdgeView
<1>8. Call(a, y)
  BY <1>3, <1>4, <1>6
<1>9. mesh'[a] = y
  BY <1>8, CallIs
<1>. QED BY <1>1, <1>2, <1>7, <1>9

(* remove_face takes a face out and gives no name. *)
LEMMA RemoveFacePromised ==
  ASSUME IInv, NEW a \in Meshes, RemoveFace(a)
  PROVE  clock' = clock /\ Promised!RemoveFace(InNames(mesh[a]), InNames(mesh'[a]))
<1>1. PICK t, x : t = clock /\ x = mesh[a]
  OBVIOUS
<1>2. t \in Nat /\ MeshOK(x, t) /\ clock' = t
  BY <1>1 DEF IInv, RemoveFace
<1>3. PICK f \in Live(x, "faces") :
        Call(a, Removed([x EXCEPT !.conn = SetFace(x.conn, x.conn.fhalf[f], Null)], "faces", f))
  BY <1>1 DEF RemoveFace
<1>4. PICK y :
        y = Removed([x EXCEPT !.conn = SetFace(x.conn, x.conn.fhalf[f], Null)], "faces", f)
  OBVIOUS
<1>5. Promised!RemoveFace(InNames(x), InNames(y))
  BY <1>2, <1>3, <1>4, RemoveFaceView
<1>6. mesh'[a] = y
  BY <1>3, <1>4, CallIs
<1>. QED BY <1>1, <1>2, <1>5, <1>6

(* join adds the elements of the other mesh under names that are new. *)
LEMMA JoinPromised ==
  ASSUME IInv, NEW a \in Meshes, NEW b \in Meshes, Join(a, b)
  PROVE  /\ clock' = 2 * clock
         /\ Promised!Join(InNames(mesh[a]), InNames(mesh'[a]), InNames(mesh[b]), clock)
<1>1. PICK t, x, y, z : t = clock /\ x = mesh[a] /\ y = mesh[b] /\ z = Joined(x, y)
  OBVIOUS
<1>2. t \in Nat /\ MeshOK(x, t) /\ MeshOK(y, t) /\ clock' = 2 * t /\ Call(a, z)
  BY <1>1 DEF IInv, Join
<1>3. Promised!Join(InNames(x), InNames(z), InNames(y), t)
  BY <1>1, <1>2, JoinView
<1>4. mesh'[a] = z
  BY <1>2, CallIs
<1>. QED BY <1>1, <1>2, <1>3, <1>4

(* These calls are not seen in names. *)
Unseen(a) == clock' = clock /\ InNames(mesh'[a]) = InNames(mesh[a])

(* collect_garbage is not seen in names. *)
LEMMA CollectUnseen ==
  ASSUME IInv, NEW a \in Meshes, CollectGarbage(a)
  PROVE  Unseen(a)
<1>1. PICK t, x, y : t = clock /\ x = mesh[a] /\ y = Collected(x)
  OBVIOUS
<1>2. t \in Nat /\ MeshOK(x, t) /\ clock' = t /\ Call(a, y)
  BY <1>1 DEF IInv, CollectGarbage
<1>3. InNames(y) = InNames(x)
  BY <1>1, <1>2, CollectView
<1>4. mesh'[a] = y
  BY <1>2, CallIs
<1>. QED BY <1>1, <1>2, <1>3, <1>4 DEF Unseen

(* Nor is set_recycle_garbage. *)
LEMMA RecycleUnseen ==
  ASSUME IInv, NEW a \in Meshes, NEW b \in BOOLEAN, SetRecycleGarbage(a, b)
  PROVE  Unseen(a)
<1>1. PICK t, x, y : t = clock /\ x = mesh[a] /\ y = [x EXCEPT !.recycle = b]
  OBVIOUS
<1>2. t \in Nat /\ MeshOK(x, t) /\ clock' = t /\ Call(a, y)
  BY <1>1 DEF IInv, SetRecycleGarbage
<1>3. InNames(y) = InNames(x)
  BY <1>1, <1>2, RecycleView
<1>4. mesh'[a] = y
  BY <1>2, CallIs
<1>. QED BY <1>1, <1>2, <1>3, <1>4 DEF Unseen

(* Nothing happens then, as far as MeshGraph is concerned. *)
LEMMA UnseenStutters ==
  ASSUME NEW a \in Meshes, \A b \in Meshes : b # a => mesh'[b] = mesh[b], Unseen(a)
  PROVE  UNCHANGED Promised!gvars
<1>1. \A b \in Meshes : InNames(mesh'[b]) = InNames(mesh[b])
  BY DEF Unseen
<1>2. [b \in Meshes |-> InNames(mesh'[b])] = [b \in Meshes |-> InNames(mesh[b])]
  BY <1>1
<1>. QED BY <1>2 DEF Unseen, Promised!gvars

(* The meshes begin as MeshGraph has them begin. *)
LEMMA PromisedInit == Init => Promised!Init
<1> SUFFICES ASSUME Init PROVE Promised!Init
  OBVIOUS
<1>1. PICK c \in Firsts : mesh = [a \in Meshes |-> Fresh(c)] /\ clock = Size(c)
  BY DEF Init
<1>2. PICK x : x = Fresh(c)
  OBVIOUS
<1>3. InNames(x) = c
  BY <1>2, FreshView
<1>4. \A a \in Meshes : InNames(mesh[a]) = c
  BY <1>1, <1>2, <1>3
<1>5. [a \in Meshes |-> InNames(mesh[a])] = [a \in Meshes |-> c]
  BY <1>4
<1>6. clock = Promised!Size(c)
  BY <1>1, SameSize DEF Size, Promised!Size
<1>. QED BY <1>5, <1>6 DEF Promised!Init

(* Each call is one that MeshGraph permits, or is not seen. *)
LEMMA PromisedStep == IInv /\ [Next]_vars => [Promised!Next]_Promised!gvars
<1> SUFFICES ASSUME IInv, [Next]_vars PROVE Promised!Next \/ UNCHANGED Promised!gvars
  OBVIOUS
<1>1. CASE UNCHANGED vars
  BY <1>1 DEF vars, Promised!gvars
<1>2. CASE Next
  <2>1. PICK a \in Meshes :
        \/ AddVertex(a) \/ AddEdge(a) \/ AddFace(a)
        \/ RemoveVertex(a) \/ RemoveEdge(a) \/ RemoveFace(a)
        \/ CollectGarbage(a) \/ Clear(a)
        \/ \E b \in BOOLEAN : SetRecycleGarbage(a, b)
        \/ \E b \in Meshes \ {a} : Assign(a, b) \/ Join(a, b)
    BY <1>2 DEF Next
  <2>2. \E y : Call(a, y)
    BY <2>1 DEF AddVertex, AddEdge, AddFace, RemoveVertex, RemoveEdge, RemoveFace, CollectGarbage,
       Clear, SetRecycleGarbage, Assign, Join
  <2>3. \A b \in Meshes : b # a => mesh'[b] = mesh[b]
    BY <2>2, CallIs
  <2>4. CASE AddVertex(a)
    BY <2>3, <2>4, AddVertexPromised, PermittedNext
  <2>5. CASE AddEdge(a)
    BY <2>3, <2>5, AddEdgePromised, PermittedNext
  <2>6. CASE AddFace(a)
    BY <2>3, <2>6, AddFacePromised, PermittedNext
  <2>7. CASE RemoveVertex(a)
    BY <2>3, <2>7, RemoveVertexPromised, PermittedNext
  <2>8. CASE RemoveEdge(a)
    BY <2>3, <2>8, RemoveEdgePromised, PermittedNext
  <2>9. CASE RemoveFace(a)
    BY <2>3, <2>9, RemoveFacePromised, PermittedNext
  <2>10. CASE CollectGarbage(a)
    BY <2>3, <2>10, CollectUnseen, UnseenStutters
  <2>11. CASE Clear(a)
    <3>1. clock' = clock /\ mesh'[a] = Cleared
      BY <2>11, CallIs DEF Clear
    <3>2. InNames(mesh'[a]) = NoConnectivity
      BY <3>1, ClearView
    <3>. QED BY <2>3, <3>1, <3>2, PermittedNext
  <2>12. CASE \E b \in BOOLEAN : SetRecycleGarbage(a, b)
    BY <2>3, <2>12, RecycleUnseen, UnseenStutters
  <2>13. CASE \E b \in Meshes \ {a} : Assign(a, b)
    <3>1. PICK b \in Meshes \ {a} : Assign(a, b)
      BY <2>13
    <3>2. clock' = clock /\ mesh'[a] = mesh[b]
      BY <3>1, CallIs DEF Assign
    <3>3. InNames(mesh'[a]) = InNames(mesh[b])
      BY <3>2
    <3>. QED BY <2>3, <3>1, <3>2, <3>3, PermittedNext
  <2>14. CASE \E b \in Meshes \ {a} : Join(a, b)
    <3>1. PICK b \in Meshes \ {a} : Join(a, b)
      BY <2>14
    <3>2. /\ clock' = 2 * clock
          /\ Promised!Join(InNames(mesh[a]), InNames(mesh'[a]), InNames(mesh[b]), clock)
      BY <3>1, JoinPromised
    <3>. QED BY <2>3, <3>1, <3>2, PermittedNext
  <2>. QED BY <2>1, <2>4, <2>5, <2>6, <2>7, <2>8, <2>9, <2>10, <2>11, <2>12, <2>13, <2>14
<1>. QED BY <1>1, <1>2

(* Every sequence of calls on the indexed storage of Surface_mesh, with    *)
(* its removed flags, recycled places and compaction, is seen through the  *)
(* properties of the elements as a sequence of calls on meshes whose       *)
(* elements keep their identity and their neighbours.                      *)
THEOREM Refinement == Spec => ImplementsMeshGraph
<1>1. Spec => Promised!Spec
  BY PromisedInit, PromisedStep, Consistency, PTL DEF Spec, Promised!Spec
<1>. QED BY <1>1 DEF ImplementsMeshGraph

===============================================================================
