------------------------------ MODULE SurfaceMesh -----------------------------
(***************************************************************************)
(* Surface_mesh: vertices, edges and faces are indices into arrays.        *)
(* Removing an element marks it and threads it on a free list that runs    *)
(* through the connectivity arrays themselves; new elements are taken from *)
(* the list, meshes are joined with their lists, and collect_garbage moves *)
(* the live elements to the front and renumbers them.                      *)
(*                                                                         *)
(* The code is sequential: a call is a step.  Callers keep the mesh valid: *)
(* they wire what they add and unwire what they remove in the same step.   *)
(* The names stand for user properties of the elements: they move with     *)
(* them, and no operation reads them.                                      *)
(***************************************************************************)
EXTENDS MeshConnectivity

CONSTANTS
  Meshes,      \* the meshes of the program
  Firsts,      \* the connectivities they may begin with, numbered from 0
  MaxSize,     \* bound: MaxSize[k] indices of kind k in a mesh
  MaxCalls     \* bound: the calls made

VARIABLES
  mesh,    \* mesh[a]: the members of a Surface_mesh
  clock,   \* names below it have been given (history)
  calls    \* how many calls were made

vars == <<mesh, clock, calls>>

Kinds == {"vertices", "edges", "faces"}

ASSUME BoundAssumption == MaxSize \in [Kinds -> Nat] /\ MaxCalls \in Nat

(* The programs begin with meshes whose elements are numbered from 0. *)
ASSUME FirstsAssumption ==
  \A c \in Firsts :
    \E nv \in 0 .. MaxSize["vertices"], ne \in 0 .. MaxSize["edges"],
       nf \in 0 .. MaxSize["faces"] :
      /\ c \in Arrays(0 .. nv - 1, 0 .. 2 * ne - 1, 0 .. nf - 1)
      /\ IsValid(c, 0 .. nv - 1, 0 .. 2 * ne - 1, 0 .. nf - 1)
      /\ IsManifold(c, 0 .. nv - 1, 0 .. 2 * ne - 1, 0 .. nf - 1)

(* The members for one kind: v:removed, vertices_freelist_,                *)
(* removed_vertices_, and the names.                                       *)
Empty == [removed |-> Nothing, free |-> Null, count |-> 0, name |-> Nothing]

Num(x, k) == Cardinality(DOMAIN x[k].removed)

Live(x, k) == {i \in DOMAIN x[k].removed : ~x[k].removed[i]}

Gone(x, k) == {i \in DOMAIN x[k].removed : x[k].removed[i]}

(* Where the free list holds element i: an edge by its even halfedge. *)
Node(k, i) == IF k = "edges" THEN 2 * i ELSE i

(* The connectivity array through which the free list runs. *)
LinkOf(k) ==
  CASE k = "vertices" -> "half" [] k = "edges" -> "next" [] k = "faces" -> "fhalf"

Link(x, k) == x.conn[LinkOf(k)]

-----------------------------------------------------------------------------
(***************************************************************************)
(* add_vertex, add_edge, add_face.                                         *)
(***************************************************************************)
Recycles(x, k) == x.recycle /\ x[k].free # Null

(* The index, for an edge its even halfedge, that the next element gets. *)
NextNode(x, k) == IF Recycles(x, k) THEN x[k].free ELSE Node(k, Num(x, k))

(* push_back or reset of the properties: the connectivity is null again. *)
WithElement(c, k, n) ==
  CASE k = "vertices" -> WithVertex(c, n)
    [] k = "edges"    -> WithEdge(c, n)
    [] k = "faces"    -> WithFace(c, n)

Added(x, k, name) ==
  LET n == NextNode(x, k)
      i == IF k = "edges" THEN n \div 2 ELSE n
  IN  [x EXCEPT
         ![k] = [removed |-> Bind(@.removed, {i}, FALSE),
                 free    |-> IF Recycles(x, k) THEN Link(x, k)[n] ELSE @.free,
                 count   |-> IF Recycles(x, k) THEN @.count - 1 ELSE @.count,
                 name    |-> Bind(@.name, {i}, name)],
         !.conn = WithElement(@, k, n)]

(***************************************************************************)
(* remove_vertex, remove_edge, remove_face.                                *)
(***************************************************************************)
(* Mutant of Removed: the index of an edge goes on the list as it is. *)
RemovedUnshifted(x, k, i) ==
  [x EXCEPT ![k].removed[i] = TRUE, ![k].count = @ + 1, ![k].free = i,
            !.garbage = TRUE, !.conn[LinkOf(k)][i] = x[k].free]

Removed(x, k, i) ==
  [x EXCEPT ![k].removed[i] = TRUE, ![k].count = @ + 1, ![k].free = Node(k, i),
            !.garbage = TRUE, !.conn[LinkOf(k)][Node(k, i)] = x[k].free]

-----------------------------------------------------------------------------
(***************************************************************************)
(* join.                                                                   *)
(***************************************************************************)
(* The nodes on a free list, from its head. *)
FreeNode(x, k) ==
  LET link == Link(x, k)
      node[i \in Nat] ==
        IF i = 0 THEN x[k].free
        ELSE LET n == node[i - 1] IN IF n \in DOMAIN link THEN link[n] ELSE Null
  IN  node

OnFreeList(x, k) == {FreeNode(x, k)[i] : i \in 0 .. Num(x, k)} \ {Null}

(* The array g, its values d higher, after the array f. *)
Appended(f, g, d) ==
  LET n == Cardinality(DOMAIN f)
  IN  [i \in 0 .. n + Cardinality(DOMAIN g) - 1 |->
         IF i < n THEN f[i] ELSE IF g[i - n] = Null THEN Null ELSE g[i - n] + d]

Resized(f, g) ==
  LET n == Cardinality(DOMAIN f)
  IN  [i \in 0 .. n + Cardinality(DOMAIN g) - 1 |-> IF i < n THEN f[i] ELSE g[i - n]]

(* Mutant of Correction: links of free faces are not corrected. *)
CorrectionOfVertices(x, k) ==
  IF k = "vertices" THEN Num(x, k) - 2 * Num(x, "edges") ELSE 0

(* Free lists of vertices and faces hold indices where live elements have  *)
(* halfedges, and were translated like halfedges.                          *)
Correction(x, k) == IF k = "edges" THEN 0 ELSE Num(x, k) - 2 * Num(x, "edges")

(* The free list of y, corrected, with that of x after it. *)
Relinked(x, y, k, link) ==
  LET d    == Node(k, Num(x, k))
      list == {n + d : n \in OnFreeList(y, k)}
  IN  [n \in DOMAIN link |->
         IF n \notin list THEN link[n]
         ELSE IF link[n] = Null THEN x[k].free ELSE link[n] + Correction(x, k)]

JoinedKind(x, y, k) ==
  [removed |-> Resized(x[k].removed, y[k].removed),
   free    |-> IF y[k].free = Null THEN x[k].free ELSE y[k].free + Node(k, Num(x, k)),
   count   |-> x[k].count + y[k].count,
   name    |-> Appended(x[k].name, y[k].name, clock)]

(* Mutant of GarbageOfBoth: the flag of the other mesh is ignored. *)
GarbageOfFirst(x, y) == x.garbage

GarbageOfBoth(x, y) == x.garbage \/ y.garbage

Joined(x, y) ==
  LET nv == Num(x, "vertices")
      nh == 2 * Num(x, "edges")
      nf == Num(x, "faces")
      c  == x.conn
      d  == y.conn
  IN  [vertices |-> JoinedKind(x, y, "vertices"),
       edges    |-> JoinedKind(x, y, "edges"),
       faces    |-> JoinedKind(x, y, "faces"),
       garbage  |-> GarbageOfBoth(x, y),
       recycle  |-> x.recycle,
       conn     |->
         [half   |-> Relinked(x, y, "vertices", Appended(c.half, d.half, nh)),
          target |-> Appended(c.target, d.target, nv),
          next   |-> Relinked(x, y, "edges", Appended(c.next, d.next, nh)),
          prev   |-> Appended(c.prev, d.prev, nh),
          face   |-> Appended(c.face, d.face, nf),
          fhalf  |-> Relinked(x, y, "faces", Appended(c.fhalf, d.fhalf, nh))]]

-----------------------------------------------------------------------------
(***************************************************************************)
(* collect_garbage.                                                        *)
(***************************************************************************)
(* The swaps of the first removed with the last live element, until they   *)
(* meet; each index is swapped at most once, so the map is its own inverse.*)
Swaps(x, k) ==
  LET n == Cardinality(Live(x, k))
      Before(i) == Cardinality({j \in Gone(x, k) : j < i})
      After(i)  == Cardinality({j \in Live(x, k) : j > i})
  IN  [i \in DOMAIN x[k].removed |->
         CASE i \in Gone(x, k) /\ i < n ->
                CHOOSE j \in Live(x, k) : j >= n /\ After(j) = Before(i)
           [] i \in Live(x, k) /\ i >= n ->
                CHOOSE j \in Gone(x, k) : j < n /\ Before(j) = After(i)
           [] OTHER -> i]

(* Mutant of CollectedKind: user properties are not swapped along. *)
CollectedButNames(x, k) ==
  [removed |-> [i \in 0 .. Cardinality(Live(x, k)) - 1 |-> FALSE],
   free    |-> Null,
   count   |-> 0,
   name    |-> [i \in 0 .. Cardinality(Live(x, k)) - 1 |-> x[k].name[i]]]

CollectedKind(x, k) ==
  [removed |-> [i \in 0 .. Cardinality(Live(x, k)) - 1 |-> FALSE],
   free    |-> Null,
   count   |-> 0,
   name    |-> [i \in 0 .. Cardinality(Live(x, k)) - 1 |-> x[k].name[Swaps(x, k)[i]]]]

(* The swaps of edges, for their halfedges. *)
HalfedgeSwaps(x) ==
  LET emap == Swaps(x, "edges")
  IN  [h \in DOMAIN x.conn.next |-> 2 * emap[h \div 2] + (h % 2)]

(* The first nV, nH and nF places after the swaps, their contents renumbered. *)
Renumbered(c, vmap, hmap, fmap, nV, nH, nF) ==
  LET next == [h \in 0 .. nH - 1 |-> hmap[c.next[hmap[h]]]]
  IN  [half   |-> [v \in 0 .. nV - 1 |->
                     IF c.half[vmap[v]] = Null THEN Null ELSE hmap[c.half[vmap[v]]]],
       target |-> [h \in 0 .. nH - 1 |-> vmap[c.target[hmap[h]]]],
       next   |-> next,
       prev   |-> [h \in 0 .. nH - 1 |-> CHOOSE g \in 0 .. nH - 1 : next[g] = h],
       face   |-> [h \in 0 .. nH - 1 |->
                     IF c.face[hmap[h]] = Null THEN Null ELSE fmap[c.face[hmap[h]]]],
       fhalf  |-> [f \in 0 .. nF - 1 |-> hmap[c.fhalf[fmap[f]]]]]

(* Mutant of CollectedConnectivity: the faces of halfedges are not renumbered. *)
CollectedButFaces(x) ==
  LET nV == Cardinality(Live(x, "vertices"))
      nH == 2 * Cardinality(Live(x, "edges"))
      nF == Cardinality(Live(x, "faces"))
      hmap == HalfedgeSwaps(x)
  IN  [Renumbered(x.conn, Swaps(x, "vertices"), hmap, Swaps(x, "faces"), nV, nH, nF)
         EXCEPT !.face = [h \in 0 .. nH - 1 |-> x.conn.face[hmap[h]]]]

CollectedConnectivity(x) ==
  Renumbered(x.conn, Swaps(x, "vertices"), HalfedgeSwaps(x), Swaps(x, "faces"),
             Cardinality(Live(x, "vertices")), 2 * Cardinality(Live(x, "edges")),
             Cardinality(Live(x, "faces")))

Collected(x) ==
  IF ~x.garbage THEN x
  ELSE [vertices |-> CollectedKind(x, "vertices"),
        edges    |-> CollectedKind(x, "edges"),
        faces    |-> CollectedKind(x, "faces"),
        garbage  |-> FALSE,
        recycle  |-> x.recycle,
        conn     |-> CollectedConnectivity(x)]

(* clear_without_removing_property_maps; recycling is on again. *)
Cleared ==
  [vertices |-> Empty, edges |-> Empty, faces |-> Empty,
   garbage |-> FALSE, recycle |-> TRUE, conn |-> NoConnectivity]

-----------------------------------------------------------------------------
(***************************************************************************)
(* The calls.                                                              *)
(***************************************************************************)
Call(a, x) ==
  /\ calls < MaxCalls
  /\ calls' = calls + 1
  /\ mesh' = [mesh EXCEPT ![a] = x]

HasRoom(x, k) == Recycles(x, k) \/ Num(x, k) < MaxSize[k]

AddVertex(a) ==
  /\ HasRoom(mesh[a], "vertices")
  /\ Call(a, Added(mesh[a], "vertices", clock))
  /\ clock' = clock + 1

(* Where an edge may start or end at v: in a hole, or at a lonely vertex. *)
Ends(x, v) ==
  IF x.conn.half[v] = Null THEN {Null}
  ELSE {g \in DOMAIN x.conn.next :
          /\ g \div 2 \in Live(x, "edges")
          /\ x.conn.target[g] = v /\ x.conn.face[g] = Null}

AddEdge(a) ==
  /\ HasRoom(mesh[a], "edges")
  /\ LET h == NextNode(mesh[a], "edges")
         x == Added(mesh[a], "edges", clock)
     IN  \E u, v \in Live(mesh[a], "vertices") :
           /\ u # v
           /\ \E g \in Ends(mesh[a], u), k \in Ends(mesh[a], v) :
                Call(a, [x EXCEPT !.conn = Connect(@, h, u, g, v, k)])
  /\ clock' = clock + 1

(* fill_hole *)
AddFace(a) ==
  /\ HasRoom(mesh[a], "faces")
  /\ LET f == NextNode(mesh[a], "faces")
         x == Added(mesh[a], "faces", clock)
     IN  \E h \in DOMAIN mesh[a].conn.next :
           /\ h \div 2 \in Live(mesh[a], "edges") /\ mesh[a].conn.face[h] = Null
           /\ Call(a, [x EXCEPT !.conn = Fill(@, h, f)])
  /\ clock' = clock + 1

(* Mutant of RemoveVertex: the hole is closed at once. *)
RemoveVertexAndCollect(a) ==
  /\ \E v \in Live(mesh[a], "vertices") :
       /\ mesh[a].conn.half[v] = Null
       /\ Call(a, Collected(Removed(mesh[a], "vertices", v)))
  /\ UNCHANGED clock

RemoveVertex(a) ==
  /\ \E v \in Live(mesh[a], "vertices") :
       /\ mesh[a].conn.half[v] = Null
       /\ Call(a, Removed(mesh[a], "vertices", v))
  /\ UNCHANGED clock

RemoveEdge(a) ==
  /\ \E e \in Live(mesh[a], "edges") :
       /\ \A h \in {2 * e, 2 * e + 1} : mesh[a].conn.face[h] = Null
       /\ Call(a, Removed([mesh[a] EXCEPT !.conn = Disconnect(@, 2 * e)], "edges", e))
  /\ UNCHANGED clock

RemoveFace(a) ==
  /\ \E f \in Live(mesh[a], "faces") :
       LET c == SetFace(mesh[a].conn, mesh[a].conn.fhalf[f], Null)
       IN  Call(a, Removed([mesh[a] EXCEPT !.conn = c], "faces", f))
  /\ UNCHANGED clock

SetRecycleGarbage(a, b) ==
  /\ mesh[a].recycle # b
  /\ Call(a, [mesh[a] EXCEPT !.recycle = b])
  /\ UNCHANGED clock

(* operator=, assign *)
Assign(a, b) ==
  /\ Call(a, mesh[b])
  /\ UNCHANGED clock

Join(a, b) ==
  /\ \A k \in Kinds : Num(mesh[a], k) + Num(mesh[b], k) <= MaxSize[k]
  /\ Call(a, Joined(mesh[a], mesh[b]))
  /\ clock' = 2 * clock

CollectGarbage(a) ==
  /\ Call(a, Collected(mesh[a]))
  /\ UNCHANGED clock

Clear(a) ==
  /\ Call(a, Cleared)
  /\ UNCHANGED clock

-----------------------------------------------------------------------------
(* The elements S, none of them removed; the names are the indices. *)
Unremoved(S) ==
  [Empty EXCEPT !.removed = [i \in S |-> FALSE], !.name = [i \in S |-> i]]

Fresh(c) ==
  [vertices |-> Unremoved(DOMAIN c.half),
   edges    |-> Unremoved({h \div 2 : h \in DOMAIN c.next}),
   faces    |-> Unremoved(DOMAIN c.fhalf),
   garbage  |-> FALSE, recycle |-> TRUE, conn |-> c]

(* More names than a connectivity that is numbered from 0 uses. *)
Size(c) ==
  Cardinality(DOMAIN c.half) + Cardinality(DOMAIN c.next) + Cardinality(DOMAIN c.fhalf)

Init ==
  /\ \E c \in Firsts : mesh = [a \in Meshes |-> Fresh(c)] /\ clock = Size(c)
  /\ calls = 0

Next ==
  \E a \in Meshes :
    \/ AddVertex(a) \/ AddEdge(a) \/ AddFace(a)
    \/ RemoveVertex(a) \/ RemoveEdge(a) \/ RemoveFace(a)
    \/ CollectGarbage(a) \/ Clear(a)
    \/ \E b \in BOOLEAN : SetRecycleGarbage(a, b)
    \/ \E b \in Meshes \ {a} : Assign(a, b) \/ Join(a, b)

Spec == Init /\ [][Next]_vars

-----------------------------------------------------------------------------
TypeOK ==
  /\ clock \in Nat /\ calls \in 0 .. MaxCalls
  /\ \A a \in Meshes :
       LET x == mesh[a]
           Indices(k) == 0 .. Num(x, k) - 1
           Halfedges == 0 .. 2 * Num(x, "edges") - 1
       IN  /\ x.garbage \in BOOLEAN /\ x.recycle \in BOOLEAN
           /\ \A k \in Kinds :
                /\ x[k].removed \in [Indices(k) -> BOOLEAN]
                /\ x[k].free \in {Null} \cup {Node(k, i) : i \in Indices(k)}
                /\ x[k].count \in Nat
                /\ x[k].name \in [Indices(k) -> Nat]
           /\ DOMAIN x.conn.half = Indices("vertices")
           /\ DOMAIN x.conn.fhalf = Indices("faces")
           /\ \A f \in {"target", "next", "prev", "face"} : DOMAIN x.conn[f] = Halfedges

(* Each free list visits exactly the removed elements of its kind, each    *)
(* once, and ends; the counter is their number.  is_valid counts the nodes *)
(* of the lists, but not whether they are the right ones                   *)
(* (Surface_mesh.h:1501-1525).                                             *)
FreeListsAreExact ==
  \A a \in Meshes, k \in Kinds :
    LET x == mesh[a]
    IN  /\ x[k].count = Cardinality(Gone(x, k))
        /\ {FreeNode(x, k)[i] : i \in 0 .. x[k].count - 1} = {Node(k, i) : i \in Gone(x, k)}
        /\ FreeNode(x, k)[x[k].count] = Null

(* Live elements refer to live elements only, and is_valid holds           *)
(* (Surface_mesh.h:1423-1481).                                             *)
ElementsAreWellConnected ==
  \A a \in Meshes :
    LET x == mesh[a]
        halfedges == {h \in DOMAIN x.conn.next : h \div 2 \in Live(x, "edges")}
    IN  IsValid(x.conn, Live(x, "vertices"), halfedges, Live(x, "faces"))

(* A mesh with removed elements has garbage: collect_garbage never returns *)
(* early and leaves some (Surface_mesh.h:1334, 2487).                      *)
GarbageIsFlagged ==
  \A a \in Meshes : ~mesh[a].garbage => \A k \in Kinds : Gone(mesh[a], k) = {}

(* Only collect_garbage renumbers: an element that stays in a mesh stays   *)
(* at its index ("By garbage collecting elements get new indices",         *)
(* Surface_mesh.h:1340), also when another mesh is appended.               *)
IndicesAreStable ==
  [][\A a \in Meshes :
       ~CollectGarbage(a) /\ (\A b \in Meshes \ {a} : ~Assign(a, b)) =>
         \A k \in Kinds : \A i \in Live(mesh[a], k), j \in Live(mesh'[a], k) :
           mesh[a][k].name[i] = mesh'[a][k].name[j] => i = j]_vars

(* The mesh in names: its live elements. *)
InNames(x) ==
  LET Name(k, i) == IF i = Null THEN Null ELSE x[k].name[i]
      HalfName(h) == IF h = Null THEN Null ELSE 2 * x.edges.name[h \div 2] + (h % 2)
      names(k) == {x[k].name[i] : i \in Live(x, k)}
      At(k, n) == CHOOSE i \in Live(x, k) : x[k].name[i] = n
      halfedges == {2 * n : n \in names("edges")} \cup {2 * n + 1 : n \in names("edges")}
      HalfAt(h) == 2 * At("edges", h \div 2) + (h % 2)
  IN  [half   |-> [n \in names("vertices") |-> HalfName(x.conn.half[At("vertices", n)])],
       target |-> [h \in halfedges |-> Name("vertices", x.conn.target[HalfAt(h)])],
       next   |-> [h \in halfedges |-> HalfName(x.conn.next[HalfAt(h)])],
       prev   |-> [h \in halfedges |-> HalfName(x.conn.prev[HalfAt(h)])],
       face   |-> [h \in halfedges |-> Name("faces", x.conn.face[HalfAt(h)])],
       fhalf  |-> [n \in names("faces") |-> HalfName(x.conn.fhalf[At("faces", n)])]]

(* However the elements are stored, recycled and renumbered, they keep     *)
(* their properties and their neighbours: collect_garbage changes nothing  *)
(* that is seen through the properties, and a join adds a copy of the      *)
(* other mesh (Surface_mesh.h:2154-2159).                                  *)
Promised == INSTANCE MeshGraph WITH graph <- [a \in Meshes |-> InNames(mesh[a])]

ImplementsMeshGraph == Promised!Spec

===============================================================================
