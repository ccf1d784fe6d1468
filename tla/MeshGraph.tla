------------------------------ MODULE MeshGraph -------------------------------
(***************************************************************************)
(* What Surface_mesh promises: meshes whose elements keep their identity   *)
(* and their neighbours, however they are stored.  Every element has a     *)
(* name; nothing is ever recycled or collected here.                       *)
(***************************************************************************)
EXTENDS MeshConnectivity

CONSTANTS
  Meshes,   \* the meshes of the program
  Firsts    \* the connectivities they may begin with, numbered from 0

VARIABLES
  graph,   \* graph[a]: the connectivity of mesh a, in names
  clock    \* names below it have been given

gvars == <<graph, clock>>

(* The elements of c under names that are k higher. *)
Renamed(c, k) ==
  LET Up(x, d) == IF x = Null THEN Null ELSE x + d
      Moved(f, d, e) == [x \in {y + d : y \in DOMAIN f} |-> Up(f[x - d], e)]
  IN  [half   |-> Moved(c.half, k, 2 * k),
       target |-> Moved(c.target, 2 * k, k),
       next   |-> Moved(c.next, 2 * k, 2 * k),
       prev   |-> Moved(c.prev, 2 * k, 2 * k),
       face   |-> Moved(c.face, 2 * k, k),
       fhalf  |-> Moved(c.fhalf, k, 2 * k)]

Both(f, g) ==
  [x \in DOMAIN f \cup DOMAIN g |-> IF x \in DOMAIN f THEN f[x] ELSE g[x]]

Without(f, S) == [x \in DOMAIN f \ S |-> f[x]]

(* More names than a connectivity that is numbered from 0 uses. *)
Size(c) ==
  Cardinality(DOMAIN c.half) + Cardinality(DOMAIN c.next) + Cardinality(DOMAIN c.fhalf)

Init == \E c \in Firsts : graph = [a \in Meshes |-> c] /\ clock = Size(c)

-----------------------------------------------------------------------------
(***************************************************************************)
(* What becomes of the connectivity c of one mesh: d, with n the next name.*)
(***************************************************************************)
AddVertex(c, d, n) == d = WithVertex(c, n)

(* Where an edge may start or end at v: in a hole, or at a lonely vertex. *)
Ends(c, v) ==
  IF c.half[v] = Null THEN {Null}
  ELSE {g \in DOMAIN c.target : c.target[g] = v /\ c.face[g] = Null}

AddEdge(c, d, n) ==
  \E u, v \in DOMAIN c.half :
    /\ u # v
    /\ \E g \in Ends(c, u), k \in Ends(c, v) :
         d = Connect(WithEdge(c, 2 * n), 2 * n, u, g, v, k)

AddFace(c, d, n) ==
  \E h \in DOMAIN c.next : c.face[h] = Null /\ d = Fill(WithFace(c, n), h, n)

RemoveVertex(c, d) ==
  \E v \in DOMAIN c.half :
    c.half[v] = Null /\ d = [c EXCEPT !.half = Without(@, {v})]

RemoveEdge(c, d) ==
  \E h \in DOMAIN c.next :
    LET hs == {h, Opposite(h)}
        b  == Disconnect(c, h)
    IN  /\ \A x \in hs : c.face[x] = Null
        /\ d = [b EXCEPT !.target = Without(@, hs), !.next = Without(@, hs),
                         !.prev = Without(@, hs), !.face = Without(@, hs)]

RemoveFace(c, d) ==
  \E f \in DOMAIN c.fhalf :
    d = [SetFace(c, c.fhalf[f], Null) EXCEPT !.fhalf = Without(@, {f})]

(* The elements of another mesh are added, with names of their own. *)
Join(c, d, other, n) ==
  LET r == Renamed(other, n)
  IN  d = [k \in DOMAIN c |-> Both(c[k], r[k])]

Next ==
  \E a \in Meshes : \E c \in {graph[a]}, d \in {graph'[a]} :
    /\ graph' = [graph EXCEPT ![a] = d]
    /\ \/ /\ clock' = clock + 1
          /\ AddVertex(c, d, clock) \/ AddEdge(c, d, clock) \/ AddFace(c, d, clock)
       \/ /\ clock' = clock
          /\ RemoveVertex(c, d) \/ RemoveEdge(c, d) \/ RemoveFace(c, d)
       \/ /\ clock' = clock
          /\ d = NoConnectivity \/ \E b \in Meshes \ {a} : d = graph[b]
       \/ /\ clock' = 2 * clock
          /\ \E b \in Meshes \ {a} : Join(c, d, graph[b], clock)

Spec == Init /\ [][Next]_gvars
===============================================================================
