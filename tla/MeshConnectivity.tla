--------------------------- MODULE MeshConnectivity ---------------------------
(***************************************************************************)
(* The connectivity of a halfedge data structure: a record c of functions, *)
(*   c.half[v]    a halfedge whose target is vertex v, or Null,            *)
(*   c.target, c.next, c.prev, c.face    of a halfedge,                    *)
(*   c.fhalf[f]   a halfedge of face f,                                    *)
(* and what Surface_mesh's low-level functions do to it.  Halfedges are    *)
(* numbered by pairs; vertices and faces are numbers too.                  *)
(***************************************************************************)
EXTENDS Integers, FiniteSets

Null == -1

Opposite(h) == IF h % 2 = 1 THEN h - 1 ELSE h + 1

Bind(f, S, y) == [x \in DOMAIN f \cup S |-> IF x \in S THEN y ELSE f[x]]

Nothing == [x \in {} |-> Null]

NoConnectivity ==
  [half |-> Nothing, target |-> Nothing, next |-> Nothing, prev |-> Nothing,
   face |-> Nothing, fhalf |-> Nothing]

WithVertex(c, v) == [c EXCEPT !.half = Bind(@, {v}, Null)]

(* Two opposite halfedges, of which h is the one with the even number. *)
WithEdge(c, h) ==
  [c EXCEPT !.target = Bind(@, {h, h + 1}, Null), !.next = Bind(@, {h, h + 1}, Null),
            !.prev = Bind(@, {h, h + 1}, Null), !.face = Bind(@, {h, h + 1}, Null)]

WithFace(c, f) == [c EXCEPT !.fhalf = Bind(@, {f}, Null)]

SetNext(c, h, n) == [c EXCEPT !.next[h] = n, !.prev[n] = h]

(* The arrays for vertices, halfedges and faces with these numbers. *)
Arrays(V, H, F) ==
  [half : [V -> Int], target : [H -> Int], next : [H -> Int], prev : [H -> Int],
   face : [H -> Int], fhalf : [F -> Int]]

(* The halfedges of the face, or of the hole, that h belongs to. *)
Cycle(c, h) ==
  LET walk[i \in Nat] == IF i = 0 THEN h ELSE c.next[walk[i - 1]]
  IN  {walk[i] : i \in 0 .. Cardinality(DOMAIN c.next)}

-----------------------------------------------------------------------------
(***************************************************************************)
(* What callers do with the setters.                                       *)
(***************************************************************************)
(* Connects the new edge h, Opposite(h) from vertex u to vertex v.  At u   *)
(* it comes after the halfedge g, at v after k; either is Null where the   *)
(* vertex is isolated.                                                     *)
Connect(c, h, u, g, v, k) ==
  LET o  == Opposite(h)
      c1 == [c EXCEPT !.target[h] = v, !.target[o] = u,
                      !.half[v] = IF k = Null THEN h ELSE @,
                      !.half[u] = IF g = Null THEN o ELSE @]
      c2 == SetNext(c1, h, IF k = Null THEN o ELSE c.next[k])
      c3 == SetNext(c2, o, IF g = Null THEN h ELSE c.next[g])
      c4 == IF g = Null THEN c3 ELSE SetNext(c3, g, h)
  IN  IF k = Null THEN c4 ELSE SetNext(c4, k, o)

(* Takes an edge out of the cycles and away from its vertices. *)
Disconnect(c, h) ==
  LET o  == Opposite(h)
      c1 == IF c.prev[h] = o THEN c ELSE SetNext(c, c.prev[h], c.next[o])
      c2 == IF c.prev[o] = h THEN c1 ELSE SetNext(c1, c.prev[o], c.next[h])
      Other(p, q) == IF p = q THEN Null ELSE p
  IN  [c2 EXCEPT
         !.half[c.target[h]] = IF @ = h THEN Other(c.prev[o], h) ELSE @,
         !.half[c.target[o]] = IF @ = o THEN Other(c.prev[h], o) ELSE @]

SetFace(c, h, f) == [c EXCEPT !.face = Bind(@, Cycle(c, h), f)]

(* Euler::fill_hole, for a face that has been added. *)
Fill(c, h, f) == [SetFace(c, h, f) EXCEPT !.fhalf[f] = h]

-----------------------------------------------------------------------------
(***************************************************************************)
(* What is_valid demands of the vertices V, the halfedges H and the faces  *)
(* F of a mesh: prev is the inverse of next, next keeps to the vertex, a   *)
(* vertex has an incoming halfedge or none, a face one of its own.         *)
(***************************************************************************)
IsValid(c, V, H, F) ==
  /\ \A h \in H :
       /\ c.next[h] \in H /\ c.prev[c.next[h]] = h
       /\ c.prev[h] \in H /\ c.next[c.prev[h]] = h
       /\ c.target[h] \in V
       /\ c.target[h] = c.target[Opposite(c.next[h])]
       /\ c.face[h] \in F \cup {Null}
       /\ c.face[h] = c.face[c.next[h]]
  /\ \A v \in V : c.half[v] # Null => c.half[v] \in H /\ c.target[c.half[v]] = v
  /\ \A f \in F : c.fhalf[f] \in H /\ c.face[c.fhalf[f]] = f

(* The next halfedge, after h, with the same target. *)
Rotated(c, h) == Opposite(c.next[h])

(* What is_valid does not look at and remove_vertex, remove_edge and       *)
(* remove_face rely on.  No edge is a loop; going around a vertex from its *)
(* halfedge, or around a face from its own, meets all of their halfedges:  *)
(* a set that is closed under a step holds all that can be met.            *)
IsManifold(c, V, H, F) ==
  /\ \A h \in H : Opposite(h) \in H /\ c.target[h] # c.target[Opposite(h)]
  /\ \A v \in V, S \in SUBSET H :
       c.half[v] \in S \cup {Null} /\ (\A h \in S : Rotated(c, h) \in S) =>
         {h \in H : c.target[h] = v} \subseteq S
  /\ \A f \in F, S \in SUBSET H :
       c.fhalf[f] \in S /\ (\A h \in S : c.next[h] \in S) =>
         {h \in H : c.face[h] = f} \subseteq S
===============================================================================
