-------------------------- MODULE LockedTriangulation --------------------------
(***************************************************************************)
(* What Triangulation_3 gives to the parallel algorithms: cells that       *)
(* several threads destroy and create while they lock, vertex by vertex,   *)
(* the regions of space they work in.  The geometry is abstract: a cell    *)
(* has a region for each of its vertices, two cells that share the regions *)
(* of a facet may be neighbours, and which cells are in conflict with a    *)
(* point is left open.  The regions are locked through CellLocks, the      *)
(* abstract lock grid, and the slots of the cells follow ElementPool: a    *)
(* destroyed cell leaves its slot, with an erase counter raised by one, to *)
(* later cells.  What a thread does between these steps is left to the     *)
(* modules that extend this one.                                           *)
(***************************************************************************)
EXTENDS Naturals

CONSTANTS
  Threads,    \* the threads, as numbers: their priorities in the lock grid
  Regions,    \* the cells of the lock grid
  Slots,      \* the slots of the cells container
  Corners,    \* the indices of the vertices of a cell
  Shapes      \* the regions of the vertices that a cell may have

ASSUME GeometryAssumption ==
  /\ Threads \subseteq Nat
  /\ Shapes \subseteq [Corners -> Regions]
  /\ Corners # {} /\ \A i, j \in Corners : Corners \ {i, j} # {}

VARIABLES
  owner,      \* owner[r]: the threads that hold region r, at most one
  alive,      \* the slots of the cells of the triangulation
  life,       \* life[s]: the erase counter of slot s
  place,      \* place[s]: the regions of the vertices of the cell in slot s
  todo,       \* todo[t]: the vertices t has still to lock in the running call
  next,       \* next[t]: the cell whose vertices are being locked, or {}
  zone        \* zone[t]: the cells t has locked since its last unlock_all

cells   == <<alive, life, place>>
locking == <<owner, todo, next, zone>>

Handles == Slots \X Nat

TriangulationTypeOK ==
  /\ owner \in [Regions -> {{}} \cup {{t} : t \in Threads}]
  /\ alive \subseteq Slots
  /\ life \in [Slots -> Nat]
  /\ place \in [Slots -> Shapes]
  /\ todo \in [Threads -> SUBSET (Slots \X Corners)]
  /\ next \in [Threads -> SUBSET Slots]
  /\ zone \in [Threads -> SUBSET Slots]

-----------------------------------------------------------------------------
Locks == INSTANCE CellLocks WITH Cells <- Regions

(* The region of a vertex, given as a slot and an index. *)
RegionOf(v) == place[v[1]][v[2]]

RegionsOf(s) == {place[s][i] : i \in Corners}

VerticesOf(s) == {s} \X Corners

Held(t) == {r \in Regions : t \in owner[r]}

(* The facet of s opposite to its vertex j is a facet of n too. *)
AcrossFacet(s, j, n) ==
  \A i \in Corners \ {j} : place[s][i] \in RegionsOf(n)

Adjacent(s, n) == s # n /\ \E j \in Corners : AcrossFacet(s, j, n)

InitTriangulation(first, shape) ==
  /\ owner = [r \in Regions |-> {}]
  /\ alive = first
  /\ life = [s \in Slots |-> 0]
  /\ place = shape
  /\ todo = [t \in Threads |-> {}]
  /\ next = [t \in Threads |-> {}]
  /\ zone = [t \in Threads |-> {}]

-----------------------------------------------------------------------------
(***************************************************************************)
(* try_lock_cell, try_lock_facet, try_lock_vertex: the loop over vertices. *)
(***************************************************************************)
StartLocking(t, vertices) ==
  /\ todo' = [todo EXCEPT ![t] = vertices]
  /\ UNCHANGED <<owner, next, zone>>

(* try_lock of one vertex succeeds, or the thread had its region already.  *)
(* The vertex is looked up in the cell only now.                           *)
LockVertex(t) ==
  \E v \in todo[t] :
    /\ \/ RegionOf(v) \in Held(t) /\ UNCHANGED owner
       \/ Locks!Acquire(t, RegionOf(v))
    /\ todo' = [todo EXCEPT ![t] = @ \ {v}]
    /\ UNCHANGED <<next, zone>>

(* Mutant of IsRefused: a thread backs off whoever holds the region. *)
IsRefusedByAny(t) == \E v \in todo[t] : \E u \in owner[RegionOf(v)] : u # t

(* A thread of higher priority holds the region; a thread waits for those  *)
(* of lower priority.                                                      *)
IsRefused(t) == \E v \in todo[t] : \E u \in owner[RegionOf(v)] : u > t

(***************************************************************************)
(* locate and find_conflicts: from a cell that is locked to a neighbour,   *)
(* which is locked before it is used.                                      *)
(***************************************************************************)
(* Mutant of Visit: the loop over the vertices of the neighbour stops one  *)
(* vertex early.                                                           *)
VisitInPart(t, n) ==
  /\ n \notin zone[t]
  /\ next' = [next EXCEPT ![t] = {n}]
  /\ \E i \in Corners : todo' = [todo EXCEPT ![t] = VerticesOf(n) \ {<<n, i>>}]
  /\ UNCHANGED <<owner, zone>>

Visit(t, n) ==
  /\ n \notin zone[t]
  /\ next' = [next EXCEPT ![t] = {n}]
  /\ todo' = [todo EXCEPT ![t] = VerticesOf(n)]
  /\ UNCHANGED <<owner, zone>>

Neighbours(t) == {n \in alive : \E s \in zone[t] : Adjacent(s, n)}

Visited(t) ==
  /\ zone' = [zone EXCEPT ![t] = @ \cup next[t]]
  /\ next' = [next EXCEPT ![t] = {}]
  /\ UNCHANGED <<owner, todo>>

(***************************************************************************)
(* insert_in_hole: the cells of the hole go, those of the star come.  The  *)
(* new cells are created before the old ones are deleted, so they take     *)
(* other slots, and each has vertices on the border of the hole.           *)
(***************************************************************************)
Retriangulate(hole, star, shape) ==
  /\ star \subseteq Slots \ alive
  /\ shape \in [star -> Shapes]
  /\ \A s \in star : \E h \in hole, i \in Corners : shape[s][i] \in RegionsOf(h)
  /\ alive' = (alive \ hole) \cup star
  /\ life' = [s \in Slots |-> IF s \in hole THEN life[s] + 1 ELSE life[s]]
  /\ place' = [s \in Slots |-> IF s \in star THEN shape[s] ELSE place[s]]

(***************************************************************************)
(* unlock_all_elements, one region at a time.  What was locked is no       *)
(* longer used from its first step on.                                     *)
(***************************************************************************)
StartUnlocking(t) ==
  /\ zone' = [zone EXCEPT ![t] = {}]
  /\ todo' = [todo EXCEPT ![t] = {}]
  /\ next' = [next EXCEPT ![t] = {}]
  /\ UNCHANGED owner

UnlockRegion(t) ==
  /\ \E r \in Held(t) : Locks!Release(t, r)
  /\ UNCHANGED <<todo, next, zone>>

-----------------------------------------------------------------------------
(* Every cell that a thread has locked is still there, and its regions are *)
(* the thread's, until the thread destroys it or unlocks.  No cell that    *)
(* another thread has locked is among them or next to them, and no cell    *)
(* has a facet in common with the zones of two threads: so a thread may    *)
(* mark the cells on the border of its zone without locking them, and      *)
(* neither meets a mark of another thread nor leaves one there.            *)
(* (find_conflicts: "test" is marked before it is locked,                  *)
(* Triangulation_3.h:1420.)                                                *)
ZonesAreExclusive ==
  \A t \in Threads :
    /\ \A s \in zone[t] : s \in alive /\ RegionsOf(s) \subseteq Held(t)
    /\ \A u \in Threads \ {t} : \A s \in zone[t], n \in zone[u] :
         /\ s # n /\ ~Adjacent(s, n)
         /\ \A c \in alive : ~(Adjacent(c, s) /\ Adjacent(c, n))
===============================================================================
