--------------------------- MODULE MCGridGeometry ---------------------------
(***************************************************************************)
(* A lock request, made of a point and a radius, that moves from one place *)
(* to another, in the bounding box and around it.  The properties say what *)
(* the users of the grid rely on: a lock of radius r protects every point  *)
(* within r cells, and two requests visit the cells they share in the same *)
(* order.                                                                  *)
(***************************************************************************)
EXTENDS GridGeometry

CONSTANTS
  Ticks,     \* the coordinates of points that are tried, some outside
  MaxRadius  \* the largest radius that is tried

ASSUME RequestAssumption == Ticks \subseteq Int /\ MaxRadius \in Nat

VARIABLES point, radius

vars == <<point, radius>>

Points == Ticks \X Ticks \X Ticks

MCTicks == {-3, -1, 1, 2, 3, 5, 7}

Init == point = <<1, 1, 1>> /\ radius = 0

Move == \E a \in 1..3, c \in Ticks : point' = [point EXCEPT ![a] = c] /\ UNCHANGED radius

Resize == radius' \in 0..MaxRadius /\ UNCHANGED point

Next == Move \/ Resize

Spec == Init /\ [][Next]_vars

Distance(a, b) == IF a < b THEN b - a ELSE a - b

Within(x, y, d) == \A a \in 1..3 : Distance(x[a], y[a]) <= d

Elements(z) == {z[n] : n \in DOMAIN z}

Zone == Cube(CellOfPoint(point), radius)

(* The reference: the cells at most r steps away along every axis.  What   *)
(* try_lock computes back from a cell index and visits with its loops is   *)
(* this set, no cell twice.                                                *)
CubeIsNeighbourhood ==
  LET Place(c) == CHOOSE x \in Axis \X Axis \X Axis : CellIndex(x) = c
      centre == Place(CellOfPoint(point))
  IN  /\ Elements(Zone) = {c \in Cells : Within(Place(c), centre, radius)}
      /\ \A m, n \in DOMAIN Zone : Zone[m] = Zone[n] => m = n

(* Locking a point with radius r locks every point within r cells of it,   *)
(* the points outside the bounding box included: whatever another thread   *)
(* does there meets this lock.                                             *)
ClosePointsAreLocked ==
  LET locked == Elements(Zone)
  IN  \A q \in Points : Within(q, point, radius * Unit) => CellOfPoint(q) \in locked

(* Two requests, whatever their points and their radii, visit the cells    *)
(* they have in common in the same order: the mesher mixes locks of the    *)
(* radius of the grid with locks of radius 0, and the order of the loops   *)
(* may not depend on where a cube begins or ends.                          *)
CubesAgreeOnOrder ==
  LET z == Zone
  IN  \A c \in Cells, r \in 0..MaxRadius :
        LET w == Cube(c, r)
            Rank(d) == CHOOSE n \in DOMAIN w : w[n] = d
            common == {n \in DOMAIN z : z[n] \in Elements(w)}
        IN  \A m, n \in common : m < n => Rank(z[m]) < Rank(z[n])
=============================================================================
