---------------------------- MODULE GridGeometry ----------------------------
(***************************************************************************)
(* The geometry of Spatial_lock_grid_3: which cell a point falls into, how *)
(* the index of a cell and its three coordinates are computed from each    *)
(* other, and which cells, in which order, a lock of radius r asks for.    *)
(*                                                                         *)
(* A coordinate of a point is given relative to the bounding box, in units *)
(* of 1/Unit of the side of a cell, so that (x - xmin) * m_resolution_x is *)
(* p[1] / Unit; points outside the box have coordinates below 0 or above   *)
(* N * Unit.                                                               *)
(***************************************************************************)
EXTENDS Integers, Sequences

CONSTANTS
  N,      \* m_num_grid_cells_per_axis
  Unit    \* how many parts a cell is divided into along an axis

ASSUME GeometryAssumption == N \in Nat \ {0} /\ Unit \in Nat \ {0}

Axis == 0..(N - 1)

Cells == 0..(N * N * N - 1)

(* static_cast<int> of a quotient: towards zero. *)
Truncated(num) == IF num < 0 THEN -((-num) \div Unit) ELSE num \div Unit

(* Mutant of AxisIndex: no clamping below the box. *)
AxisIndexUnclamped(num) == IF Truncated(num) >= N THEN N - 1 ELSE Truncated(num)

(* The index along one axis, clamped to the grid. *)
AxisIndex(num) ==
  LET i == Truncated(num)
  IN  IF i < 0 THEN 0 ELSE IF i >= N THEN N - 1 ELSE i

(* The number of the cell with coordinates <<x, y, z>>. *)
CellIndex(x) == x[3] * N * N + x[2] * N + x[1]

(* get_grid_index: the cell of a point. *)
CellOfPoint(p) ==
  CellIndex(<<AxisIndex(p[1]), AxisIndex(p[2]), AxisIndex(p[3])>>)

(* Mutant of Coordinates: the remainder of the first division is lost. *)
CoordinatesUnreduced(cell) ==
  <<cell % N, cell \div N, cell \div (N * N)>>

(* The coordinates that try_lock(cell_index, radius) computes back. *)
Coordinates(cell) ==
  LET z == cell \div (N * N)
      rest == cell - z * N * N
      y == rest \div N
  IN  <<rest - y * N, y, z>>

(* The bounds of one of the three nested loops. *)
Low(i, r)  == IF i - r < 0 THEN 0 ELSE i - r
High(i, r) == IF i + r < N - 1 THEN i + r ELSE N - 1

(* Mutant of Cube: the loops start at the cell in the middle. *)
CubeFromCentre(cell, r) ==
  LET x == Coordinates(cell)
      Width(a) == High(x[a], r) - Low(x[a], r) + 1
      Step(a, n) == Low(x[a], r) + ((x[a] - Low(x[a], r) + n) % Width(a))
  IN  [n \in 1..(Width(1) * Width(2) * Width(3)) |->
         CellIndex(<<Step(1, (n - 1) \div (Width(2) * Width(3))),
                     Step(2, ((n - 1) \div Width(3)) % Width(2)),
                     Step(3, (n - 1) % Width(3))>>)]

(* The cells that a lock of radius r around a cell asks for, in the order  *)
(* of the loops: i (x) outermost, then j (y), k (z) innermost.             *)
Cube(cell, r) ==
  LET x == Coordinates(cell)
      Width(a) == High(x[a], r) - Low(x[a], r) + 1
      Step(a, n) == Low(x[a], r) + n
  IN  [n \in 1..(Width(1) * Width(2) * Width(3)) |->
         CellIndex(<<Step(1, (n - 1) \div (Width(2) * Width(3))),
                     Step(2, ((n - 1) \div Width(3)) % Width(2)),
                     Step(3, (n - 1) % Width(3))>>)]
=============================================================================
