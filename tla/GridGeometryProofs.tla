-------------------------- MODULE GridGeometryProofs --------------------------
(***************************************************************************)
(* The geometry of the lock grid for every resolution, every radius and    *)
(* every point: the coordinates computed back from the number of a cell    *)
(* are those it was computed from, the loops of try_lock visit the         *)
(* neighbourhood of a cell, and it holds the cells of all close points.    *)
(***************************************************************************)
EXTENDS MCGridGeometry, DataLemmas

-----------------------------------------------------------------------------
(***************************************************************************)
(* Division.                                                               *)
(***************************************************************************)
LEMMA ProductType ==
  ASSUME NEW a \in Nat, NEW b \in Nat
  PROVE  a * b \in Nat
OBVIOUS

(* A product of positive numbers is positive. *)
LEMMA ProductPositive ==
  ASSUME NEW a \in Nat \ {0}, NEW b \in Nat \ {0}
  PROVE  a * b \in Nat \ {0}
OBVIOUS

(* Only one quotient and one remainder divide a number. *)
LEMMA DivisionUnique ==
  ASSUME NEW b \in Nat \ {0}, NEW q \in Int, NEW r \in 0 .. (b - 1)
  PROVE  (q * b + r) \div b = q /\ (q * b + r) % b = r
<1> DEFINE a == q * b + r
           p == a \div b
           s == a % b
<1>1. a \in Int
  OBVIOUS
<1>2. p \in Int /\ s \in 0 .. (b - 1) /\ a = p * b + s
  BY <1>1, Division
<1> HIDE DEF a, p, s
<1>3. q * b + r = p * b + s
  BY <1>2 DEF a
<1>4. CASE q < p
  <2>1. (q + 1) * b <= p * b
    BY <1>2, <1>4, ProductMonotone
  <2>2. (q + 1) * b = q * b + b
    OBVIOUS
  <2>. QED BY <1>2, <1>3, <2>1, <2>2
<1>5. CASE p < q
  <2>1. (p + 1) * b <= q * b
    BY <1>2, <1>5, ProductMonotone
  <2>2. (p + 1) * b = p * b + b
    BY <1>2
  <2>. QED BY <1>2, <1>3, <2>1, <2>2
<1>6. CASE p = q
  BY <1>2, <1>3, <1>6 DEF p, s, a
<1>. QED BY <1>2, <1>4, <1>5, <1>6

(* A quotient lies between the numbers whose products surround.  *)
LEMMA QuotientBounds ==
  ASSUME NEW b \in Nat \ {0}, NEW a \in Int, NEW m \in Int
  PROVE  /\ m * b <= a => m <= a \div b
         /\ a < m * b => a \div b < m
<1> DEFINE q == a \div b
<1>1. q \in Int /\ q * b <= a /\ a < (q + 1) * b
  <2>1. q \in Int /\ a % b \in 0 .. (b - 1) /\ a = q * b + (a % b)
    BY Division
  <2>2. (q + 1) * b = q * b + b
    BY <2>1
  <2>. QED BY <2>1, <2>2
<1> HIDE DEF q
<1>2. ASSUME m * b <= a PROVE m <= q
  <2>1. q < m => (q + 1) * b <= m * b
    BY <1>1, ProductMonotone
  <2>. QED BY <1>1, <1>2, <2>1
<1>3. ASSUME a < m * b PROVE q < m
  <2>1. m <= q => m * b <= q * b
    BY <1>1, ProductMonotone
  <2>. QED BY <1>1, <1>3, <2>1
<1>. QED BY <1>2, <1>3 DEF q

(* Two digits in mixed radix: the number they make and the digits again. *)
LEMMA TwoDigits ==
  ASSUME NEW a \in Nat \ {0}, NEW b \in Nat \ {0},
         NEW y \in 0 .. (a - 1), NEW x \in 0 .. (b - 1)
  PROVE  /\ y * b + x \in 0 .. (a * b - 1)
         /\ (y * b + x) \div b = y /\ (y * b + x) % b = x
<1>1. y * b <= (a - 1) * b /\ (a - 1) * b = a * b - b
  BY ProductMonotone
<1>2. y * b \in Nat /\ a * b \in Nat
  BY ProductType
<1>. QED BY <1>1, <1>2, DivisionUnique

-----------------------------------------------------------------------------
(***************************************************************************)
(* Cells and their coordinates.                                            *)
(***************************************************************************)
Places == Axis \X Axis \X Axis

(* The number of cells, in the shapes in which the proofs meet it. *)
LEMMA SquareOfSide == N * N \in Nat \ {0} /\ N * N * N = N * (N * N) /\ N * N * N \in Nat \ {0}
<1>1. N * N \in Nat \ {0}
  BY GeometryAssumption, ProductPositive
<1>2. N * (N * N) \in Nat \ {0}
  BY <1>1, GeometryAssumption, ProductPositive
<1>. QED BY <1>1, <1>2, GeometryAssumption

(* get_grid_index numbers the cells without gap or overlap, and what       *)
(* try_lock computes from the number of a cell are its coordinates.        *)
LEMMA CoordinatesOfIndex ==
  ASSUME NEW x \in Axis, NEW y \in Axis, NEW z \in Axis
  PROVE  /\ CellIndex(<<x, y, z>>) \in Cells
         /\ Coordinates(CellIndex(<<x, y, z>>)) = <<x, y, z>>
<1> USE GeometryAssumption
<1> DEFINE M == N * N
           rest == y * N + x
           cell == z * M + rest
<1>1. rest \in 0 .. (M - 1) /\ rest \div N = y
  BY TwoDigits DEF Axis
<1>2. M \in Nat \ {0}
  BY SquareOfSide
<1> HIDE DEF M, rest
<1>3. cell \in 0 .. (N * M - 1) /\ cell \div M = z
  BY <1>1, <1>2, TwoDigits DEF Axis
<1>4. z * N * N = z * M /\ z * M \in Int /\ rest \in Int
  BY <1>1, <1>2 DEF M, Axis
<1>5. CellIndex(<<x, y, z>>) = cell
  BY <1>4 DEF CellIndex, rest, Axis
<1>6. cell \in Cells
  BY <1>3, SquareOfSide DEF Cells, M
<1>7. cell - (cell \div M) * N * N = rest
  BY <1>3, <1>4
<1>8. rest - y * N = x
  BY DEF rest, Axis
<1>9. Coordinates(cell) = <<x, y, z>>
  BY <1>1, <1>3, <1>7, <1>8 DEF Coordinates, M
<1>. QED BY <1>5, <1>6, <1>9

(* The number of a cell is computed from the coordinates that are computed *)
(* from it.                                                                *)
LEMMA IndexOfCoordinates ==
  ASSUME NEW cell \in Cells
  PROVE  /\ Coordinates(cell) \in Places
         /\ CellIndex(Coordinates(cell)) = cell
<1> USE GeometryAssumption
<1> DEFINE M == N * N
           z == cell \div M
           rest == cell % M
           y == rest \div N
           x == rest % N
<1>1. M \in Nat \ {0} /\ cell \in 0 .. (N * M - 1)
  BY SquareOfSide DEF Cells
<1> HIDE DEF M
<1>2. z \in Int /\ rest \in 0 .. (M - 1) /\ cell = z * M + rest
  BY <1>1, Division
<1>3. z \in Axis
  <2>1. 0 * M = 0 /\ cell < N * M
    BY <1>1
  <2>. QED BY <1>1, <1>2, <2>1, QuotientBounds DEF Axis
<1>4. z * N * N = z * M
  BY <1>2 DEF M
<1> HIDE DEF z, rest
<1>5. y \in Int /\ x \in 0 .. (N - 1) /\ rest = y * N + x
  BY <1>2, Division
<1>6. y \in Axis
  <2>1. 0 * N = 0 /\ rest < N * N
    BY <1>2 DEF M
  <2>. QED BY <1>2, <1>5, <2>1, QuotientBounds DEF Axis
<1> HIDE DEF y, x
<1>7. cell - z * N * N = rest
  BY <1>2, <1>3, <1>4, <1>1 DEF Axis
<1>8. rest - y * N = x
  BY <1>5
<1>9. Coordinates(cell) = <<x, y, z>>
  BY <1>7, <1>8 DEF Coordinates, z, y, M
<1>10. <<x, y, z>> \in Places
  BY <1>3, <1>5, <1>6 DEF Places, Axis
<1>11. CellIndex(<<x, y, z>>) = z * N * N + y * N + x
  BY DEF CellIndex
<1>12. z * N * N + y * N + x = cell
  BY <1>1, <1>2, <1>3, <1>4, <1>5, <1>6 DEF Axis
<1>. QED BY <1>9, <1>10, <1>11, <1>12

-----------------------------------------------------------------------------
(***************************************************************************)
(* The three nested loops.                                                 *)
(***************************************************************************)
(* What the loop along one axis visits. *)
LEMMA LoopBounds ==
  ASSUME NEW i \in Axis, NEW r \in Nat
  PROVE  /\ Low(i, r) \in Axis /\ High(i, r) \in Axis
         /\ High(i, r) - Low(i, r) + 1 \in Nat \ {0}
         /\ \A j \in Axis : Distance(j, i) <= r <=> j \in Low(i, r) .. High(i, r)
BY GeometryAssumption DEF Axis, Low, High, Distance

(* Numbers of two digits are ordered by the first digit that differs. *)
LEMMA TwoDigitsOrder ==
  ASSUME NEW b \in Nat \ {0}, NEW y \in Int, NEW v \in Int,
         NEW x \in 0 .. (b - 1), NEW u \in 0 .. (b - 1), y * b + x < v * b + u
  PROVE  y < v \/ (y = v /\ x < u)
<1>1. ASSUME v < y PROVE FALSE
  <2>1. (v + 1) * b <= y * b /\ (v + 1) * b = v * b + b
    BY <1>1, ProductMonotone
  <2>. QED BY <2>1
<1>. QED BY <1>1

(* The counters of three nested loops, from the number of the iteration. *)
LEMMA ThreeDigits ==
  ASSUME NEW p \in Nat \ {0}, NEW q \in Nat \ {0}, NEW s \in Nat \ {0},
         NEW m \in 0 .. (p * q * s - 1)
  PROVE  /\ m \div (q * s) \in 0 .. (p - 1)
         /\ (m \div s) % q \in 0 .. (q - 1)
         /\ m % s \in 0 .. (s - 1)
         /\ m = ((m \div (q * s)) * q + ((m \div s) % q)) * s + (m % s)
<1> DEFINE h == m \div s
           c == m % s
           a == h \div q
           b == h % q
<1>1. h \in Int /\ c \in 0 .. (s - 1) /\ m = h * s + c
  <2>1. m \in Int
    BY ProductPositive
  <2>. QED BY <2>1, Division
<1> HIDE DEF h, c
<1>2. a \in Int /\ b \in 0 .. (q - 1) /\ h = a * q + b
  BY <1>1, Division
<1> HIDE DEF a, b
<1>3. q * s \in Nat \ {0}
  BY ProductPositive
<1>4. b * s + c \in 0 .. (q * s - 1)
  BY <1>1, <1>2, TwoDigits
<1>5. m = a * (q * s) + (b * s + c)
  <2>1. h * s = (a * q + b) * s
    BY <1>2
  <2>2. (a * q + b) * s = a * (q * s) + b * s
    BY <1>2
  <2>. QED BY <1>1, <1>2, <2>1, <2>2, <1>4
<1>6. m \div (q * s) = a
  BY <1>2, <1>3, <1>4, <1>5, DivisionUnique
<1>7. a \in 0 .. (p - 1)
  <2>1. p * q * s = p * (q * s) /\ 0 * (q * s) = 0
    BY <1>3
  <2>2. m \in Int /\ 0 <= m /\ m < p * (q * s)
    BY <2>1, <1>3, ProductPositive
  <2>. QED BY <1>3, <2>1, <2>2, <1>6, <1>2, QuotientBounds
<1>. QED BY <1>1, <1>2, <1>6, <1>7 DEF h, c, a, b

(* Every combination of counters is reached. *)
LEMMA ThreeDigitsReached ==
  ASSUME NEW p \in Nat \ {0}, NEW q \in Nat \ {0}, NEW s \in Nat \ {0},
         NEW a \in 0 .. (p - 1), NEW b \in 0 .. (q - 1), NEW c \in 0 .. (s - 1),
         NEW m, m = (a * q + b) * s + c
  PROVE  /\ m \in 0 .. (p * q * s - 1)
         /\ m \div (q * s) = a /\ (m \div s) % q = b /\ m % s = c
<1> DEFINE h == a * q + b
<1>1. h \in 0 .. (p * q - 1) /\ h % q = b
  BY TwoDigits
<1>2. p * q \in Nat \ {0} /\ q * s \in Nat \ {0}
  BY ProductPositive
<1>7. m = h * s + c
  OBVIOUS
<1> HIDE DEF h
<1>3. m \in 0 .. (p * q * s - 1) /\ m \div s = h /\ m % s = c
  BY <1>1, <1>2, <1>7, TwoDigits
<1>4. b * s + c \in 0 .. (q * s - 1)
  BY TwoDigits
<1>5. m = a * (q * s) + (b * s + c)
  <2>1. (a * q + b) * s = a * (q * s) + b * s
    OBVIOUS
  <2>2. h * s = a * (q * s) + b * s
    BY <2>1 DEF h
  <2>3. b * s \in Int /\ a * (q * s) \in Int
    BY <1>2, ProductType
  <2>. QED BY <2>2, <2>3, <1>7
<1>6. m \div (q * s) = a
  <2>1. (a * (q * s) + (b * s + c)) \div (q * s) = a
    BY <1>2, <1>4, DivisionUnique
  <2>. QED BY <2>1, <1>5
<1>. QED BY <1>1, <1>3, <1>6

(* The order of the loops: by the first coordinate, then by the second,    *)
(* then by the third.                                                      *)
Earlier(x, y) ==
  \/ x[1] < y[1]
  \/ x[1] = y[1] /\ x[2] < y[2]
  \/ x[1] = y[1] /\ x[2] = y[2] /\ x[3] < y[3]

(* What the loops of try_lock visit, and in which order.                   *)
LEMMA CubeLoops ==
  ASSUME NEW cell \in Cells, NEW r \in Nat
  PROVE  /\ DOMAIN Cube(cell, r) \subseteq Nat
         /\ \A n \in DOMAIN Cube(cell, r) : Cube(cell, r)[n] \in Cells
         /\ Elements(Cube(cell, r)) =
              {c \in Cells : Within(Coordinates(c), Coordinates(cell), r)}
         /\ \A m, n \in DOMAIN Cube(cell, r) : m < n =>
              Earlier(Coordinates(Cube(cell, r)[m]), Coordinates(Cube(cell, r)[n]))
<1> DEFINE x == Coordinates(cell)
           Width(a) == High(x[a], r) - Low(x[a], r) + 1
           z == Cube(cell, r)
<1>1. x[1] \in Axis /\ x[2] \in Axis /\ x[3] \in Axis
  BY IndexOfCoordinates DEF Places
<1>2. z = [n \in 1 .. (Width(1) * Width(2) * Width(3)) |->
             CellIndex(<<Low(x[1], r) + ((n - 1) \div (Width(2) * Width(3))),
                         Low(x[2], r) + (((n - 1) \div Width(3)) % Width(2)),
                         Low(x[3], r) + ((n - 1) % Width(3))>>)]
  BY DEF Cube
<1> HIDE DEF x, z
<1>3. PICK p \in Nat \ {0}, q \in Nat \ {0}, s \in Nat \ {0} :
        p = Width(1) /\ q = Width(2) /\ s = Width(3)
  BY <1>1, LoopBounds
<1> DEFINE A(m) == m \div (q * s)
           B(m) == (m \div s) % q
           C(m) == m % s
           At(m) == <<Low(x[1], r) + A(m), Low(x[2], r) + B(m), Low(x[3], r) + C(m)>>
<1>14. z = [n \in 1 .. (p * q * s) |-> CellIndex(At(n - 1))]
  BY <1>2, <1>3
<1>4. \A i \in Axis : i \in Int
  BY DEF Axis
<1>5. \A a \in 1 .. 3 : Low(x[a], r) \in Int /\ High(x[a], r) \in Int
  <2>1. \A i \in Axis : Low(i, r) \in Axis /\ High(i, r) \in Axis
    BY LoopBounds
  <2>. QED BY <1>1, <1>4, <2>1
<1>6. p * q * s \in Nat \ {0}
  BY ProductPositive
<1>7. ASSUME NEW m \in 0 .. (p * q * s - 1)
      PROVE  /\ At(m)[1] \in Low(x[1], r) .. High(x[1], r)
             /\ At(m)[2] \in Low(x[2], r) .. High(x[2], r)
             /\ At(m)[3] \in Low(x[3], r) .. High(x[3], r)
             /\ A(m) \in Int /\ B(m) \in 0 .. (q - 1) /\ C(m) \in 0 .. (s - 1)
             /\ m = (A(m) * q + B(m)) * s + C(m)
  <2>1. /\ A(m) \in 0 .. (p - 1) /\ B(m) \in 0 .. (q - 1) /\ C(m) \in 0 .. (s - 1)
        /\ m = (A(m) * q + B(m)) * s + C(m)
    <3>1. A(m) \in 0 .. (p - 1)
      BY ThreeDigits
    <3>2. B(m) \in 0 .. (q - 1)
      BY ThreeDigits
    <3>3. C(m) \in 0 .. (s - 1)
      BY ThreeDigits
    <3>4. m = (A(m) * q + B(m)) * s + C(m)
      BY ThreeDigits
    <3>. QED BY <3>1, <3>2, <3>3, <3>4
  <2> HIDE DEF A, B, C
  <2>2. p = High(x[1], r) - Low(x[1], r) + 1 /\ q = High(x[2], r) - Low(x[2], r) + 1
        /\ s = High(x[3], r) - Low(x[3], r) + 1
    BY <1>3
  <2>. QED BY <2>1, <2>2, <1>5
<1> HIDE DEF A, B, C
<1>8. ASSUME NEW m \in 0 .. (p * q * s - 1)
      PROVE  /\ At(m)[1] \in Axis /\ At(m)[2] \in Axis /\ At(m)[3] \in Axis
             /\ CellIndex(At(m)) \in Cells /\ Coordinates(CellIndex(At(m))) = At(m)
             /\ Within(At(m), x, r)
  <2>1. ASSUME NEW i \in Axis, NEW j \in Low(i, r) .. High(i, r)
        PROVE  j \in Axis /\ Distance(j, i) <= r
    <3>1. Low(i, r) \in Axis /\ High(i, r) \in Axis
      BY LoopBounds
    <3>2. j \in Axis
      BY <3>1, GeometryAssumption DEF Axis
    <3>3. Distance(j, i) <= r <=> j \in Low(i, r) .. High(i, r)
      BY <3>2, LoopBounds, Zenon
    <3>. QED BY <3>2, <3>3
  <2>2. \A a \in 1 .. 3 : At(m)[a] \in Axis /\ Distance(At(m)[a], x[a]) <= r
    BY <1>1, <1>7, <2>1
  <2>3. CellIndex(At(m)) \in Cells /\ Coordinates(CellIndex(At(m))) = At(m)
    BY <2>2, CoordinatesOfIndex
  <2>. QED BY <2>2, <2>3 DEF Within
<1>9. DOMAIN z \subseteq Nat /\ \A n \in DOMAIN z : n - 1 \in 0 .. (p * q * s - 1)
  BY <1>14, <1>6
<1>10. \A n \in DOMAIN z : z[n] = CellIndex(At(n - 1))
  BY <1>14
<1>11. Elements(z) = {c \in Cells : Within(Coordinates(c), x, r)}
  <2>1. ASSUME NEW n \in DOMAIN z
        PROVE  z[n] \in Cells /\ Within(Coordinates(z[n]), x, r)
    BY <1>8, <1>9, <1>10
  <2>2. ASSUME NEW c \in Cells, Within(Coordinates(c), x, r)
        PROVE  \E n \in DOMAIN z : z[n] = c
    <3> DEFINE y == Coordinates(c)
    <3>1. y[1] \in Axis /\ y[2] \in Axis /\ y[3] \in Axis /\ y = <<y[1], y[2], y[3]>>
      BY IndexOfCoordinates DEF Places
    <3>2. \A a \in 1 .. 3 : y[a] \in Low(x[a], r) .. High(x[a], r)
      <4>1. \A a \in 1 .. 3 : Distance(y[a], x[a]) <= r
        BY <2>2 DEF Within
      <4>2. \A i, j \in Axis : Distance(j, i) <= r => j \in Low(i, r) .. High(i, r)
        BY LoopBounds
      <4>. QED BY <1>1, <3>1, <4>1, <4>2
    <3>3. CellIndex(y) = c
      BY IndexOfCoordinates
    <3> HIDE DEF y
    <3>4. /\ y[1] - Low(x[1], r) \in 0 .. (p - 1)
          /\ y[2] - Low(x[2], r) \in 0 .. (q - 1)
          /\ y[3] - Low(x[3], r) \in 0 .. (s - 1)
      BY <3>2, <1>5, <1>3
    <3>5. PICK m \in 0 .. (p * q * s - 1) :
            /\ A(m) = y[1] - Low(x[1], r)
            /\ B(m) = y[2] - Low(x[2], r)
            /\ C(m) = y[3] - Low(x[3], r)
      <4>1. PICK a \in 0 .. (p - 1), b \in 0 .. (q - 1), c3 \in 0 .. (s - 1) :
              a = y[1] - Low(x[1], r) /\ b = y[2] - Low(x[2], r) /\ c3 = y[3] - Low(x[3], r)
        BY <3>4
      <4>2. PICK m : m = (a * q + b) * s + c3
        OBVIOUS
      <4>3. m \in 0 .. (p * q * s - 1)
        BY <4>2, ThreeDigitsReached
      <4>4. m \div (q * s) = a
        BY <4>2, ThreeDigitsReached
      <4>5. (m \div s) % q = b
        <5>1. a * q + b \in Int /\ (a * q + b) % q = b
          BY TwoDigits
        <5>2. PICK h \in Int : h = a * q + b
          BY <5>1
        <5>3. m \div s = h
          BY <4>2, <5>2, DivisionUnique
        <5>. QED BY <5>1, <5>2, <5>3
      <4>6. m % s = c3
        BY <4>2, ThreeDigitsReached
      <4>. QED BY <4>1, <4>3, <4>4, <4>5, <4>6 DEF A, B, C
    <3>6. At(m) = y
      <4>1. \A a \in 1 .. 3 : y[a] \in Int
        BY <3>1, <1>4
      <4>. QED BY <3>5, <3>1, <4>1, <1>5
    <3>7. m + 1 \in DOMAIN z /\ (m + 1) - 1 = m
      BY <1>14, <1>6
    <3>. QED BY <3>3, <3>6, <3>7, <1>10
  <2>. QED BY <2>1, <2>2 DEF Elements
<1>12. ASSUME NEW m \in DOMAIN z, NEW n \in DOMAIN z, m < n
       PROVE  Earlier(Coordinates(z[m]), Coordinates(z[n]))
  <2> DEFINE i == m - 1
             j == n - 1
  <2>1. i \in 0 .. (p * q * s - 1) /\ j \in 0 .. (p * q * s - 1) /\ i < j
    BY <1>9, <1>12
  <2> HIDE DEF i, j
  <2>2. Coordinates(z[m]) = At(i) /\ Coordinates(z[n]) = At(j)
    BY <1>8, <1>10, <2>1 DEF i, j
  <2>3. A(i) < A(j) \/ (A(i) = A(j) /\ B(i) < B(j))
        \/ (A(i) = A(j) /\ B(i) = B(j) /\ C(i) < C(j))
    <3> HIDE DEF At
    <3>1. /\ A(i) \in Int /\ B(i) \in 0 .. (q - 1) /\ C(i) \in 0 .. (s - 1)
          /\ A(j) \in Int /\ B(j) \in 0 .. (q - 1) /\ C(j) \in 0 .. (s - 1)
          /\ i = (A(i) * q + B(i)) * s + C(i) /\ j = (A(j) * q + B(j)) * s + C(j)
      BY <1>7, <2>1
    <3>2. A(i) * q + B(i) \in Int /\ A(j) * q + B(j) \in Int
      BY <3>1, <1>3
    <3>3. A(i) * q + B(i) < A(j) * q + B(j)
          \/ (A(i) * q + B(i) = A(j) * q + B(j) /\ C(i) < C(j))
      <4>1. PICK g \in Int, h \in Int, c \in 0 .. (s - 1), d \in 0 .. (s - 1) :
              g = A(i) * q + B(i) /\ h = A(j) * q + B(j) /\ c = C(i) /\ d = C(j)
        BY <3>1, <3>2
      <4>2. g * s + c < h * s + d
        BY <2>1, <3>1, <4>1
      <4>3. g < h \/ (g = h /\ c < d)
        BY <4>2, TwoDigitsOrder
      <4>. QED BY <4>1, <4>3
    <3>4. CASE A(i) * q + B(i) < A(j) * q + B(j)
      BY <3>1, <3>4, TwoDigitsOrder
    <3>5. CASE A(i) * q + B(i) = A(j) * q + B(j) /\ C(i) < C(j)
      <4>1. /\ A(i) = (A(i) * q + B(i)) \div q /\ B(i) = (A(i) * q + B(i)) % q
            /\ A(j) = (A(j) * q + B(j)) \div q /\ B(j) = (A(j) * q + B(j)) % q
        BY <1>3, <3>1, DivisionUnique
      <4>. QED BY <3>5, <4>1
    <3>. QED BY <3>3, <3>4, <3>5
  <2>4. At(i)[1] < At(j)[1] \/ (At(i)[1] = At(j)[1] /\ At(i)[2] < At(j)[2])
        \/ (At(i)[1] = At(j)[1] /\ At(i)[2] = At(j)[2] /\ At(i)[3] < At(j)[3])
    <3>1. /\ A(i) \in Int /\ B(i) \in Int /\ C(i) \in Int
          /\ A(j) \in Int /\ B(j) \in Int /\ C(j) \in Int
      BY <1>7, <2>1
    <3>. QED BY <3>1, <2>3, <1>5
  <2>. QED BY <2>2, <2>4 DEF Earlier
<1>13. \A n \in DOMAIN z : z[n] \in Cells
  BY <1>8, <1>9, <1>10
<1>. QED BY <1>9, <1>11, <1>12, <1>13 DEF z, x

-----------------------------------------------------------------------------
(***************************************************************************)
(* Points.                                                                 *)
(***************************************************************************)
(* The conversion to int goes towards zero on both sides of the box; still *)
(* r cells further along an axis the quotient is at most r more.           *)
LEMMA TruncatedSteps ==
  ASSUME NEW p \in Int, NEW q \in Int, NEW r \in Nat, p - q <= r * Unit
  PROVE  Truncated(p) \in Int /\ Truncated(q) \in Int /\ Truncated(p) - Truncated(q) <= r
<1> USE GeometryAssumption
<1> DEFINE P == p \div Unit
           Q == q \div Unit
           MP == (-p) \div Unit
           MQ == (-q) \div Unit
<1>1. r * Unit \in Nat
  BY ProductType
<1>2. /\ P \in Int /\ Q \in Int /\ MP \in Int /\ MQ \in Int
  BY Division
<1>3. ASSUME p >= 0 PROVE P >= 0
  BY <1>3, QuotientBounds
<1>4. ASSUME q >= 0, p >= 0 PROVE P - Q <= r
  <2>1. q < (Q + 1) * Unit
    BY Division, <1>2
  <2>2. (Q + 1 + r) * Unit = (Q + 1) * Unit + r * Unit
    BY <1>2
  <2>3. p < (Q + 1 + r) * Unit
    BY <2>1, <2>2, <1>1, <1>2
  <2>4. P < Q + 1 + r
    BY <2>3, <1>2, QuotientBounds
  <2>. QED BY <2>4, <1>2
<1>5. ASSUME q < 0, p < 0 PROVE -MP + MQ <= r
  <2>1. -p < (MP + 1) * Unit
    BY Division, <1>2
  <2>2. (MP + 1 + r) * Unit = (MP + 1) * Unit + r * Unit
    BY <1>2
  <2>3. -q < (MP + 1 + r) * Unit
    BY <2>1, <2>2, <1>1, <1>2
  <2>4. MQ < MP + 1 + r
    BY <2>3, <1>2, QuotientBounds
  <2>. QED BY <2>4, <1>2
<1>6. ASSUME q < 0, p >= 0 PROVE P + MQ <= r
  <2>1. P * Unit <= p /\ MQ * Unit <= -q
    BY Division, <1>2
  <2>2. (P + MQ) * Unit = P * Unit + MQ * Unit
    BY <1>2
  <2>3. (P + MQ) * Unit <= r * Unit
    BY <2>1, <2>2, <1>1, <1>2
  <2>4. P + MQ > r => (r + 1) * Unit <= (P + MQ) * Unit
    BY <1>2, ProductMonotone
  <2>5. (r + 1) * Unit = r * Unit + Unit
    OBVIOUS
  <2>. QED BY <2>3, <2>4, <2>5, <1>1, <1>2
<1>7. ASSUME q < 0 PROVE MQ >= 0
  BY <1>7, QuotientBounds
<1>8. ASSUME p < 0 PROVE MP >= 0
  BY <1>8, QuotientBounds
<1>9. ASSUME q >= 0 PROVE Q >= 0
  BY <1>9, QuotientBounds
<1>10. /\ Truncated(p) = IF p < 0 THEN -MP ELSE P
       /\ Truncated(q) = IF q < 0 THEN -MQ ELSE Q
  BY DEF Truncated
<1> HIDE DEF P, Q, MP, MQ
<1>. QED BY <1>2, <1>4, <1>5, <1>6, <1>8, <1>9, <1>10

(* A point has a coordinate on each axis, wherever it lies. *)
LEMMA AxisIndexType ==
  ASSUME NEW p \in Int
  PROVE  AxisIndex(p) \in Axis
<1>1. p - p <= 0 * Unit
  BY GeometryAssumption
<1>2. Truncated(p) \in Int
  BY <1>1, TruncatedSteps
<1>. QED BY <1>2, GeometryAssumption DEF AxisIndex, Axis

(* Clamping to the grid brings indices closer at most. *)
LEMMA AxisIndexSteps ==
  ASSUME NEW p \in Int, NEW q \in Int, NEW r \in Nat, Distance(q, p) <= r * Unit
  PROVE  Distance(AxisIndex(q), AxisIndex(p)) <= r
<1>1. r * Unit \in Nat
  BY ProductType, GeometryAssumption
<1>2. p - q <= r * Unit /\ q - p <= r * Unit
  BY <1>1 DEF Distance
<1>3. /\ Truncated(p) \in Int /\ Truncated(q) \in Int
      /\ Truncated(p) - Truncated(q) <= r /\ Truncated(q) - Truncated(p) <= r
  BY <1>2, TruncatedSteps
<1>. QED BY <1>3, GeometryAssumption DEF AxisIndex, Distance

(* The cell of a point has the coordinates of the point. *)
LEMMA CellOfPointCoordinates ==
  ASSUME NEW p, p[1] \in Int, p[2] \in Int, p[3] \in Int
  PROVE  /\ CellOfPoint(p) \in Cells
         /\ Coordinates(CellOfPoint(p)) =
              <<AxisIndex(p[1]), AxisIndex(p[2]), AxisIndex(p[3])>>
BY AxisIndexType, CoordinatesOfIndex DEF CellOfPoint

-----------------------------------------------------------------------------
(***************************************************************************)
(* The requests.                                                           *)
(***************************************************************************)
Requests == point \in Int \X Int \X Int /\ radius \in Nat

(* The request keeps its type. *)
LEMMA RequestsInvariant == Spec => []Requests
<1>1. Init => Requests
  BY DEF Init, Requests
<1>2. Requests /\ [Next]_vars => Requests'
  <2> SUFFICES ASSUME Requests, [Next]_vars PROVE Requests'
    OBVIOUS
  <2>1. CASE Move
    <3>1. PICK a \in 1 .. 3, c \in Ticks :
            point' = [point EXCEPT ![a] = c] /\ UNCHANGED radius
      BY <2>1 DEF Move
    <3>2. c \in Int
      BY RequestAssumption
    <3>. QED BY <3>1, <3>2 DEF Requests
  <2>2. CASE Resize
    BY <2>2, RequestAssumption DEF Resize, Requests
  <2>3. CASE UNCHANGED vars
    BY <2>3 DEF vars, Requests
  <2>. QED BY <2>1, <2>2, <2>3 DEF Next
<1>. QED BY <1>1, <1>2, PTL DEF Spec

(* The cell from which the loops of a request start. *)
LEMMA CentreOfRequest ==
  ASSUME Requests
  PROVE  /\ CellOfPoint(point) \in Cells /\ radius \in Nat
         /\ Coordinates(CellOfPoint(point)) =
              <<AxisIndex(point[1]), AxisIndex(point[2]), AxisIndex(point[3])>>
<1>1. point[1] \in Int /\ point[2] \in Int /\ point[3] \in Int
  BY DEF Requests
<1>. QED BY <1>1, CellOfPointCoordinates DEF Requests

(* A cell has one place. *)
LEMMA PlaceOfCell ==
  ASSUME NEW c \in Cells
  PROVE  (CHOOSE x \in Axis \X Axis \X Axis : CellIndex(x) = c) = Coordinates(c)
<1>1. Coordinates(c) \in Places /\ CellIndex(Coordinates(c)) = c
  BY IndexOfCoordinates
<1>2. ASSUME NEW x \in Places, CellIndex(x) = c PROVE x = Coordinates(c)
  <2>1. x[1] \in Axis /\ x[2] \in Axis /\ x[3] \in Axis /\ x = <<x[1], x[2], x[3]>>
    BY DEF Places
  <2>. QED BY <2>1, <1>2, CoordinatesOfIndex
<1>. QED BY <1>1, <1>2 DEF Places

(* What try_lock(cell_index, radius) computes back from the number of the  *)
(* cell and visits with its loops is the set of the cells at most radius   *)
(* steps away along every axis, and no cell twice, on every grid.          *)
THEOREM CubesAreNeighbourhoods == Spec => []CubeIsNeighbourhood
<1>1. Requests => CubeIsNeighbourhood
  <2> SUFFICES ASSUME Requests PROVE CubeIsNeighbourhood
    OBVIOUS
  <2> DEFINE centre == CellOfPoint(point)
             PlaceOf(c) == CHOOSE x \in Axis \X Axis \X Axis : CellIndex(x) = c
  <2>1. centre \in Cells /\ radius \in Nat
    BY CentreOfRequest
  <2>2. \A c \in Cells : PlaceOf(c) = Coordinates(c)
    BY PlaceOfCell
  <2>3. Zone = Cube(centre, radius)
    BY DEF Zone
  <2> HIDE DEF centre, PlaceOf
  <2>4. /\ DOMAIN Zone \subseteq Nat
        /\ Elements(Zone) = {c \in Cells : Within(Coordinates(c), Coordinates(centre), radius)}
        /\ \A m, n \in DOMAIN Zone : m < n => Earlier(Coordinates(Zone[m]), Coordinates(Zone[n]))
    BY <2>1, <2>3, CubeLoops
  <2>5. Elements(Zone) = {c \in Cells : Within(PlaceOf(c), PlaceOf(centre), radius)}
    BY <2>1, <2>2, <2>4
  <2>6. ASSUME NEW m \in DOMAIN Zone, NEW n \in DOMAIN Zone, Zone[m] = Zone[n]
        PROVE  m = n
    <3>1. \A k \in Cells : ~Earlier(Coordinates(k), Coordinates(k))
      <4> SUFFICES ASSUME NEW k \in Cells PROVE ~Earlier(Coordinates(k), Coordinates(k))
        OBVIOUS
      <4>1. Coordinates(k) \in Places
        BY IndexOfCoordinates
      <4>2. \A i \in Axis : i \in Int
        BY DEF Axis
      <4>. QED BY <4>1, <4>2 DEF Places, Earlier
    <3>2. Zone[m] \in Cells
      BY <2>1, <2>3, CubeLoops
    <3>3. ~(m < n) /\ ~(n < m)
      BY <2>4, <2>6, <3>1, <3>2
    <3>. QED BY <3>3, <2>4
  <2>. QED BY <2>5, <2>6 DEF CubeIsNeighbourhood, PlaceOf, centre
<1>. QED BY <1>1, RequestsInvariant, PTL

(* Locking a point with radius r locks every point within r cells of it,   *)
(* for every resolution and wherever the points are, the outside of the    *)
(* bounding box included.                                                  *)
THEOREM LocksCoverClosePoints == Spec => []ClosePointsAreLocked
<1>1. Requests => ClosePointsAreLocked
  <2> SUFFICES ASSUME Requests, NEW q \in Points, Within(q, point, radius * Unit)
               PROVE  CellOfPoint(q) \in Elements(Zone)
    BY DEF ClosePointsAreLocked
  <2> DEFINE centre == CellOfPoint(point)
  <2>1. /\ centre \in Cells /\ radius \in Nat
        /\ Coordinates(centre) = <<AxisIndex(point[1]), AxisIndex(point[2]), AxisIndex(point[3])>>
    BY CentreOfRequest
  <2>2. /\ point[1] \in Int /\ point[2] \in Int /\ point[3] \in Int
        /\ q[1] \in Int /\ q[2] \in Int /\ q[3] \in Int
    BY RequestAssumption DEF Requests, Points
  <2>3. /\ CellOfPoint(q) \in Cells
        /\ Coordinates(CellOfPoint(q)) = <<AxisIndex(q[1]), AxisIndex(q[2]), AxisIndex(q[3])>>
    BY <2>2, CellOfPointCoordinates
  <2>4. \A a \in 1 .. 3 : Distance(q[a], point[a]) <= radius * Unit
    BY DEF Within
  <2>5. /\ Distance(AxisIndex(q[1]), AxisIndex(point[1])) <= radius
        /\ Distance(AxisIndex(q[2]), AxisIndex(point[2])) <= radius
        /\ Distance(AxisIndex(q[3]), AxisIndex(point[3])) <= radius
    BY <2>1, <2>2, <2>4, AxisIndexSteps
  <2> HIDE DEF centre
  <2>6. Within(Coordinates(CellOfPoint(q)), Coordinates(centre), radius)
    BY <2>1, <2>3, <2>5 DEF Within
  <2>7. Elements(Zone) = {c \in Cells : Within(Coordinates(c), Coordinates(centre), radius)}
    BY <2>1, CubeLoops DEF Zone, centre
  <2>. QED BY <2>3, <2>6, <2>7
<1>. QED BY <1>1, RequestsInvariant, PTL

(* The order of the loops depends neither on where a cube lies nor on its  *)
(* radius: any two requests visit the cells that they share in one order,  *)
(* because each visits its own in lexicographic order.                     *)
THEOREM CubesShareOneOrder == Spec => []CubesAgreeOnOrder
<1>1. Requests => CubesAgreeOnOrder
  <2> DEFINE Order(w) == \A m, n \in DOMAIN w : m < n =>
                           Earlier(Coordinates(w[m]), Coordinates(w[n]))
             Rank(w, d) == CHOOSE n \in DOMAIN w : w[n] = d
  <2> SUFFICES ASSUME Requests, NEW c \in Cells, NEW r \in 0..MaxRadius,
                      NEW m \in DOMAIN Zone, NEW n \in DOMAIN Zone,
                      Zone[m] \in Elements(Cube(c, r)),
                      Zone[n] \in Elements(Cube(c, r)), m < n
               PROVE  Rank(Cube(c, r), Zone[m]) < Rank(Cube(c, r), Zone[n])
    BY DEF CubesAgreeOnOrder
  <2>1. PICK w : w = Cube(c, r)
    OBVIOUS
  <2>2. DOMAIN w \subseteq Nat /\ Order(w)
    BY <2>1, RequestAssumption, CubeLoops
  <2>3. Order(Zone) /\ Zone[m] \in Cells /\ Zone[n] \in Cells
    BY CentreOfRequest, CubeLoops DEF Zone
  <2>4. PICK i \in DOMAIN w : w[i] = Zone[m] /\ i = Rank(w, Zone[m])
    BY <2>1 DEF Elements
  <2>5. PICK j \in DOMAIN w : w[j] = Zone[n] /\ j = Rank(w, Zone[n])
    BY <2>1 DEF Elements
  <2>6. \A k \in Cells : Coordinates(k)[1] \in Int /\ Coordinates(k)[2] \in Int
                         /\ Coordinates(k)[3] \in Int
    BY IndexOfCoordinates DEF Places, Axis
  <2>7. ~Earlier(Coordinates(Zone[n]), Coordinates(Zone[m])) /\ Zone[m] # Zone[n]
    BY <2>3, <2>6 DEF Earlier
  <2>8. i < j
    BY <2>2, <2>4, <2>5, <2>7
  <2>. QED BY <2>1, <2>4, <2>5, <2>8
<1>. QED BY <1>1, RequestsInvariant, PTL

=============================================================================
