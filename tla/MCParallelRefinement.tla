------------------------- MODULE MCParallelRefinement -------------------------
(* Cells with three vertices, the least that find_conflicts works on, over  *)
(* two regions: a cell on either side and one across the border.  Two       *)
(* threads refine a small triangulation, some of whose elements are bad.    *)
EXTENDS ParallelRefinement, Sequences

RowShapes == <<<<1, 1, 1>>, <<1, 1, 2>>, <<2, 2, 2>>>>

RowLength == Len(RowShapes)

MCThreads == {1, 2}
MCCorners == {1, 2, 3}
MCRegions == {1, 2}
MCBatchSizes == {1, 2}
MCShapes == {RowShapes[s] : s \in DOMAIN RowShapes}
MCSlots == 1 .. RowLength + StarSize

Row(n) == InitWith(1 .. n, [s \in Slots |-> RowShapes[IF s > RowLength THEN 1 ELSE s]])

BadCells(n) == {CellElement(s) : s \in {1, n}}

Facet == FacetElement(1, 1, 2)

(* The ends of the row are bad and in different batches; or two neighbours, *)
(* with a facet on the surface between them; or such a facet is bad too,    *)
(* and buffers have to be filled, and refinement creates a bad element.     *)
MCInit ==
  \/ /\ Row(RowLength)
     /\ batchSize = 1 /\ born = MaxBorn /\ surface = {} /\ bad = BadCells(RowLength)
  \/ /\ Row(2)
     /\ batchSize = 1 /\ born = MaxBorn /\ surface = {Facet} /\ bad = BadCells(2)
  \/ /\ Row(2)
     /\ batchSize = 2 /\ born = 0 /\ surface = {Facet} /\ bad = {Facet, CellElement(2)}

MCSpec == MCInit /\ [][Next]_vars
MCFairSpec == MCSpec /\ Fairness
===============================================================================
