------------------------------ MODULE MCLockGrid ------------------------------
(***************************************************************************)
(* Three cells and the three cubes of two of them, each in the order its   *)
(* loops visit them: the smallest zones with partial overlap and a cycle.  *)
(* With two cells, the one cube in both orders.                            *)
(***************************************************************************)
EXTENDS LockGrid, TLC

CONSTANTS t1, t2, t3

MCCells == 1..3

MCZones == {<<1, 2>>, <<2, 3>>, <<3, 1>>}

MCCells2 == 1..2

MCZones2 == {<<1, 2>>, <<2, 1>>}

MCSymmetry == Permutations(Threads)
===============================================================================
