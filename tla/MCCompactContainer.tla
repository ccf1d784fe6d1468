-------------------------- MODULE MCCompactContainer --------------------------
(***************************************************************************)
(* Two containers with blocks of two, four, ... slots on a small heap.    *)
(***************************************************************************)
EXTENDS CompactContainer, TLC

CONSTANTS a, b

MCGarbage == {Unset, 0}

MCSymmetry == Permutations(Containers)
===============================================================================
