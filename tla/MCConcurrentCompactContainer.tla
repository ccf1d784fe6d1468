---------------------- MODULE MCConcurrentCompactContainer ----------------------
(***************************************************************************)
(* Two threads, blocks of one, two, ... slots, a copied triangulation of   *)
(* two elements whose stamps leave gaps, and slots erased twice.           *)
(***************************************************************************)
EXTENDS ConcurrentCompactContainer, TLC

CONSTANTS t1, t2

MCForeign == {1, 3}

MCSymmetry == Permutations(Threads)
===============================================================================
