------------------------------ MODULE CellLocks ------------------------------
(***************************************************************************)
(* What a lock data structure of the concept SurjectiveLockDataStructure   *)
(* promises to its users: a cell has at most one owner, a cell is taken    *)
(* only when it is free, and only by its owner is it given back.  It says  *)
(* nothing of how a cell is found, of priorities, of waiting or of the     *)
(* thread-local copies; LockGrid is shown to implement it.                 *)
(***************************************************************************)
CONSTANTS Threads, Cells

VARIABLE owner    \* owner[c]: the threads that own cell c, at most one

TypeOK == owner \in [Cells -> {{}} \cup {{t} : t \in Threads}]

Init == owner = [c \in Cells |-> {}]

Acquire(t, c) ==
  /\ owner[c] = {}
  /\ owner' = [owner EXCEPT ![c] = {t}]

Release(t, c) ==
  /\ owner[c] = {t}
  /\ owner' = [owner EXCEPT ![c] = {}]

Next == \E t \in Threads, c \in Cells : Acquire(t, c) \/ Release(t, c)

Spec == Init /\ [][Next]_owner
==============================================================================
