---------------------------- MODULE LockGridProofs ----------------------------
(***************************************************************************)
(* The lock grid, for any number of threads and cells, any zones and both  *)
(* specialisations.  The inductive invariant has four parts: what a thread *)
(* is doing (CallInv), what its thread-local copies say (LoopInv), how the *)
(* shared grid and the thread-local copies agree (GridInv), and the        *)
(* priorities (PrioInv).                                                   *)
(***************************************************************************)
EXTENDS LockGrid, WellFoundedInduction, TLAPS

(* Where a thread stands in its zone, and which cells that obliges it to   *)
(* hold.                                                                   *)
CallInv(t) ==
  /\ (pc[t] \in {"try", "yield", "rollback"} \/ result[t] # "none")
       => zone[t] \in Zones /\ pos[t] <= Len(zone[t])
  /\ pc[t] # "idle" => result[t] = "none"
  /\ pc[t] \in {"try", "yield"} => Granted(t) \subseteq flag[t]
  /\ pc[t] = "rollback" => Granted(t) \cap flag[t] \subseteq todo[t]
  /\ result[t] = "yes" =>
       pos[t] = Len(zone[t]) /\ Granted(t) \cup {Target(t)} \subseteq flag[t]
  /\ result[t] = "no" => Granted(t) \cap flag[t] = {}

(* Every flagged cell is listed, and an unlock loop only frees cells that  *)
(* are flagged.                                                            *)
LoopInv(t) ==
  /\ flag[t] \subseteq list[t]
  /\ todo[t] \subseteq flag[t]
  /\ gone[t] \subseteq todo[t]
  /\ pc[t] \notin {"rollback", "unlocking"} => todo[t] = {}
  /\ pc[t] = "unlocking" => flag[t] \ todo[t] \subseteq keep[t]

(* A cell is marked in the grid by exactly the thread that holds it. *)
GridInv ==
  /\ \A t \in Threads : \A c \in Holds(t) : grid[c] = Mark(t) /\ grid[c] # 0
  /\ \A t, u \in Threads : t # u => Holds(t) \cap Holds(u) = {}
  /\ \A c \in Cells : grid[c] # 0 => \E t \in Threads : c \in Holds(t)

(* The priorities drawn so far are different. *)
PrioInv ==
  /\ \A t \in Threads : prio[t] <= lastId + 1
  /\ \A t, u \in Threads : t # u /\ prio[t] # 0 => prio[t] # prio[u]

Inv ==
  /\ TypeOK
  /\ \A t \in Threads : CallInv(t) /\ LoopInv(t)
  /\ GridInv
  /\ PrioInv

-----------------------------------------------------------------------------
(* Below the bound neither the counter nor the priorities wrap. *)
LEMMA SmallModulo ==
  ASSUME NEW m \in Nat, NEW n \in Nat, m < n
  PROVE  m % n = m
  OBVIOUS

(* So a thread that draws its priority gets one that nobody has drawn. *)
LEMMA DrawnPriority ==
  ASSUME TypeOK, NEW t \in Threads, DrawPriority(t)
  PROVE  /\ lastId < IdBound
         /\ lastId' = lastId + 1
         /\ prio' = [prio EXCEPT ![t] = lastId + 2]
<1>1. lastId \in Nat /\ lastId < IdBound /\ lastId' = (lastId + 1) % (MaxUInt + 1)
  BY DEF TypeOK, DrawPriority
<1>2. lastId + 1 < MaxUInt + 1 /\ lastId + 1 < MaxUInt
  BY <1>1, BoundAssumption
<1>3. (lastId + 1) % (MaxUInt + 1) = lastId + 1
  BY <1>1, <1>2, SmallModulo, BoundAssumption
<1>4. (lastId + 1) % MaxUInt = lastId + 1
  BY <1>1, <1>2, SmallModulo, BoundAssumption
<1>5. PriorityOf(lastId') = lastId + 2
  BY <1>1, <1>3, <1>4 DEF PriorityOf
<1> QED
  BY <1>1, <1>3, <1>5 DEF DrawPriority

(* What the cells of a zone, those already granted and the one being tried *)
(* have in common: they are cells.                                         *)
LEMMA ZoneCells ==
  ASSUME NEW z \in Zones, NEW i \in 1..Len(z)
  PROVE  z[i] \in Cells
  BY ZonesAssumption

(* The initial state satisfies the invariant. *)
LEMMA InitInv == Init => Inv
<1> SUFFICES ASSUME Init PROVE Inv
  OBVIOUS
<1>1. TypeOK
  BY BoundAssumption DEF Init, TypeOK, Labels, Results
<1>2. \A t \in Threads : CallInv(t) /\ LoopInv(t)
  BY DEF Init, CallInv, LoopInv
<1>3. GridInv
  BY DEF Init, GridInv, Holds
<1>4. PrioInv
  BY DEF Init, PrioInv
<1> QED
  BY <1>1, <1>2, <1>3, <1>4 DEF Inv

-----------------------------------------------------------------------------
(* Going on to the next cell of the zone, or returning true. *)
LEMMA AdvanceType ==
  ASSUME TypeOK, NEW t \in Threads, Advance(t)
  PROVE  /\ pos' \in [Threads -> Nat \ {0}]
         /\ pc' \in [Threads -> Labels]
         /\ noSpin' \in [Threads -> BOOLEAN]
         /\ result' \in [Threads -> Results]
<1>1. CASE /\ pos' = [pos EXCEPT ![t] = @ + 1]
           /\ UNCHANGED <<pc, noSpin, result>>
  BY <1>1 DEF TypeOK
<1>2. CASE /\ pc' = [pc EXCEPT ![t] = "idle"]
           /\ noSpin' = [noSpin EXCEPT ![t] = FALSE]
           /\ result' = [result EXCEPT ![t] = "yes"]
           /\ UNCHANGED pos
  BY <1>2 DEF TypeOK, Labels, Results
<1> QED
  BY <1>1, <1>2 DEF Advance

(* Type correctness is preserved: of a thread's step, what matters is that *)
(* a zone has only cells and that a priority fits an unsigned int.         *)
LEMMA TypeStep ==
  ASSUME Inv, NEW t \in Threads, Running(t) \/ Calling(t)
  PROVE  TypeOK'
<1> USE ZonesAssumption, BoundAssumption DEF Inv, TypeOK, Labels, Results, shared, local, loop
<1>1. CASE TryLock(t)
  BY <1>1 DEF TryLock
<1>2. CASE DrawPriority(t)
  <2>1. /\ lastId < IdBound
        /\ lastId' = lastId + 1
        /\ prio' = [prio EXCEPT ![t] = lastId + 2]
    BY <1>2, DrawnPriority
  <2> QED
    BY <1>2, <2>1 DEF DrawPriority
<1>3. CASE AlreadyMine(t)
  BY <1>3, AdvanceType DEF AlreadyMine
<1>4. CASE CasSucceeds(t)
  <2>1. Target(t) \in Cells /\ Mark(t) \in 0..MaxUInt
    BY <1>4, ZoneCells DEF CasSucceeds, AtCas, CallInv, Target, Mark
  <2>2. flag[t] \cup {Target(t)} \subseteq Cells /\ list[t] \cup {Target(t)} \subseteq Cells
    BY <2>1
  <2>3. /\ pos' \in [Threads -> Nat \ {0}]
        /\ pc' \in [Threads -> Labels]
        /\ noSpin' \in [Threads -> BOOLEAN]
        /\ result' \in [Threads -> Results]
    BY <1>4, AdvanceType DEF CasSucceeds
  <2> QED
    BY <1>4, <2>1, <2>2, <2>3 DEF CasSucceeds
<1>5. CASE CasFails(t) \/ BackOff(t)
  <2>1. Granted(t) \subseteq Cells
    BY <1>5, ZoneCells DEF CasFails, BackOff, AtCas, CallInv, Granted
  <2>2. GiveUp(t)
    BY <1>5 DEF CasFails, BackOff
  <2> QED
    BY <2>1, <2>2 DEF GiveUp
<1>6. CASE Yield(t)
  BY <1>6 DEF Yield
<1>7. CASE Retry(t)
  BY <1>7 DEF Retry
<1>8. CASE RollbackDone(t)
  BY <1>8 DEF RollbackDone
<1>9. CASE FreeCell(t)
  BY <1>9 DEF FreeCell
<1>10. CASE ClearFlag(t)
  BY <1>10 DEF ClearFlag
<1>11. CASE UnlockAll(t) \/ UnlockAllButOne(t)
  <2>1. PICK spare : StartUnlocking(t, spare)
    BY <1>11 DEF UnlockAll, UnlockAllButOne
  <2>2. /\ (list[t] \cap flag[t]) \ spare \in SUBSET Cells
        /\ list[t] \cap flag[t] \cap spare \in SUBSET Cells
    OBVIOUS
  <2> QED
    BY <2>1, <2>2 DEF StartUnlocking
<1>12. CASE UnlockingDone(t)
  BY <1>12 DEF UnlockingDone
<1> QED
  BY <1>1, <1>2, <1>3, <1>4, <1>5, <1>6, <1>7, <1>8, <1>9, <1>10, <1>11, <1>12
  DEF Running, Calling

(* A step of one thread leaves what every other thread is doing alone. *)
LEMMA OthersStep ==
  ASSUME Inv, NEW t \in Threads, Running(t) \/ Calling(t),
         NEW u \in Threads, u # t
  PROVE  CallInv(u)' /\ LoopInv(u)'
<1>1. /\ pc'[u] = pc[u] /\ zone'[u] = zone[u] /\ pos'[u] = pos[u]
      /\ flag'[u] = flag[u] /\ list'[u] = list[u] /\ todo'[u] = todo[u]
      /\ gone'[u] = gone[u] /\ keep'[u] = keep[u] /\ result'[u] = result[u]
  <2> USE DEF Inv, TypeOK, shared, local, loop
  <2>1. CASE TryLock(t) \/ DrawPriority(t)
    BY <2>1 DEF TryLock, DrawPriority
  <2>2. CASE AlreadyMine(t) \/ CasSucceeds(t)
    BY <2>2 DEF AlreadyMine, CasSucceeds, Advance
  <2>3. CASE CasFails(t) \/ BackOff(t)
    BY <2>3 DEF CasFails, BackOff, GiveUp
  <2>4. CASE Yield(t) \/ Retry(t) \/ RollbackDone(t)
    BY <2>4 DEF Yield, Retry, RollbackDone
  <2>5. CASE FreeCell(t) \/ ClearFlag(t)
    BY <2>5 DEF FreeCell, ClearFlag
  <2>6. CASE UnlockAll(t) \/ UnlockAllButOne(t) \/ UnlockingDone(t)
    BY <2>6 DEF UnlockAll, UnlockAllButOne, StartUnlocking, UnlockingDone
  <2> QED
    BY <2>1, <2>2, <2>3, <2>4, <2>5, <2>6 DEF Running, Calling
<1>2. CallInv(u) /\ LoopInv(u)
  BY DEF Inv
<1> QED
  BY <1>1, <1>2 DEF CallInv, LoopInv, Granted, Target

(* The thread that makes a step keeps its own obligations. *)
LEMMA OwnStep ==
  ASSUME Inv, NEW t \in Threads, Running(t) \/ Calling(t)
  PROVE  CallInv(t)' /\ LoopInv(t)'
<1> USE ZonesAssumption DEF shared, local, loop
<1>0. CallInv(t) /\ LoopInv(t) /\ TypeOK
  BY DEF Inv
<1>1. CASE TryLock(t)
  BY <1>0, <1>1 DEF TryLock, CallInv, LoopInv, Granted, TypeOK
<1>2. CASE DrawPriority(t)
  BY <1>0, <1>2 DEF DrawPriority, CallInv, LoopInv, Granted, Target
<1>3. CASE AlreadyMine(t)
  BY <1>0, <1>3 DEF AlreadyMine, Advance, CallInv, LoopInv, Granted, Target, TypeOK
<1>4. CASE CasSucceeds(t)
  <2>1. CallInv(t)'
    BY <1>0, <1>4 DEF CasSucceeds, AtCas, Advance, CallInv, Granted, Target, TypeOK
  <2>2. LoopInv(t)'
    BY <1>0, <1>4 DEF CasSucceeds, AtCas, Advance, LoopInv, TypeOK
  <2> QED
    BY <2>1, <2>2
<1>5. CASE CasFails(t) \/ BackOff(t)
  BY <1>0, <1>5 DEF CasFails, BackOff, AtCas, GiveUp, CallInv, LoopInv, Granted, TypeOK
<1>6. CASE Yield(t) \/ Retry(t)
  BY <1>0, <1>6 DEF Yield, Retry, AtCas, CallInv, LoopInv, Granted, Target, TypeOK
<1>7. CASE RollbackDone(t)
  BY <1>0, <1>7 DEF RollbackDone, CallInv, LoopInv, Granted, Target, TypeOK
<1>8. CASE FreeCell(t)
  BY <1>0, <1>8 DEF FreeCell, CallInv, LoopInv, Granted, Target, TypeOK
<1>9. CASE ClearFlag(t)
  BY <1>0, <1>9 DEF ClearFlag, CallInv, LoopInv, Granted, Target, TypeOK
<1>10. CASE UnlockAll(t) \/ UnlockAllButOne(t)
  BY <1>0, <1>10 DEF UnlockAll, UnlockAllButOne, StartUnlocking, CallInv, LoopInv, Granted, TypeOK
<1>11. CASE UnlockingDone(t)
  BY <1>0, <1>11 DEF UnlockingDone, CallInv, LoopInv, Granted, Target, TypeOK
<1> QED
  BY <1>1, <1>2, <1>3, <1>4, <1>5, <1>6, <1>7, <1>8, <1>9, <1>10, <1>11
  DEF Running, Calling

(* Only two actions change who holds what. *)
LEMMA HoldersUnchanged ==
  ASSUME TypeOK, NEW t \in Threads, Running(t) \/ Calling(t),
         ~CasSucceeds(t), ~FreeCell(t)
  PROVE  \A u \in Threads : Holds(u)' = Holds(u)
<1> USE DEF shared, local, loop
<1>1. CASE ClearFlag(t)
  BY <1>1 DEF ClearFlag, Holds, TypeOK
<1>2. CASE ~ClearFlag(t)
  BY <1>2 DEF Running, Calling, TryLock, DrawPriority, AlreadyMine, CasFails, BackOff, GiveUp,
     Yield, Retry, RollbackDone, UnlockAll, UnlockAllButOne, StartUnlocking, UnlockingDone, Holds
<1> QED
  BY <1>1, <1>2

(* The grid and the thread-local copies agree after every step: they may   *)
(* disagree only about a cell that is being taken, which nobody holds, or  *)
(* about one that its holder is freeing.                                   *)
LEMMA GridStep ==
  ASSUME Inv, NEW t \in Threads, Running(t) \/ Calling(t)
  PROVE  GridInv'
<1> USE DEF shared, local, loop
<1>0. TypeOK /\ GridInv /\ CallInv(t) /\ LoopInv(t)
  BY DEF Inv
<1>1. CASE CasSucceeds(t)
  <2> DEFINE c == Target(t)
  <2>1. c \in Cells
    BY <1>0, <1>1, ZoneCells DEF CasSucceeds, AtCas, CallInv, Target, TypeOK
  <2>2. Mark(t) # 0 /\ Mark(t)' = Mark(t)
    BY <1>0, <1>1 DEF CasSucceeds, AtCas, Mark, TypeOK
  <2>3. todo[t] = {} /\ gone[t] = {}
    BY <1>0, <1>1 DEF CasSucceeds, AtCas, LoopInv
  <2>4. \A u \in Threads : Holds(u)' = IF u = t THEN Holds(t) \cup {c} ELSE Holds(u)
    BY <1>0, <1>1, <2>3 DEF CasSucceeds, Holds, TypeOK
  <2>5. \A u \in Threads : c \notin Holds(u) /\ Mark(u)' = Mark(u)
    BY <1>0, <1>1 DEF CasSucceeds, GridInv, Mark
  <2>6. grid' = [grid EXCEPT ![c] = Mark(t)]
    BY <1>1 DEF CasSucceeds
  <2> HIDE DEF c
  <2>7. \A u \in Threads : \A d \in Holds(u)' : grid'[d] = Mark(u)' /\ grid'[d] # 0
    <3> SUFFICES ASSUME NEW u \in Threads, NEW d \in Holds(u)'
                 PROVE  grid'[d] = Mark(u)' /\ grid'[d] # 0
      OBVIOUS
    <3>1. CASE d = c
      BY <1>0, <2>1, <2>2, <2>4, <2>5, <2>6, <3>1 DEF TypeOK
    <3>2. CASE d # c
      <4>1. d \in Holds(u) /\ d \in Cells
        BY <1>0, <2>4, <3>2 DEF Holds, TypeOK
      <4> QED
        BY <1>0, <2>1, <2>5, <2>6, <3>2, <4>1 DEF GridInv, TypeOK
    <3> QED
      BY <3>1, <3>2
  <2>8. \A u, v \in Threads : u # v => Holds(u)' \cap Holds(v)' = {}
    BY <1>0, <2>4, <2>5 DEF GridInv
  <2>9. \A d \in Cells : grid'[d] # 0 => \E u \in Threads : d \in Holds(u)'
    <3> SUFFICES ASSUME NEW d \in Cells, grid'[d] # 0
                 PROVE  \E u \in Threads : d \in Holds(u)'
      OBVIOUS
    <3>1. CASE d = c
      BY <2>4, <3>1
    <3>2. CASE d # c
      <4>1. grid[d] # 0
        BY <1>0, <2>6, <3>2 DEF TypeOK
      <4>2. PICK u \in Threads : d \in Holds(u)
        BY <1>0, <4>1 DEF GridInv
      <4> QED
        BY <2>4, <4>2
    <3> QED
      BY <3>1, <3>2
  <2> QED
    BY <2>7, <2>8, <2>9 DEF GridInv
<1>2. CASE FreeCell(t)
  <2>1. PICK c \in todo[t] : /\ grid' = [grid EXCEPT ![c] = 0]
                             /\ gone' = [gone EXCEPT ![t] = {c}]
    BY <1>2 DEF FreeCell
  <2>2. c \in Holds(t) /\ c \in Cells
    BY <1>0, <1>2, <2>1 DEF FreeCell, LoopInv, Holds, TypeOK
  <2>3. \A u \in Threads : Holds(u)' = IF u = t THEN Holds(t) \ {c} ELSE Holds(u)
    BY <1>0, <1>2, <2>1 DEF FreeCell, Holds, TypeOK
  <2>4. \A u \in Threads : Mark(u)' = Mark(u)
    BY <1>2 DEF FreeCell, Mark
  <2>5. \A u \in Threads : c \notin Holds(u)'
    BY <1>0, <2>2, <2>3 DEF GridInv
  <2>6. \A u \in Threads : \A d \in Holds(u)' : grid'[d] = Mark(u)' /\ grid'[d] # 0
    <3> SUFFICES ASSUME NEW u \in Threads, NEW d \in Holds(u)'
                 PROVE  grid'[d] = Mark(u)' /\ grid'[d] # 0
      OBVIOUS
    <3>1. d # c /\ d \in Holds(u) /\ d \in Cells
      BY <1>0, <2>3, <2>5 DEF Holds, TypeOK
    <3> QED
      BY <1>0, <2>1, <2>2, <2>4, <3>1 DEF GridInv, TypeOK
  <2>7. \A u, v \in Threads : u # v => Holds(u)' \cap Holds(v)' = {}
    BY <1>0, <2>3 DEF GridInv
  <2>8. \A d \in Cells : grid'[d] # 0 => \E u \in Threads : d \in Holds(u)'
    <3> SUFFICES ASSUME NEW d \in Cells, grid'[d] # 0
                 PROVE  \E u \in Threads : d \in Holds(u)'
      OBVIOUS
    <3>1. d # c /\ grid[d] # 0
      BY <1>0, <2>1, <2>2 DEF TypeOK
    <3>2. PICK u \in Threads : d \in Holds(u)
      BY <1>0, <3>1 DEF GridInv
    <3> QED
      BY <2>3, <3>1, <3>2
  <2> QED
    BY <2>6, <2>7, <2>8 DEF GridInv
<1>3. CASE DrawPriority(t)
  <2>1. Holds(t) = {}
    BY <1>0, <1>3 DEF DrawPriority, GridInv, Mark
  <2>2. \A u \in Threads : Holds(u)' = Holds(u) /\ (u # t => Mark(u)' = Mark(u))
    BY <1>0, <1>3 DEF DrawPriority, Holds, Mark, TypeOK
  <2> QED
    BY <1>0, <1>3, <2>1, <2>2 DEF DrawPriority, GridInv
<1>4. CASE ~CasSucceeds(t) /\ ~FreeCell(t) /\ ~DrawPriority(t)
  <2>1. grid' = grid /\ prio' = prio
    BY <1>4 DEF Running, Calling, TryLock, AlreadyMine, CasFails, BackOff, GiveUp, Yield,
       Retry, RollbackDone, ClearFlag, UnlockAll, UnlockAllButOne, StartUnlocking, UnlockingDone
  <2>2. \A u \in Threads : Holds(u)' = Holds(u)
    BY <1>0, <1>4, HoldersUnchanged
  <2> QED
    BY <1>0, <2>1, <2>2 DEF GridInv, Mark
<1> QED
  BY <1>1, <1>2, <1>3, <1>4

(* A priority is drawn once, and the next one drawn is larger. *)
LEMMA PrioStep ==
  ASSUME Inv, NEW t \in Threads, Running(t) \/ Calling(t)
  PROVE  PrioInv'
<1> USE DEF Inv, shared, local, loop
<1>1. CASE DrawPriority(t)
  <2>1. /\ lastId' = lastId + 1
        /\ prio' = [prio EXCEPT ![t] = lastId + 2]
    BY <1>1, DrawnPriority
  <2> QED
    BY <2>1 DEF PrioInv, TypeOK
<1>2. CASE ~DrawPriority(t)
  <2>1. prio' = prio /\ lastId' = lastId
    BY <1>2 DEF Running, Calling, TryLock, AlreadyMine, CasSucceeds, CasFails, BackOff, GiveUp,
       Yield, Retry, RollbackDone, FreeCell, ClearFlag, UnlockAll, UnlockAllButOne,
       StartUnlocking, UnlockingDone
  <2> QED
    BY <2>1 DEF PrioInv
<1> QED
  BY <1>1, <1>2

(* The invariant is inductive. *)
LEMMA NextInv == Inv /\ [Next]_vars => Inv'
<1> SUFFICES ASSUME Inv, [Next]_vars PROVE Inv'
  OBVIOUS
<1>1. CASE UNCHANGED vars
  BY <1>1 DEF vars, shared, local, loop, Inv, TypeOK, CallInv, LoopInv, GridInv, PrioInv,
     Granted, Target, Holds, Mark
<1>2. CASE Next
  <2>1. PICK t \in Threads : Running(t) \/ Calling(t)
    BY <1>2 DEF Next
  <2>2. \A u \in Threads : CallInv(u)' /\ LoopInv(u)'
    BY <2>1, OwnStep, OthersStep
  <2> QED
    BY <2>1, <2>2, TypeStep, GridStep, PrioStep DEF Inv
<1> QED
  BY <1>1, <1>2

(* The lock grid never leaves its invariant. *)
THEOREM Invariance == Spec => []Inv
  BY InitInv, NextInv, PTL DEF Spec

(* Every variable keeps its type: no step writes a mark, a position or a   *)
(* cell that the program could not hold.                                   *)
THEOREM Typing == Spec => []TypeOK
<1>1. Inv => TypeOK
  BY DEF Inv
<1> QED
  BY <1>1, Invariance, PTL

(***************************************************************************)
(* What the invariant gives.                                               *)
(***************************************************************************)
(* "When a thread owns the lock of an object, no other thread can lock the *)
(* same object" (SurjectiveLockDataStructure), for both grids.             *)
THEOREM MutualExclusion == Spec => []ExclusiveCells
<1>1. Inv => ExclusiveCells
  BY DEF Inv, GridInv, ExclusiveCells, IsLocked
<1> QED
  BY <1>1, Invariance, PTL

(* unlock_all_points_locked_by_this_thread reaches every cell its thread   *)
(* has locked: a locked cell has a holder whose list names it.             *)
THEOREM NoLeak == Spec => []NoLeakedCell
<1>1. Inv => NoLeakedCell
  <2> SUFFICES ASSUME Inv, NEW c \in Cells, grid[c] # 0
               PROVE  \E t \in Threads : c \in Holds(t) /\ c \in list[t]
    BY DEF NoLeakedCell, IsLocked
  <2>1. PICK t \in Threads : c \in Holds(t)
    BY DEF Inv, GridInv
  <2>2. c \in list[t]
    BY <2>1 DEF Inv, LoopInv, Holds
  <2> QED
    BY <2>1, <2>2
<1> QED
  BY <1>1, Invariance, PTL

(* A try_lock that returned true left its caller the whole zone. *)
THEOREM GrantedZones == Spec => []GrantedZoneIsHeld
<1>1. Inv => GrantedZoneIsHeld
  <2> SUFFICES ASSUME Inv, NEW t \in Threads, pc[t] = "idle", result[t] = "yes",
                      NEW i \in 1..Len(zone[t])
               PROVE  zone[t][i] \in Holds(t)
    BY DEF GrantedZoneIsHeld
  <2>1. CallInv(t) /\ LoopInv(t)
    BY DEF Inv
  <2>2. gone[t] = {}
    BY <2>1 DEF LoopInv
  <2>3. pos[t] = Len(zone[t]) /\ Granted(t) \cup {Target(t)} \subseteq flag[t]
    BY <2>1 DEF CallInv
  <2>4. CASE i = pos[t]
    BY <2>2, <2>3, <2>4 DEF Holds, Target
  <2>5. CASE i # pos[t]
    <3>1. i \in 1..(pos[t] - 1)
      BY <2>3, <2>5
    <3> QED
      BY <2>2, <2>3, <3>1 DEF Holds, Granted
  <2> QED
    BY <2>4, <2>5
<1> QED
  BY <1>1, Invariance, PTL

(* A try_lock that returned false holds none of the cells it had tried. *)
THEOREM FailedZones == Spec => []FailedZoneIsFreed
<1>1. Inv => FailedZoneIsFreed
  BY DEF Inv, CallInv, FailedZoneIsFreed
<1> QED
  BY <1>1, Invariance, PTL

(* A thread only spins on a cell of a thread of strictly lower priority. *)
LEMMA SpinsDownwards ==
  ASSUME Inv, NEW t \in Threads, NEW u \in Threads, SpinsOn(t, u)
  PROVE  prio[u] < prio[t]
<1>1. t # u
  BY DEF SpinsOn, Holds
<1>2. Blocking /\ prio[t] # 0 /\ grid[Target(t)] <= prio[t] /\ Target(t) \in Holds(u)
  BY DEF SpinsOn, MayWait
<1>3. grid[Target(t)] = prio[u]
  BY <1>2 DEF Inv, GridInv, Mark
<1>4. prio[u] # prio[t] /\ prio[u] \in Nat /\ prio[t] \in Nat
  BY <1>1, <1>2, BoundAssumption DEF Inv, PrioInv, TypeOK
<1> QED
  BY <1>2, <1>3, <1>4

(* The priorities exclude deadlock: of any threads, the one of the lowest  *)
(* priority does not wait for another of them.                             *)
THEOREM DeadlockFreedom == Spec => []NoStuckSet
<1>1. Inv => NoStuckSet
  <2> SUFFICES ASSUME Inv, NEW S \in (SUBSET Threads) \ {{}}
               PROVE  \E t \in S : \A u \in S : ~SpinsOn(t, u)
    BY DEF NoStuckSet
  <2> DEFINE P == {prio[t] : t \in S}
  <2>1. P \subseteq Nat /\ P # {}
    BY BoundAssumption DEF Inv, TypeOK
  <2> HIDE DEF P
  <2>2. PICK p \in P : \A q \in P : ~(q < p)
    <3>1. PICK p \in P : \A q \in P : ~(<<q, p>> \in OpToRel(<, Nat))
      BY <2>1, WFMin, NatLessThanWellFounded
    <3>2. \A q \in P : <<q, p>> \in Nat \X Nat
      BY <2>1
    <3> QED
      BY <3>1, <3>2, Zenon DEF OpToRel
  <2>3. PICK t \in S : prio[t] = p
    BY DEF P
  <2>4. \A u \in S : ~SpinsOn(t, u)
    <3> SUFFICES ASSUME NEW u \in S, SpinsOn(t, u) PROVE FALSE
      OBVIOUS
    <3>1. prio[u] < prio[t]
      BY SpinsDownwards
    <3>2. prio[u] \in P
      BY DEF P
    <3> QED
      BY <2>2, <2>3, <3>1, <3>2
  <2> QED
    BY <2>4
<1> QED
  BY <1>1, Invariance, PTL

(* The grid implements the abstract locks: a step takes one free cell for  *)
(* one thread, hands back one cell of its owner, or changes no owner.      *)
OwnerMap == [c \in Cells |-> Owners(c)]

(* A cell that nobody holds, and only such a cell, has the mark 0. *)
LEMMA FreeCells ==
  ASSUME Inv, NEW c \in Cells
  PROVE  grid[c] = 0 <=> Owners(c) = {}
  BY DEF Inv, GridInv, Owners

(* What a step does to the owners, seen through the holders. *)
LEMMA OwnerStep ==
  ASSUME Inv, NEW t \in Threads, Running(t) \/ Calling(t)
  PROVE  Locks!Next \/ OwnerMap' = OwnerMap
<1> USE DEF shared, local, loop
<1>0. TypeOK /\ GridInv /\ CallInv(t) /\ LoopInv(t)
  BY DEF Inv
<1>1. CASE CasSucceeds(t)
  <2>1. PICK c \in Cells : c = Target(t) /\ grid[c] = 0
    BY <1>0, <1>1, ZoneCells DEF CasSucceeds, AtCas, CallInv, Target, TypeOK
  <2>2. Owners(c) = {}
    BY <2>1, FreeCells
  <2>3. gone[t] = {}
    BY <1>0, <1>1 DEF CasSucceeds, AtCas, LoopInv
  <2>4. \A u \in Threads : Holds(u)' = IF u = t THEN Holds(t) \cup {c} ELSE Holds(u)
    BY <1>0, <1>1, <2>1, <2>3 DEF CasSucceeds, Holds, TypeOK
  <2>5. Owners(c)' = {t}
    BY <2>2, <2>4 DEF Owners
  <2>6. \A d \in Cells : d # c => Owners(d)' = Owners(d)
    BY <2>4 DEF Owners
  <2>7. OwnerMap' = [OwnerMap EXCEPT ![c] = {t}]
    BY <2>1, <2>5, <2>6 DEF OwnerMap
  <2>8. Locks!Acquire(t, c)
    BY <2>1, <2>2, <2>7 DEF Locks!Acquire, OwnerMap
  <2> QED
    BY <2>1, <2>8 DEF Locks!Next
<1>2. CASE FreeCell(t)
  <2>1. PICK c \in todo[t] : gone' = [gone EXCEPT ![t] = {c}]
    BY <1>2 DEF FreeCell
  <2>2. c \in Holds(t) /\ c \in Cells
    BY <1>0, <1>2, <2>1 DEF FreeCell, LoopInv, Holds, TypeOK
  <2>3. \A u \in Threads : Holds(u)' = IF u = t THEN Holds(t) \ {c} ELSE Holds(u)
    BY <1>0, <1>2, <2>1 DEF FreeCell, Holds, TypeOK
  <2>4. Owners(c) = {t} /\ Owners(c)' = {}
    <3>1. \A u \in Threads : c \in Holds(u) <=> u = t
      BY <1>0, <2>2 DEF GridInv
    <3>2. \A u \in Threads : c \notin Holds(u)'
      BY <2>3, <3>1
    <3> QED
      BY <3>1, <3>2 DEF Owners
  <2>5. \A d \in Cells : d # c => Owners(d)' = Owners(d)
    BY <2>3 DEF Owners
  <2>6. OwnerMap' = [OwnerMap EXCEPT ![c] = {}]
    BY <2>2, <2>4, <2>5 DEF OwnerMap
  <2>7. Locks!Release(t, c)
    BY <2>2, <2>4, <2>6 DEF Locks!Release, OwnerMap
  <2> QED
    BY <2>2, <2>7 DEF Locks!Next
<1>3. CASE ~CasSucceeds(t) /\ ~FreeCell(t)
  <2>1. \A u \in Threads : Holds(u)' = Holds(u)
    BY <1>0, <1>3, HoldersUnchanged
  <2> QED
    BY <2>1 DEF OwnerMap, Owners
<1> QED
  BY <1>1, <1>2, <1>3

(* The lock grid implements CellLocks, whatever its specialisation. *)
THEOREM Refinement == Spec => ImplementsCellLocks
<1>1. Init => Locks!Init
  BY DEF Init, Locks!Init, Owners, Holds
<1>2. Inv /\ [Next]_vars => [Locks!Next]_OwnerMap
  <2> SUFFICES ASSUME Inv, [Next]_vars PROVE Locks!Next \/ OwnerMap' = OwnerMap
    OBVIOUS
  <2>1. CASE UNCHANGED vars
    BY <2>1 DEF vars, shared, local, loop, OwnerMap, Owners, Holds
  <2>2. CASE Next
    BY <2>2, OwnerStep DEF Next
  <2> QED
    BY <2>1, <2>2
<1> QED
  BY <1>1, <1>2, Invariance, PTL DEF Spec, ImplementsCellLocks, Locks!Spec, OwnerMap

===============================================================================
