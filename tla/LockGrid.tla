------------------------------- MODULE LockGrid -------------------------------
(***************************************************************************)
(* Spatial_lock_grid_3: the grid of try-locks through which the threads of *)
(* CGAL's parallel meshing and triangulation algorithms lock regions of    *)
(* space.  Every cell of the grid is one atomic word: 0 when the cell is   *)
(* free, else the mark of the thread that locked it.  Next to the shared   *)
(* grid every thread keeps two thread-local copies of what it holds: a     *)
(* grid of Booleans (here the set flag[t]) and a list of the cells it has  *)
(* locked (here the set list[t]; the program's vector may hold a cell      *)
(* several times, and its flag test makes the second visit a no-op).       *)
(*                                                                         *)
(* The two specialisations of the class are both here: Blocking = TRUE is  *)
(* Tag_priority_blocking, whose threads spin on the cells of threads of    *)
(* lower priority and back off from those of higher priority; Blocking =   *)
(* FALSE is Tag_non_blocking, which never waits.                           *)
(***************************************************************************)
EXTENDS Naturals, Sequences

CONSTANTS
  Threads,    \* the threads that use the grid
  Cells,      \* the cells of the grid
  Zones,      \* what one try_lock call may ask for: the cells of a cube, in
              \* the order of the three nested loops (one cell when radius = 0)
  Blocking,   \* TRUE: Tag_priority_blocking, FALSE: Tag_non_blocking
  MaxUInt,    \* numeric_limits<unsigned int>::max()
  IdBound     \* bound: the last identifier last_id may reach

ASSUME ZonesAssumption ==
  \A z \in Zones :
    /\ z \in Seq(Cells)
    /\ Len(z) > 0
    /\ \A i, j \in 1..Len(z) : z[i] = z[j] => i = j

ASSUME BoundAssumption ==
  /\ Blocking \in BOOLEAN
  /\ MaxUInt \in Nat
  /\ IdBound \in Nat
  /\ IdBound < MaxUInt

VARIABLES
  grid,       \* grid[c]: m_grid, 0 or the mark of the locking thread
  lastId,     \* last_id, the static atomic counter of priorities
  prio,       \* prio[t]: m_tls_thread_priorities, 0 before its first use
  flag,       \* flag[t]: the cells whose entry of t's m_tls_grids is true
  list,       \* list[t]: the cells in t's m_tls_locked_cells
  pc,         \* pc[t]: where t is inside a call of the grid
  zone,       \* zone[t]: the cells asked for by t's last try_lock
  pos,        \* pos[t]: the index in zone[t] of the cell being tried
  noSpin,     \* noSpin[t]: the template argument no_spin of that call
  todo,       \* todo[t]: the cells the running unlock loop has still to free
  gone,       \* gone[t]: the cell whose grid entry is freed, its flag not yet
  keep,       \* keep[t]: what the list holds after the running unlock loop
  result      \* result[t]: what t's last try_lock returned, "none" after
              \* an unlock_all or while a try_lock runs

shared == <<grid, lastId, prio>>
local  == <<flag, list>>
loop   == <<todo, gone, keep>>
vars   == <<shared, local, pc, zone, pos, noSpin, loop, result>>

Labels  == {"idle", "try", "yield", "rollback", "unlocking"}
Results == {"none", "yes", "no"}

TypeOK ==
  /\ grid \in [Cells -> 0..MaxUInt]
  /\ lastId \in 0..IdBound
  /\ prio \in [Threads -> 0..MaxUInt]
  /\ flag \in [Threads -> SUBSET Cells]
  /\ list \in [Threads -> SUBSET Cells]
  /\ pc \in [Threads -> Labels]
  /\ zone \in [Threads -> Zones \cup {<<>>}]
  /\ pos \in [Threads -> Nat \ {0}]
  /\ noSpin \in [Threads -> BOOLEAN]
  /\ todo \in [Threads -> SUBSET Cells]
  /\ gone \in [Threads -> SUBSET Cells]
  /\ keep \in [Threads -> SUBSET Cells]
  /\ result \in [Threads -> Results]

-----------------------------------------------------------------------------
(***************************************************************************)
(* Helpers.                                                                *)
(***************************************************************************)
(* The cell that t's running try_lock is about to lock. *)
Target(t) == zone[t][pos[t]]

(* locked_cells_tmp: the cells of the zone that are already granted. *)
Granted(t) == {zone[t][i] : i \in 1..(pos[t] - 1)}

(* What t writes into a cell it locks: its priority, or true. *)
Mark(t) == IF Blocking THEN prio[t] ELSE 1

(* The default call of a blocking grid waits; every other call does not. *)
MayWait(t) == Blocking /\ ~noSpin[t]

(* Mutant of PriorityOf: the quotient instead of the remainder. *)
PriorityByQuotient(id) == 1 + (id \div MaxUInt)

(* Mutant of PriorityOf: priorities handed out from the top, one too high. *)
PriorityFromTop(id) == MaxUInt + 1 - ((id - 1) % MaxUInt)

(* Priority number `id' of init_TLS_thread_priorities: never 0. *)
PriorityOf(id) == 1 + (id % MaxUInt)

(* t has reached the compare-and-swap of its target: it does not hold the  *)
(* cell yet and its priority is initialised.                               *)
AtCas(t) ==
  /\ pc[t] = "try"
  /\ Target(t) \notin flag[t]
  /\ Blocking => prio[t] # 0

(* The current cell of the zone is granted: try the next one, or return    *)
(* true when it was the last.                                              *)
Advance(t) ==
  \/ /\ pos[t] < Len(zone[t])
     /\ pos' = [pos EXCEPT ![t] = @ + 1]
     /\ UNCHANGED <<pc, noSpin, result>>
  \/ /\ pos[t] = Len(zone[t])
     /\ pc' = [pc EXCEPT ![t] = "idle"]
     /\ noSpin' = [noSpin EXCEPT ![t] = FALSE]
     /\ result' = [result EXCEPT ![t] = "yes"]
     /\ UNCHANGED pos

(* Mutant of GiveUp: return false without unlocking anything. *)
GiveUpAndKeep(t) ==
  /\ pc' = [pc EXCEPT ![t] = "rollback"]
  /\ UNCHANGED <<shared, local, zone, pos, noSpin, loop, result>>

(* The current cell cannot be locked: unlock those granted before it. *)
GiveUp(t) ==
  /\ pc' = [pc EXCEPT ![t] = "rollback"]
  /\ todo' = [todo EXCEPT ![t] = Granted(t)]
  /\ UNCHANGED <<shared, local, zone, pos, noSpin, gone, keep, result>>

-----------------------------------------------------------------------------
Init ==
  /\ grid = [c \in Cells |-> 0]
  /\ lastId = 0
  /\ prio = [t \in Threads |-> 0]
  /\ flag = [t \in Threads |-> {}]
  /\ list = [t \in Threads |-> {}]
  /\ pc = [t \in Threads |-> "idle"]
  /\ zone = [t \in Threads |-> <<>>]
  /\ pos = [t \in Threads |-> 1]
  /\ noSpin = [t \in Threads |-> FALSE]
  /\ todo = [t \in Threads |-> {}]
  /\ gone = [t \in Threads |-> {}]
  /\ keep = [t \in Threads |-> {}]
  /\ result = [t \in Threads |-> "none"]

(***************************************************************************)
(* try_lock.                                                               *)
(***************************************************************************)
(* A call of try_lock: on a cell, a point or a cube of cells around one. *)
TryLock(t) ==
  /\ pc[t] = "idle"
  /\ \E z \in Zones, ns \in BOOLEAN :
       /\ zone' = [zone EXCEPT ![t] = z]
       /\ noSpin' = [noSpin EXCEPT ![t] = ns]
  /\ pos' = [pos EXCEPT ![t] = 1]
  /\ pc' = [pc EXCEPT ![t] = "try"]
  /\ result' = [result EXCEPT ![t] = "none"]
  /\ UNCHANGED <<shared, local, loop>>

(* The first use of the thread's priority draws it from last_id. *)
DrawPriority(t) ==
  /\ pc[t] = "try"
  /\ Target(t) \notin flag[t]
  /\ Blocking /\ prio[t] = 0
  /\ lastId < IdBound
  /\ lastId' = (lastId + 1) % (MaxUInt + 1)
  /\ prio' = [prio EXCEPT ![t] = PriorityOf(lastId')]
  /\ UNCHANGED <<grid, local, pc, zone, pos, noSpin, loop, result>>

(* Mutant of AlreadyMine: the list, with its stale entries, decides. *)
AlreadyListed(t) ==
  /\ pc[t] = "try"
  /\ Target(t) \in list[t]
  /\ Advance(t)
  /\ UNCHANGED <<shared, local, zone, loop>>

(* The thread-local grid says that the cell is already mine. *)
AlreadyMine(t) ==
  /\ pc[t] = "try"
  /\ Target(t) \in flag[t]
  /\ Advance(t)
  /\ UNCHANGED <<shared, local, zone, loop>>

(* Mutant of CasSucceeds: a load and a store where the swap is. *)
StoreUnconditionally(t) ==
  /\ AtCas(t)
  /\ grid' = [grid EXCEPT ![Target(t)] = Mark(t)]
  /\ flag' = [flag EXCEPT ![t] = @ \cup {Target(t)}]
  /\ list' = [list EXCEPT ![t] = @ \cup {Target(t)}]
  /\ Advance(t)
  /\ UNCHANGED <<lastId, prio, zone, loop>>

(* The compare-and-swap succeeds; both thread-local copies record it. *)
CasSucceeds(t) ==
  /\ AtCas(t)
  /\ grid[Target(t)] = 0
  /\ grid' = [grid EXCEPT ![Target(t)] = Mark(t)]
  /\ flag' = [flag EXCEPT ![t] = @ \cup {Target(t)}]
  /\ list' = [list EXCEPT ![t] = @ \cup {Target(t)}]
  /\ Advance(t)
  /\ UNCHANGED <<lastId, prio, zone, loop>>

(* The cell is taken and this call may not wait for it. *)
CasFails(t) ==
  /\ AtCas(t)
  /\ ~MayWait(t)
  /\ grid[Target(t)] # 0
  /\ GiveUp(t)

(* A thread of higher priority owns the cell: back off. *)
BackOff(t) ==
  /\ AtCas(t)
  /\ MayWait(t)
  /\ grid[Target(t)] > prio[t]
  /\ GiveUp(t)

(* A thread of lower priority owns the cell (or the weak compare-and-swap  *)
(* failed spuriously on a free one): yield, then try again.                *)
Yield(t) ==
  /\ AtCas(t)
  /\ MayWait(t)
  /\ grid[Target(t)] <= prio[t]
  /\ pc' = [pc EXCEPT ![t] = "yield"]
  /\ UNCHANGED <<shared, local, zone, pos, noSpin, loop, result>>

Retry(t) ==
  /\ pc[t] = "yield"
  /\ pc' = [pc EXCEPT ![t] = "try"]
  /\ UNCHANGED <<shared, local, zone, pos, noSpin, loop, result>>

(* Every cell granted before the failure is unlocked: return false. *)
RollbackDone(t) ==
  /\ pc[t] = "rollback"
  /\ todo[t] = {} /\ gone[t] = {}
  /\ pc' = [pc EXCEPT ![t] = "idle"]
  /\ noSpin' = [noSpin EXCEPT ![t] = FALSE]
  /\ result' = [result EXCEPT ![t] = "no"]
  /\ UNCHANGED <<shared, local, zone, pos, loop>>

(***************************************************************************)
(* unlock: first the shared cell, then the flag of the thread.             *)
(***************************************************************************)
FreeCell(t) ==
  /\ pc[t] \in {"rollback", "unlocking"}
  /\ gone[t] = {}
  /\ \E c \in todo[t] :
       /\ grid' = [grid EXCEPT ![c] = 0]
       /\ gone' = [gone EXCEPT ![t] = {c}]
  /\ UNCHANGED <<lastId, prio, local, pc, zone, pos, noSpin, todo, keep, result>>

ClearFlag(t) ==
  /\ gone[t] # {}
  /\ flag' = [flag EXCEPT ![t] = @ \ gone[t]]
  /\ todo' = [todo EXCEPT ![t] = @ \ gone[t]]
  /\ gone' = [gone EXCEPT ![t] = {}]
  /\ UNCHANGED <<shared, list, pc, zone, pos, noSpin, keep, result>>

(***************************************************************************)
(* unlock_all_points_locked_by_this_thread and                             *)
(* unlock_all_tls_locked_cells_but_one.                                    *)
(***************************************************************************)
(* Mutant of StartUnlocking: frees every listed cell, flagged or not. *)
StartUnlockingUnchecked(t, spare) ==
  /\ pc[t] = "idle"
  /\ pc' = [pc EXCEPT ![t] = "unlocking"]
  /\ todo' = [todo EXCEPT ![t] = list[t] \ spare]
  /\ keep' = [keep EXCEPT ![t] = list[t] \cap flag[t] \cap spare]
  /\ zone' = [zone EXCEPT ![t] = <<>>]
  /\ pos' = [pos EXCEPT ![t] = 1]
  /\ result' = [result EXCEPT ![t] = "none"]
  /\ UNCHANGED <<shared, local, noSpin, gone>>

(* The loop over the list frees the cells whose flag is still set, except  *)
(* the one to keep (spare is empty, or the singleton of that cell).        *)
StartUnlocking(t, spare) ==
  /\ pc[t] = "idle"
  /\ pc' = [pc EXCEPT ![t] = "unlocking"]
  /\ todo' = [todo EXCEPT ![t] = (list[t] \cap flag[t]) \ spare]
  /\ keep' = [keep EXCEPT ![t] = list[t] \cap flag[t] \cap spare]
  /\ zone' = [zone EXCEPT ![t] = <<>>]
  /\ pos' = [pos EXCEPT ![t] = 1]
  /\ result' = [result EXCEPT ![t] = "none"]
  /\ UNCHANGED <<shared, local, noSpin, gone>>

UnlockAll(t) == StartUnlocking(t, {})

UnlockAllButOne(t) == \E c \in Cells : StartUnlocking(t, {c})

(* Mutant of UnlockingDone: the cell kept locked leaves the list. *)
UnlockingForgets(t) ==
  /\ pc[t] = "unlocking"
  /\ todo[t] = {} /\ gone[t] = {}
  /\ list' = [list EXCEPT ![t] = {}]
  /\ keep' = [keep EXCEPT ![t] = {}]
  /\ pc' = [pc EXCEPT ![t] = "idle"]
  /\ UNCHANGED <<shared, flag, zone, pos, noSpin, todo, gone, result>>

(* The loop is over: the list is cleared, but for the cell to keep. *)
UnlockingDone(t) ==
  /\ pc[t] = "unlocking"
  /\ todo[t] = {} /\ gone[t] = {}
  /\ list' = [list EXCEPT ![t] = keep[t]]
  /\ keep' = [keep EXCEPT ![t] = {}]
  /\ pc' = [pc EXCEPT ![t] = "idle"]
  /\ UNCHANGED <<shared, flag, zone, pos, noSpin, todo, gone, result>>

-----------------------------------------------------------------------------
(* What runs inside a call of the grid, once it has started. *)
Running(t) ==
  \/ DrawPriority(t) \/ AlreadyMine(t)
  \/ CasSucceeds(t) \/ CasFails(t) \/ BackOff(t) \/ Yield(t) \/ Retry(t)
  \/ RollbackDone(t)
  \/ FreeCell(t) \/ ClearFlag(t) \/ UnlockingDone(t)

(* What the thread that uses the grid decides to call. *)
Calling(t) == TryLock(t) \/ UnlockAll(t) \/ UnlockAllButOne(t)

Next == \E t \in Threads : Running(t) \/ Calling(t)

Spec == Init /\ [][Next]_vars

(* t is in the spin loop for cell c. *)
Spinning(t, c) ==
  pc[t] \in {"try", "yield"} /\ c \notin flag[t] /\ Target(t) = c

(* A thread inside a call goes on; a thread that returns from its calls    *)
(* again and again ends its attempt with unlock_all at some point, as      *)
(* every functor that uses the grid does; and the weak compare-and-swap of *)
(* a thread does not fail spuriously for ever on a cell that stays free.   *)
Fairness ==
  \A t \in Threads :
    /\ WF_vars(Running(t))
    /\ SF_vars(UnlockAll(t))
    /\ \A c \in Cells : []<>~(Spinning(t, c) /\ grid[c] = 0)

FairSpec == Spec /\ Fairness

-----------------------------------------------------------------------------
(***************************************************************************)
(* Properties.                                                             *)
(***************************************************************************)
(* The cells t holds: flagged, and not just handed back to the grid. *)
Holds(t) == flag[t] \ gone[t]

(* is_locked: the cell is taken, by this thread or by another. *)
IsLocked(c) == grid[c] # 0

(* SurjectiveLockDataStructure: "when a thread owns the lock of an object, *)
(* no other thread can lock the same object".  No cell is held by two      *)
(* threads, and what a thread believes to hold is locked in the grid with  *)
(* its own mark.                                                           *)
ExclusiveCells ==
  /\ \A t, u \in Threads : t # u => Holds(t) \cap Holds(u) = {}
  /\ \A t \in Threads : \A c \in Holds(t) : IsLocked(c) /\ grid[c] = Mark(t)

(* A locked cell is always in the list of the thread that locked it, so    *)
(* that unlock_all_points_locked_by_this_thread reaches it: no sequence of *)
(* failed cubes, stale list entries and partial unlocks leaks a cell.      *)
NoLeakedCell ==
  \A c \in Cells : IsLocked(c) => \E t \in Threads : c \in Holds(t) /\ c \in list[t]

(* A try_lock that returned true left the thread holding its whole zone,   *)
(* whichever part of it was already held.                                  *)
GrantedZoneIsHeld ==
  \A t \in Threads :
    (pc[t] = "idle" /\ result[t] = "yes") =>
      \A i \in 1..Len(zone[t]) : zone[t][i] \in Holds(t)

(* A try_lock that returned false has handed back every cell of its zone   *)
(* that it went through before the failure, those that the thread held     *)
(* before the call included.                                               *)
FailedZoneIsFreed ==
  \A t \in Threads :
    (pc[t] = "idle" /\ result[t] = "no") => Granted(t) \cap flag[t] = {}

(* t spins on a cell that u holds. *)
SpinsOn(t, u) ==
  /\ pc[t] \in {"try", "yield"}
  /\ MayWait(t)
  /\ prio[t] # 0
  /\ Target(t) \notin flag[t]
  /\ Target(t) \in Holds(u)
  /\ grid[Target(t)] <= prio[t]

(* The priorities exclude deadlock: in every set of threads one does not   *)
(* spin on a cell held by another of the set.                              *)
NoStuckSet ==
  \A S \in (SUBSET Threads) \ {{}} :
    \E t \in S : \A u \in S : ~SpinsOn(t, u)

(* A thread never spins for ever on a cell that is never handed back. *)
NoEternalWait ==
  \A t \in Threads, c \in Cells :
    <>[]Spinning(t, c) => []<>~IsLocked(c)

(***************************************************************************)
(* The grid implements CellLocks.                                          *)
(***************************************************************************)
Owners(c) == {t \in Threads : c \in Holds(t)}

Locks == INSTANCE CellLocks WITH owner <- [c \in Cells |-> Owners(c)]

(* Every step takes one free cell, hands back one cell of its owner, or    *)
(* leaves the ownership of every cell alone.                               *)
ImplementsCellLocks == Locks!Spec
===============================================================================
