-------------------------- MODULE ParallelRefinement --------------------------
(***************************************************************************)
(* The parallel Delaunay refinement of Mesh_3: the threads of a TBB task   *)
(* group take bad elements (first facets, then cells), lock them, find the *)
(* cells in conflict with their refinement point, and retriangulate.  New  *)
(* bad elements go to lists of the thread, from there to its work buffer,  *)
(* and full buffers become tasks.                                          *)
(*                                                                         *)
(* The geometry is LockedTriangulation's: which cells are in conflict,     *)
(* which new elements are bad or on the surface and which facets are       *)
(* encroached is left open; that refinement creates finitely many bad      *)
(* elements is the bound MaxBorn.                                          *)
(***************************************************************************)
EXTENDS LockedTriangulation, FiniteSets

CONSTANTS
  Main,         \* the thread that calls refine_mesh
  BatchSizes,   \* the values of the parameter num_work_items_per_batch
  StarSize,     \* bound: the cells an insertion creates
  MaxBorn       \* bound: the bad cells and surface facets ever created

ASSUME TasksAssumption ==
  /\ Main \in Threads
  /\ BatchSizes \subseteq Nat \ {0}
  /\ StarSize \in Nat /\ MaxBorn \in Nat
  /\ 0 \notin Corners

Levels == {"facets", "cells"}

(* An element of a queue: the handles and erase counters of a facet's cell *)
(* and mirror cell, and the vertex opposite to it; or those of a cell.     *)
Elements ==
  [level : Levels, cell : Handles, mirror : Handles, opposite : Corners \cup {0}]

VARIABLES
  bad,        \* the elements that the criteria reject (history of scans)
  surface,    \* the facets in the complex, that is, on the surface
  dropped,    \* the elements given up for good
  born,       \* how many bad cells and surface facets were created
  level,      \* the level that is being refined
  stage,      \* where the main thread is in refine_mesh_in_parallel
  queue,      \* queue[l]: the queue of bad elements of a level
  buffer,     \* buffer[t]: m_tls_work_buffers
  batches,    \* the tasks of m_task_group that have not started
  work,       \* work[t]: the elements t's running task has still to treat
  listed,     \* listed[t][l]: m_local_lists of the queue of level l
  task,       \* task[t]: the element of the running Enqueue_element, or {}
  cur,        \* cur[t]: the element in try_lock_and_refine_element, or {}
  inner,      \* inner[t]: the encroached facet being refined first, or {}
  result,     \* result[t]: the last status of cur[t]
  again,      \* again[t]: the status of task[t] asks to reconsider it
  pc,         \* pc[t]: where t is in its task
  stop,       \* *m_stop_ptr
  cancelled,  \* m_task_group has been cancelled
  batchSize   \* NUM_WORK_ITEMS_PER_BATCH, from the configuration file

criteria == <<bad, surface, dropped, born>>
tasks    == <<queue, buffer, batches, work, listed>>
status   == <<task, cur, inner, result, again>>
control  == <<level, stage, stop, cancelled, batchSize>>
vars     == <<cells, locking, criteria, tasks, status, control, pc>>

Stages == {"begin", "collect", "wait", "flush", "splice", "done"}

Labels == {"idle", "top", "test", "lock", "grow", "visit", "unlock", "drain",
           "requeue", "feed"}

Results == {"none", "inserted", "dropped", "reconsider", "zombie", "refused",
            "outside", "astray"}

IsSingle(S) == \A e, f \in S : e = f

TypeOK ==
  /\ TriangulationTypeOK
  /\ bad \subseteq Elements
  /\ surface \subseteq Elements
  /\ dropped \subseteq Elements
  /\ born \in Nat
  /\ level \in Levels
  /\ stage \in Stages
  /\ queue \in [Levels -> SUBSET Elements]
  /\ buffer \in [Threads -> SUBSET Elements]
  /\ batches \subseteq (SUBSET Elements) \ {{}}
  /\ work \in [Threads -> SUBSET Elements]
  /\ listed \in [Threads -> [Levels -> SUBSET Elements]]
  /\ task \in [Threads -> SUBSET Elements]
  /\ cur \in [Threads -> SUBSET Elements]
  /\ inner \in [Threads -> SUBSET Elements]
  /\ \A t \in Threads : IsSingle(task[t]) /\ IsSingle(cur[t]) /\ IsSingle(inner[t])
  /\ result \in [Threads -> Results]
  /\ again \in [Threads -> BOOLEAN]
  /\ pc \in [Threads -> Labels]
  /\ stop \in BOOLEAN
  /\ cancelled \in BOOLEAN
  /\ batchSize \in BatchSizes

-----------------------------------------------------------------------------
(***************************************************************************)
(* Elements.                                                               *)
(***************************************************************************)
CellElement(s) ==
  [level |-> "cells", cell |-> <<s, life[s]>>, mirror |-> <<s, life[s]>>,
   opposite |-> 0]

FacetElement(s, j, n) ==
  [level |-> "facets", cell |-> <<s, life[s]>>, mirror |-> <<n, life[n]>>,
   opposite |-> j]

(* The facets between s and its neighbours, seen from s. *)
FacetsOf(s) ==
  {FacetElement(s, x[1], x[2]) :
     x \in {x \in Corners \X (alive \ {s}) : AcrossFacet(s, x[1], x[2])}}

IsZombie(e) ==
  life[e.cell[1]] # e.cell[2] \/ life[e.mirror[1]] # e.mirror[2]

Living(S) == {e \in S : ~IsZombie(e)}

(* try_lock_element: the vertices of a cell, or those of a facet. *)
VerticesOfElement(e) == {e.cell[1]} \X (Corners \ {e.opposite})

(* What t is refining: the encroached facet comes before the cell. *)
Active(t) == IF inner[t] # {} THEN inner[t] ELSE cur[t]

-----------------------------------------------------------------------------
(***************************************************************************)
(* Worksharing: Auto_worksharing_ds.                                       *)
(***************************************************************************)
(* A task given to a cancelled group is never executed. *)
Run(b) == batches' = IF cancelled THEN batches ELSE batches \cup b

(* Mutant of Enqueue: the buffer is not cleared. *)
EnqueueAgain(t, e) ==
  LET b == buffer[t] \cup {e} IN
  /\ buffer' = [buffer EXCEPT ![t] = b]
  /\ IF Cardinality(b) >= batchSize THEN Run({b}) ELSE UNCHANGED batches

(* enqueue_work: a full buffer becomes a task. *)
Enqueue(t, e) ==
  LET b == buffer[t] \cup {e} IN
  IF Cardinality(b) >= batchSize
  THEN buffer' = [buffer EXCEPT ![t] = {}] /\ Run({b})
  ELSE buffer' = [buffer EXCEPT ![t] = b] /\ UNCHANGED batches

-----------------------------------------------------------------------------
(***************************************************************************)
(* The main thread: refine, refine_mesh_in_parallel.                       *)
(***************************************************************************)
(* no_longer_element_to_refine: the stop flag, or nothing but zombies. *)
NoLonger(l) == stop \/ Living(queue[l]) = {}

(* The level is not done: a new task group. *)
Begin ==
  /\ stage = "begin" /\ ~NoLonger(level)
  /\ stage' = "collect"
  /\ UNCHANGED <<cells, locking, criteria, tasks, status, level, stop, cancelled, pc, batchSize>>

(* The first element of the queue goes to the work buffer of the main      *)
(* thread; zombies before it are popped.                                   *)
Collect ==
  /\ stage = "collect" /\ ~NoLonger(level)
  /\ \E e \in Living(queue[level]) :
       /\ queue' = [queue EXCEPT ![level] = @ \ {e}]
       /\ Enqueue(Main, e)
  /\ UNCHANGED <<cells, locking, criteria, work, listed, status, control, pc>>

Collected ==
  /\ stage = "collect" /\ NoLonger(level)
  /\ stage' = "wait"
  /\ UNCHANGED <<cells, locking, criteria, tasks, status, level, stop, cancelled, pc, batchSize>>

(* task_group::wait returns. *)
AllRun == batches = {} /\ \A t \in Threads : pc[t] = "idle" /\ work[t] = {}

Waited ==
  /\ stage = "wait" /\ AllRun
  /\ stage' = "flush"
  /\ cancelled' = FALSE
  /\ UNCHANGED <<cells, locking, criteria, tasks, status, level, stop, pc, batchSize>>

(* Mutant of Flush: a task for every buffer, the empty ones too. *)
FlushEmptyToo ==
  /\ stage = "flush" /\ \E t \in Threads : buffer[t] # {}
  /\ batches' = {buffer[t] : t \in Threads}
  /\ buffer' = [t \in Threads |-> {}]
  /\ stage' = "wait"
  /\ UNCHANGED <<cells, locking, criteria, queue, work, listed, status, level,
                 stop, cancelled, pc, batchSize>>

(* flush_work_buffers: every buffer that is not empty becomes a task. *)
Flush ==
  /\ stage = "flush" /\ \E t \in Threads : buffer[t] # {}
  /\ batches' = {buffer[t] : t \in Threads} \ {{}}
  /\ buffer' = [t \in Threads |-> {}]
  /\ stage' = "wait"
  /\ UNCHANGED <<cells, locking, criteria, queue, work, listed, status, level,
                 stop, cancelled, pc, batchSize>>

(* Mutant of Flushed: only the buffer of the main thread is looked at. *)
FlushedMain ==
  /\ stage = "flush" /\ buffer[Main] = {}
  /\ stage' = "splice"
  /\ UNCHANGED <<cells, locking, criteria, tasks, status, level, stop, cancelled, pc, batchSize>>

(* No buffer had anything to flush. *)
Flushed ==
  /\ stage = "flush" /\ \A t \in Threads : buffer[t] = {}
  /\ stage' = "splice"
  /\ UNCHANGED <<cells, locking, criteria, tasks, status, level, stop, cancelled, pc, batchSize>>

(* splice_local_lists of this level; the lists of the previous level stay. *)
Splice ==
  /\ stage = "splice"
  /\ queue' = [queue EXCEPT ![level] =
                 @ \cup UNION {listed[t][level] : t \in Threads}]
  /\ listed' = [t \in Threads |-> [listed[t] EXCEPT ![level] = {}]]
  /\ stage' = "begin"
  /\ UNCHANGED <<cells, locking, criteria, buffer, batches, work, status, level,
                 stop, cancelled, pc, batchSize>>

(* The facets are done: activate the visitor and scan the cells. *)
ScanCells ==
  /\ stage = "begin" /\ level = "facets" /\ ~stop /\ NoLonger("facets")
  /\ level' = "cells"
  /\ queue' = [queue EXCEPT !["cells"] = {e \in bad : e.level = "cells"}]
  /\ UNCHANGED <<cells, locking, criteria, buffer, batches, work, listed, status,
                 stage, stop, cancelled, pc, batchSize>>

Finish ==
  /\ stage = "begin" /\ NoLonger(level) /\ (level = "cells" \/ stop)
  /\ stage' = "done"
  /\ UNCHANGED <<cells, locking, criteria, tasks, status, level, stop, cancelled, pc, batchSize>>

(* Another thread of the program asks the mesher to stop. *)
ForcedStop ==
  /\ ~stop /\ stage # "done"
  /\ stop' = TRUE
  /\ UNCHANGED <<cells, locking, criteria, tasks, status, level, stage, cancelled, pc, batchSize>>

-----------------------------------------------------------------------------
(***************************************************************************)
(* A task: Enqueue_element::operator() for each element of a batch.        *)
(***************************************************************************)
(* The main thread runs tasks only while it waits for the group. *)
TakeBatch(t) ==
  /\ pc[t] = "idle" /\ work[t] = {}
  /\ stage \in {"collect", "wait"} /\ (t = Main => stage = "wait")
  /\ \E b \in batches :
       /\ work' = [work EXCEPT ![t] = b]
       /\ batches' = batches \ {b}
  /\ UNCHANGED <<cells, locking, criteria, queue, buffer, listed, status, control, pc>>

StartElement(t) ==
  /\ pc[t] = "idle"
  /\ \E e \in work[t] :
       /\ work' = [work EXCEPT ![t] = @ \ {e}]
       /\ task' = [task EXCEPT ![t] = {e}]
       /\ cur' = [cur EXCEPT ![t] = {e}]
  /\ again' = [again EXCEPT ![t] = FALSE]
  /\ pc' = [pc EXCEPT ![t] = "top"]
  /\ UNCHANGED <<cells, locking, criteria, queue, buffer, batches, listed, inner,
                 result, control>>

(* forced_stop in the retry loop of the task: the group is cancelled, and  *)
(* the functors of the rest of the batch return in the same way.           *)
CancelTask(t) ==
  /\ pc[t] = "top" /\ stop
  /\ cancelled' = TRUE
  /\ batches' = {}
  /\ work' = [work EXCEPT ![t] = {}]
  /\ task' = [task EXCEPT ![t] = {}]
  /\ cur' = [cur EXCEPT ![t] = {}]
  /\ pc' = [pc EXCEPT ![t] = "idle"]
  /\ UNCHANGED <<cells, locking, criteria, queue, buffer, listed, inner, result,
                 again, level, stage, stop, batchSize>>

GoOn(t) ==
  /\ pc[t] = "top" /\ ~stop
  /\ pc' = [pc EXCEPT ![t] = "test"]
  /\ UNCHANGED <<cells, locking, criteria, tasks, status, control>>

(***************************************************************************)
(* try_lock_and_refine_element.                                            *)
(***************************************************************************)
(* Give the element up for this time: unlock everything. *)
Leave(t, r) ==
  /\ result' = [result EXCEPT ![t] = r]
  /\ inner' = [inner EXCEPT ![t] = {}]
  /\ pc' = [pc EXCEPT ![t] = "unlock"]
  /\ StartUnlocking(t)

FirstTest(t) ==
  /\ pc[t] = "test"
  /\ \E e \in cur[t] :
       \/ /\ IsZombie(e)
          /\ Leave(t, "zombie")
       \/ /\ ~IsZombie(e)
          /\ pc' = [pc EXCEPT ![t] = "lock"]
          /\ StartLocking(t, VerticesOfElement(e))
          /\ UNCHANGED <<inner, result>>
  /\ UNCHANGED <<cells, criteria, tasks, task, cur, again, control>>

(* One more vertex, of the element or of a cell of its zone. *)
Lock(t) ==
  /\ pc[t] \in {"lock", "visit"}
  /\ LockVertex(t)
  /\ UNCHANGED <<cells, criteria, tasks, status, control, pc>>

(* The lock is refused; what the refinement of an encroached facet returns *)
(* is ignored.                                                             *)
Refused(t) ==
  /\ pc[t] \in {"lock", "visit"}
  /\ IsRefused(t)
  /\ Leave(t, IF inner[t] = {} THEN "refused" ELSE "reconsider")
  /\ UNCHANGED <<cells, criteria, tasks, task, cur, again, control>>

(* Mutant of SecondTest: the element is not tested again. *)
NoSecondTest(t) ==
  /\ pc[t] = "lock" /\ todo[t] = {}
  /\ pc' = [pc EXCEPT ![t] = "grow"]
  /\ UNCHANGED <<cells, locking, criteria, tasks, status, control>>

(* The element is locked: test it again, it may have changed meanwhile. *)
SecondTest(t) ==
  /\ pc[t] = "lock" /\ todo[t] = {}
  /\ \E e \in cur[t] :
       \/ /\ IsZombie(e)
          /\ Leave(t, "zombie")
       \/ /\ ~IsZombie(e)
          /\ pc' = [pc EXCEPT ![t] = "grow"]
          /\ UNCHANGED <<locking, inner, result>>
  /\ UNCHANGED <<cells, criteria, tasks, task, cur, again, control>>

(* conflicts_zone: the element's cell, then neighbours of locked cells. *)
Grow(t) ==
  /\ pc[t] = "grow"
  /\ \E n \in {e.cell[1] : e \in cur[t]} \cup Neighbours(t) :
       /\ zone[t] = {} => \E e \in cur[t] : n = e.cell[1]
       /\ Visit(t, n)
  /\ pc' = [pc EXCEPT ![t] = "visit"]
  /\ UNCHANGED <<cells, criteria, tasks, status, control>>

Grown(t) ==
  /\ pc[t] = "visit" /\ todo[t] = {}
  /\ Visited(t)
  /\ pc' = [pc EXCEPT ![t] = "grow"]
  /\ UNCHANGED <<cells, criteria, tasks, status, control>>

(* The zone is complete; a superior level finds an encroached facet that   *)
(* may be refined, and refines it at once under the locks it has.          *)
RefineEncroached(t) ==
  /\ pc[t] = "grow" /\ inner[t] = {}
  /\ \E e \in cur[t] : e.level = "cells"
  /\ \E f \in surface :
       /\ {f.cell[1], f.mirror[1]} \cap zone[t] # {}
       /\ inner' = [inner EXCEPT ![t] = {f}]
  /\ UNCHANGED <<cells, locking, criteria, tasks, task, cur, result, again, control, pc>>

(* An encroached facet that may not be refined: drop the cell. *)
Drop(t) ==
  /\ pc[t] = "grow" /\ inner[t] = {}
  /\ \E e \in cur[t] :
       /\ e.level = "cells"
       /\ e.cell[1] \in zone[t]
       /\ dropped' = dropped \cup {e}
  /\ \E f \in surface : {f.cell[1], f.mirror[1]} \cap zone[t] # {}
  /\ Leave(t, "dropped")
  /\ UNCHANGED <<cells, bad, surface, born, tasks, task, cur, again, control>>

(* A cell is always in its conflict zone, a facet by one of its cells. *)
InItsZone(e, hole) ==
  IF e.level = "cells" THEN e.cell[1] \in hole
  ELSE {e.cell[1], e.mirror[1]} \cap hole # {}

(* The new elements that the criteria reject are listed; the cells only    *)
(* when the visitor is active, that is, when cells are being refined.      *)
List(t, new) ==
  listed' = [listed EXCEPT ![t] =
    [l \in Levels |-> IF l = "cells" /\ level = "facets" THEN @[l]
                      ELSE @[l] \cup {e \in new : e.level = l}]]

(* insert, with what the levels and visitors do before and after it.       *)
Insert(t) ==
  /\ pc[t] = "grow"
  /\ \E hole \in SUBSET zone[t] :
       /\ \E e \in Active(t) : InItsZone(e, hole)
       /\ \E star \in SUBSET (Slots \ alive) :
            /\ Cardinality(star) = StarSize
            /\ \E shape \in [star -> Shapes] : Retriangulate(hole, star, shape)
            /\ \E badCells \in SUBSET {CellElement(s)' : s \in star},
                  onSurface \in SUBSET (UNION {FacetsOf(s)' : s \in star}) :
                 /\ born' = born + Cardinality(badCells \cup onSurface)
                 /\ born' \in 0 .. MaxBorn
                 /\ \A f, g \in onSurface :
                      {f.cell, f.mirror} = {g.cell, g.mirror} => f = g
                 /\ surface' = {f \in surface : ~IsZombie(f)'} \cup onSurface
                 /\ \E badFacets \in SUBSET onSurface :
                      /\ bad' = {e \in bad : ~IsZombie(e)'} \cup badCells \cup badFacets
                      /\ List(t, badCells \cup badFacets)
  /\ Leave(t, IF inner[t] = {} THEN "inserted" ELSE "reconsider")
  /\ UNCHANGED <<dropped, queue, buffer, batches, work, task, cur, again, control>>

(* The facet is not in its conflict zone.  Exact computation keeps it on   *)
(* the surface or not; in parallel no queue forgets it.  An encroached     *)
(* facet that goes astray has its cell reconsidered.                       *)
OutsideItsZone(t) ==
  /\ pc[t] = "grow" /\ zone[t] # {}
  /\ \E f \in Active(t) : f.level = "facets" /\ surface' \in {surface, surface \ {f}}
  /\ Leave(t, IF inner[t] = {} THEN "outside" ELSE "astray")
  /\ UNCHANGED <<cells, bad, dropped, born, tasks, task, cur, again, control>>

Unlock(t) ==
  /\ pc[t] = "unlock"
  /\ UnlockRegion(t)
  /\ UNCHANGED <<cells, criteria, tasks, status, control, pc>>

(***************************************************************************)
(* After the status: the retry loops, and what follows them.               *)
(***************************************************************************)
IsTask(t) == cur[t] = task[t]

(* The loop of the task goes on, with its test of the stop flag. *)
Retry(t) ==
  /\ pc[t] = "unlock" /\ Held(t) = {}
  /\ result[t] \in {"refused", "outside"}
  /\ pc' = [pc EXCEPT ![t] = IF IsTask(t) THEN "top" ELSE "test"]
  /\ result' = [result EXCEPT ![t] = "none"]
  /\ UNCHANGED <<cells, locking, criteria, tasks, task, cur, inner, again, control>>

(* The loop ends; a facet from the list of the thread is popped. *)
Settled(t) ==
  /\ pc[t] = "unlock" /\ Held(t) = {}
  /\ result[t] \in {"inserted", "dropped", "reconsider", "zombie", "astray"}
  /\ \/ /\ IsTask(t)
        /\ again' = [again EXCEPT ![t] = result[t] \in {"reconsider", "astray"}]
        /\ UNCHANGED listed
     \/ /\ ~IsTask(t)
        /\ listed' = [listed EXCEPT ![t]["facets"] = @ \ cur[t]]
        /\ UNCHANGED again
  /\ result' = [result EXCEPT ![t] = "none"]
  /\ cur' = [cur EXCEPT ![t] = {}]
  /\ pc' = [pc EXCEPT ![t] = "drain"]
  /\ UNCHANGED <<cells, locking, criteria, queue, buffer, batches, work, task,
                 inner, control>>

(* treat_local_refinement_queue: before_next_element_refinement of a cell  *)
(* refines the facets in the list of the thread.                           *)
DrainFacet(t) ==
  /\ pc[t] = "drain" /\ level = "cells"
  /\ \E f \in Living(listed[t]["facets"]) : cur' = [cur EXCEPT ![t] = {f}]
  /\ pc' = [pc EXCEPT ![t] = "test"]
  /\ UNCHANGED <<cells, locking, criteria, tasks, task, inner, result, again, control>>

(* Mutant of Drained: the facets in the list are left for later. *)
DrainedLater(t) ==
  /\ pc[t] = "drain"
  /\ pc' = [pc EXCEPT ![t] = "requeue"]
  /\ UNCHANGED <<cells, locking, criteria, tasks, status, control>>

(* Zombies at the front of a local list are popped. *)
Drained(t) ==
  /\ pc[t] = "drain"
  /\ \/ level = "facets" /\ UNCHANGED listed
     \/ /\ level = "cells" /\ Living(listed[t]["facets"]) = {}
        /\ listed' = [listed EXCEPT ![t]["facets"] = {}]
  /\ pc' = [pc EXCEPT ![t] = "requeue"]
  /\ UNCHANGED <<cells, locking, criteria, queue, buffer, batches, work, status, control>>

(* Mutant of Requeue: an element to be reconsidered is forgotten. *)
RequeueNothing(t) ==
  /\ pc[t] = "requeue"
  /\ task' = [task EXCEPT ![t] = {}]
  /\ pc' = [pc EXCEPT ![t] = "feed"]
  /\ UNCHANGED <<cells, locking, criteria, tasks, cur, inner, result, again, control>>

(* The element is enqueued again if it is to be reconsidered. *)
Requeue(t) ==
  /\ pc[t] = "requeue"
  /\ \/ again[t] /\ \E e \in task[t] : Enqueue(t, e)
     \/ ~again[t] /\ UNCHANGED <<buffer, batches>>
  /\ task' = [task EXCEPT ![t] = {}]
  /\ pc' = [pc EXCEPT ![t] = "feed"]
  /\ UNCHANGED <<cells, locking, criteria, queue, work, listed, cur, inner, result,
                 again, control>>

(* The new bad elements of the level become work. *)
Feed(t) ==
  /\ pc[t] = "feed"
  /\ \E e \in Living(listed[t][level]) :
       /\ listed' = [listed EXCEPT ![t][level] = @ \ {e}]
       /\ Enqueue(t, e)
  /\ UNCHANGED <<cells, locking, criteria, queue, work, status, control, pc>>

Fed(t) ==
  /\ pc[t] = "feed" /\ Living(listed[t][level]) = {}
  /\ listed' = [listed EXCEPT ![t][level] = {}]
  /\ pc' = [pc EXCEPT ![t] = "idle"]
  /\ UNCHANGED <<cells, locking, criteria, queue, buffer, batches, work, status, control>>

-----------------------------------------------------------------------------
(* The bad elements of the initial triangulation. *)
InitRefinement(facets, badOnes) ==
  /\ surface = facets
  /\ bad = badOnes
  /\ dropped = {}
  /\ born \in 0 .. MaxBorn
  /\ level = "facets"
  /\ stage = "begin"
  /\ queue = [l \in Levels |-> IF l = "facets" THEN facets \cap badOnes ELSE {}]
  /\ buffer = [t \in Threads |-> {}]
  /\ batches = {}
  /\ work = [t \in Threads |-> {}]
  /\ listed = [t \in Threads |-> [l \in Levels |-> {}]]
  /\ task = [t \in Threads |-> {}]
  /\ cur = [t \in Threads |-> {}]
  /\ inner = [t \in Threads |-> {}]
  /\ result = [t \in Threads |-> "none"]
  /\ again = [t \in Threads |-> FALSE]
  /\ pc = [t \in Threads |-> "idle"]
  /\ stop = FALSE
  /\ cancelled = FALSE
  /\ batchSize \in BatchSizes

InitWith(first, shape) ==
  /\ InitTriangulation(first, shape)
  /\ \E facets \in SUBSET (UNION {FacetsOf(s) : s \in first}),
        badCells \in SUBSET {CellElement(s) : s \in first} :
       /\ \A f, g \in facets : {f.cell, f.mirror} = {g.cell, g.mirror} => f = g
       /\ \E badFacets \in SUBSET facets :
            InitRefinement(facets, badCells \cup badFacets)

Init == \E first \in SUBSET Slots, shape \in [Slots -> Shapes] : InitWith(first, shape)

MainStep ==
  Begin \/ Collect \/ Collected \/ Waited \/ Flush \/ Flushed \/ Splice
    \/ ScanCells \/ Finish

ThreadStep(t) ==
  \/ TakeBatch(t) \/ StartElement(t) \/ CancelTask(t) \/ GoOn(t)
  \/ FirstTest(t) \/ Lock(t) \/ Refused(t) \/ SecondTest(t)
  \/ Grow(t) \/ Grown(t) \/ RefineEncroached(t) \/ Drop(t) \/ Insert(t)
  \/ OutsideItsZone(t) \/ Unlock(t) \/ Retry(t) \/ Settled(t)
  \/ DrainFacet(t) \/ Drained(t) \/ Requeue(t) \/ Feed(t) \/ Fed(t)

(* refine_mesh has returned. *)
Done == stage = "done" /\ UNCHANGED vars

Next == MainStep \/ ForcedStop \/ Done \/ \E t \in Threads : ThreadStep(t)

Spec == Init /\ [][Next]_vars

(* TBB runs every task that is not cancelled and no thread stops for ever; *)
(* a thread that waits for a region is not overtaken for ever.             *)
Fairness ==
  /\ WF_vars(MainStep)
  /\ \A t \in Threads : WF_vars(ThreadStep(t)) /\ SF_vars(Lock(t))

FairSpec == Spec /\ Fairness

-----------------------------------------------------------------------------
(* When a zone is computed and changed, the element that is being refined  *)
(* is not a zombie, its cells are still there, and the thread holds the    *)
(* regions of its vertices.  (try_lock_and_refine_element: "Test it again  *)
(* as it may have changed in the meantime", Mesher_level.h:1048.)          *)
RefinedElementsAreAlive ==
  \A t \in Threads : pc[t] \in {"grow", "visit"} =>
    \A e \in cur[t] :
      /\ ~IsZombie(e)
      /\ {e.cell[1], e.mirror[1]} \subseteq alive
      /\ \A v \in VerticesOfElement(e) : RegionOf(v) \in Held(t)

(* Where an element waits to be refined. *)
Pending(e) ==
  \/ \E l \in Levels : e \in queue[l]
  \/ \E b \in batches : e \in b
  \/ \E t \in Threads :
       \/ e \in buffer[t] \cup work[t] \cup task[t]
       \/ \E l \in Levels : e \in listed[t][l]

(* Unless the mesher is told to stop, every bad element that was not given *)
(* up is still to be refined: in a queue, a list, a buffer or a task; or a *)
(* cell, while the facets are refined and the cells not yet scanned.       *)
BadElementsArePending ==
  ~stop => \A e \in bad \ dropped :
    Pending(e) \/ (e.level = "cells" /\ level = "facets")

(* Between two parallel phases no region is locked and the thread-local    *)
(* lists are empty, those of the previous level too; so splicing them is   *)
(* "useless" (Mesher_level.h:935), even after a forced stop.               *)
PhasesEndClean ==
  stage \in {"flush", "splice", "begin", "done"} =>
    \A t \in Threads :
      /\ pc[t] = "idle" /\ Held(t) = {} /\ work[t] = {} /\ task[t] = {}
      /\ \A l \in Levels : listed[t][l] = {}

(* refine_mesh returns, unless it was told to stop, with no bad element in *)
(* the mesh but those it gave up.                                          *)
RefinementIsComplete == stage = "done" /\ ~stop => bad \subseteq dropped

(* An element waits in one place: a full work buffer is cleared when it    *)
(* becomes a task, a list is popped when it feeds a buffer.                *)
ItemsInOnePlace ==
  /\ \A b, c \in batches : b # c => b \cap c = {}
  /\ \A b \in batches, t \in Threads :
       b \cap (buffer[t] \cup work[t] \cup task[t]) = {}
  /\ \A t \in Threads :
       /\ buffer[t] \cap (work[t] \cup task[t]) = {}
       /\ work[t] \cap task[t] = {}
       /\ listed[t][level] \cap (buffer[t] \cup work[t] \cup task[t]) = {}
       /\ \A u \in Threads \ {t} :
            (buffer[t] \cup work[t] \cup task[t] \cup listed[t][level]) \cap
              (buffer[u] \cup work[u] \cup task[u] \cup listed[u][level]) = {}

(* What is refined is on the surface: "CGAL_assertion                      *)
(* (this->is_facet_on_surface(facet))", Refine_facets_3.h:306.             *)
RefinedFacetsAreOnSurface ==
  \A t \in Threads : pc[t] \in {"grow", "visit"} =>
    \A f \in Active(t) : f.level = "facets" => f \in surface

(* refine_mesh returns, unless facets lie outside their conflict zones     *)
(* again and again: no thread waits for ever for a region, no element is   *)
(* tried again for ever, and the flush loop ends.                          *)
Termination ==
  <>[](\A t \in Threads : result[t] \notin {"outside", "astray"}) => <>(stage = "done")
===============================================================================
