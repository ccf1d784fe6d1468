# Verification of CGAL's concurrent algorithms and element memory

TLA+ models, TLC runs and TLAPS proofs for the parts of CGAL whose correctness is a matter of control and not of
geometry: the lock grid through which the parallel 3D meshing and triangulation algorithms share space, the parallel mesh
refinement that runs over it, the containers that hold every vertex, cell and dart, and the surface mesh with its free lists. `PROJECT.json` lists the components, runs, mutants, source lines, findings, hazards
and theorems; this file explains them.

## 1. The system

CGAL is a library of some 150 packages, nearly all header-only C++ templates. Most of it is sequential geometry over exact
or filtered numbers: no control worth a model checker, and data no model checker can enumerate. What has state machines,
shared state and protocols is this (paths below `src/`):

| Component | State | Operations | Hard behaviour |
|---|---|---|---|
| **Spatial lock grid** `STL_Extension/include/CGAL/Spatial_lock_grid_3.h` | one atomic word per grid cell; per thread: a flag per cell, a list of locked cells, a priority | `try_lock` of a cell, a point, a cube of cells; `unlock`, `unlock_all_points_locked_by_this_thread`, `unlock_all_tls_locked_cells_but_one`; `set_bbox` | compare-and-swap races, roll-back of half-locked cubes, stale list entries, spinning by priority |
| **Concurrent compact container** `.../Concurrent_compact_container.h` | blocks of slots, a free list per thread, capacity, next block size, clock; per slot: type bits, erase counter, time stamp | `emplace`, `insert`, `erase`, `clear`, `merge`, `swap`, iteration, `size` | slots erased by one thread and reused by another, blocks published outside the mutex, a counter rebuilt by placement new |
| **Time stamps** `.../Time_stamper.h` | the container's clock, a stamp per element | `initialize_time_stamp`, `set_time_stamp`, `less` | lock-free maximum, stamps that come with copies |
| **Safe handles** `.../CC_safe_handle.h` | a handle and an erase counter | creation, `is_zombie` | slots reused between creation and test |
| **Compact container** `.../Compact_container.h` | as above with one free list and a count | also `reserve`, `index`, `operator[]`, copies and moves | long sequences of calls, blocks that change owner |
| **3D triangulation data structure** `TDS_3/` | vertices, cells, adjacency | creation, flips, `copy_tds` | consistent adjacency |
| **Parallel insertion and removal** `Triangulation_3/include/CGAL/{Delaunay,Regular}_triangulation_3.h` | hints per thread, vertices left for the sequential pass | functors `Insert_point`, `Remove_point` with retry loops | handles kept over an unlock, livelock |
| **Mesh refinement** `Mesh_3/include/CGAL/Mesh_3/{Mesher_level,Mesher_3,Refine_*_3}.h` | queues of bad facets and cells, stop flag | `try_lock_and_refine_element`, requeue, `one_step`, `forced_stop` | zombies, postponed elements, termination |
| **Worksharing** `.../Worksharing_data_structures.h` | batches per grid cell or thread-local buffers, counters | `enqueue_work`, `run_next_work_item`, `flush_work_buffers` | counters that lag behind queues |
| **Bad-element queues** `Mesh_3/include/CGAL/Meshes/Filtered_*_container.h` | queue, predicate | `add_bad_element`, `get_next_element`, `no_longer_element_to_refine` | protocol of calls |
| **Optimisers** `.../{Sliver_perturber,Slivers_exuder,C3T3_helpers}.h` | priority queues with erase counters | perturb, pump, update queues | stale queue entries, retries |
| **Surface_mesh** `Surface_mesh/.../Surface_mesh.h` | removed flags, free lists through the properties | add, remove, `collect_garbage`, `operator+=` | renumbered free lists |
| everything else | | | kernels, 2D packages, processing algorithms, I/O, demos: not modelled |

How they interact: a parallel functor or a refinement task locks the zone it will change in the **lock grid** (all of it or
nothing), changes the **triangulation data structure**, which takes and returns elements of the **concurrent compact
container**, and calls `unlock_all_elements`. When a lock is refused it gives everything back and retries. The refinement
queues hold **safe handles**, because an element may be destroyed before its turn; **time stamps** order elements so that
runs are reproducible.

What makes each component correct: a cell has one owner, locks are neither leaked nor granted in part, nobody deadlocks;
a slot is in one place, `size` and iteration are exact, stamps are unique, safe handles tell erased elements; the parallel
algorithms never use an element that is gone and leave no element of the queues behind.

## 2. Plan

Done, in this order: `CellLocks`, `LockGrid`, `LockGridProofs`; `GridGeometry`; `ElementPool`,
`ConcurrentCompactContainer`, `ConcurrentCompactContainerProofs`; `CompactContainer`; `LockedTriangulation`,
`ParallelRefinement`, `ParallelRefinementProofs`; `MeshConnectivity`, `MeshGraph`, `SurfaceMesh`;
`GridGeometryProofs`; `DataLemmas`, `MeshConnectivityProofs`, `SurfaceMeshProofs`; `CompactContainerProofs`.

How they compose: `LockedTriangulation` instantiates `CellLocks`, which `LockGrid` is proved to implement, and its slots with
erase counters behave like those of `ElementPool`, which `ConcurrentCompactContainer` is proved to implement;
`ParallelRefinement` extends it with the tasks and queues of the mesher. `SurfaceMesh` is proved to implement `MeshGraph`.

What is left, and would need more geometry than TLC can enumerate: `Insert_point` and `Remove_point` of the parallel
triangulations with their retry loops; the sequential driver of `Mesher_3`; the queues of the sliver optimisers. What could be
added without: `merge` of the concurrent container, and the load-based worksharing class, which a macro that is off by default selects.

## 3. Modules

| Module | Models |
|---|---|
| `CellLocks` | abstract: one owner per cell |
| `LockGrid` | `Spatial_lock_grid_3`, both specialisations (`Blocking`) |
| `LockGridProofs` | theorems about `LockGrid` |
| `GridGeometry` | points, cell indices, cubes and loop order of the same class |
| `GridGeometryProofs` | theorems about it |
| `ElementPool` | abstract: places and unique stamps |
| `ConcurrentCompactContainer` | the container with its time stamper and the safe handles |
| `ConcurrentCompactContainerProofs` | theorems about it |
| `CompactContainer` | several sequential containers on one heap |
| `CompactContainerProofs` | theorems about it |
| `LockedTriangulation` | what `Triangulation_3` gives to parallel algorithms: cells, vertex locks, zones, retriangulation |
| `ParallelRefinement` | `Mesher_level`, `Refine_facets_3`, `Refine_cells_3`, their queues and worksharing, in parallel mode |
| `ParallelRefinementProofs` | theorems about both: the locking, then the queues, lists and tasks |
| `MeshConnectivity` | halfedge connectivity and the low-level setters |
| `MeshGraph` | abstract: meshes whose elements have names |
| `SurfaceMesh` | `Surface_mesh`: arrays, removed flags, free lists |
| `DataLemmas` | facts about numbers, finite sets and linked lists that the proofs share |
| `MeshConnectivityProofs` | what the operators of `MeshConnectivity` preserve |
| `SurfaceMeshProofs` | theorems about `SurfaceMesh` |
| `MC*` | instances for TLC |

### LockGrid
`grid[c]` is `m_grid[c]` (0 or the mark of the owner: its priority, or `true`), `lastId` is `last_id`, `prio`, `flag` and
`list` are the thread-local `m_tls_thread_priorities`, `m_tls_grids` and `m_tls_locked_cells`. The list is a set: the vector may hold
a cell twice, and the flag test of the unlock loops makes the second visit a no-op. A call is broken where another thread can
see or change something: the draw of a priority, the compare-and-swap (success, failure, back-off), each yield, and in `unlock`
the store to the grid and the later store to the flag. `CasFails` is the `no_spin` call or the non-blocking grid, `BackOff`
the test `old_value > this_thread_priority`, `Yield`/`Retry` the spin loop; a `Yield` on a free cell is the spurious failure of the
weak compare-and-swap. `Advance` and `GiveUp` are the two branches of the cube loop: the failing branch unlocks every cell tried before,
also those the thread held before the call, as the code does. The cubes are abstract sequences of cells; their shape is
`GridGeometry`'s.
Not modelled: `set_bbox` (called between parallel phases), the diagnostic `check_if_all_*`, and the order in which a thread
sees relaxed stores: the atomics of the model are sequentially consistent. The flags belong to one thread, so it sees its own
stores in order.

### GridGeometry
Pure operators, with integer coordinates in units of a fraction of a cell. `Truncated` is `static_cast<int>`, towards zero;
`Cube` is the sequence the three nested loops visit.

### ConcurrentCompactContainer
Slots are numbered in iteration order. `type` is the two low bits, `free[t]`/`size[t]` the thread-local `Free_list`, `fresh[t]` the
slots of a block between the mutex section and the loop that marks them, `saved`, `slot`, `prev` the locals of a running call, `source`
the stamp an inserted copy brings. `live`, `lives`, `handles`, `toCopy` are what the callers know; the container never reads
them, except that callers erase only live elements (a precondition of `erase`) and that a triangulation is copied into a
container nobody else uses yet. `ClearsCounter` chooses between the C++20 and the earlier `std::atomic` default constructor.
A constructor that does not mention `time_stamp_` leaves what is in memory: the code relies on it to re-use stamps. The
thread-local free list is one step with the read of its head, as no other thread reads it.
Not modelled: `merge`, `swap`, copies of the container, and the approximate size.

### CompactContainer
Sequential code: a call is a step. `cont[b]` is a record of the members, `blocks` being both `all_items` and the chain, which the
code keeps in the same order. `heap` has the type bits and the time stamp of each slot. `past` is history that no action
reads; it says for which containers a property is claimed. A range insertion is one step whose effect on the free list, blocks,
count and clock is that of its single insertions. Slots of `reserve` get any stamp of `Garbage`: the code initialises none.
Erase counters are not in this module; `swap(a, b)` of two containers is `FriendSwap`.

### LockedTriangulation
A cell is a slot with an erase counter (`life`) and, for each of its vertices, the region of the lock grid that the vertex lies in
(`place`). Two cells that share the regions of a facet may be neighbours; which cells conflict with a point is left open. `todo[t]` is what
remains of the loop of `try_lock_cell` or `try_lock_facet`, in any order; each vertex is looked up when it is locked, as in the code, so the
cell may have been replaced meanwhile. `Visit`/`Visited` take a neighbour of a locked cell into the zone; the border cells that
`find_conflicts` marks without locking them are neighbours of the zone, and `ZonesAreExclusive` says that no other thread holds or marks one of them. `Retriangulate` is one step because the zone is locked: that nobody else sees it half done is `ZonesAreExclusive`.
A thread waits for threads of lower priority and is refused by those of higher priority, as `LockGrid` does.
`unlock_all_elements` frees one region at a time.
Abstracted: the first lock radius (`FIRST_GRID_LOCK_RADIUS` is 0 by default), `locate` (a walk over locked cells like the growth of a zone),
the degenerate case of a point on a vertex, in which nothing is inserted.

### ParallelRefinement
`queue[l]` is the shared multimap of a level, `listed[t][l]` the thread-local lists, `buffer[t]` the `m_tls_work_buffers`, `batches` the tasks of the
`task_group` that have not started, `work[t]` the rest of a running batch. `stage` is where the main thread is in
`refine_mesh_in_parallel` (collect, wait, flush, splice), `pc[t]` where a task is in `Enqueue_element::operator()` and
`try_lock_and_refine_element`: `top` is the retry loop with its `forced_stop`, `test` and `lock` the two zombie tests around the locking,
`grow`/`visit` the conflict zone, `unlock` the release, `drain` `treat_local_refinement_queue`, `requeue` and `feed` what
follows the loop. `task[t]` is the element of the functor, `cur[t]` the one being refined (a facet of the local list while a cell is drained),
`inner[t]` an encroached facet that the facet level refines on behalf of a cell. `result[t]` is the status: `refused` is COULD_NOT_LOCK_ZONE or
COULD_NOT_LOCK_ELEMENT, `outside` THE_FACET_TO_REFINE_IS_NOT_IN_ITS_CONFLICT_ZONE, `reconsider` the postponed statuses,
`dropped` CONFLICT_AND_ELEMENT_SHOULD_BE_DROPPED, `astray` an encroached facet that is outside its zone.
The queues are sets: their order is that of the quality of elements. Zombies stay in the queues until they are tested. The criteria decide
freely which new elements are bad. Folded: `scan_edges` and `scan_vertices` into the scan of the levels. Not modelled: `maximal_number_of_vertices`,
a null insertion, the load-based worksharing class, `one_step`.

### SurfaceMesh
`mesh[a]` is a record of the members: `conn` the six connectivity arrays, and for each kind the `removed` flags, the head of the free list,
the counter, and `name`, which stands for any user property. Indices start at 0, halfedges of edge `e` are `2e` and `2e + 1`, the free list of
edges holds `2e`; `Null` is the maximum of the index type (the code itself stores -1). A call is a step. Callers keep the mesh valid: they
wire an edge they add (`Connect`), unwire one they remove (`Disconnect`), and fill holes as `Euler::fill_hole` does. They remove only vertices without
edges and edges without faces: the removal functions "do not adjust any of connected elements". `Swaps` gives the result of the two-ended
loop of `collect_garbage` in closed form, `HalfedgeSwaps` the same for halfedges, and `Renumbered` what its last loops write.
`IsValid` is what `is_valid` demands of the elements that are not removed; `IsManifold` is what it does not look at and the removals rely on. `MeshGraph` has the same operations on connectivity whose elements are names that are never reused;
`collect_garbage` and `set_recycle_garbage` are not seen there. Joining a mesh with itself is excluded (the code reads an array it is resizing).
Not modelled: `reserve`, `resize` by the caller, properties that only one of two joined meshes has.

## 4. Runs

| Run | Bounds | Shows |
|---|---|---|
| `lock_grid` | 2 threads, 3 cells, the 3 overlapping zones of two cells, priority blocking | the six invariants and `ImplementsCellLocks` |
| `lock_grid_live` | 2 threads, 2 cells in both orders | `NoEternalWait` |
| `grid_geometry` | 3x3x3 cells, 7 coordinates per axis in and out of the box, radii 0 to 2, pairs of requests of any of the radii | cubes are neighbourhoods, protect near points, agree on order |
| `ccc` | 2 threads, 3 slots in blocks of 1 and 2, 2 erasures per slot, 1 handle, a copied triangulation with gaps in its stamps | five invariants and `ImplementsPool` |
| `ccc_zombie` | the same | finding 1 |
| `compact_container` | 2 containers, 8 slots in blocks of 2, 4, ..., 6 calls | six invariants |
| `cc_index`, `cc_merge_stamps` | the same | findings 2 and 3 |
| `cc_reserve_stamps` | 1 container, new memory that reads as -1 or 0 | finding 4 |
| `parallel_refinement` | 2 threads, cells with three vertices over 2 regions, 3 of them at first, 1 new cell per insertion, at most 1 new bad element, batches of 1 or 2 | seven invariants and `Termination` |
| `refined_facet_on_surface` | the same | finding 5 |
| `surface_mesh` | 2 meshes of two shapes, 4 calls, at most 8 vertices, 4 edges, 4 faces | five properties and `ImplementsMeshGraph` |

Why the bounds are enough to be interesting. A zone of two cells has a part granted before a failure, and three zones in a ring
give partial overlap, cells held before a call and a cycle of waits. Two threads suffice for every pairwise race; cycles of
more threads are excluded by the proof. A block of one and a block of two slots have recycling, growth and a race for the
next block; two erasures make a slot change hands twice. The gaps in the copied stamps make the maximum loop raise the clock. Six calls
fill a second block, copy it, merge it and use the result. `CHECK_DEADLOCK FALSE` in the `CompactContainer` runs only
because a program may stop calling (after `MaxCalls`).

In `parallel_refinement` there are three cells, one in either region and one across the border. The cells on the two sides are bad: two threads
refine them at once, their zones meet in the middle, and the middle cell may be on the border of one of them; or there are two bad
neighbours with a facet between them on the surface, which they encroach; or that facet is bad too, batches have two elements, so that buffers
must be flushed, and an insertion creates one more bad element. `batchSize` is fixed by the initial state: it is read from a configuration
file. In `surface_mesh` both meshes begin with an edge, a face and two lonely vertices, or with two edges and two faces: two removals of a
kind in one mesh make a chain in which a link must be corrected, and a join and one more call use it.
`SYMMETRY` permutes the two meshes, which begin alike; `CHECK_DEADLOCK FALSE` because a program may stop calling.

Bounds that are guards: `StarSize` and `MaxBorn` (refinement creates finitely many bad elements: that the criteria are satisfied at
some point is a theorem of geometry), `MaxSize`, `IdBound` (priorities drawn; less than `MaxUInt`, so the counter does not wrap: with 2^32 drawn
priorities two threads could share one and spin on each other), `MaxCapacity`, `MaxErasures` (less than the range of the counter: after
2^32 erasures of a slot a handle would be wrong), `MaxHandles`, `MaxSlots`, `MaxCalls`.

Fairness. In `NoEternalWait`: a thread inside a call of the grid goes on (weak fairness of `Running`, the operating
system's scheduling); a thread that is outside its calls again and again unlocks everything at some point (strong fairness of
`UnlockAll`: every functor ends an attempt with `unlock_all_elements`); and the weak compare-and-swap does not fail spuriously for ever
on a cell that stays free. Nothing says that a thread ever gets a particular cell: the code does not promise it, a
thread of low priority may retry for ever.
In `Termination`: TBB runs the tasks and no thread stops for ever (weak fairness of `MainStep` and `ThreadStep`), and a thread that waits for
a region is not overtaken for ever (strong fairness of `Lock`, the spin loop of the lock grid). The property assumes that facets are
not outside their conflict zones again and again, which is a matter of exact arithmetic and is what finding 5 is about. It is checked for
two threads; the code bounds no retries, and with more threads one might be refused for ever.

### Findings
1. While `emplace` rebuilds an element its erase counter is zero (C++20), and `is_zombie` of an older handle is wrong
   (`HandlesAreExact`). `SettledHandlesAreExact` is what does hold, and is proved.
2. `operator[](index(it))` is not `*it` after a copy or a merge (`IndexIsTheSubscript`). `OwnBlocksAreIndexed` is what holds.
   The policy's arithmetic is also wrong for an odd block increment, which the assumption on `Growth` excludes; the default is 16.
3. `merge` lets two elements have one time stamp (`StampsAreUnique`), against the assertion of `Time_stamper::less`.
4. So does `reserve`, in a container that was never merged: it puts slots on the free list without initialising their stamps, which
   `allocate_new_block` does for the slots it adds, and `emplace` re-uses whatever stamp it finds. `OwnStampsAreUnique` is what holds; it excludes
   merges, `reserve`, and `insert` of a single copy.
5. In parallel a facet that exact computation takes off the surface is refined again by the retry loop (`RefinedFacetsAreOnSurface`), against
   the assertion of `refinement_point_impl`.

Also seen, and modelled as it is: `has_garbage` of a surface mesh stays true after the last removed element has been recycled, while its
comment says that it checks whether elements are marked as removed; the free function `swap` of two compact containers takes the second by value and leaves it
unchanged; the concurrent container's takes a reference.

## 5. Proofs

The first two proof modules have one inductive invariant `Inv`, the facts `Init => Inv` and `Inv /\ [Next]_vars => Inv'`, the consequence
`Inv => P` for each property, and PTL for the last step. TLC checked both invariants on the instances above first.

`LockGridProofs` holds for any threads, cells, zones and both specialisations, from `ZonesAssumption` (a zone is a non-empty sequence of
different cells) and `BoundAssumption` (the priority counter does not wrap). `Inv` is `TypeOK` and four parts. `CallInv` says which
cells the position in a zone obliges a thread to hold, or to be about to free. `LoopInv` says that flags are listed and that an
unlock loop frees only flagged cells: without it nothing excludes that a stale list entry frees another thread's cell. `GridInv` says that
a cell carries the mark of exactly the thread that holds it, `PrioInv` that priorities differ. `ExclusiveCells`, `NoLeakedCell`,
`GrantedZoneIsHeld` and `FailedZoneIsFreed` follow; `NoStuckSet` takes a minimum of the priorities in the set by
well-founded induction; `ImplementsCellLocks` maps each action to `Acquire`, `Release` or a stutter.

`ConcurrentCompactContainerProofs` holds for any threads, block sizes and copied stamps, from `ConstantsAssumption`. Its `Inv` adds to
`TypeOK`: every slot is in one place and its type bits agree with the place; the clock is above every stamp but the one that is being
copied into a slot, and the stamps of slots in use differ from each other and from those still to be copied; the counter
of a slot is the number of its erasures, but in the window of `emplace`, where `saved` is. It yields `SlotsInOnePlace`,
`ContentIsExact`, `StampsAreUnique`, `SettledHandlesAreExact` and `ImplementsPool`. For `size()` the free lists are disjoint and without
repetition, so the sum of their lengths, a fold over the threads, is the size of their union (`SizesAddUp`, by induction on a set of
threads; `ConstantsAssumption` says that there are finitely many).

`ParallelRefinementProofs` holds for any number of threads, regions, slots, corners (at least three) and bounds, from `GeometryAssumption` and
`TasksAssumption`. `TypeInvariant` is inductive alone. `LockingInvariant` is `TypeOK /\ ElementsKept /\ LockInv`. `ElementsKept` says that every
element on its way through queues, buffers and tasks names cells that are there or were destroyed (`IsKnown`), and that one that is no zombie
still shares its vertices with its mirror cell: without it a test of erase counters says nothing about the cells. `LockInv` says per thread
that its zone is alive and its regions held, that the cell being locked is pinned by one region that it holds (so nobody can destroy
it while its vertices are read), and that the element that passed the second test is no zombie and its vertices are held. The heart
is that retriangulation by one thread destroys no cell that shares a region with another thread's holdings (`PinnedCells`, `OthersZoneKept`).
`ZonesStayExclusive` and `RefinedElementsStayAlive` follow. That no cell lies on the border of two zones needs cells with three vertices: two
facets of such a cell have a vertex in common, whose region both threads would hold (with two vertices it is false).

Its second part, on the bookkeeping, adds three invariants to it, from the same assumptions. `PhaseInv` ties the threads to the main thread: outside of
its parallel phase they are idle, after the flush the buffers are empty, what waits for a level is of that level, a thread has no locks outside of
`try_lock_and_refine_element`, and its lists are empty until it has refined its task (so a refused or astray element leaves them empty
too, and the cancelled task that follows has nothing to clean up). It gives `PhasesAlwaysEndClean`. `OutcomeInv` says that an element that is forgotten is gone: what a thread
reported as inserted, dropped or a zombie still is when the thread acts on it, since erase counters only rise (this is where `ElementsKept` is needed:
an erase counter that no cell had yet could still be reached); an element that was kept back for a facet it encroaches is a cell, so it is a task and
not an entry of a list; and the group is cancelled only after a forced stop. With it `BadElementsArePending` is inductive (`BadElementsStayPending`), and
with `CellsAreDone` it gives `RefinementEndsComplete`. `PlacesInv` adds the queue of the level to `ItemsInOnePlace`; that elements of an
insertion are nowhere yet follows from `ElementsKept` again, since they name a counter that no known element names (`ItemsStayInOnePlace`). TLC checked `PhaseInv` and `OutcomeInv` on the
instances of `parallel_refinement` first.

`GridGeometryProofs` holds for any resolution, unit, radius and integer coordinates (`GeometryAssumption`, `RequestAssumption`). The state is a request,
so the invariant is its type, and the work is arithmetic: a cell number written in base `N` has one triple of digits (`CoordinatesOfIndex`), and the loop
counter of three nested loops, written in the base of their widths, goes through every triple once and in lexicographic order (`CubeLoops`).
`CubesAreNeighbourhoods`, `LocksCoverClosePoints` (clamping and truncation bring coordinates no further apart, `AxisIndexSteps`) and
`CubesShareOneOrder` (for any two radii, since each cube is visited in lexicographic order) follow.

`SurfaceMeshProofs` holds for any number of meshes, any bounds (`BoundAssumption`) and any first connectivities that are numbered from 0, valid and
manifold (`FirstsAssumption`: the code's constructors give an empty mesh, and its readers and builders give meshes that pass `is_valid`; TLC
evaluates it on the instance). The invariant `IInv` says of each mesh (`IsMesh`):
- the arrays have the lengths of the `removed` vectors;
- the free list of a kind is a `Chain`: there is a walk along the array `Link` from the head to `Null` that visits the nodes of the removed
  elements, each once, and their number is the counter. Without naming the walk one could not say how a removal, a recycling or a join changes it
  (`ChainPush`, `ChainPop`, `ChainSpliced`). `FreeNode`, the walk of the specification, is the same by induction (`ChainWalk`);
- the live elements are `Sound`: `IsValid` and `IsManifold`. `ElementsAreWellConnected` alone is not inductive: `remove_edge` leaves a vertex whose
  halfedge is the removed one unless every halfedge of the vertex is met going around it, and `remove_face` leaves a halfedge with the removed face
  unless going around the face meets all of them. "Can be met" is a least fixed point; `IsManifold` says it with closed sets, which needs no
  induction over paths and is kept by wiring, unwiring, renumbering and disjoint union (`WiredSound`, `UnwiredSound`, `RenumberedSound`, `UnionSound`);
- names of live elements are below the clock and differ;
- a mesh with removed elements is flagged.

One lemma per call (`AddVertexStep` to `CollectStep`) shows that it is kept. For `join` the second mesh is a renumbering by a shift, its free lists are
spliced in front of the first mesh's, and `Correction` is what makes the shifted links right. For `collect_garbage` the swaps pair the removed element
with `i` removed ones below it and the live element with `i` live ones above it: there are as many of either (`RanksPair`), so the map is a permutation that
is its own inverse and brings the live elements to the front. `Consistency` is `Spec => []IInv`; `Typing`, `ExactFreeLists`, `WellConnected`,
`FlaggedGarbage` follow. For `StableIndices` each call but `collect_garbage` and assignment `Follows`: an element of the new mesh whose name is old was
at the same index before. TLC checked the parts of `IInv` that the run does not have already (`IsManifold` and the names) on the instance of `surface_mesh` first.

Induction on numbers is used in the first-order form of `NaturalInduction`: a set that holds 0 and the successor of each of its elements holds every number.

`CompactContainerProofs` holds for any number of containers, any first block, any even growth that is at most twice as long
(`ConstantsAssumption`), any stamps found in uninitialised memory and any bounds. The invariant `IInv` (`World`) says that every slot that is not
unallocated is in a block of a container, no slot in blocks of two, and of each container (`Good`):
- `Sound`: the chain of its blocks lists its slots and its free list those marked free (`Lists`: each once), `size` is the number of used slots and `capacity` that of
  all slots. `SlotsInOnePlace` does not imply the counters, nor do the counters stay exact without it: an insertion counts a slot that must have been free, a merge adds two
  counters of disjoint sets;
- `Lined`, while nothing was erased, merged or reserved: the elements in insertion order, followed by the free list, are the chain. `InsertionOrder` alone is not inductive, for
  it does not say where the next element goes;
- `Clocked`, for containers with stamps of their own: the stamps of all slots, also the free ones, are below the clock and different. `OwnStampsAreUnique` speaks of elements only,
  but a recycled slot brings its old stamp back;
- stamps of used slots are set.

That iteration visits the used slots, each once (`IterationIs`), and in the order of the chain (`IterationLined`), rests on the numbers of a set in increasing
order (`InOrderIs`, from ranks); that new blocks take the first unused slots of memory, on the growth policy (`CapacityOfMore`, `NewBlocksAre`, by induction on the number of blocks) and
on what `FlattenSeq`, a recursive function, does to two chains joined (`FlattenTwo`). `FilledGood` is the central step: whatever stamps come in, elements take the head of
the free list and then the new slots. A call changes one container (`ChangeOne`), lets two change places (`ChangePlaces`) or merges them (`ChangeMerged`), and the
others are untouched because they share no slot with it. `ContainerTypes`, `HeapIsDivided`, `ExactCounters`, `OrderIsKept` and `UniqueStamps` follow. TLC checked `Sound`, `Lined` and
`Clocked` on the instance of `compact_container` first.

`SubscriptsFindElements` (`OwnBlocksAreIndexed`) needs a second invariant, `Regulars`: a container whose blocks come from its own growth has blocks of `FirstBlock`,
`FirstBlock + Growth`, ... slots, and the next block size goes on from there. Calls that add blocks keep it because new blocks go on where the others end (`NewBlocksLong`,
`LengthensOn`); merges and copies give it up (that is finding 2); the rest permutes containers. On the arithmetic side the first subscript of block `k` is
`FirstOf(k)`, the discriminant of the policy is a square there (`FirstOfRoot`), the rounded root lies between the roots of neighbouring squares (`RootBetween`), so
`get_index_and_block` gives the block and the place for every subscript (`IndexAndBlockIs`), the first and the last of a block included. `PlaceInLine` says, by induction on the
blocks, that the chain has that slot at that place. TLC checked `Regulars` on the instance of `compact_container` first.

### The refinement of `MeshGraph`
`Refinement`, in `SurfaceMeshProofs`, proves `ImplementsMeshGraph` from the same two assumptions and the invariant `IInv`. The mapping `InNames` reads the connectivity through the `name`
property, which sees no indices, no removed elements and no free lists. Nothing in it is an array that the code has, so every operator must be carried over:
- `Alike(d, c, V, H, F, av, ah, af)` says that `d` is the connectivity of the elements `V`, `H`, `F` of `c` when they are called `av`, `ah`, `af`. Resetting, wiring, unwiring,
  filling and clearing commute with it (`MeshConnectivityProofs`, second half); for faces this needs that going around a face, a least fixed point, meets the same halfedges under
  either names.
- The mesh in names is the one connectivity that is alike to the live part of the mesh's own (`ViewIs`, `ViewUnique`). It exists because names of live elements differ, which is a part of `IInv`.
- For each call, the arrays it writes are alike to what `MeshGraph` does to the old mesh in names; by uniqueness that is the new mesh in names (`AddVertexView` to `JoinView`). An addition takes
  the clock for its name, whether the place is new or recycled, and no live element has that name. A removal leaves the name to no live element.
- `collect_garbage` moves elements with their names, so the mesh in names stays as it is (`CollectView`): that is where the permutation of the swaps is used again. `set_recycle_garbage` changes nothing that is seen.
- `join` raises the names of the second mesh by the clock, which is above all names of the first; the two parts are disjoint under names as they are under indices (`PromisedJoin`).

`PromisedInit` and `PromisedStep` put them together: a first mesh has its own connectivity under names, and every step is a step of `MeshGraph` or a stutter.

Only model-checked: `NoEternalWait` and `Termination`, which are liveness under fairness. The violations of section 4 are counterexamples and need no proof.

## 6. Not modelled

Kernels, number types, predicates, 2D and periodic triangulations, arrangements, Nef polyhedra, mesh and point-set
processing: sequential algorithms whose correctness is that of exact arithmetic. Demos, I/O, build scripts. Reference-counted
handles: not shared between threads by CGAL's own rule (`Documentation/doc/Documentation/Preliminaries.txt`). The functors of parallel insertion
and removal and the sliver optimisers: their control is a retry loop around `LockedTriangulation`, and everything else they decide is
geometry. The map covers a small part of the repository for that reason: nearly all of its lines are geometry, data and documentation.
