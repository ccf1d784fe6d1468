----------------------- MODULE ParallelRefinementProofs -----------------------
(***************************************************************************)
(* Proofs about ParallelRefinement, for any number of threads, cells,      *)
(* regions and elements.                                                   *)
(***************************************************************************)
EXTENDS ParallelRefinement, TLAPS

USE DEF Handles

(* The initial state has the types. *)
LEMMA InitType == Init => TypeOK
<1> SUFFICES ASSUME NEW first \in SUBSET Slots, NEW shape \in [Slots -> Shapes],
                    InitWith(first, shape)
             PROVE  TypeOK
  BY DEF Init
<1>1. TriangulationTypeOK
  BY DEF InitWith, InitTriangulation, TriangulationTypeOK
<1>2. PICK facets \in SUBSET (UNION {FacetsOf(s) : s \in first}),
           badCells \in SUBSET {CellElement(s) : s \in first} :
             \E badFacets \in SUBSET facets :
               InitRefinement(facets, badCells \cup badFacets)
  BY DEF InitWith
<1>4. PICK badFacets \in SUBSET facets :
             InitRefinement(facets, badCells \cup badFacets)
  BY <1>2
<1>3. facets \subseteq Elements /\ badCells \subseteq Elements
  BY <1>1, TasksAssumption DEF TriangulationTypeOK, Elements, CellElement,
     FacetsOf, FacetElement, Levels, InitWith, InitTriangulation
<1>5. /\ bad \subseteq Elements /\ surface \subseteq Elements
      /\ queue \in [Levels -> SUBSET Elements]
  BY <1>3, <1>4 DEF InitRefinement
<1>6. born \in Nat /\ batchSize \in BatchSizes
  BY <1>4, TasksAssumption DEF InitRefinement
<1>7. listed \in [Threads -> [Levels -> SUBSET Elements]]
  BY <1>4 DEF InitRefinement
<1>8. \A t \in Threads : IsSingle(task[t]) /\ IsSingle(cur[t]) /\ IsSingle(inner[t])
  BY <1>4 DEF InitRefinement, IsSingle
<1>9. /\ level \in Levels /\ stage \in Stages
      /\ result \in [Threads -> Results] /\ pc \in [Threads -> Labels]
      /\ task \in [Threads -> SUBSET Elements] /\ cur \in [Threads -> SUBSET Elements]
      /\ inner \in [Threads -> SUBSET Elements] /\ again \in [Threads -> BOOLEAN]
      /\ buffer \in [Threads -> SUBSET Elements] /\ work \in [Threads -> SUBSET Elements]
      /\ batches \subseteq (SUBSET Elements) \ {{}} /\ dropped \subseteq Elements
      /\ stop \in BOOLEAN /\ cancelled \in BOOLEAN
  BY <1>4 DEF InitRefinement, Levels, Stages, Labels, Results
<1> QED
  BY <1>1, <1>5, <1>6, <1>7, <1>8, <1>9 DEF TypeOK

(* An element that joins a buffer keeps its type, and a full buffer        *)
(* becomes a batch, which is not empty.                                    *)
LEMMA EnqueueType ==
  ASSUME TypeOK, NEW t \in Threads, NEW e \in Elements, Enqueue(t, e)
  PROVE  /\ buffer' \in [Threads -> SUBSET Elements]
         /\ batches' \subseteq (SUBSET Elements) \ {{}}
<1> DEFINE b == buffer[t] \cup {e}
<1>1. b \in (SUBSET Elements) \ {{}}
  BY DEF TypeOK
<1> HIDE DEF b
<1>2. CASE Cardinality(b) >= batchSize
  <2>1. buffer' = [buffer EXCEPT ![t] = {}] /\ Run({b})
    BY <1>2 DEF Enqueue, b
  <2> QED BY <2>1, <1>1 DEF TypeOK, Run
<1>3. CASE ~(Cardinality(b) >= batchSize)
  <2>1. buffer' = [buffer EXCEPT ![t] = b] /\ UNCHANGED batches
    BY <1>3 DEF Enqueue, b
  <2> QED BY <2>1, <1>1 DEF TypeOK
<1> QED BY <1>2, <1>3

-----------------------------------------------------------------------------
(***************************************************************************)
(* The parts of the type invariant.                                        *)
(***************************************************************************)
LockingType ==
  /\ owner \in [Regions -> {{}} \cup {{t} : t \in Threads}]
  /\ todo \in [Threads -> SUBSET (Slots \X Corners)]
  /\ next \in [Threads -> SUBSET Slots]
  /\ zone \in [Threads -> SUBSET Slots]

CellsType ==
  /\ alive \subseteq Slots
  /\ life \in [Slots -> Nat]
  /\ place \in [Slots -> Shapes]

CriteriaType ==
  /\ bad \subseteq Elements
  /\ surface \subseteq Elements
  /\ dropped \subseteq Elements
  /\ born \in Nat

TasksType ==
  /\ queue \in [Levels -> SUBSET Elements]
  /\ buffer \in [Threads -> SUBSET Elements]
  /\ batches \subseteq (SUBSET Elements) \ {{}}
  /\ work \in [Threads -> SUBSET Elements]
  /\ listed \in [Threads -> [Levels -> SUBSET Elements]]

StatusType ==
  /\ task \in [Threads -> SUBSET Elements]
  /\ cur \in [Threads -> SUBSET Elements]
  /\ inner \in [Threads -> SUBSET Elements]
  /\ \A t \in Threads : IsSingle(task[t]) /\ IsSingle(cur[t]) /\ IsSingle(inner[t])
  /\ result \in [Threads -> Results]
  /\ again \in [Threads -> BOOLEAN]

ControlType ==
  /\ level \in Levels
  /\ stage \in Stages
  /\ stop \in BOOLEAN
  /\ cancelled \in BOOLEAN
  /\ batchSize \in BatchSizes
  /\ pc \in [Threads -> Labels]

(* The type invariant in parts, one for each group of variables. *)
LEMMA TypeParts ==
  TypeOK <=> /\ LockingType /\ CellsType /\ CriteriaType
             /\ TasksType /\ StatusType /\ ControlType
BY DEF TypeOK, TriangulationTypeOK, LockingType, CellsType, CriteriaType,
   TasksType, StatusType, ControlType

(* The parts give the type invariant of the next state. *)
LEMMA TypePartsNext ==
  /\ LockingType' /\ CellsType' /\ CriteriaType'
  /\ TasksType' /\ StatusType' /\ ControlType'
  => TypeOK'
BY DEF TypeOK, TriangulationTypeOK, LockingType, CellsType, CriteriaType,
   TasksType, StatusType, ControlType

(* A step that leaves a group of variables alone keeps its type. *)
LEMMA UnchangedParts ==
  /\ LockingType /\ UNCHANGED locking => LockingType'
  /\ CellsType /\ UNCHANGED cells => CellsType'
  /\ CriteriaType /\ UNCHANGED criteria => CriteriaType'
  /\ TasksType /\ UNCHANGED tasks => TasksType'
  /\ StatusType /\ UNCHANGED status => StatusType'
BY DEF LockingType, CellsType, CriteriaType, TasksType, StatusType,
   locking, cells, criteria, tasks, status

(* The locking operations. *)
LEMMA LockingTypes ==
  ASSUME LockingType, CellsType, NEW t \in Threads
  PROVE  /\ \A V \in SUBSET (Slots \X Corners) : StartLocking(t, V) => LockingType'
         /\ LockVertex(t) => LockingType'
         /\ \A n \in Slots : Visit(t, n) => LockingType'
         /\ Visited(t) => LockingType'
         /\ StartUnlocking(t) => LockingType'
         /\ UnlockRegion(t) => LockingType'
<1>1. ASSUME NEW V \in SUBSET (Slots \X Corners), StartLocking(t, V) PROVE LockingType'
  BY <1>1 DEF StartLocking, LockingType
<1>2. ASSUME LockVertex(t) PROVE LockingType'
  <2>1. PICK v \in todo[t] :
          /\ \/ RegionOf(v) \in Held(t) /\ UNCHANGED owner
             \/ Locks!Acquire(t, RegionOf(v))
          /\ todo' = [todo EXCEPT ![t] = @ \ {v}]
          /\ UNCHANGED <<next, zone>>
    BY <1>2 DEF LockVertex
  <2>2. owner' \in [Regions -> {{}} \cup {{u} : u \in Threads}]
    BY <2>1 DEF Locks!Acquire, LockingType
  <2> QED BY <2>1, <2>2 DEF LockingType
<1>3. ASSUME NEW n \in Slots, Visit(t, n) PROVE LockingType'
  BY <1>3 DEF Visit, LockingType, VerticesOf
<1>4. ASSUME Visited(t) PROVE LockingType'
  BY <1>4 DEF Visited, LockingType
<1>5. ASSUME StartUnlocking(t) PROVE LockingType'
  BY <1>5 DEF StartUnlocking, LockingType
<1>6. ASSUME UnlockRegion(t) PROVE LockingType'
  <2>1. PICK r \in Held(t) : Locks!Release(t, r)
    BY <1>6 DEF UnlockRegion
  <2>2. owner' \in [Regions -> {{}} \cup {{u} : u \in Threads}]
    BY <2>1 DEF Locks!Release, LockingType
  <2> QED BY <1>6, <2>2 DEF UnlockRegion, LockingType
<1> QED BY <1>1, <1>2, <1>3, <1>4, <1>5, <1>6

(* The results and the labels that the actions write have their types. *)
LEMMA ResultNames ==
  /\ {"none", "inserted", "dropped", "reconsider", "zombie", "refused",
      "outside", "astray"} \subseteq Results
  /\ {"idle", "top", "test", "lock", "grow", "visit", "unlock", "drain",
      "requeue", "feed"} \subseteq Labels
BY DEF Results, Labels

(* Giving an element up for this time. *)
LEMMA LeaveType ==
  ASSUME TypeOK, NEW t \in Threads, NEW r \in Results, Leave(t, r),
         UNCHANGED <<task, cur, again, control>>
  PROVE  LockingType' /\ StatusType' /\ ControlType'
<1>1. LockingType'
  BY LockingTypes, TypeParts DEF Leave
<1>2. inner' = [inner EXCEPT ![t] = {}] /\ result' = [result EXCEPT ![t] = r]
  BY DEF Leave
<1>3. StatusType'
  BY <1>2, TypeParts DEF StatusType, IsSingle
<1>4. pc' \in [Threads -> Labels]
  BY TypeParts, ResultNames DEF Leave, ControlType
<1> QED BY <1>1, <1>3, <1>4, TypeParts DEF ControlType, control

(* The main thread and a forced stop keep the types. *)
LEMMA MainType == TypeOK /\ (MainStep \/ ForcedStop) => TypeOK'
<1> SUFFICES ASSUME TypeOK, MainStep \/ ForcedStop PROVE TypeOK'
  OBVIOUS
<1> USE DEF TypeOK, TriangulationTypeOK, Levels, Stages, cells, locking, criteria,
            tasks, status, control
<1>1. CASE Begin
  BY <1>1 DEF Begin
<1>2. CASE Collected
  BY <1>2 DEF Collected
<1>3. CASE Waited
  BY <1>3 DEF Waited
<1>4. CASE Flush
  BY <1>4 DEF Flush
<1>5. CASE Flushed
  BY <1>5 DEF Flushed
<1>6. CASE Splice
  <2>1. \A t \in Threads : listed[t] \in [Levels -> SUBSET Elements]
    OBVIOUS
  <2>2. listed' \in [Threads -> [Levels -> SUBSET Elements]]
    <3>1. \A t \in Threads :
            [listed[t] EXCEPT ![level] = {}] \in [Levels -> SUBSET Elements]
      BY <2>1
    <3> QED BY <1>6, <3>1 DEF Splice
  <2>3. queue' \in [Levels -> SUBSET Elements]
    <3>1. UNION {listed[t][level] : t \in Threads} \subseteq Elements
      BY <2>1
    <3> QED BY <1>6, <3>1 DEF Splice
  <2>4. stage' \in Stages
    BY <1>6 DEF Splice
  <2> QED BY <1>6, <2>2, <2>3, <2>4 DEF Splice
<1>7. CASE ScanCells
  BY <1>7 DEF ScanCells
<1>8. CASE Finish
  BY <1>8 DEF Finish
<1>9. CASE ForcedStop
  BY <1>9 DEF ForcedStop
<1>10. CASE Collect
  <2>1. PICK e \in Living(queue[level]) :
          queue' = [queue EXCEPT ![level] = @ \ {e}] /\ Enqueue(Main, e)
    BY <1>10 DEF Collect
  <2>2. e \in Elements
    BY DEF Living
  <2>3. /\ buffer' \in [Threads -> SUBSET Elements]
        /\ batches' \subseteq (SUBSET Elements) \ {{}}
    BY <2>1, <2>2, EnqueueType, TasksAssumption
  <2> QED BY <1>10, <2>1, <2>3 DEF Collect
<1> QED
  BY <1>1, <1>2, <1>3, <1>4, <1>5, <1>6, <1>7, <1>8, <1>9, <1>10 DEF MainStep

(* What an insertion does, by its parts. *)
LEMMA InsertParts ==
  ASSUME NEW t \in Threads, Insert(t)
  PROVE  \E hole \in SUBSET zone[t], star \in SUBSET (Slots \ alive) :
           /\ \E e \in Active(t) : InItsZone(e, hole)
           /\ \E shape \in [star -> Shapes] : Retriangulate(hole, star, shape)
           /\ \E badCells \in SUBSET {CellElement(s)' : s \in star},
                 onSurface \in SUBSET (UNION {FacetsOf(s)' : s \in star}) :
                \E badFacets \in SUBSET onSurface :
                  /\ born' = born + Cardinality(badCells \cup onSurface)
                  /\ born' \in 0 .. MaxBorn
                  /\ surface' = {f \in surface : ~IsZombie(f)'} \cup onSurface
                  /\ bad' = {e \in bad : ~IsZombie(e)'} \cup badCells \cup badFacets
                  /\ List(t, badCells \cup badFacets)
<1>1. PICK hole \in SUBSET zone[t] :
       /\ \E e \in Active(t) : InItsZone(e, hole)
       /\ \E star \in SUBSET (Slots \ alive) :
            /\ \E shape \in [star -> Shapes] : Retriangulate(hole, star, shape)
            /\ \E badCells \in SUBSET {CellElement(s)' : s \in star},
                  onSurface \in SUBSET (UNION {FacetsOf(s)' : s \in star}) :
                 /\ born' = born + Cardinality(badCells \cup onSurface)
                 /\ born' \in 0 .. MaxBorn
                 /\ surface' = {f \in surface : ~IsZombie(f)'} \cup onSurface
                 /\ \E badFacets \in SUBSET onSurface :
                      /\ bad' = {e \in bad : ~IsZombie(e)'} \cup badCells \cup badFacets
                      /\ List(t, badCells \cup badFacets)
  BY Zenon DEF Insert
<1>2. PICK star \in SUBSET (Slots \ alive) :
            /\ \E shape \in [star -> Shapes] : Retriangulate(hole, star, shape)
            /\ \E badCells \in SUBSET {CellElement(s)' : s \in star},
                  onSurface \in SUBSET (UNION {FacetsOf(s)' : s \in star}) :
                 /\ born' = born + Cardinality(badCells \cup onSurface)
                 /\ born' \in 0 .. MaxBorn
                 /\ surface' = {f \in surface : ~IsZombie(f)'} \cup onSurface
                 /\ \E badFacets \in SUBSET onSurface :
                      /\ bad' = {e \in bad : ~IsZombie(e)'} \cup badCells \cup badFacets
                      /\ List(t, badCells \cup badFacets)
  BY <1>1, Zenon
<1> QED BY <1>1, <1>2, Zenon

(* A new star in the slots of a hole keeps the types of the cells. *)
LEMMA RetriangulateType ==
  ASSUME CellsType, NEW hole \in SUBSET Slots, NEW star \in SUBSET (Slots \ alive),
         NEW shape \in [star -> Shapes], Retriangulate(hole, star, shape)
  PROVE  CellsType'
<1>1. alive' \in SUBSET Slots
  BY DEF CellsType, Retriangulate
<1>2. life' \in [Slots -> Nat]
  BY DEF CellsType, Retriangulate
<1>3. place' \in [Slots -> Shapes]
  BY DEF CellsType, Retriangulate
<1> QED BY <1>1, <1>2, <1>3 DEF CellsType

(* The elements that are made from cells have their type. *)
LEMMA NewElementTypes ==
  ASSUME CellsType'
  PROVE  /\ \A s \in Slots : CellElement(s)' \in Elements
         /\ \A s \in Slots : FacetsOf(s)' \subseteq Elements
BY TasksAssumption
DEF CellsType, Elements, Handles, CellElement, FacetsOf, FacetElement, Levels

(* An insertion keeps the types. *)
LEMMA InsertType == ASSUME TypeOK, NEW t \in Threads, Insert(t) PROVE TypeOK'
<1> USE TypeParts, TypePartsNext
<1>1. PICK hole \in SUBSET zone[t], star \in SUBSET (Slots \ alive) :
       /\ \E shape \in [star -> Shapes] : Retriangulate(hole, star, shape)
       /\ \E badCells \in SUBSET {CellElement(s)' : s \in star},
             onSurface \in SUBSET (UNION {FacetsOf(s)' : s \in star}) :
            \E badFacets \in SUBSET onSurface :
              /\ born' = born + Cardinality(badCells \cup onSurface)
              /\ born' \in 0 .. MaxBorn
              /\ surface' = {f \in surface : ~IsZombie(f)'} \cup onSurface
              /\ bad' = {e \in bad : ~IsZombie(e)'} \cup badCells \cup badFacets
              /\ List(t, badCells \cup badFacets)
  BY InsertParts
<1>2. PICK shape \in [star -> Shapes] : Retriangulate(hole, star, shape)
  BY <1>1
<1>3. PICK badCells \in SUBSET {CellElement(s)' : s \in star},
           onSurface \in SUBSET (UNION {FacetsOf(s)' : s \in star}) :
            \E badFacets \in SUBSET onSurface :
              /\ born' = born + Cardinality(badCells \cup onSurface)
              /\ born' \in 0 .. MaxBorn
              /\ surface' = {f \in surface : ~IsZombie(f)'} \cup onSurface
              /\ bad' = {e \in bad : ~IsZombie(e)'} \cup badCells \cup badFacets
              /\ List(t, badCells \cup badFacets)
  BY <1>1
<1>4. PICK badFacets \in SUBSET onSurface :
              /\ born' = born + Cardinality(badCells \cup onSurface)
              /\ born' \in 0 .. MaxBorn
              /\ surface' = {f \in surface : ~IsZombie(f)'} \cup onSurface
              /\ bad' = {e \in bad : ~IsZombie(e)'} \cup badCells \cup badFacets
              /\ List(t, badCells \cup badFacets)
  BY <1>3
<1>5. CellsType'
  <2>1. hole \in SUBSET Slots
    BY DEF LockingType
  <2> QED BY <1>2, <2>1, RetriangulateType
<1>6. badCells \subseteq Elements /\ onSurface \subseteq Elements
  BY <1>5, NewElementTypes
<1>7. CriteriaType'
  <2>1. bad' \subseteq Elements /\ surface' \subseteq Elements
    BY <1>4, <1>6 DEF CriteriaType
  <2>2. dropped' \subseteq Elements
    BY DEF Insert, CriteriaType
  <2>3. born' \in Nat
    BY <1>4, TasksAssumption
  <2> QED BY <2>1, <2>2, <2>3 DEF CriteriaType
<1>8. TasksType'
  <2> DEFINE new == badCells \cup badFacets
  <2>1. new \subseteq Elements
    BY <1>6
  <2>2. listed' \in [Threads -> [Levels -> SUBSET Elements]]
    BY <1>4, <2>1 DEF List, TasksType
  <2> QED BY <2>2 DEF Insert, TasksType
<1>9. LockingType' /\ StatusType' /\ ControlType'
  BY LeaveType, ResultNames DEF Insert
<1> QED BY <1>5, <1>7, <1>8, <1>9

(* Every step of a thread keeps the types. *)
LEMMA ThreadType ==
  ASSUME TypeOK, NEW t \in Threads, ThreadStep(t)
  PROVE  TypeOK'
<1> USE TypeParts, TypePartsNext, UnchangedParts, ResultNames
<1>1. CASE TakeBatch(t)
  <2>1. TasksType'
    BY <1>1 DEF TakeBatch, TasksType
  <2>2. StatusType'
    BY <1>1 DEF TakeBatch, StatusType, status
  <2>3. ControlType'
    BY <1>1 DEF TakeBatch, ControlType, control
  <2> QED BY <1>1, <2>1, <2>2, <2>3 DEF TakeBatch
<1>2. CASE StartElement(t)
  <2>1. TasksType'
    BY <1>2 DEF StartElement, TasksType
  <2>2. StatusType'
    BY <1>2 DEF StartElement, StatusType, TasksType, IsSingle
  <2>3. ControlType'
    BY <1>2 DEF StartElement, ControlType, control
  <2> QED BY <1>2, <2>1, <2>2, <2>3 DEF StartElement
<1>3. CASE CancelTask(t)
  <2>1. TasksType'
    BY <1>3 DEF CancelTask, TasksType
  <2>2. StatusType'
    BY <1>3 DEF CancelTask, StatusType, IsSingle
  <2>3. ControlType'
    BY <1>3 DEF CancelTask, ControlType
  <2> QED BY <1>3, <2>1, <2>2, <2>3 DEF CancelTask
<1>4. CASE GoOn(t)
  <2>1. ControlType'
    BY <1>4 DEF GoOn, ControlType, control
  <2> QED BY <1>4, <2>1 DEF GoOn
<1>5. CASE FirstTest(t)
  <2>1. PICK e \in cur[t] :
          \/ Leave(t, "zombie")
          \/ /\ pc' = [pc EXCEPT ![t] = "lock"]
             /\ StartLocking(t, VerticesOfElement(e))
             /\ UNCHANGED <<inner, result>>
    BY <1>5 DEF FirstTest
  <2>2. VerticesOfElement(e) \in SUBSET (Slots \X Corners)
    BY DEF VerticesOfElement, StatusType, Elements, Handles
  <2>3. LockingType' /\ StatusType' /\ ControlType'
    <3>1. UNCHANGED <<task, cur, again, control>>
      BY <1>5 DEF FirstTest
    <3>2. CASE Leave(t, "zombie")
      BY <3>1, <3>2, LeaveType
    <3>3. CASE /\ pc' = [pc EXCEPT ![t] = "lock"]
               /\ StartLocking(t, VerticesOfElement(e))
               /\ UNCHANGED <<inner, result>>
      <4>1. LockingType' BY <2>2, <3>3, LockingTypes
      <4>2. StatusType' BY <3>1, <3>3, UnchangedParts DEF status
      <4>3. ControlType' BY <3>1, <3>3 DEF ControlType, control
      <4> QED BY <4>1, <4>2, <4>3
    <3> QED BY <2>1, <3>2, <3>3
  <2> QED BY <1>5, <2>3 DEF FirstTest
<1>6. CASE Lock(t)
  <2>1. LockingType'
    BY <1>6, LockingTypes DEF Lock
  <2>2. ControlType'
    BY <1>6 DEF Lock, ControlType, control
  <2> QED BY <1>6, <2>1, <2>2 DEF Lock
<1>7. CASE Refused(t)
  <2>1. LockingType' /\ StatusType' /\ ControlType'
    BY <1>7, LeaveType DEF Refused
  <2> QED BY <1>7, <2>1 DEF Refused
<1>8. CASE SecondTest(t)
  <2>1. LockingType' /\ StatusType' /\ ControlType'
    <3>1. UNCHANGED <<task, cur, again, control>>
      BY <1>8 DEF SecondTest
    <3>2. CASE Leave(t, "zombie")
      BY <3>1, <3>2, LeaveType
    <3>3. CASE pc' = [pc EXCEPT ![t] = "grow"] /\ UNCHANGED <<locking, inner, result>>
      <4>1. StatusType' BY <3>1, <3>3, UnchangedParts DEF status
      <4>2. ControlType' BY <3>1, <3>3 DEF ControlType, control
      <4> QED BY <4>1, <4>2, <3>3
    <3> QED BY <1>8, <3>2, <3>3 DEF SecondTest
  <2> QED BY <1>8, <2>1 DEF SecondTest
<1>9. CASE Grow(t)
  <2>1. PICK n \in {e.cell[1] : e \in cur[t]} \cup Neighbours(t) : Visit(t, n)
    BY <1>9 DEF Grow
  <2>2. n \in Slots
    BY DEF Neighbours, CellsType, StatusType, Elements, Handles
  <2>3. LockingType'
    BY <2>1, <2>2, LockingTypes
  <2>4. ControlType'
    BY <1>9 DEF Grow, ControlType, control
  <2> QED BY <1>9, <2>3, <2>4 DEF Grow
<1>10. CASE Grown(t)
  <2>1. LockingType'
    BY <1>10, LockingTypes DEF Grown
  <2>2. ControlType'
    BY <1>10 DEF Grown, ControlType, control
  <2> QED BY <1>10, <2>1, <2>2 DEF Grown
<1>11. CASE RefineEncroached(t)
  <2>1. StatusType'
    BY <1>11 DEF RefineEncroached, StatusType, CriteriaType, IsSingle
  <2>2. ControlType'
    BY <1>11 DEF RefineEncroached, ControlType, control
  <2> QED BY <1>11, <2>1, <2>2 DEF RefineEncroached
<1>12. CASE Drop(t)
  <2>1. LockingType' /\ StatusType' /\ ControlType'
    BY <1>12, LeaveType DEF Drop
  <2>2. CriteriaType'
    BY <1>12 DEF Drop, CriteriaType, StatusType
  <2> QED BY <1>12, <2>1, <2>2 DEF Drop
<1>13. CASE Insert(t)
  BY <1>13, InsertType
<1>14. CASE OutsideItsZone(t)
  <2>1. LockingType' /\ StatusType' /\ ControlType'
    BY <1>14, LeaveType DEF OutsideItsZone
  <2>2. CriteriaType'
    BY <1>14 DEF OutsideItsZone, CriteriaType
  <2> QED BY <1>14, <2>1, <2>2 DEF OutsideItsZone
<1>15. CASE Unlock(t)
  <2>1. LockingType'
    BY <1>15, LockingTypes DEF Unlock
  <2>2. ControlType'
    BY <1>15 DEF Unlock, ControlType, control
  <2> QED BY <1>15, <2>1, <2>2 DEF Unlock
<1>16. CASE Retry(t)
  <2>1. StatusType'
    BY <1>16 DEF Retry, StatusType
  <2>2. ControlType'
    BY <1>16 DEF Retry, ControlType, control
  <2> QED BY <1>16, <2>1, <2>2 DEF Retry
<1>17. CASE Settled(t)
  <2>1. TasksType'
    <3>1. [listed[t] EXCEPT !["facets"] = @ \ cur[t]] \in [Levels -> SUBSET Elements]
      BY DEF TasksType, Levels
    <3>2. \/ UNCHANGED listed
          \/ listed' = [listed EXCEPT ![t] = [listed[t] EXCEPT !["facets"] = @ \ cur[t]]]
      BY <1>17 DEF Settled, TasksType
    <3>3. listed' \in [Threads -> [Levels -> SUBSET Elements]]
      BY <3>1, <3>2 DEF TasksType
    <3> QED BY <1>17, <3>3 DEF Settled, TasksType
  <2>2. StatusType'
    <3>1. /\ result' = [result EXCEPT ![t] = "none"]
          /\ cur' = [cur EXCEPT ![t] = {}]
          /\ UNCHANGED <<task, inner>>
      BY <1>17 DEF Settled
    <3>2. \/ UNCHANGED again
          \/ again' = [again EXCEPT ![t] = result[t] \in {"reconsider", "astray"}]
      BY <1>17 DEF Settled
    <3>3. (result[t] \in {"reconsider", "astray"}) \in BOOLEAN
      OBVIOUS
    <3>4. again' \in [Threads -> BOOLEAN]
      BY <3>2, <3>3 DEF StatusType
    <3>5. result' \in [Threads -> Results] /\ cur' \in [Threads -> SUBSET Elements]
      BY <3>1 DEF StatusType
    <3>6. \A u \in Threads : IsSingle(cur'[u])
      BY <3>1 DEF StatusType, IsSingle
    <3> QED BY <3>1, <3>4, <3>5, <3>6 DEF StatusType, IsSingle
  <2>3. ControlType'
    BY <1>17 DEF Settled, ControlType, control
  <2> QED BY <1>17, <2>1, <2>2, <2>3 DEF Settled
<1>18. CASE DrainFacet(t)
  <2>1. StatusType'
    BY <1>18 DEF DrainFacet, StatusType, TasksType, Living, IsSingle, Levels
  <2>2. ControlType'
    BY <1>18 DEF DrainFacet, ControlType, control
  <2> QED BY <1>18, <2>1, <2>2 DEF DrainFacet
<1>19. CASE Drained(t)
  <2>1. TasksType'
    <3>1. [listed[t] EXCEPT !["facets"] = {}] \in [Levels -> SUBSET Elements]
      BY DEF TasksType
    <3>2. \/ UNCHANGED listed
          \/ listed' = [listed EXCEPT ![t] = [listed[t] EXCEPT !["facets"] = {}]]
      BY <1>19 DEF Drained, TasksType
    <3>3. listed' \in [Threads -> [Levels -> SUBSET Elements]]
      BY <3>1, <3>2 DEF TasksType
    <3> QED BY <1>19, <3>3 DEF Drained, TasksType
  <2>2. ControlType'
    BY <1>19 DEF Drained, ControlType, control
  <2> QED BY <1>19, <2>1, <2>2 DEF Drained
<1>20. CASE Requeue(t)
  <2>1. /\ buffer' \in [Threads -> SUBSET Elements]
        /\ batches' \subseteq (SUBSET Elements) \ {{}}
    <3>1. CASE UNCHANGED <<buffer, batches>>
      BY <3>1 DEF TasksType
    <3>2. CASE \E e \in task[t] : Enqueue(t, e)
      BY <3>2, EnqueueType DEF StatusType
    <3> QED BY <1>20, <3>1, <3>2 DEF Requeue
  <2>2. TasksType'
    BY <1>20, <2>1 DEF Requeue, TasksType
  <2>3. StatusType'
    BY <1>20 DEF Requeue, StatusType, IsSingle
  <2>4. ControlType'
    BY <1>20 DEF Requeue, ControlType, control
  <2> QED BY <1>20, <2>2, <2>3, <2>4 DEF Requeue
<1>21. CASE Feed(t)
  <2>1. PICK e \in Living(listed[t][level]) :
          listed' = [listed EXCEPT ![t][level] = @ \ {e}] /\ Enqueue(t, e)
    BY <1>21 DEF Feed
  <2>2. e \in Elements
    BY DEF Living, TasksType, ControlType
  <2>3. [listed[t] EXCEPT ![level] = @ \ {e}] \in [Levels -> SUBSET Elements]
    BY DEF TasksType, ControlType
  <2>4. listed' \in [Threads -> [Levels -> SUBSET Elements]]
    BY <2>1, <2>3 DEF TasksType
  <2>5. TasksType'
    BY <1>21, <2>1, <2>2, <2>4, EnqueueType DEF Feed, TasksType
  <2>6. ControlType'
    BY <1>21 DEF Feed, ControlType, control
  <2> QED BY <1>21, <2>5, <2>6 DEF Feed
<1>22. CASE Fed(t)
  <2>1. [listed[t] EXCEPT ![level] = {}] \in [Levels -> SUBSET Elements]
    BY DEF TasksType, ControlType
  <2>2. listed' \in [Threads -> [Levels -> SUBSET Elements]]
    BY <1>22, <2>1 DEF Fed, TasksType
  <2>3. TasksType'
    BY <1>22, <2>2 DEF Fed, TasksType
  <2>4. ControlType'
    BY <1>22 DEF Fed, ControlType, control
  <2> QED BY <1>22, <2>3, <2>4 DEF Fed
<1> QED
  BY <1>1, <1>2, <1>3, <1>4, <1>5, <1>6, <1>7, <1>8, <1>9, <1>10, <1>11, <1>12, <1>13, <1>14, <1>15, <1>16, <1>17, <1>18, <1>19, <1>20, <1>21, <1>22 DEF ThreadStep

(* Every variable keeps its type. *)
THEOREM TypeInvariant == Spec => []TypeOK
<1>1. TypeOK /\ [Next]_vars => TypeOK'
  <2> SUFFICES ASSUME TypeOK, [Next]_vars PROVE TypeOK'
    OBVIOUS
  <2>1. CASE MainStep \/ ForcedStop
    BY <2>1, MainType
  <2>2. CASE \E t \in Threads : ThreadStep(t)
    BY <2>2, ThreadType
  <2>3. CASE Done \/ UNCHANGED vars
    BY <2>3 DEF Done, vars, TypeOK, TriangulationTypeOK, cells, locking, criteria,
       tasks, status, control
  <2> QED BY <2>1, <2>2, <2>3 DEF Next
<1> QED BY InitType, <1>1, PTL DEF Spec

-----------------------------------------------------------------------------
(***************************************************************************)
(* Elements and the cells they name.  A handle is out of date or names a   *)
(* cell that is there; an element that is not a zombie still lies between  *)
(* its two cells.                                                          *)
(***************************************************************************)
IsKnown(h) == h[2] < life[h[1]] \/ (h[2] = life[h[1]] /\ h[1] \in alive)

IsKept(e) ==
  /\ IsKnown(e.cell) /\ IsKnown(e.mirror)
  /\ ~IsZombie(e) =>
       \A v \in VerticesOfElement(e) : RegionOf(v) \in RegionsOf(e.mirror[1])

(* The elements on their way to a refinement, or back to it. *)
IsAround(e) ==
  \/ e \in bad
  \/ \E l \in Levels : e \in queue[l]
  \/ \E b \in batches : e \in b
  \/ \E t \in Threads :
       \/ e \in buffer[t] \/ e \in work[t] \/ e \in task[t] \/ e \in cur[t]
       \/ \E l \in Levels : e \in listed[t][l]

ElementsKept == \A e \in Elements : IsAround(e) => IsKept(e)

(* What a thread holds. *)
ZoneIsHeld(t) ==
  \A s \in zone[t] : s \in alive /\ RegionsOf(s) \subseteq Held(t)

NextIsPinned(t) ==
  \A n \in next[t] :
    /\ n \in alive
    /\ \E i \in Corners : place[n][i] \in Held(t)
    /\ \A i \in Corners : <<n, i>> \notin todo[t] => place[n][i] \in Held(t)

ElementIsHeld(t) ==
  \A e \in cur[t] :
    /\ pc[t] = "lock" /\ ~IsZombie(e) =>
         \A v \in VerticesOfElement(e) : v \in todo[t] \/ RegionOf(v) \in Held(t)
    /\ pc[t] \in {"grow", "visit"} =>
         ~IsZombie(e) /\ \A v \in VerticesOfElement(e) : RegionOf(v) \in Held(t)

HoldsNothing(t) ==
  /\ pc[t] \notin {"grow", "visit"} => zone[t] = {}
  /\ pc[t] # "visit" => next[t] = {}

ThreadInv(t) ==
  ZoneIsHeld(t) /\ NextIsPinned(t) /\ ElementIsHeld(t) /\ HoldsNothing(t)

LockInv == \A t \in Threads : ThreadInv(t)

(* A region has one owner. *)
LEMMA OneOwner ==
  ASSUME LockingType, NEW t \in Threads, NEW u \in Threads,
         NEW r \in Held(t), r \in Held(u)
  PROVE  t = u
BY DEF LockingType, Held

(* A thread that an action leaves alone. *)
LEMMA ThreadFrame ==
  ASSUME NEW u \in Threads, ThreadInv(u), UNCHANGED cells, Held(u)' = Held(u),
         UNCHANGED <<pc[u], cur[u], todo[u], next[u], zone[u]>>
  PROVE  ThreadInv(u)'
BY DEF ThreadInv, ZoneIsHeld, NextIsPinned, ElementIsHeld, HoldsNothing, cells,
   RegionsOf, RegionOf, VerticesOfElement, IsZombie

(* Locking and unlocking change what one thread holds. *)
LEMMA LockingFrame ==
  ASSUME LockingType, NEW t \in Threads, NEW u \in Threads \ {t}
  PROVE  /\ LockVertex(t) =>
              Held(u)' = Held(u) /\ UNCHANGED <<todo[u], next[u], zone[u]>>
         /\ UnlockRegion(t) =>
              Held(u)' = Held(u) /\ UNCHANGED <<todo[u], next[u], zone[u]>>
         /\ StartUnlocking(t) =>
              Held(u)' = Held(u) /\ UNCHANGED <<todo[u], next[u], zone[u]>>
         /\ Visited(t) =>
              Held(u)' = Held(u) /\ UNCHANGED <<todo[u], next[u], zone[u]>>
         /\ \A n : Visit(t, n) =>
              Held(u)' = Held(u) /\ UNCHANGED <<todo[u], next[u], zone[u]>>
         /\ \A V : StartLocking(t, V) =>
              Held(u)' = Held(u) /\ UNCHANGED <<todo[u], next[u], zone[u]>>
<1>1. ASSUME LockVertex(t)
      PROVE  Held(u)' = Held(u) /\ UNCHANGED <<todo[u], next[u], zone[u]>>
  <2>1. PICK v \in todo[t] :
          /\ \/ RegionOf(v) \in Held(t) /\ UNCHANGED owner
             \/ Locks!Acquire(t, RegionOf(v))
          /\ todo' = [todo EXCEPT ![t] = @ \ {v}]
          /\ UNCHANGED <<next, zone>>
    BY <1>1 DEF LockVertex
  <2>2. \A r \in Regions : u \in owner'[r] <=> u \in owner[r]
    BY <2>1 DEF Locks!Acquire, LockingType
  <2> QED BY <2>1, <2>2 DEF Held, LockingType
<1>2. ASSUME UnlockRegion(t)
      PROVE  Held(u)' = Held(u) /\ UNCHANGED <<todo[u], next[u], zone[u]>>
  <2>1. PICK r \in Held(t) : Locks!Release(t, r)
    BY <1>2 DEF UnlockRegion
  <2>2. \A q \in Regions : u \in owner'[q] <=> u \in owner[q]
    BY <2>1 DEF Locks!Release, LockingType
  <2> QED BY <1>2, <2>2 DEF Held, LockingType, UnlockRegion
<1>3. ASSUME StartUnlocking(t)
      PROVE  Held(u)' = Held(u) /\ UNCHANGED <<todo[u], next[u], zone[u]>>
  BY <1>3 DEF StartUnlocking, Held, LockingType
<1>4. ASSUME Visited(t)
      PROVE  Held(u)' = Held(u) /\ UNCHANGED <<todo[u], next[u], zone[u]>>
  BY <1>4 DEF Visited, Held, LockingType
<1>5. ASSUME NEW n, Visit(t, n)
      PROVE  Held(u)' = Held(u) /\ UNCHANGED <<todo[u], next[u], zone[u]>>
  BY <1>5 DEF Visit, Held, LockingType
<1>6. ASSUME NEW V, StartLocking(t, V)
      PROVE  Held(u)' = Held(u) /\ UNCHANGED <<todo[u], next[u], zone[u]>>
  BY <1>6 DEF StartLocking, Held, LockingType
<1> QED BY <1>1, <1>2, <1>3, <1>4, <1>5, <1>6

(* A cell one of whose regions another thread holds is not in a zone. *)
LEMMA PinnedCells ==
  ASSUME LockingType, CellsType, NEW t \in Threads, ZoneIsHeld(t),
         NEW u \in Threads \ {t}, NEW s \in Slots, NEW i \in Corners,
         place[s][i] \in Held(u)
  PROVE  s \notin zone[t]
BY OneOwner DEF ZoneIsHeld, RegionsOf

(* Retriangulation leaves the cells outside the hole as they were, and     *)
(* the elements keep naming cells.                                         *)
LEMMA RetriangulateKeeps ==
  ASSUME CellsType, NEW hole \in SUBSET Slots, NEW star \in SUBSET (Slots \ alive),
         NEW shape \in [star -> Shapes], Retriangulate(hole, star, shape)
  PROVE  /\ \A s \in alive \ hole :
              s \in alive' /\ place'[s] = place[s] /\ life'[s] = life[s]
         /\ \A h \in Handles : IsKnown(h) => IsKnown(h)'
         /\ \A h \in Handles : IsKnown(h) /\ life'[h[1]] = h[2] =>
              h[1] \in alive \ hole /\ life[h[1]] = h[2]
<1>1. \A s \in alive \ hole :
        s \in alive' /\ place'[s] = place[s] /\ life'[s] = life[s]
  BY DEF CellsType, Retriangulate
<1>2. ASSUME NEW h \in Handles, IsKnown(h) PROVE IsKnown(h)'
  BY <1>2 DEF CellsType, Retriangulate, IsKnown, Handles
<1>3. ASSUME NEW h \in Handles, IsKnown(h), life'[h[1]] = h[2]
      PROVE  h[1] \in alive \ hole /\ life[h[1]] = h[2]
  BY <1>3 DEF CellsType, Retriangulate, IsKnown, Handles
<1> QED BY <1>1, <1>2, <1>3

(* An element that the retriangulation leaves intact was intact, its cells *)
(* are outside of the hole and its vertices stayed.                        *)
LEMMA RetriangulateElements ==
  ASSUME CellsType, NEW hole \in SUBSET Slots, NEW star \in SUBSET (Slots \ alive),
         NEW shape \in [star -> Shapes], Retriangulate(hole, star, shape),
         NEW e \in Elements, IsKept(e)
  PROVE  /\ IsKept(e)'
         /\ ~IsZombie(e)' =>
              /\ ~IsZombie(e) /\ {e.cell[1], e.mirror[1]} \subseteq alive \ hole
              /\ \A v \in VerticesOfElement(e) : RegionOf(v)' = RegionOf(v)
<1>1. e.cell \in Handles /\ e.mirror \in Handles
  BY DEF Elements
<1>2. IsKnown(e.cell)' /\ IsKnown(e.mirror)'
  BY <1>1, RetriangulateKeeps DEF IsKept
<1>3. ASSUME ~IsZombie(e)'
      PROVE  /\ ~IsZombie(e) /\ {e.cell[1], e.mirror[1]} \subseteq alive \ hole
             /\ \A v \in VerticesOfElement(e) : RegionOf(v)' = RegionOf(v)
             /\ RegionsOf(e.mirror[1])' = RegionsOf(e.mirror[1])
  <2>1. life'[e.cell[1]] = e.cell[2] /\ life'[e.mirror[1]] = e.mirror[2]
    BY <1>3 DEF IsZombie
  <2>2. /\ e.cell[1] \in alive \ hole /\ life[e.cell[1]] = e.cell[2]
        /\ e.mirror[1] \in alive \ hole /\ life[e.mirror[1]] = e.mirror[2]
    BY <1>1, <2>1, RetriangulateKeeps DEF IsKept
  <2>3. /\ place'[e.cell[1]] = place[e.cell[1]]
        /\ place'[e.mirror[1]] = place[e.mirror[1]]
    BY <2>2, RetriangulateKeeps
  <2> QED BY <2>2, <2>3 DEF IsZombie, VerticesOfElement, RegionOf, RegionsOf
<1> QED BY <1>2, <1>3 DEF IsKept, VerticesOfElement

(* New elements name new cells. *)
LEMMA NewElementsKept ==
  ASSUME CellsType', NEW s \in alive'
  PROVE  IsKept(CellElement(s))' /\ \A f \in FacetsOf(s)' : IsKept(f)'
<1>1. IsKept(CellElement(s))'
  BY DEF IsKept, IsKnown, IsZombie, CellElement, VerticesOfElement, RegionOf,
     RegionsOf, CellsType
<1>2. ASSUME NEW f \in FacetsOf(s)' PROVE IsKept(f)'
  <2>1. PICK j \in Corners, n \in alive' \ {s} :
          f = FacetElement(s, j, n)' /\ AcrossFacet(s, j, n)'
    BY <1>2 DEF FacetsOf
  <2> QED BY <2>1 DEF IsKept, IsKnown, IsZombie, FacetElement, AcrossFacet,
          VerticesOfElement, RegionOf, RegionsOf, CellsType
<1> QED BY <1>1, <1>2

(* A thread while another one retriangulates. *)
LEMMA OthersZoneKept ==
  ASSUME TypeOK, LockInv, ElementsKept, NEW t \in Threads, NEW u \in Threads \ {t},
         NEW hole \in SUBSET zone[t], NEW star \in SUBSET (Slots \ alive),
         NEW shape \in [star -> Shapes], Retriangulate(hole, star, shape),
         owner' = owner, UNCHANGED <<pc[u], cur[u], todo[u], next[u], zone[u]>>
  PROVE  ThreadInv(u)'
<1> USE TypeParts
<1>1. hole \in SUBSET Slots
  BY DEF LockingType
<1>2. \A s \in Slots, i \in Corners : place[s][i] \in Held(u) => s \notin hole
  BY PinnedCells DEF LockInv, ThreadInv
<1>3. Held(u)' = Held(u)
  BY DEF Held
<1>4. CellsType
  OBVIOUS
<1>5. \A s \in alive \ hole : s \in alive' /\ place'[s] = place[s]
  BY <1>1, <1>4, RetriangulateKeeps
<1>6. ZoneIsHeld(u)'
  <2>1. \A s \in zone[u] : s \in alive \ hole
    <3> SUFFICES ASSUME NEW s \in zone[u] PROVE s \in alive \ hole
      OBVIOUS
    <3>1. PICK i \in Corners : TRUE
      BY GeometryAssumption
    <3>2. s \in alive /\ place[s][i] \in Held(u) /\ s \in Slots
      BY DEF LockInv, ThreadInv, ZoneIsHeld, RegionsOf, CellsType
    <3> QED BY <1>2, <3>2
  <2>2. \A s \in zone[u] : s \in alive' /\ RegionsOf(s)' = RegionsOf(s)
    BY <1>5, <2>1 DEF RegionsOf
  <2>3. \A s \in zone[u] : RegionsOf(s) \subseteq Held(u)
    BY DEF LockInv, ThreadInv, ZoneIsHeld
  <2>4. zone'[u] = zone[u]
    OBVIOUS
  <2> QED BY <1>3, <2>2, <2>3, <2>4 DEF ZoneIsHeld
<1>7. NextIsPinned(u)'
  <2>1. \A n \in next[u] : n \in alive \ hole
    BY <1>2 DEF LockInv, ThreadInv, NextIsPinned, CellsType
  <2>2. \A n \in next[u] : n \in alive' /\ place'[n] = place[n]
    BY <1>5, <2>1
  <2>3. NextIsPinned(u)
    BY DEF LockInv, ThreadInv
  <2>4. next'[u] = next[u] /\ todo'[u] = todo[u]
    OBVIOUS
  <2> QED BY <1>3, <2>2, <2>3, <2>4 DEF NextIsPinned
<1>8. ElementIsHeld(u)'
  <2> SUFFICES ASSUME NEW e \in cur[u]
               PROVE  /\ pc[u] = "lock" /\ ~IsZombie(e)' =>
                           \A v \in VerticesOfElement(e) :
                             v \in todo[u] \/ RegionOf(v)' \in Held(u)
                      /\ pc[u] \in {"grow", "visit"} =>
                           /\ ~IsZombie(e)'
                           /\ \A v \in VerticesOfElement(e) : RegionOf(v)' \in Held(u)
    BY <1>3 DEF ElementIsHeld, VerticesOfElement
  <2>1. e \in Elements /\ IsKept(e)
    BY DEF ElementsKept, IsAround, StatusType
  <2>2. ~IsZombie(e)' =>
              /\ ~IsZombie(e)
              /\ \A v \in VerticesOfElement(e) : RegionOf(v)' = RegionOf(v)
    BY <1>1, <2>1, RetriangulateElements
  <2>3. ASSUME pc[u] \in {"grow", "visit"} PROVE ~IsZombie(e)'
    <3>1. /\ ~IsZombie(e)
          /\ \A v \in VerticesOfElement(e) :
               RegionOf(v) \in Held(u) /\ RegionOf(v) \in RegionsOf(e.mirror[1])
      BY <2>1, <2>3 DEF LockInv, ThreadInv, ElementIsHeld, IsKept
    <3>2. PICK i \in Corners : i # e.opposite
      BY <2>1, GeometryAssumption, TasksAssumption DEF Elements
    <3>3. <<e.cell[1], i>> \in VerticesOfElement(e)
      BY <3>2 DEF VerticesOfElement
    <3>4. e.cell[1] \in Slots /\ e.mirror[1] \in Slots
      BY <2>1 DEF Elements, Handles
    <3>5. e.cell[1] \notin hole
      BY <1>2, <3>1, <3>3, <3>4 DEF RegionOf
    <3>6. e.mirror[1] \notin hole
      BY <1>2, <3>1, <3>3, <3>4 DEF RegionOf, RegionsOf
    <3>7. /\ life[e.cell[1]] = e.cell[2] /\ life[e.mirror[1]] = e.mirror[2]
      BY <3>1 DEF IsZombie
    <3> QED BY <1>1, <3>4, <3>5, <3>6, <3>7 DEF IsZombie, Retriangulate
  <2> QED BY <2>2, <2>3 DEF LockInv, ThreadInv, ElementIsHeld
<1>9. HoldsNothing(u)'
  BY DEF LockInv, ThreadInv, HoldsNothing
<1> QED BY <1>6, <1>7, <1>8, <1>9 DEF ThreadInv

(* No action of one thread disturbs another thread. *)
LEMMA OthersKept ==
  ASSUME TypeOK, LockInv, ElementsKept, NEW t \in Threads, ThreadStep(t),
         NEW u \in Threads \ {t}
  PROVE  ThreadInv(u)'
<1>1. ThreadInv(u) /\ LockingType /\ StatusType /\ ControlType
  BY TypeParts DEF LockInv
<1>2. ASSUME Insert(t) PROVE ThreadInv(u)'
  <2>1. PICK hole \in SUBSET zone[t], star \in SUBSET (Slots \ alive) :
          \E shape \in [star -> Shapes] : Retriangulate(hole, star, shape)
    BY <1>2, InsertParts
  <2>2. PICK shape \in [star -> Shapes] : Retriangulate(hole, star, shape)
    BY <2>1
  <2>3. UNCHANGED <<pc[u], cur[u], todo[u], next[u], zone[u]>> /\ owner' = owner
    BY <1>1, <1>2 DEF Insert, Leave, StartUnlocking, LockingType, ControlType
  <2> QED BY <2>2, <2>3, OthersZoneKept
<1>3. ASSUME ~Insert(t)
      PROVE  /\ UNCHANGED cells /\ UNCHANGED <<pc[u], cur[u]>>
             /\ Held(u)' = Held(u) /\ UNCHANGED <<todo[u], next[u], zone[u]>>
  <2> USE <1>1 DEF StatusType, ControlType
  <2> DEFINE Frame == /\ UNCHANGED cells /\ UNCHANGED <<pc[u], cur[u]>>
                      /\ Held(u)' = Held(u) /\ UNCHANGED <<todo[u], next[u], zone[u]>>
  <2>1. CASE TakeBatch(t)
    BY <2>1 DEF TakeBatch, cells, locking, status, control, Held
  <2>2. CASE StartElement(t)
    BY <2>2 DEF StartElement, cells, locking, status, control, Held
  <2>3. CASE CancelTask(t)
    BY <2>3 DEF CancelTask, cells, locking, status, control, Held
  <2>4. CASE GoOn(t)
    BY <2>4 DEF GoOn, cells, locking, status, control, Held
  <2>5. CASE RefineEncroached(t)
    BY <2>5 DEF RefineEncroached, cells, locking, status, control, Held
  <2>6. CASE Retry(t)
    BY <2>6 DEF Retry, cells, locking, status, control, Held
  <2>7. CASE Settled(t)
    BY <2>7 DEF Settled, cells, locking, status, control, Held
  <2>8. CASE DrainFacet(t)
    BY <2>8 DEF DrainFacet, cells, locking, status, control, Held
  <2>9. CASE Drained(t)
    BY <2>9 DEF Drained, cells, locking, status, control, Held
  <2>10. CASE Requeue(t)
    BY <2>10 DEF Requeue, cells, locking, status, control, Held
  <2>11. CASE Feed(t)
    BY <2>11 DEF Feed, cells, locking, status, control, Held
  <2>12. CASE Fed(t)
    BY <2>12 DEF Fed, cells, locking, status, control, Held
  <2>13. CASE FirstTest(t)
    BY <2>13, LockingFrame DEF FirstTest, status, control, Held, Leave
  <2>14. CASE Lock(t)
    BY <2>14, LockingFrame DEF Lock, status, control, Held
  <2>15. CASE Refused(t)
    BY <2>15, LockingFrame DEF Refused, status, control, Held, Leave
  <2>16. CASE SecondTest(t)
    BY <2>16, LockingFrame DEF SecondTest, status, control, Held, Leave, locking
  <2>17. CASE Grow(t)
    BY <2>17, LockingFrame DEF Grow, status, control, Held
  <2>18. CASE Grown(t)
    BY <2>18, LockingFrame DEF Grown, status, control, Held
  <2>19. CASE Drop(t)
    BY <2>19, LockingFrame DEF Drop, status, control, Held, Leave
  <2>20. CASE OutsideItsZone(t)
    BY <2>20, LockingFrame DEF OutsideItsZone, status, control, Held, Leave
  <2>21. CASE Unlock(t)
    BY <2>21, LockingFrame DEF Unlock, status, control, Held
  <2> QED BY <1>3, <2>1, <2>2, <2>3, <2>4, <2>5, <2>6, <2>7, <2>8, <2>9, <2>10, <2>11, <2>12, <2>13, <2>14, <2>15, <2>16, <2>17, <2>18, <2>19, <2>20, <2>21 DEF ThreadStep
<1> QED BY <1>1, <1>2, <1>3, ThreadFrame

(* A thread that locks nothing yet or no longer. *)
LEMMA QuietThread ==
  ASSUME NEW t \in Threads, zone'[t] = {}, next'[t] = {},
         pc'[t] \notin {"lock", "grow", "visit"}
  PROVE  ThreadInv(t)'
BY DEF ThreadInv, ZoneIsHeld, NextIsPinned, ElementIsHeld, HoldsNothing

(* A thread that leaves its attempt has no zone any more. *)
LEMMA LeaveInv ==
  ASSUME TypeOK, NEW t \in Threads, NEW r, Leave(t, r)
  PROVE  ThreadInv(t)'
<1>1. zone'[t] = {} /\ next'[t] = {} /\ pc'[t] = "unlock"
  BY TypeParts DEF Leave, StartUnlocking, LockingType, ControlType
<1> QED BY <1>1, QuietThread

(* What an action does to the thread that takes it. *)
LEMMA OwnKept ==
  ASSUME TypeOK, LockInv, ElementsKept, NEW t \in Threads, ThreadStep(t)
  PROVE  ThreadInv(t)'
<1>1. ThreadInv(t) /\ LockingType /\ CellsType /\ StatusType /\ ControlType
  BY TypeParts DEF LockInv
<1> USE <1>1
<1>2. CASE FirstTest(t)
  <2>1. PICK e \in cur[t] :
          \/ Leave(t, "zombie")
          \/ /\ pc' = [pc EXCEPT ![t] = "lock"]
             /\ StartLocking(t, VerticesOfElement(e))
    BY <1>2 DEF FirstTest
  <2>2. CASE Leave(t, "zombie")
    BY <2>2, LeaveInv
  <2>3. CASE /\ pc' = [pc EXCEPT ![t] = "lock"]
             /\ StartLocking(t, VerticesOfElement(e))
    <3>1. zone'[t] = {} /\ next'[t] = {} /\ pc'[t] = "lock"
          /\ todo'[t] = VerticesOfElement(e)
      BY <1>2, <2>3 DEF FirstTest, StartLocking, ThreadInv, HoldsNothing,
         LockingType, ControlType
    <3>2. cur'[t] = cur[t] /\ \A f \in cur[t] : f = e
      BY <1>2 DEF FirstTest, StatusType, IsSingle
    <3>3. UNCHANGED cells
      BY <1>2 DEF FirstTest
    <3> QED BY <3>1, <3>2, <3>3 DEF ThreadInv, ZoneIsHeld, NextIsPinned,
            ElementIsHeld, HoldsNothing, cells, VerticesOfElement
  <2> QED BY <2>1, <2>2, <2>3
<1>3. CASE Lock(t)
  <2>1. PICK v \in todo[t] :
          /\ \/ RegionOf(v) \in Held(t) /\ UNCHANGED owner
             \/ Locks!Acquire(t, RegionOf(v))
          /\ todo' = [todo EXCEPT ![t] = @ \ {v}]
          /\ UNCHANGED <<next, zone>>
    BY <1>3 DEF Lock, LockVertex
  <2>2. RegionOf(v) \in Regions
    BY GeometryAssumption DEF RegionOf, LockingType, CellsType
  <2>3. Held(t)' = Held(t) \cup {RegionOf(v)}
    BY <2>1, <2>2 DEF Held, Locks!Acquire, LockingType
  <2>4. todo'[t] = todo[t] \ {v} /\ zone'[t] = zone[t] /\ next'[t] = next[t]
    BY <2>1 DEF LockingType
  <2>5. UNCHANGED cells /\ cur'[t] = cur[t] /\ pc'[t] = pc[t]
    BY <1>3 DEF Lock, status
  <2>6. ZoneIsHeld(t)'
    BY <2>3, <2>4, <2>5 DEF ZoneIsHeld, ThreadInv, RegionsOf, cells
  <2>7. NextIsPinned(t)'
    BY <2>3, <2>4, <2>5 DEF NextIsPinned, ThreadInv, RegionOf, cells
  <2>8. ElementIsHeld(t)'
    BY <2>3, <2>4, <2>5 DEF ElementIsHeld, ThreadInv, RegionOf, IsZombie,
       VerticesOfElement, cells
  <2>9. HoldsNothing(t)'
    BY <2>4, <2>5 DEF HoldsNothing, ThreadInv
  <2> QED BY <2>6, <2>7, <2>8, <2>9 DEF ThreadInv
<1>4. CASE SecondTest(t)
  <2>1. CASE Leave(t, "zombie")
    BY <2>1, LeaveInv
  <2>2. CASE /\ \E e \in cur[t] : ~IsZombie(e)
             /\ pc' = [pc EXCEPT ![t] = "grow"] /\ UNCHANGED <<locking, inner, result>>
    <3>1. /\ pc[t] = "lock" /\ todo[t] = {} /\ UNCHANGED cells /\ cur'[t] = cur[t]
          /\ pc'[t] = "grow" /\ UNCHANGED <<owner, todo, next, zone>>
      BY <1>4, <2>2 DEF SecondTest, locking, ControlType
    <3>2. zone[t] = {} /\ next[t] = {}
      BY <3>1 DEF ThreadInv, HoldsNothing
    <3>3. \A e \in cur[t] : ~IsZombie(e)
      BY <2>2 DEF StatusType, IsSingle
    <3>4. \A e \in cur[t] : \A v \in VerticesOfElement(e) : RegionOf(v) \in Held(t)
      BY <3>1, <3>3 DEF ThreadInv, ElementIsHeld
    <3> QED BY <3>1, <3>2, <3>3, <3>4 DEF ThreadInv, ZoneIsHeld, NextIsPinned,
            ElementIsHeld, HoldsNothing, cells, Held, IsZombie, RegionOf,
            VerticesOfElement
  <2> QED BY <1>4, <2>1, <2>2 DEF SecondTest
<1>5. CASE Grow(t)
  <2>1. PICK n \in {e.cell[1] : e \in cur[t]} \cup Neighbours(t) :
          /\ zone[t] = {} => \E e \in cur[t] : n = e.cell[1]
          /\ Visit(t, n)
    BY <1>5 DEF Grow
  <2>2. n \in alive /\ \E i \in Corners : place[n][i] \in Held(t)
    <3>1. ASSUME NEW e \in cur[t], n = e.cell[1]
          PROVE  n \in alive /\ \E i \in Corners : place[n][i] \in Held(t)
      <4>1. e \in Elements /\ IsKept(e) /\ ~IsZombie(e)
        BY <1>5 DEF Grow, ThreadInv, ElementIsHeld, ElementsKept, IsAround, StatusType
      <4>2. n \in alive
        BY <3>1, <4>1 DEF IsKept, IsKnown, IsZombie, Elements, Handles, CellsType
      <4>3. PICK i \in Corners : i # e.opposite
        BY <4>1, GeometryAssumption, TasksAssumption DEF Elements
      <4>4. <<n, i>> \in VerticesOfElement(e)
        BY <3>1, <4>3 DEF VerticesOfElement
      <4>5. RegionOf(<<n, i>>) \in Held(t)
        BY <1>5, <4>4 DEF Grow, ThreadInv, ElementIsHeld
      <4> QED BY <4>2, <4>5 DEF RegionOf
    <3>2. ASSUME n \in Neighbours(t)
          PROVE  n \in alive /\ \E i \in Corners : place[n][i] \in Held(t)
      <4>1. PICK s \in zone[t], j \in Corners : AcrossFacet(s, j, n)
        BY <3>2 DEF Neighbours, Adjacent
      <4>2. PICK i \in Corners : i # j
        BY GeometryAssumption
      <4>3. place[s][i] \in Held(t)
        BY <4>2 DEF ThreadInv, ZoneIsHeld, RegionsOf
      <4>4. place[s][i] \in RegionsOf(n)
        BY <4>1, <4>2 DEF AcrossFacet
      <4> QED BY <3>2, <4>3, <4>4 DEF Neighbours, RegionsOf
    <3> QED BY <3>1, <3>2
  <2>3. /\ pc[t] = "grow" /\ pc'[t] = "visit" /\ cur'[t] = cur[t] /\ UNCHANGED cells
        /\ next'[t] = {n} /\ todo'[t] = VerticesOf(n) /\ zone'[t] = zone[t]
        /\ Held(t)' = Held(t)
    BY <1>5, <2>1 DEF Grow, Visit, status, LockingType, ControlType, Held
  <2>4. ZoneIsHeld(t)'
    BY <2>3 DEF ThreadInv, ZoneIsHeld, RegionsOf, cells
  <2>5. NextIsPinned(t)'
    BY <2>2, <2>3 DEF NextIsPinned, VerticesOf, cells
  <2>6. ElementIsHeld(t)'
    BY <2>3 DEF ThreadInv, ElementIsHeld, cells, IsZombie, RegionOf, VerticesOfElement
  <2>7. HoldsNothing(t)'
    BY <2>3 DEF HoldsNothing
  <2> QED BY <2>4, <2>5, <2>6, <2>7 DEF ThreadInv
<1>6. CASE Grown(t)
  <2>1. /\ pc[t] = "visit" /\ pc'[t] = "grow" /\ cur'[t] = cur[t] /\ UNCHANGED cells
        /\ next'[t] = {} /\ todo[t] = {} /\ zone'[t] = zone[t] \cup next[t]
        /\ Held(t)' = Held(t)
    BY <1>6 DEF Grown, Visited, status, LockingType, ControlType, Held
  <2>2. \A n \in next[t] : n \in alive /\ RegionsOf(n) \subseteq Held(t)
    BY <2>1 DEF ThreadInv, NextIsPinned, RegionsOf
  <2>3. ZoneIsHeld(t)'
    BY <2>1, <2>2 DEF ThreadInv, ZoneIsHeld, RegionsOf, cells
  <2>4. NextIsPinned(t)' /\ HoldsNothing(t)'
    BY <2>1 DEF NextIsPinned, HoldsNothing
  <2>5. ElementIsHeld(t)'
    BY <2>1 DEF ThreadInv, ElementIsHeld, cells, IsZombie, RegionOf, VerticesOfElement
  <2> QED BY <2>3, <2>4, <2>5 DEF ThreadInv
<1>7. CASE Refused(t) \/ Drop(t) \/ Insert(t) \/ OutsideItsZone(t)
  BY <1>7, LeaveInv DEF Refused, Drop, Insert, OutsideItsZone
<1>8. CASE TakeBatch(t) \/ RefineEncroached(t) \/ Feed(t)
  <2>1. /\ UNCHANGED cells /\ UNCHANGED <<pc[t], cur[t]>>
        /\ Held(t)' = Held(t) /\ UNCHANGED <<todo[t], next[t], zone[t]>>
    BY <1>8 DEF TakeBatch, RefineEncroached, Feed, locking, status, Held
  <2> QED BY <2>1, ThreadFrame
<1>9. CASE Unlock(t)
  BY <1>9, QuietThread DEF Unlock, UnlockRegion, ThreadInv, HoldsNothing
<1>10. CASE \/ StartElement(t) \/ CancelTask(t) \/ GoOn(t) \/ Retry(t) \/ Settled(t)
            \/ DrainFacet(t) \/ Drained(t) \/ Requeue(t) \/ Fed(t)
  <2>1. /\ pc[t] \notin {"grow", "visit"} /\ UNCHANGED <<next, zone>>
        /\ pc'[t] \notin {"lock", "grow", "visit"}
    BY <1>10 DEF StartElement, CancelTask, GoOn, Retry, Settled, DrainFacet, Drained,
       Requeue, Fed, locking, ControlType
  <2> QED BY <2>1, QuietThread DEF ThreadInv, HoldsNothing
<1> QED
  BY <1>2, <1>3, <1>4, <1>5, <1>6, <1>7, <1>8, <1>9, <1>10 DEF ThreadStep

-----------------------------------------------------------------------------
(***************************************************************************)
(* Elements move between queues, buffers, tasks and lists; only Insert     *)
(* adds some.                                                              *)
(***************************************************************************)
LEMMA EnqueueMoves ==
  ASSUME TypeOK, NEW t \in Threads, NEW e, Enqueue(t, e)
  PROVE  /\ \A u \in Threads : buffer'[u] \subseteq buffer[u] \cup {e}
         /\ \A b \in batches' : b \in batches \/ b = buffer[t] \cup {e}
<1> DEFINE b == buffer[t] \cup {e}
<1>1. CASE Cardinality(b) >= batchSize
  <2>1. buffer' = [buffer EXCEPT ![t] = {}] /\ Run({b})
    BY <1>1 DEF Enqueue, b
  <2> HIDE DEF b
  <2>2. \A c \in batches' : c \in batches \/ c = b
    BY <2>1 DEF Run
  <2> QED BY <2>1, <2>2 DEF TypeOK, b
<1>2. CASE ~(Cardinality(b) >= batchSize)
  <2>1. buffer' = [buffer EXCEPT ![t] = b] /\ UNCHANGED batches
    BY <1>2 DEF Enqueue, b
  <2> QED BY <2>1 DEF TypeOK
<1> QED BY <1>1, <1>2

(* The main thread moves elements; it brings none in. *)
LEMMA MainMoves ==
  ASSUME TypeOK, MainStep \/ ForcedStop, NEW e \in Elements, IsAround(e)'
  PROVE  IsAround(e)
<1> USE TypeParts, TasksAssumption
<1>1. CASE Begin \/ Collected \/ Waited \/ Flushed \/ Finish \/ ForcedStop
  BY <1>1 DEF Begin, Collected, Waited, Flushed, Finish, ForcedStop, IsAround,
     criteria, tasks, status
<1>2. CASE Flush
  BY <1>2 DEF Flush, IsAround, criteria, status
<1>3. CASE Splice
  <2>1. \A l \in Levels : e \in queue'[l] =>
          e \in queue[l] \/ \E t \in Threads : e \in listed[t][level]
    BY <1>3 DEF Splice, TasksType
  <2>2. \A t \in Threads, l \in Levels : listed'[t][l] \subseteq listed[t][l]
    BY <1>3 DEF Splice, TasksType
  <2> QED BY <1>3, <2>1, <2>2 DEF Splice, IsAround, criteria, status, ControlType
<1>4. CASE ScanCells
  BY <1>4 DEF ScanCells, IsAround, criteria, status, TasksType
<1>5. CASE Collect
  <2>1. PICK f \in Living(queue[level]) :
          queue' = [queue EXCEPT ![level] = @ \ {f}] /\ Enqueue(Main, f)
    BY <1>5 DEF Collect
  <2>2. f \in queue[level] /\ level \in Levels
    BY DEF Living, ControlType
  <2>3. \A l \in Levels : queue'[l] \subseteq queue[l]
    BY <2>1 DEF TasksType
  <2> QED BY <1>5, <2>1, <2>2, <2>3, EnqueueMoves DEF Collect, IsAround, criteria, status
<1> QED BY <1>1, <1>2, <1>3, <1>4, <1>5 DEF MainStep

(* Neither does a thread, unless it inserts. *)
LEMMA ThreadMoves ==
  ASSUME TypeOK, NEW t \in Threads, ThreadStep(t), ~Insert(t),
         NEW e \in Elements, IsAround(e)'
  PROVE  IsAround(e)
<1> USE TypeParts
<1>1. CASE GoOn(t) \/ FirstTest(t) \/ Lock(t) \/ Refused(t) \/ SecondTest(t)
           \/ Grow(t) \/ Grown(t) \/ RefineEncroached(t) \/ Drop(t)
           \/ OutsideItsZone(t) \/ Unlock(t) \/ Retry(t)
  <2>1. UNCHANGED <<bad, tasks, task, cur>>
    BY <1>1 DEF GoOn, FirstTest, Lock, Refused, SecondTest, Grow, Grown,
       RefineEncroached, Drop, OutsideItsZone, Unlock, Retry, criteria, status
  <2> QED BY <2>1 DEF IsAround, tasks
<1>2. CASE TakeBatch(t)
  BY <1>2 DEF TakeBatch, IsAround, criteria, status, TasksType
<1>3. CASE StartElement(t)
  BY <1>3 DEF StartElement, IsAround, criteria, TasksType, StatusType
<1>4. CASE CancelTask(t)
  BY <1>4 DEF CancelTask, IsAround, criteria, TasksType, StatusType
<1>5. CASE Settled(t)
  <2>1. \A u \in Threads, l \in Levels : listed'[u][l] \subseteq listed[u][l]
    BY <1>5 DEF Settled, TasksType
  <2>2. \A u \in Threads : cur'[u] \subseteq cur[u]
    BY <1>5 DEF Settled, StatusType
  <2> QED BY <1>5, <2>1, <2>2 DEF Settled, IsAround, criteria
<1>6. CASE DrainFacet(t)
  <2>1. \A u \in Threads : cur'[u] \subseteq cur[u] \cup listed[t]["facets"]
    BY <1>6 DEF DrainFacet, StatusType, Living
  <2> QED BY <1>6, <2>1 DEF DrainFacet, IsAround, criteria, tasks, Levels
<1>7. CASE Drained(t)
  <2>1. \A u \in Threads, l \in Levels : listed'[u][l] \subseteq listed[u][l]
    BY <1>7 DEF Drained, TasksType
  <2> QED BY <1>7, <2>1 DEF Drained, IsAround, criteria, status
<1>8. CASE Requeue(t)
  <2>1. \A u \in Threads : task'[u] \subseteq task[u]
    BY <1>8 DEF Requeue, StatusType
  <2>2. /\ \A u \in Threads : buffer'[u] \subseteq buffer[u] \cup task[t]
        /\ \A b \in batches' : b \in batches \/ b \subseteq buffer[t] \cup task[t]
    BY <1>8, EnqueueMoves DEF Requeue
  <2> QED BY <1>8, <2>1, <2>2 DEF Requeue, IsAround, criteria
<1>9. CASE Feed(t)
  <2>1. PICK f \in Living(listed[t][level]) :
          listed' = [listed EXCEPT ![t][level] = @ \ {f}] /\ Enqueue(t, f)
    BY <1>9 DEF Feed
  <2>2. f \in listed[t][level] /\ level \in Levels
    BY DEF Living, ControlType
  <2>3. \A u \in Threads, l \in Levels : listed'[u][l] \subseteq listed[u][l]
    BY <2>1 DEF TasksType
  <2>4. /\ \A u \in Threads : buffer'[u] \subseteq buffer[u] \cup {f}
        /\ \A b \in batches' : b \in batches \/ b = buffer[t] \cup {f}
    BY <2>1, EnqueueMoves
  <2> QED BY <1>9, <2>2, <2>3, <2>4 DEF Feed, IsAround, criteria, status
<1>10. CASE Fed(t)
  <2>1. \A u \in Threads, l \in Levels : listed'[u][l] \subseteq listed[u][l]
    BY <1>10 DEF Fed, TasksType
  <2> QED BY <1>10, <2>1 DEF Fed, IsAround, criteria, status
<1> QED
  BY <1>1, <1>2, <1>3, <1>4, <1>5, <1>6, <1>7, <1>8, <1>9, <1>10 DEF ThreadStep

(* Every element, wherever it is, keeps naming cells. *)
LEMMA ElementsStay ==
  ASSUME TypeOK, ElementsKept, [Next]_vars
  PROVE  ElementsKept'
<1> USE TypeParts
<1>1. ASSUME UNCHANGED cells, \A e \in Elements : IsAround(e)' => IsAround(e)
      PROVE  ElementsKept'
  BY <1>1 DEF ElementsKept, IsKept, IsKnown, IsZombie, VerticesOfElement, RegionOf,
     RegionsOf, cells
<1>2. CASE MainStep \/ ForcedStop
  <2>1. UNCHANGED cells
    BY <1>2 DEF MainStep, Begin, Collect, Collected, Waited, Flush, Flushed, Splice,
       ScanCells, Finish, ForcedStop
  <2> QED BY <1>1, <1>2, <2>1, MainMoves
<1>3. ASSUME NEW t \in Threads, ThreadStep(t), ~Insert(t) PROVE ElementsKept'
  <2>1. UNCHANGED cells
    BY <1>3 DEF ThreadStep, TakeBatch, StartElement, CancelTask, GoOn, FirstTest, Lock,
       Refused, SecondTest, Grow, Grown, RefineEncroached, Drop, OutsideItsZone,
       Unlock, Retry, Settled, DrainFacet, Drained, Requeue, Feed, Fed
  <2> QED BY <1>1, <1>3, <2>1, ThreadMoves
<1>4. ASSUME NEW t \in Threads, Insert(t) PROVE ElementsKept'
  <2>1. PICK hole \in SUBSET zone[t], star \in SUBSET (Slots \ alive) :
         /\ \E shape \in [star -> Shapes] : Retriangulate(hole, star, shape)
         /\ \E badCells \in SUBSET {CellElement(s)' : s \in star},
               onSurface \in SUBSET (UNION {FacetsOf(s)' : s \in star}) :
              \E badFacets \in SUBSET onSurface :
                /\ bad' = {e \in bad : ~IsZombie(e)'} \cup badCells \cup badFacets
                /\ List(t, badCells \cup badFacets)
    BY <1>4, InsertParts
  <2>2. PICK shape \in [star -> Shapes] : Retriangulate(hole, star, shape)
    BY <2>1
  <2>3. PICK badCells \in SUBSET {CellElement(s)' : s \in star},
             onSurface \in SUBSET (UNION {FacetsOf(s)' : s \in star}) :
              \E badFacets \in SUBSET onSurface :
                /\ bad' = {e \in bad : ~IsZombie(e)'} \cup badCells \cup badFacets
                /\ List(t, badCells \cup badFacets)
    BY <2>1
  <2>4. PICK badFacets \in SUBSET onSurface :
                /\ bad' = {e \in bad : ~IsZombie(e)'} \cup badCells \cup badFacets
                /\ List(t, badCells \cup badFacets)
    BY <2>3
  <2> DEFINE new == badCells \cup badFacets
  <2>5. hole \in SUBSET Slots /\ CellsType'
    BY <2>2, RetriangulateType DEF LockingType
  <2>6. \A e \in new : IsKept(e)'
    <3>1. \A s \in star : s \in alive'
      BY <2>2 DEF Retriangulate
    <3>2. \A s \in star : IsKept(CellElement(s))' /\ \A f \in FacetsOf(s)' : IsKept(f)'
      BY <2>5, <3>1, NewElementsKept
    <3> QED BY <3>2
  <2>7. ASSUME NEW e \in Elements, IsAround(e)' PROVE e \in new \/ IsAround(e)
    <3>1. \A u \in Threads, l \in Levels : listed'[u][l] \subseteq listed[u][l] \cup new
      BY <2>4 DEF List, TasksType
    <3>2. bad' \subseteq bad \cup new
      BY <2>4
    <3> HIDE DEF new
    <3> QED BY <1>4, <2>7, <3>1, <3>2 DEF Insert, IsAround
  <2>8. \A e \in Elements : IsKept(e) => IsKept(e)'
    BY <2>2, <2>5, RetriangulateElements
  <2> HIDE DEF new
  <2> QED BY <2>6, <2>7, <2>8 DEF ElementsKept
<1>5. CASE Done \/ UNCHANGED vars
  BY <1>1, <1>5 DEF Done, vars, IsAround, criteria, tasks, status
<1> QED BY <1>2, <1>3, <1>4, <1>5 DEF Next

(* The invariant on the locks is inductive, given the one on the elements. *)
LEMMA LocksStay ==
  ASSUME TypeOK, ElementsKept, LockInv, [Next]_vars
  PROVE  LockInv'
<1>1. ASSUME NEW t \in Threads, ThreadStep(t) PROVE LockInv'
  BY <1>1, OthersKept, OwnKept DEF LockInv
<1>2. CASE MainStep \/ ForcedStop
  <2>1. UNCHANGED <<cells, locking, cur, pc>>
    BY <1>2 DEF MainStep, Begin, Collect, Collected, Waited, Flush, Flushed, Splice,
       ScanCells, Finish, ForcedStop, status
  <2> QED BY <2>1, ThreadFrame DEF LockInv, locking, Held
<1>3. CASE Done \/ UNCHANGED vars
  BY <1>3, ThreadFrame DEF Done, vars, LockInv, locking, Held, status
<1> QED BY <1>1, <1>2, <1>3 DEF Next

(* At first nothing is locked, and every element is on cells that are      *)
(* there.                                                                  *)
LEMMA InitLocks == Init => ElementsKept /\ LockInv
<1> SUFFICES ASSUME Init PROVE ElementsKept /\ LockInv
  OBVIOUS
<1>1. TypeOK
  BY InitType
<1>2. PICK first \in SUBSET Slots, shape \in [Slots -> Shapes] : InitWith(first, shape)
  BY DEF Init
<1>3. PICK facets \in SUBSET (UNION {FacetsOf(s) : s \in first}),
           badCells \in SUBSET {CellElement(s) : s \in first} :
             \E badFacets \in SUBSET facets :
               InitRefinement(facets, badCells \cup badFacets)
  BY <1>2 DEF InitWith
<1>4. PICK badFacets \in SUBSET facets :
             InitRefinement(facets, badCells \cup badFacets)
  BY <1>3
<1>5. alive = first /\ life = [s \in Slots |-> 0] /\ place = shape
  BY <1>2 DEF InitWith, InitTriangulation
<1>6. \A e \in facets \cup badCells : IsKept(e)
  <2>1. \A s \in first : IsKept(CellElement(s))
    BY <1>5 DEF IsKept, IsKnown, IsZombie, CellElement, VerticesOfElement, RegionOf,
       RegionsOf
  <2>2. ASSUME NEW s \in first, NEW f \in FacetsOf(s) PROVE IsKept(f)
    <3>1. PICK j \in Corners, n \in alive \ {s} :
            f = FacetElement(s, j, n) /\ AcrossFacet(s, j, n)
      BY <2>2 DEF FacetsOf
    <3> QED BY <1>5, <3>1 DEF IsKept, IsKnown, IsZombie, FacetElement, AcrossFacet,
            VerticesOfElement, RegionOf, RegionsOf
  <2> QED BY <2>1, <2>2
<1>7. \A e \in Elements : IsAround(e) => e \in facets \cup badCells
  BY <1>4 DEF InitRefinement, IsAround
<1>8. LockInv
  BY <1>2, <1>4 DEF InitWith, InitTriangulation, InitRefinement, LockInv, ThreadInv,
     ZoneIsHeld, NextIsPinned, ElementIsHeld, HoldsNothing
<1> QED BY <1>6, <1>7, <1>8 DEF ElementsKept

(* A thread holds the regions of every cell in its zone and of the element *)
(* it refines, and elements name cells that exist or existed: the code     *)
(* from the locking of an element to unlock_all relies on it.              *)
THEOREM LockingInvariant == Spec => [](TypeOK /\ ElementsKept /\ LockInv)
<1>1. Init => TypeOK /\ ElementsKept /\ LockInv
  BY InitType, InitLocks
<1>2. TypeOK /\ ElementsKept /\ LockInv /\ [Next]_vars => ElementsKept' /\ LockInv'
  BY ElementsStay, LocksStay
<1> QED BY <1>1, <1>2, TypeInvariant, PTL DEF Spec

-----------------------------------------------------------------------------
(* Cells that a thread has locked stay, no other thread has locked one of  *)
(* them or of their neighbours, and no cell lies on the border of two      *)
(* zones: it would have two facets in them, and these have a vertex in     *)
(* common, whose region both threads would hold.  find_conflicts may mark  *)
(* the border of its zone without locking it, for any number of threads.   *)
THEOREM ZonesStayExclusive == Spec => []ZonesAreExclusive
<1>1. TypeOK /\ LockInv => ZonesAreExclusive
  <2> SUFFICES ASSUME TypeOK, LockInv, NEW t \in Threads
               PROVE  /\ \A s \in zone[t] : s \in alive /\ RegionsOf(s) \subseteq Held(t)
                      /\ \A u \in Threads \ {t} : \A s \in zone[t], n \in zone[u] :
                           /\ s # n /\ ~Adjacent(s, n)
                           /\ \A c \in alive : ~(Adjacent(c, s) /\ Adjacent(c, n))
    BY DEF ZonesAreExclusive
  <2> USE TypeParts
  <2>1. \A u \in Threads : \A s \in zone[u] : s \in alive /\ RegionsOf(s) \subseteq Held(u)
    BY DEF LockInv, ThreadInv, ZoneIsHeld
  <2>2. ASSUME NEW u \in Threads \ {t}, NEW s \in zone[t], NEW n \in zone[u]
        PROVE  /\ s # n /\ ~Adjacent(s, n)
               /\ \A c \in alive : ~(Adjacent(c, s) /\ Adjacent(c, n))
    <3>1. RegionsOf(s) \cap RegionsOf(n) = {}
      BY <2>1, OneOwner
    <3>2. \A i \in Corners : place[s][i] \in RegionsOf(s)
      BY DEF RegionsOf
    <3>3. PICK i \in Corners : TRUE
      BY GeometryAssumption
    <3>4. s # n
      BY <3>1, <3>2, <3>3
    <3>5. ASSUME NEW j \in Corners, AcrossFacet(s, j, n) PROVE FALSE
      <4>1. PICK k \in Corners : k \notin {j, j}
        BY GeometryAssumption
      <4> QED BY <3>1, <3>2, <3>5, <4>1 DEF AcrossFacet
    <3>6. ASSUME NEW c \in alive, NEW j \in Corners, NEW l \in Corners,
                 AcrossFacet(c, j, s), AcrossFacet(c, l, n)
          PROVE  FALSE
      <4>1. PICK k \in Corners : k \notin {j, l}
        BY GeometryAssumption
      <4>2. place[c][k] \in RegionsOf(s) /\ place[c][k] \in RegionsOf(n)
        BY <3>6, <4>1 DEF AcrossFacet
      <4> QED BY <3>1, <4>2
    <3> QED BY <3>4, <3>5, <3>6 DEF Adjacent
  <2> QED BY <2>1, <2>2
<1> QED BY <1>1, LockingInvariant, PTL

(* An element whose zone is computed or changed is not a zombie, whatever  *)
(* the other threads do: the second test is enough.                        *)
THEOREM RefinedElementsStayAlive == Spec => []RefinedElementsAreAlive
<1>1. TypeOK /\ ElementsKept /\ LockInv => RefinedElementsAreAlive
  <2> SUFFICES ASSUME TypeOK, ElementsKept, LockInv, NEW t \in Threads,
                      pc[t] \in {"grow", "visit"}, NEW e \in cur[t]
               PROVE  /\ ~IsZombie(e)
                      /\ {e.cell[1], e.mirror[1]} \subseteq alive
                      /\ \A v \in VerticesOfElement(e) : RegionOf(v) \in Held(t)
    BY DEF RefinedElementsAreAlive
  <2>1. ~IsZombie(e) /\ \A v \in VerticesOfElement(e) : RegionOf(v) \in Held(t)
    BY DEF LockInv, ThreadInv, ElementIsHeld
  <2>2. e \in Elements /\ IsKept(e)
    BY TypeParts DEF ElementsKept, IsAround, StatusType
  <2>3. {e.cell[1], e.mirror[1]} \subseteq alive
    BY <2>1, <2>2, TypeParts DEF IsKept, IsKnown, IsZombie, Elements, Handles, CellsType
  <2> QED BY <2>1, <2>3
<1> QED BY <1>1, LockingInvariant, PTL

-----------------------------------------------------------------------------
(***************************************************************************)
(* The bookkeeping: no bad element is lost, and nothing is left behind     *)
(* between the phases.                                                     *)
(***************************************************************************)
(* The labels in try_lock_and_refine_element. *)
Working == {"test", "lock", "grow", "visit", "unlock"}

-----------------------------------------------------------------------------
(***************************************************************************)
(* The invariant of the phases.                                            *)
(***************************************************************************)
(* Tasks run only while the main thread collects or waits. *)
PhasesAreQuiet ==
  stage \notin {"collect", "wait"} =>
    batches = {} /\ \A t \in Threads : pc[t] = "idle" /\ work[t] = {}

BuffersAreFlushed ==
  stage \in {"splice", "begin", "done"} => \A t \in Threads : buffer[t] = {}

(* The elements to be treated are those of the level. *)
LevelsAgree ==
  /\ \A l \in Levels : \A e \in queue[l] : e.level = l
  /\ \A b \in batches : \A e \in b : e.level = level
  /\ \A t \in Threads :
       /\ \A e \in buffer[t] \cup work[t] \cup task[t] : e.level = level
       /\ \A l \in Levels : \A e \in listed[t][l] : e.level = l

(* What a thread has when it is not refining. *)
NothingLocked(t) ==
  pc[t] \in {"idle", "top", "test", "drain", "requeue", "feed"} => Held(t) = {}

NoTask(t) == pc[t] \in {"idle", "feed"} => task[t] = {}

(* A thread refines its task, or, for a cell, a facet from its list. *)
TaskOrFacet(t) ==
  /\ pc[t] = "top" => IsTask(t)
  /\ pc[t] \in Working =>
       IsTask(t) \/ (level = "cells" /\ \A e \in cur[t] : e.level = "facets")

(* Its lists are empty until it has refined its task, and the list of the  *)
(* facets is empty again before it asks for its task to be reconsidered.   *)
ListsAreEmpty(t) ==
  /\ \/ pc[t] \in {"idle", "top"}
     \/ pc[t] \in Working \ {"unlock"} /\ IsTask(t)
     \/ pc[t] = "unlock" /\ IsTask(t) /\ result[t] \in {"refused", "outside"}
     => \A l \in Levels : listed[t][l] = {}
  /\ level = "facets" => listed[t]["cells"] = {}
  /\ level = "cells" /\ pc[t] \in {"requeue", "feed"} => listed[t]["facets"] = {}

ThreadIsTidy(t) ==
  NothingLocked(t) /\ NoTask(t) /\ TaskOrFacet(t) /\ ListsAreEmpty(t)

PhaseInv ==
  /\ PhasesAreQuiet /\ BuffersAreFlushed /\ LevelsAgree
  /\ \A t \in Threads : ThreadIsTidy(t)

-----------------------------------------------------------------------------
(***************************************************************************)
(* What a step leaves alone.                                               *)
(***************************************************************************)
(* A thread starts nothing, and has nothing to go on with, in a quiet      *)
(* phase.                                                                  *)
LEMMA QuietPhase ==
  ASSUME PhasesAreQuiet, NEW t \in Threads, ThreadStep(t)
  PROVE  stage \in {"collect", "wait"}
<1> SUFFICES ASSUME stage \notin {"collect", "wait"} PROVE FALSE
  OBVIOUS
<1>1. pc[t] = "idle" /\ work[t] = {}
  BY DEF PhasesAreQuiet
<1> QED
  BY <1>1 DEF ThreadStep, TakeBatch, StartElement, CancelTask, GoOn, FirstTest, Lock,
     Refused, SecondTest, Grow, Grown, RefineEncroached, Drop, Insert, OutsideItsZone,
     Unlock, Retry, Settled, DrainFacet, Drained, Requeue, Feed, Fed

(* Threads leave to the main thread what is its own. *)
LEMMA ThreadsKeepControl ==
  ASSUME NEW t \in Threads, ThreadStep(t)
  PROVE  UNCHANGED <<level, stage, stop, batchSize, queue>>
BY DEF ThreadStep, TakeBatch, StartElement, CancelTask, GoOn, FirstTest, Lock, Refused,
   SecondTest, Grow, Grown, RefineEncroached, Drop, Insert, OutsideItsZone, Unlock,
   Retry, Settled, DrainFacet, Drained, Requeue, Feed, Fed, control, tasks

(* The buffers of the other threads are left alone. *)
LEMMA EnqueueFrame ==
  ASSUME TypeOK, NEW t \in Threads, NEW e, Enqueue(t, e), NEW u \in Threads \ {t}
  PROVE  buffer'[u] = buffer[u]
BY DEF Enqueue, TypeOK

(* The variables of a thread that another one steps. *)
OwnedKept(u) ==
  /\ UNCHANGED <<pc[u], task[u], cur[u], inner[u], result[u], again[u]>>
  /\ UNCHANGED <<work[u], buffer[u], listed[u]>>
  /\ Held(u)' = Held(u)

(* A step of one thread leaves the locals of the others alone. *)
LEMMA OthersOwned ==
  ASSUME TypeOK, NEW t \in Threads, ThreadStep(t), NEW u \in Threads \ {t}
  PROVE  OwnedKept(u)
<1> USE TypeParts DEF OwnedKept, TasksType, StatusType, ControlType
<1>1. CASE TakeBatch(t)
  BY <1>1 DEF TakeBatch, locking, status, control, Held
<1>2. CASE StartElement(t)
  BY <1>2 DEF StartElement, locking, Held
<1>3. CASE CancelTask(t)
  BY <1>3 DEF CancelTask, locking, Held
<1>4. CASE GoOn(t)
  BY <1>4 DEF GoOn, locking, tasks, status, Held
<1>5. CASE FirstTest(t)
  BY <1>5, LockingFrame DEF FirstTest, Leave, tasks
<1>6. CASE Lock(t)
  BY <1>6, LockingFrame DEF Lock, tasks, status
<1>7. CASE Refused(t)
  BY <1>7, LockingFrame DEF Refused, Leave, tasks
<1>8. CASE SecondTest(t)
  BY <1>8, LockingFrame DEF SecondTest, Leave, tasks, locking, Held
<1>9. CASE Grow(t)
  BY <1>9, LockingFrame DEF Grow, tasks, status
<1>10. CASE Grown(t)
  BY <1>10, LockingFrame DEF Grown, tasks, status
<1>11. CASE RefineEncroached(t)
  BY <1>11 DEF RefineEncroached, locking, tasks, Held
<1>12. CASE Drop(t)
  BY <1>12, LockingFrame DEF Drop, Leave, tasks
<1>13. CASE Insert(t)
  <2>1. listed'[u] = listed[u]
    <3>1. PICK new : List(t, new)
      BY <1>13, InsertParts
    <3> QED BY <3>1 DEF List
  <2>2. Held(u)' = Held(u)
    BY <1>13, LockingFrame DEF Insert, Leave
  <2> QED BY <1>13, <2>1, <2>2 DEF Insert, Leave
<1>14. CASE OutsideItsZone(t)
  BY <1>14, LockingFrame DEF OutsideItsZone, Leave, tasks
<1>15. CASE Unlock(t)
  BY <1>15, LockingFrame DEF Unlock, tasks, status
<1>16. CASE Retry(t)
  BY <1>16 DEF Retry, locking, tasks, Held
<1>17. CASE Settled(t)
  BY <1>17 DEF Settled, locking, Held
<1>18. CASE DrainFacet(t)
  BY <1>18 DEF DrainFacet, locking, tasks, Held
<1>19. CASE Drained(t)
  BY <1>19 DEF Drained, locking, status, Held
<1>20. CASE Requeue(t)
  BY <1>20, EnqueueFrame DEF Requeue, locking, Held
<1>21. CASE Feed(t)
  BY <1>21, EnqueueFrame DEF Feed, locking, status, Held
<1>22. CASE Fed(t)
  BY <1>22 DEF Fed, locking, status, Held
<1> QED
  BY <1>1, <1>2, <1>3, <1>4, <1>5, <1>6, <1>7, <1>8, <1>9, <1>10, <1>11, <1>12,
     <1>13, <1>14, <1>15, <1>16, <1>17, <1>18, <1>19, <1>20, <1>21, <1>22
  DEF ThreadStep

-----------------------------------------------------------------------------
(***************************************************************************)
(* What an action does to the thread that takes it.                        *)
(***************************************************************************)
LEMMA LeaveOwn ==
  ASSUME TypeOK, NEW t \in Threads, NEW r, Leave(t, r)
  PROVE  pc'[t] = "unlock" /\ result'[t] = r /\ inner'[t] = {}
BY DEF TypeOK, Leave

(* The actions by where they lead, and what they change on the way. *)
LEMMA LockingSteps ==
  ASSUME TypeOK, NEW t \in Threads,
         \/ FirstTest(t) \/ Lock(t) \/ Refused(t) \/ SecondTest(t) \/ Grow(t)
         \/ Grown(t) \/ RefineEncroached(t) \/ Drop(t) \/ Insert(t)
         \/ OutsideItsZone(t) \/ Unlock(t)
  PROVE  /\ pc[t] \in Working /\ pc'[t] \in Working \ {"test"}
         /\ pc'[t] = "unlock" =>
              \/ pc[t] = "unlock" /\ result'[t] = result[t]
              \/ pc[t] # "unlock" /\ inner'[t] = {}
         /\ UNCHANGED <<task, cur, again, queue, buffer, batches, work>>
<1>1. CASE Refused(t)
  BY <1>1, LeaveOwn DEF Refused, Working, tasks
<1>2. CASE Drop(t)
  BY <1>2, LeaveOwn DEF Drop, Working, tasks
<1>3. CASE Insert(t)
  BY <1>3, LeaveOwn DEF Insert, Working
<1>4. CASE OutsideItsZone(t)
  BY <1>4, LeaveOwn DEF OutsideItsZone, Working, tasks
<1>5. CASE FirstTest(t)
  BY <1>5, LeaveOwn DEF FirstTest, Working, tasks, TypeOK
<1>6. CASE SecondTest(t)
  BY <1>6, LeaveOwn DEF SecondTest, Working, tasks, TypeOK
<1>7. CASE Lock(t) \/ Grow(t) \/ Grown(t) \/ RefineEncroached(t) \/ Unlock(t)
  BY <1>7 DEF Lock, Grow, Grown, RefineEncroached, Unlock, Working, tasks, status, TypeOK
<1> QED BY <1>1, <1>2, <1>3, <1>4, <1>5, <1>6, <1>7

(* A thread that is outside of its attempts holds nothing after its own    *)
(* step either.                                                            *)
LEMMA OwnNothingLocked ==
  ASSUME TypeOK, NEW t \in Threads, ThreadStep(t), NothingLocked(t)
  PROVE  NothingLocked(t)'
<1>1. CASE \/ FirstTest(t) \/ Lock(t) \/ Refused(t) \/ SecondTest(t) \/ Grow(t)
           \/ Grown(t) \/ RefineEncroached(t) \/ Drop(t) \/ Insert(t)
           \/ OutsideItsZone(t) \/ Unlock(t)
  BY <1>1, LockingSteps DEF NothingLocked, Working
<1>2. CASE Retry(t) \/ Settled(t)
  BY <1>2 DEF Retry, Settled, locking, Held, NothingLocked
<1>3. CASE \/ TakeBatch(t) \/ StartElement(t) \/ CancelTask(t) \/ GoOn(t)
           \/ DrainFacet(t) \/ Drained(t) \/ Requeue(t) \/ Feed(t) \/ Fed(t)
  <2>1. owner' = owner
    BY <1>3 DEF TakeBatch, StartElement, CancelTask, GoOn, DrainFacet, Drained,
       Requeue, Feed, Fed, locking
  <2>2. Held(t)' = Held(t)
    BY <2>1 DEF Held
  <2>3. pc[t] \in {"idle", "top", "drain", "requeue", "feed"}
    BY <1>3 DEF TakeBatch, StartElement, CancelTask, GoOn, DrainFacet, Drained,
       Requeue, Feed, Fed
  <2> QED BY <2>2, <2>3 DEF NothingLocked
<1> QED BY <1>1, <1>2, <1>3 DEF ThreadStep

(* An idle thread has no task, after its own step too. *)
LEMMA OwnNoTask ==
  ASSUME TypeOK, NEW t \in Threads, ThreadStep(t), NoTask(t)
  PROVE  NoTask(t)'
<1>1. CASE \/ FirstTest(t) \/ Lock(t) \/ Refused(t) \/ SecondTest(t) \/ Grow(t)
           \/ Grown(t) \/ RefineEncroached(t) \/ Drop(t) \/ Insert(t)
           \/ OutsideItsZone(t) \/ Unlock(t)
  BY <1>1, LockingSteps DEF NoTask, Working
<1>2. CASE \/ StartElement(t) \/ GoOn(t) \/ DrainFacet(t) \/ Drained(t)
           \/ Retry(t) \/ Settled(t)
  <2>1. pc'[t] \notin {"idle", "feed"}
    BY <1>2 DEF StartElement, GoOn, DrainFacet, Drained, Retry, Settled, TypeOK
  <2> QED BY <2>1 DEF NoTask
<1>3. CASE CancelTask(t) \/ Requeue(t)
  BY <1>3 DEF CancelTask, Requeue, NoTask, TypeOK
<1>4. CASE TakeBatch(t) \/ Feed(t) \/ Fed(t)
  BY <1>4 DEF TakeBatch, Feed, Fed, NoTask, status
<1> QED BY <1>1, <1>2, <1>3, <1>4 DEF ThreadStep

(* What a thread refines is its task, or a facet of its list. *)
LEMMA OwnTaskOrFacet ==
  ASSUME TypeOK, LevelsAgree, NEW t \in Threads, ThreadStep(t), TaskOrFacet(t)
  PROVE  TaskOrFacet(t)'
<1>0. level' = level
  BY ThreadsKeepControl
<1>1. CASE \/ FirstTest(t) \/ Lock(t) \/ Refused(t) \/ SecondTest(t) \/ Grow(t)
           \/ Grown(t) \/ RefineEncroached(t) \/ Drop(t) \/ Insert(t)
           \/ OutsideItsZone(t) \/ Unlock(t)
  BY <1>0, <1>1, LockingSteps DEF TaskOrFacet, Working, IsTask
<1>2. CASE \/ TakeBatch(t) \/ CancelTask(t) \/ Settled(t) \/ Drained(t)
           \/ Requeue(t) \/ Feed(t) \/ Fed(t)
  <2>1. pc'[t] \in {"idle", "drain", "requeue", "feed"}
    BY <1>2 DEF TakeBatch, CancelTask, Settled, Drained, Requeue, Feed, Fed, TypeOK
  <2> QED BY <2>1 DEF TaskOrFacet, Working
<1>3. CASE StartElement(t)
  BY <1>3 DEF StartElement, TaskOrFacet, Working, IsTask, TypeOK
<1>4. CASE GoOn(t) \/ Retry(t)
  BY <1>0, <1>4 DEF GoOn, Retry, TaskOrFacet, Working, IsTask, status, TypeOK
<1>5. CASE DrainFacet(t)
  BY <1>0, <1>5 DEF DrainFacet, TaskOrFacet, Living, LevelsAgree, Levels, TypeOK
<1> QED BY <1>1, <1>2, <1>3, <1>4, <1>5 DEF ThreadStep

(* The lists stay empty until a thread has refined its task. *)
LEMMA OwnListsAreEmpty ==
  ASSUME TypeOK, LevelsAgree, NEW t \in Threads, ThreadStep(t),
         TaskOrFacet(t), ListsAreEmpty(t)
  PROVE  ListsAreEmpty(t)'
<1> USE TypeParts
<1>0. level' = level /\ level \in Levels
  BY ThreadsKeepControl DEF ControlType
<1>1. CASE \/ FirstTest(t) \/ Lock(t) \/ SecondTest(t) \/ Grow(t) \/ Grown(t)
           \/ RefineEncroached(t) \/ Unlock(t)
  <2>1. listed' = listed /\ task' = task /\ cur' = cur
    BY <1>1 DEF FirstTest, Lock, SecondTest, Grow, Grown, RefineEncroached, Unlock,
       tasks, status
  <2>2. pc[t] \in Working /\ pc'[t] \in Working
    BY <1>1, LockingSteps
  <2>3. pc'[t] = "unlock" =>
          \/ pc[t] = "unlock" /\ result'[t] = result[t]
          \/ result'[t] = "zombie"
    BY <1>1, LeaveOwn DEF FirstTest, Lock, SecondTest, Grow, Grown, RefineEncroached,
       Unlock, status, ControlType
  <2>4. pc[t] = "unlock" => pc'[t] = "unlock" /\ result'[t] = result[t]
    BY <1>1 DEF FirstTest, Lock, SecondTest, Grow, Grown, RefineEncroached, Unlock,
       status
  <2> QED BY <1>0, <2>1, <2>2, <2>3, <2>4 DEF ListsAreEmpty, Working, IsTask
<1>2. CASE Refused(t) \/ Drop(t) \/ OutsideItsZone(t)
  <2>1. UNCHANGED <<listed, task, cur>> /\ pc'[t] = "unlock"
        /\ pc[t] \in {"lock", "grow", "visit"}
    BY <1>2, LeaveOwn DEF Refused, Drop, OutsideItsZone, tasks
  <2> QED BY <1>0, <2>1 DEF ListsAreEmpty, Working, IsTask
<1>3. CASE Insert(t)
  <2>1. pc'[t] = "unlock" /\ result'[t] \in {"inserted", "reconsider"}
    BY <1>3, LeaveOwn DEF Insert
  <2>2. level = "facets" => listed'[t]["cells"] = listed[t]["cells"]
    <3>1. PICK new : List(t, new)
      BY <1>3, InsertParts
    <3> QED BY <3>1 DEF List, TasksType, Levels
  <2> QED BY <1>0, <2>1, <2>2 DEF ListsAreEmpty, Working
<1>4. CASE TakeBatch(t) \/ StartElement(t) \/ GoOn(t) \/ Requeue(t)
  <2>1. /\ listed' = listed
        /\ \/ pc[t] = "idle" /\ pc'[t] \in {"idle", "top"}
           \/ pc[t] = "top" /\ pc'[t] = "test"
           \/ pc[t] = "requeue" /\ pc'[t] = "feed"
    BY <1>4 DEF TakeBatch, StartElement, GoOn, Requeue, tasks, ControlType
  <2> QED BY <1>0, <2>1 DEF ListsAreEmpty, Working
<1>5. CASE CancelTask(t)
  BY <1>0, <1>5 DEF CancelTask, ListsAreEmpty, Working, ControlType
<1>6. CASE Retry(t)
  <2>1. UNCHANGED <<listed, task, cur>> /\ result[t] \in {"refused", "outside"}
        /\ pc[t] = "unlock" /\ pc'[t] = IF IsTask(t) THEN "top" ELSE "test"
    BY <1>6 DEF Retry, tasks, ControlType
  <2> QED BY <1>0, <2>1 DEF ListsAreEmpty, Working, IsTask
<1>7. CASE Settled(t)
  <2>1. pc'[t] = "drain" /\ listed'[t]["cells"] = listed[t]["cells"]
    BY <1>7 DEF Settled, ControlType, TasksType, Levels
  <2> QED BY <1>0, <2>1 DEF ListsAreEmpty, Working
<1>8. CASE DrainFacet(t)
  <2>1. pc'[t] = "test" /\ UNCHANGED <<listed, task>> /\ level = "cells"
    BY <1>8 DEF DrainFacet, ControlType, tasks
  <2>2. ~IsTask(t)'
    <3>1. PICK f \in listed[t]["facets"] : cur' = [cur EXCEPT ![t] = {f}]
      BY <1>8 DEF DrainFacet, Living
    <3>2. f.level = "facets" /\ \A e \in task[t] : e.level = "cells"
      BY <2>1, <3>1 DEF LevelsAgree, Levels
    <3> QED BY <2>1, <3>1, <3>2 DEF IsTask, StatusType
  <2> QED BY <1>0, <2>1, <2>2 DEF ListsAreEmpty, Working
<1>9. CASE Drained(t)
  <2>1. pc'[t] = "requeue" /\ level \in {"facets", "cells"}
    BY <1>9 DEF Drained, ControlType
  <2>2. /\ level = "facets" => listed' = listed
        /\ level = "cells" => listed'[t]["facets"] = {}
    BY <1>9 DEF Drained, TasksType, Levels
  <2> QED BY <1>0, <2>1, <2>2 DEF ListsAreEmpty, Working
<1>10. CASE Feed(t)
  <2>1. pc[t] = "feed" /\ pc'[t] = "feed"
    BY <1>10 DEF Feed
  <2>2. \A l \in Levels \ {level} : listed'[t][l] = listed[t][l]
    BY <1>10 DEF Feed, TasksType
  <2> QED BY <1>0, <2>1, <2>2 DEF ListsAreEmpty, Working, Levels
<1>11. CASE Fed(t)
  <2>1. pc[t] = "feed" /\ pc'[t] = "idle"
    BY <1>11 DEF Fed, ControlType
  <2>2. /\ listed'[t][level] = {}
        /\ \A l \in Levels \ {level} : listed'[t][l] = listed[t][l]
    BY <1>0, <1>11 DEF Fed, TasksType
  <2> QED BY <1>0, <2>1, <2>2 DEF ListsAreEmpty, Working, Levels
<1> QED
  BY <1>1, <1>2, <1>3, <1>4, <1>5, <1>6, <1>7, <1>8, <1>9, <1>10, <1>11 DEF ThreadStep

(***************************************************************************)
(* Every element is where elements of its level are.                       *)
(***************************************************************************)
LEMMA ThreadLevels ==
  ASSUME TypeOK, LevelsAgree, NEW t \in Threads, ThreadStep(t)
  PROVE  LevelsAgree'
<1> USE TypeParts
<1>0. level' = level /\ queue' = queue
  BY ThreadsKeepControl
<1>1. CASE \/ FirstTest(t) \/ Lock(t) \/ Refused(t) \/ SecondTest(t) \/ Grow(t)
           \/ Grown(t) \/ RefineEncroached(t) \/ Drop(t) \/ OutsideItsZone(t)
           \/ Unlock(t) \/ GoOn(t) \/ Retry(t) \/ DrainFacet(t)
  <2>1. UNCHANGED <<tasks, task>>
    BY <1>1 DEF FirstTest, Lock, Refused, SecondTest, Grow, Grown, RefineEncroached,
       Drop, OutsideItsZone, Unlock, GoOn, Retry, DrainFacet, status
  <2> QED BY <1>0, <2>1 DEF LevelsAgree, tasks
<1>2. CASE Insert(t)
  <2>1. PICK new : List(t, new)
    BY <1>2, InsertParts
  <2>2. \A u \in Threads, l \in Levels : \A e \in listed'[u][l] :
          e \in listed[u][l] \/ e.level = l
    BY <2>1 DEF List, TasksType
  <2>3. UNCHANGED <<buffer, batches, work, task>>
    BY <1>2 DEF Insert
  <2> QED BY <1>0, <2>2, <2>3 DEF LevelsAgree
<1>3. CASE TakeBatch(t)
  BY <1>0, <1>3 DEF TakeBatch, LevelsAgree, status, TasksType
<1>4. CASE StartElement(t)
  BY <1>0, <1>4 DEF StartElement, LevelsAgree, TasksType, StatusType
<1>5. CASE CancelTask(t)
  BY <1>0, <1>5 DEF CancelTask, LevelsAgree, TasksType, StatusType
<1>6. CASE Settled(t) \/ Drained(t) \/ Fed(t)
  <2>1. \A u \in Threads, l \in Levels : listed'[u][l] \subseteq listed[u][l]
    BY <1>6 DEF Settled, Drained, Fed, TasksType
  <2>2. UNCHANGED <<buffer, batches, work, task>>
    BY <1>6 DEF Settled, Drained, Fed, status
  <2> QED BY <1>0, <2>1, <2>2 DEF LevelsAgree
<1>7. CASE Requeue(t)
  <2>1. \A u \in Threads : task'[u] \subseteq task[u]
    BY <1>7 DEF Requeue, StatusType
  <2>2. /\ \A u \in Threads : buffer'[u] \subseteq buffer[u] \cup task[t]
        /\ \A b \in batches' : b \in batches \/ b \subseteq buffer[t] \cup task[t]
    BY <1>7, EnqueueMoves DEF Requeue
  <2> QED BY <1>0, <1>7, <2>1, <2>2 DEF Requeue, LevelsAgree
<1>8. CASE Feed(t)
  <2>1. PICK f \in Living(listed[t][level]) :
          listed' = [listed EXCEPT ![t][level] = @ \ {f}] /\ Enqueue(t, f)
    BY <1>8 DEF Feed
  <2>2. f \in listed[t][level] /\ level \in Levels
    BY <2>1 DEF Living, ControlType
  <2>3. \A u \in Threads, l \in Levels : listed'[u][l] \subseteq listed[u][l]
    BY <2>1 DEF TasksType
  <2>4. /\ \A u \in Threads : buffer'[u] \subseteq buffer[u] \cup {f}
        /\ \A b \in batches' : b \in batches \/ b = buffer[t] \cup {f}
    BY <2>1, EnqueueMoves
  <2>5. f.level = level
    BY <2>2 DEF LevelsAgree
  <2> QED BY <1>0, <1>8, <2>3, <2>4, <2>5 DEF Feed, LevelsAgree, status
<1> QED
  BY <1>1, <1>2, <1>3, <1>4, <1>5, <1>6, <1>7, <1>8 DEF ThreadStep

(* When the main thread changes the level, nothing of the old one waits. *)
LEMMA MainLevels ==
  ASSUME TypeOK, PhaseInv, MainStep \/ ForcedStop
  PROVE  LevelsAgree'
<1> USE TypeParts, TasksAssumption DEF PhaseInv
<1>1. CASE Begin \/ Collected \/ Waited \/ Flushed \/ Finish \/ ForcedStop
  BY <1>1 DEF Begin, Collected, Waited, Flushed, Finish, ForcedStop, LevelsAgree,
     tasks, status
<1>2. CASE Flush
  BY <1>2 DEF Flush, LevelsAgree, status
<1>3. CASE Splice
  <2>1. \A l \in Levels : \A e \in queue'[l] :
          e \in queue[l] \/ (l = level /\ \E t \in Threads : e \in listed[t][level])
    BY <1>3 DEF Splice, TasksType
  <2>2. \A t \in Threads, l \in Levels : listed'[t][l] \subseteq listed[t][l]
    BY <1>3 DEF Splice, TasksType
  <2> QED BY <1>3, <2>1, <2>2 DEF Splice, LevelsAgree, status
<1>4. CASE ScanCells
  <2>1. batches = {} /\ \A t \in Threads : pc[t] = "idle" /\ work[t] = {}
    BY <1>4 DEF ScanCells, PhasesAreQuiet
  <2>2. \A t \in Threads : buffer[t] = {} /\ task[t] = {}
    BY <1>4, <2>1 DEF ScanCells, BuffersAreFlushed, ThreadIsTidy, NoTask
  <2>3. \A l \in Levels : \A e \in queue'[l] : e.level = l
    BY <1>4 DEF ScanCells, LevelsAgree, TasksType
  <2> QED BY <1>4, <2>1, <2>2, <2>3 DEF ScanCells, LevelsAgree, status
<1>5. CASE Collect
  <2>1. PICK f \in Living(queue[level]) :
          queue' = [queue EXCEPT ![level] = @ \ {f}] /\ Enqueue(Main, f)
    BY <1>5 DEF Collect
  <2>2. f \in queue[level] /\ level \in Levels
    BY <2>1 DEF Living, ControlType
  <2>3. \A l \in Levels : queue'[l] \subseteq queue[l]
    BY <2>1 DEF TasksType
  <2>4. /\ \A u \in Threads : buffer'[u] \subseteq buffer[u] \cup {f}
        /\ \A b \in batches' : b \in batches \/ b = buffer[Main] \cup {f}
    BY <2>1, EnqueueMoves
  <2>5. f.level = level /\ level' = level
    BY <1>5, <2>2 DEF LevelsAgree, Collect, control
  <2> QED BY <1>5, <2>3, <2>4, <2>5 DEF Collect, LevelsAgree, status
<1> QED BY <1>1, <1>2, <1>3, <1>4, <1>5 DEF MainStep

-----------------------------------------------------------------------------
(* The order of a thread does not depend on the other threads. *)
LEMMA TidyFrame ==
  ASSUME NEW u \in Threads, ThreadIsTidy(u), OwnedKept(u), level' = level
  PROVE  ThreadIsTidy(u)'
BY DEF ThreadIsTidy, NothingLocked, NoTask, TaskOrFacet, ListsAreEmpty, OwnedKept, IsTask

(* A step of a thread keeps the phases. *)
LEMMA ThreadPhases ==
  ASSUME TypeOK, PhaseInv, NEW t \in Threads, ThreadStep(t)
  PROVE  PhaseInv'
<1> USE DEF PhaseInv
<1>1. stage' \in {"collect", "wait"} /\ level' = level
  BY QuietPhase, ThreadsKeepControl
<1>2. PhasesAreQuiet' /\ BuffersAreFlushed'
  BY <1>1 DEF PhasesAreQuiet, BuffersAreFlushed
<1>3. LevelsAgree'
  BY ThreadLevels
<1>4. ThreadIsTidy(t)'
  BY OwnNothingLocked, OwnNoTask, OwnTaskOrFacet, OwnListsAreEmpty DEF ThreadIsTidy
<1>5. \A u \in Threads \ {t} : ThreadIsTidy(u)'
  BY <1>1, OthersOwned, TidyFrame
<1> QED BY <1>2, <1>3, <1>4, <1>5

(* A step of the main thread keeps the phases. *)
LEMMA MainPhases ==
  ASSUME TypeOK, PhaseInv, MainStep \/ ForcedStop
  PROVE  PhaseInv'
<1> USE TypeParts DEF PhaseInv
<1>1. UNCHANGED <<locking, task, cur, result, work, pc>>
  BY DEF MainStep, Begin, Collect, Collected, Waited, Flush, Flushed, Splice,
     ScanCells, Finish, ForcedStop, status, tasks, control
<1>2. PhasesAreQuiet'
  <2>1. CASE Begin \/ Collect \/ Collected \/ Flush
    BY <2>1 DEF Begin, Collect, Collected, Flush, PhasesAreQuiet, control
  <2>2. CASE Waited
    BY <2>2 DEF Waited, AllRun, PhasesAreQuiet, tasks
  <2>3. CASE Flushed \/ Splice \/ ScanCells \/ Finish \/ ForcedStop
    BY <2>3, <1>1 DEF Flushed, Splice, ScanCells, Finish, ForcedStop, PhasesAreQuiet,
       tasks
  <2> QED BY <2>1, <2>2, <2>3 DEF MainStep
<1>3. BuffersAreFlushed'
  BY DEF MainStep, Begin, Collect, Collected, Waited, Flush, Flushed, Splice,
     ScanCells, Finish, ForcedStop, BuffersAreFlushed, tasks, control
<1>4. LevelsAgree'
  BY MainLevels
<1>5. ASSUME NEW t \in Threads PROVE ThreadIsTidy(t)'
  <2>1. ThreadIsTidy(t)
    OBVIOUS
  <2>2. NothingLocked(t)' /\ NoTask(t)'
    BY <1>1, <2>1 DEF ThreadIsTidy, NothingLocked, NoTask, Held, locking
  <2>3. CASE level' = level
    <3>1. TaskOrFacet(t)'
      BY <1>1, <2>1, <2>3 DEF ThreadIsTidy, TaskOrFacet, IsTask
    <3>2. \A l \in Levels : listed'[t][l] \subseteq listed[t][l]
      <4>1. CASE Splice
        BY <4>1 DEF Splice, TasksType
      <4>2. CASE ~Splice
        BY <4>2 DEF MainStep, Begin, Collect, Collected, Waited, Flush, Flushed,
           ScanCells, Finish, ForcedStop, tasks
      <4> QED BY <4>1, <4>2
    <3>3. ListsAreEmpty(t)'
      BY <1>1, <2>1, <2>3, <3>2 DEF ThreadIsTidy, ListsAreEmpty, IsTask, Levels
    <3> QED BY <2>2, <3>1, <3>3 DEF ThreadIsTidy
  <2>4. CASE ScanCells
    <3>1. pc[t] = "idle" /\ listed' = listed
      BY <2>4 DEF ScanCells, PhasesAreQuiet
    <3>2. \A l \in Levels : listed[t][l] = {}
      BY <2>1, <3>1 DEF ThreadIsTidy, ListsAreEmpty
    <3>3. TaskOrFacet(t)' /\ ListsAreEmpty(t)'
      BY <1>1, <3>1, <3>2 DEF TaskOrFacet, ListsAreEmpty, Working, Levels
    <3> QED BY <2>2, <3>3 DEF ThreadIsTidy
  <2>5. level' = level \/ ScanCells
    BY DEF MainStep, Begin, Collect, Collected, Waited, Flush, Flushed, Splice,
       Finish, ForcedStop, control
  <2> QED BY <2>3, <2>4, <2>5
<1> QED BY <1>2, <1>3, <1>4, <1>5

(* The initial state is before the first phase. *)
LEMMA InitPhases == Init => PhaseInv
<1> SUFFICES ASSUME Init PROVE PhaseInv
  OBVIOUS
<1>1. PICK first \in SUBSET Slots, shape \in [Slots -> Shapes] : InitWith(first, shape)
  BY DEF Init
<1>2. PICK facets \in SUBSET (UNION {FacetsOf(s) : s \in first}) :
        \E badOnes : InitRefinement(facets, badOnes)
  BY <1>1 DEF InitWith
<1>3. PICK badOnes : InitRefinement(facets, badOnes)
  BY <1>2
<1>4. \A e \in facets : e.level = "facets"
  BY DEF FacetsOf, FacetElement
<1>5. PhasesAreQuiet /\ BuffersAreFlushed
  BY <1>3 DEF InitRefinement, PhasesAreQuiet, BuffersAreFlushed
<1>6. LevelsAgree
  BY <1>3, <1>4 DEF InitRefinement, LevelsAgree
<1>7. \A r \in Regions : owner[r] = {}
  BY <1>1 DEF InitWith, InitTriangulation
<1>8. \A t \in Threads : ThreadIsTidy(t)
  BY <1>3, <1>7 DEF InitRefinement, ThreadIsTidy, NothingLocked, NoTask, TaskOrFacet,
     ListsAreEmpty, Held, Working, Levels
<1> QED BY <1>5, <1>6, <1>8 DEF PhaseInv

(* The tasks, lists and locks of the threads follow the phases of the main *)
(* thread and the level it refines (refine_mesh_in_parallel,               *)
(* Enqueue_element, treat_local_refinement_queue).                         *)
THEOREM PhaseInvariant == Spec => [](TypeOK /\ PhaseInv)
<1>1. Init => PhaseInv
  BY InitPhases
<1>2. TypeOK /\ PhaseInv /\ [Next]_vars => PhaseInv'
  <2> SUFFICES ASSUME TypeOK, PhaseInv, [Next]_vars PROVE PhaseInv'
    OBVIOUS
  <2>1. CASE MainStep \/ ForcedStop
    BY <2>1, MainPhases
  <2>2. CASE \E t \in Threads : ThreadStep(t)
    BY <2>2, ThreadPhases
  <2>3. CASE Done \/ UNCHANGED vars
    BY <2>3 DEF Done, vars, PhaseInv, PhasesAreQuiet, BuffersAreFlushed, LevelsAgree,
       ThreadIsTidy, NothingLocked, NoTask, TaskOrFacet, ListsAreEmpty, IsTask, Held,
       locking, tasks, status, control
  <2> QED BY <2>1, <2>2, <2>3 DEF Next
<1> QED BY <1>1, <1>2, TypeInvariant, PTL DEF Spec

(* Between two parallel phases nothing is locked and the thread-local      *)
(* lists are empty, for any number of threads: splicing the lists is       *)
(* "useless", as the comment at Mesher_level.h:935 says.                   *)
THEOREM PhasesAlwaysEndClean == Spec => []PhasesEndClean
<1>1. TypeOK /\ PhaseInv => PhasesEndClean
  BY DEF PhaseInv, PhasesEndClean, PhasesAreQuiet, ThreadIsTidy, NothingLocked, NoTask,
     ListsAreEmpty
<1> QED BY <1>1, PhaseInvariant, PTL

-----------------------------------------------------------------------------
(***************************************************************************)
(* The invariant of the outcomes: an element that is not treated again is  *)
(* a zombie or was dropped.                                                *)
(***************************************************************************)
IsGone(e) == IsZombie(e) \/ e \in dropped

NoBadZombie == \A e \in bad : ~IsZombie(e)

CancelledIsStopped == cancelled => stop

(* An encroached facet is refined on behalf of a cell. *)
InnerOfCell(t) ==
  /\ pc[t] \notin {"grow", "visit"} => inner[t] = {}
  /\ inner[t] # {} => \A e \in cur[t] : e.level = "cells"
  /\ pc[t] = "unlock" /\ result[t] \in {"reconsider", "astray"} =>
       \A e \in cur[t] : e.level = "cells"

OutcomeIsTrue(t) ==
  pc[t] = "unlock" /\ result[t] \in {"inserted", "zombie", "dropped"} =>
    \A e \in cur[t] : IsGone(e)

TaskIsGone(t) ==
  pc[t] \in {"drain", "requeue"} \/ (pc[t] \in Working /\ ~IsTask(t)) =>
    again[t] \/ \A e \in task[t] : IsGone(e)

ThreadOutcome(t) == InnerOfCell(t) /\ OutcomeIsTrue(t) /\ TaskIsGone(t)

FacetsAreDone == level = "cells" => \A e \in queue["facets"] : IsZombie(e)

CellsAreDone ==
  stage = "done" /\ ~stop => level = "cells" /\ \A e \in queue["cells"] : IsZombie(e)

OutcomeInv ==
  /\ NoBadZombie /\ CancelledIsStopped /\ FacetsAreDone /\ CellsAreDone
  /\ \A t \in Threads : ThreadOutcome(t)

-----------------------------------------------------------------------------
(***************************************************************************)
(* What is gone stays gone.                                                *)
(***************************************************************************)
LEMMA ThreadsKeepMesh ==
  ASSUME NEW t \in Threads, ThreadStep(t), ~Insert(t)
  PROVE  UNCHANGED cells /\ UNCHANGED bad
BY DEF ThreadStep, TakeBatch, StartElement, CancelTask, GoOn, FirstTest, Lock, Refused,
   SecondTest, Grow, Grown, RefineEncroached, Drop, OutsideItsZone, Unlock, Retry,
   Settled, DrainFacet, Drained, Requeue, Feed, Fed, criteria

(* The main thread leaves the mesh alone, and a stop is never taken back. *)
LEMMA MainKeepsMesh ==
  ASSUME MainStep \/ ForcedStop
  PROVE  /\ UNCHANGED <<cells, locking, criteria, work, status, pc, batchSize>>
         /\ stop => stop'
BY DEF MainStep, Begin, Collect, Collected, Waited, Flush, Flushed, Splice, ScanCells,
   Finish, ForcedStop, tasks, control

(* A zombie stays one, for erase counters only rise. *)
LEMMA ZombiesStay ==
  ASSUME TypeOK, NEW e \in Elements, IsKept(e), IsZombie(e), NEW t \in Threads,
         ThreadStep(t)
  PROVE  IsZombie(e)'
<1> USE TypeParts
<1>1. CASE ~Insert(t)
  BY <1>1, ThreadsKeepMesh DEF IsZombie, cells
<1>2. CASE Insert(t)
  <2>1. PICK hole \in SUBSET zone[t], star \in SUBSET (Slots \ alive) :
          \E shape \in [star -> Shapes] : Retriangulate(hole, star, shape)
    BY <1>2, InsertParts
  <2>2. PICK shape \in [star -> Shapes] : Retriangulate(hole, star, shape)
    BY <2>1
  <2>3. hole \in SUBSET Slots
    BY DEF LockingType
  <2> QED BY <2>2, <2>3, RetriangulateElements
<1> QED BY <1>1, <1>2

(* What is gone stays gone. *)
LEMMA GoneStays ==
  ASSUME TypeOK, ElementsKept, NEW t \in Threads, ThreadStep(t),
         NEW e \in Elements, IsAround(e), IsGone(e)
  PROVE  IsGone(e)'
<1>1. dropped \subseteq dropped'
  BY DEF ThreadStep, TakeBatch, StartElement, CancelTask, GoOn, FirstTest, Lock, Refused,
     SecondTest, Grow, Grown, RefineEncroached, Drop, Insert, OutsideItsZone, Unlock,
     Retry, Settled, DrainFacet, Drained, Requeue, Feed, Fed, criteria
<1>2. IsKept(e)
  BY DEF ElementsKept
<1> QED BY <1>1, <1>2, ZombiesStay DEF IsGone

(* The elements of a thread are around. *)
LEMMA ThreadElements ==
  ASSUME TypeOK, NEW u \in Threads
  PROVE  /\ \A e \in task[u] \cup cur[u] : e \in Elements /\ IsAround(e)
         /\ \A l \in Levels : \A e \in listed[u][l] : e \in Elements /\ IsAround(e)
BY TypeParts DEF StatusType, TasksType, IsAround

(* The element of an insertion loses one of its cells. *)
LEMMA InsertedIsZombie ==
  ASSUME TypeOK, LockInv, NEW t \in Threads, Insert(t), inner[t] = {}, NEW e \in cur[t]
  PROVE  IsZombie(e)'
<1>1. PICK hole \in SUBSET zone[t], star \in SUBSET (Slots \ alive) :
        /\ \E f \in Active(t) : InItsZone(f, hole)
        /\ \E shape \in [star -> Shapes] : Retriangulate(hole, star, shape)
  BY InsertParts
<1>2. InItsZone(e, hole)
  BY <1>1 DEF Active, TypeOK, IsSingle
<1>3. ~IsZombie(e)
  BY DEF Insert, LockInv, ThreadInv, ElementIsHeld
<1>4. \A s \in hole : life'[s] = life[s] + 1 /\ life[s] \in Nat
  BY <1>1, TypeParts DEF Retriangulate, LockingType, CellsType
<1>5. e.cell[1] \in hole \/ e.mirror[1] \in hole
  BY <1>2 DEF InItsZone
<1> QED BY <1>3, <1>4, <1>5 DEF IsZombie

-----------------------------------------------------------------------------
(* A facet is refined on behalf of a cell only. *)
LEMMA OwnInnerOfCell ==
  ASSUME TypeOK, NEW t \in Threads, ThreadStep(t), InnerOfCell(t)
  PROVE  InnerOfCell(t)'
<1> USE TypeParts DEF InnerOfCell
<1>1. CASE Refused(t)
  BY <1>1, LeaveOwn DEF Refused
<1>2. CASE Insert(t)
  BY <1>2, LeaveOwn DEF Insert
<1>3. CASE OutsideItsZone(t)
  BY <1>3, LeaveOwn DEF OutsideItsZone
<1>4. CASE Drop(t)
  BY <1>4, LeaveOwn DEF Drop
<1>5. CASE FirstTest(t)
  BY <1>5, LeaveOwn DEF FirstTest, ControlType
<1>6. CASE SecondTest(t)
  BY <1>6, LeaveOwn DEF SecondTest, ControlType
<1>7. CASE RefineEncroached(t)
  <2>1. \A e \in cur[t] : e.level = "cells"
    BY <1>7 DEF RefineEncroached, StatusType, IsSingle
  <2> QED BY <1>7, <2>1 DEF RefineEncroached
<1>8. CASE Lock(t) \/ Grow(t) \/ Grown(t) \/ Unlock(t)
  BY <1>8 DEF Lock, Grow, Grown, Unlock, status, ControlType
<1>9. CASE TakeBatch(t) \/ GoOn(t) \/ Drained(t) \/ Feed(t) \/ Fed(t)
  BY <1>9 DEF TakeBatch, GoOn, Drained, Feed, Fed, status, ControlType
<1>10. CASE \/ StartElement(t) \/ CancelTask(t) \/ Retry(t) \/ Settled(t)
            \/ DrainFacet(t) \/ Requeue(t)
  <2>1. /\ pc[t] \notin {"grow", "visit"} /\ inner' = inner
        /\ pc'[t] \notin {"grow", "visit", "unlock"}
    BY <1>10 DEF StartElement, CancelTask, Retry, Settled, DrainFacet, Requeue,
       ControlType
  <2> QED BY <2>1
<1> QED
  BY <1>1, <1>2, <1>3, <1>4, <1>5, <1>6, <1>7, <1>8, <1>9, <1>10 DEF ThreadStep

(* What a thread reports of its element is true after its own step. *)
LEMMA OwnOutcomeIsTrue ==
  ASSUME TypeOK, ElementsKept, LockInv, NEW t \in Threads, ThreadStep(t),
         OutcomeIsTrue(t)
  PROVE  OutcomeIsTrue(t)'
<1> USE TypeParts DEF OutcomeIsTrue
<1>1. CASE FirstTest(t) \/ SecondTest(t)
  <2>1. cur' = cur /\ UNCHANGED cells
    BY <1>1 DEF FirstTest, SecondTest
  <2>2. pc'[t] = "unlock" => \A e \in cur[t] : IsZombie(e)
    BY <1>1 DEF FirstTest, SecondTest, StatusType, IsSingle, ControlType
  <2> QED BY <2>1, <2>2 DEF IsGone, IsZombie, cells
<1>2. CASE Drop(t)
  <2>1. cur' = cur /\ \A e \in cur[t] : e \in dropped'
    BY <1>2 DEF Drop, StatusType, IsSingle
  <2> QED BY <2>1 DEF IsGone
<1>3. CASE Insert(t)
  <2>1. cur' = cur /\ result'[t] = IF inner[t] = {} THEN "inserted" ELSE "reconsider"
    BY <1>3, LeaveOwn DEF Insert
  <2> QED BY <1>3, <2>1, InsertedIsZombie DEF IsGone
<1>4. CASE Refused(t) \/ OutsideItsZone(t)
  <2>1. result'[t] \in {"refused", "reconsider", "outside", "astray"}
    BY <1>4, LeaveOwn DEF Refused, OutsideItsZone
  <2> QED BY <2>1
<1>5. CASE Unlock(t)
  <2>1. pc[t] = "unlock" /\ result' = result /\ cur' = cur
    BY <1>5 DEF Unlock, status
  <2> QED BY <2>1, GoneStays, ThreadElements
<1>6. CASE ~(\/ FirstTest(t) \/ SecondTest(t) \/ Drop(t) \/ Insert(t) \/ Refused(t)
             \/ OutsideItsZone(t) \/ Unlock(t))
  <2>1. pc'[t] # "unlock"
    BY <1>6 DEF ThreadStep, TakeBatch, StartElement, CancelTask, GoOn, Lock, Grow, Grown,
       RefineEncroached, Retry, Settled, DrainFacet, Drained, Requeue, Feed, Fed,
       ControlType, control
  <2> QED BY <2>1
<1> QED BY <1>1, <1>2, <1>3, <1>4, <1>5, <1>6

(* A thread that is past its task has one that is gone, or is put back. *)
LEMMA OwnTaskIsGone ==
  ASSUME TypeOK, ElementsKept, NEW t \in Threads, ThreadStep(t),
         TaskOrFacet(t), OutcomeIsTrue(t), TaskIsGone(t)
  PROVE  TaskIsGone(t)'
<1> USE TypeParts
<1>0. \A e \in task[t] : IsGone(e) => IsGone(e)'
  BY GoneStays, ThreadElements
<1>1. CASE \/ FirstTest(t) \/ Lock(t) \/ Refused(t) \/ SecondTest(t) \/ Grow(t)
           \/ Grown(t) \/ RefineEncroached(t) \/ Drop(t) \/ Insert(t)
           \/ OutsideItsZone(t) \/ Unlock(t)
  <2>1. UNCHANGED <<task, cur, again>> /\ pc[t] \in Working
        /\ pc'[t] \notin {"drain", "requeue"}
    BY <1>1, LockingSteps DEF Working
  <2> QED BY <1>0, <2>1 DEF TaskIsGone, IsTask
<1>2. CASE \/ TakeBatch(t) \/ StartElement(t) \/ CancelTask(t) \/ Requeue(t)
           \/ Feed(t) \/ Fed(t)
  <2>1. pc'[t] \in {"idle", "top", "feed"}
    BY <1>2 DEF TakeBatch, StartElement, CancelTask, Requeue, Feed, Fed, ControlType
  <2> QED BY <2>1 DEF TaskIsGone, Working
<1>3. CASE GoOn(t)
  BY <1>3 DEF GoOn, TaskOrFacet, TaskIsGone, IsTask, status, ControlType
<1>4. CASE Retry(t)
  <2>1. UNCHANGED <<task, cur, again>> /\ pc[t] = "unlock"
        /\ pc'[t] = IF IsTask(t) THEN "top" ELSE "test"
    BY <1>4 DEF Retry, ControlType
  <2> QED BY <1>0, <2>1 DEF TaskIsGone, IsTask, Working
<1>5. CASE Settled(t)
  <2>1. /\ pc[t] = "unlock" /\ task' = task
        /\ result[t] \in {"inserted", "dropped", "reconsider", "zombie", "astray"}
    BY <1>5 DEF Settled
  <2>2. CASE IsTask(t)
    <3>1. again'[t] <=> result[t] \in {"reconsider", "astray"}
      BY <1>5, <2>2 DEF Settled, StatusType
    <3>2. again'[t] \/ \A e \in task[t] : IsGone(e)
      BY <2>1, <2>2, <3>1 DEF OutcomeIsTrue, IsTask
    <3> QED BY <1>0, <2>1, <3>2 DEF TaskIsGone
  <2>3. CASE ~IsTask(t)
    <3>1. again' = again
      BY <1>5, <2>3 DEF Settled
    <3> QED BY <1>0, <2>1, <2>3, <3>1 DEF TaskIsGone, Working
  <2> QED BY <2>2, <2>3
<1>6. CASE DrainFacet(t) \/ Drained(t)
  <2>1. pc[t] = "drain" /\ UNCHANGED <<task, again>>
    BY <1>6 DEF DrainFacet, Drained, status
  <2> QED BY <1>0, <2>1 DEF TaskIsGone
<1> QED
  BY <1>1, <1>2, <1>3, <1>4, <1>5, <1>6 DEF ThreadStep

-----------------------------------------------------------------------------
(* What a thread reported stays true while others go on. *)
LEMMA OthersOutcome ==
  ASSUME TypeOK, ElementsKept, NEW t \in Threads, ThreadStep(t),
         NEW u \in Threads \ {t}, ThreadOutcome(u)
  PROVE  ThreadOutcome(u)'
<1>1. OwnedKept(u)
  BY OthersOwned
<1>2. \A e \in task[u] \cup cur[u] : IsGone(e) => IsGone(e)'
  BY GoneStays, ThreadElements
<1>3. InnerOfCell(u)'
  BY <1>1 DEF ThreadOutcome, InnerOfCell, OwnedKept
<1>4. OutcomeIsTrue(u)'
  BY <1>1, <1>2 DEF ThreadOutcome, OutcomeIsTrue, OwnedKept
<1>5. TaskIsGone(u)'
  BY <1>1, <1>2 DEF ThreadOutcome, TaskIsGone, OwnedKept, IsTask
<1> QED BY <1>3, <1>4, <1>5 DEF ThreadOutcome

(* The criteria are asked about new elements. *)
LEMMA ThreadNoBadZombie ==
  ASSUME TypeOK, NoBadZombie, NEW t \in Threads, ThreadStep(t)
  PROVE  NoBadZombie'
<1>1. CASE ~Insert(t)
  BY <1>1, ThreadsKeepMesh DEF NoBadZombie, IsZombie, cells
<1>2. CASE Insert(t)
  <2>1. PICK star \in SUBSET (Slots \ alive) :
          \E badCells \in SUBSET {CellElement(s)' : s \in star},
             onSurface \in SUBSET (UNION {FacetsOf(s)' : s \in star}) :
            \E badFacets \in SUBSET onSurface :
              bad' = {e \in bad : ~IsZombie(e)'} \cup badCells \cup badFacets
    BY <1>2, InsertParts
  <2>2. PICK badCells \in SUBSET {CellElement(s)' : s \in star},
             onSurface \in SUBSET (UNION {FacetsOf(s)' : s \in star}) :
            \E badFacets \in SUBSET onSurface :
              bad' = {e \in bad : ~IsZombie(e)'} \cup badCells \cup badFacets
    BY <2>1
  <2>3. \A s \in star : ~IsZombie(CellElement(s))' /\ \A f \in FacetsOf(s)' : ~IsZombie(f)'
    BY DEF IsZombie, CellElement, FacetsOf, FacetElement
  <2> QED BY <2>2, <2>3 DEF NoBadZombie
<1> QED BY <1>1, <1>2

(* A step of a thread keeps the outcomes. *)
LEMMA ThreadOutcomes ==
  ASSUME TypeOK, ElementsKept, LockInv, PhaseInv, OutcomeInv, NEW t \in Threads,
         ThreadStep(t)
  PROVE  OutcomeInv'
<1> USE DEF OutcomeInv
<1>1. NoBadZombie'
  BY ThreadNoBadZombie
<1>2. CancelledIsStopped'
  BY DEF CancelledIsStopped, ThreadStep, TakeBatch, StartElement, CancelTask, GoOn,
     FirstTest, Lock, Refused, SecondTest, Grow, Grown, RefineEncroached, Drop, Insert,
     OutsideItsZone, Unlock, Retry, Settled, DrainFacet, Drained, Requeue, Feed, Fed,
     control
<1>3. UNCHANGED <<level, stage, queue>> /\ stage # "done"
  BY ThreadsKeepControl, QuietPhase DEF PhaseInv
<1>4. FacetsAreDone'
  <2>1. \A e \in queue["facets"] : e \in Elements /\ IsAround(e)
    BY TypeParts DEF TasksType, Levels, IsAround
  <2>2. \A e \in queue["facets"] : IsKept(e)
    BY <2>1 DEF ElementsKept
  <2> QED BY <1>3, <2>1, <2>2, ZombiesStay DEF FacetsAreDone
<1>5. CellsAreDone'
  BY <1>3 DEF CellsAreDone
<1>6. ThreadOutcome(t)'
  BY OwnInnerOfCell, OwnOutcomeIsTrue, OwnTaskIsGone
  DEF ThreadOutcome, PhaseInv, ThreadIsTidy
<1>7. \A u \in Threads \ {t} : ThreadOutcome(u)'
  BY OthersOutcome
<1> QED BY <1>1, <1>2, <1>4, <1>5, <1>6, <1>7

(* A step of the main thread keeps the outcomes. *)
LEMMA MainOutcomes ==
  ASSUME TypeOK, OutcomeInv, MainStep \/ ForcedStop
  PROVE  OutcomeInv'
<1> USE TypeParts DEF OutcomeInv
<1>1. UNCHANGED <<cells, criteria, status, pc>> /\ (stop => stop')
  BY MainKeepsMesh
<1>2. \A e : IsZombie(e)' <=> IsZombie(e)
  BY <1>1 DEF IsZombie, cells
<1>3. NoBadZombie' /\ \A t \in Threads : ThreadOutcome(t)'
  BY <1>1, <1>2 DEF NoBadZombie, ThreadOutcome, InnerOfCell, OutcomeIsTrue, TaskIsGone,
     IsGone, IsTask, criteria, status
<1>4. CancelledIsStopped'
  BY <1>1 DEF CancelledIsStopped, MainStep, Begin, Collect, Collected, Waited, Flush,
     Flushed, Splice, ScanCells, Finish, ForcedStop, control
<1>5. FacetsAreDone'
  <2>1. CASE ScanCells
    <3>1. queue'["facets"] = queue["facets"] /\ Living(queue["facets"]) = {}
      BY <2>1 DEF ScanCells, NoLonger, TasksType, Levels
    <3> QED BY <1>2, <3>1 DEF FacetsAreDone, Living
  <2>2. CASE ~ScanCells
    <3>1. level' = level
      BY <2>2 DEF MainStep, Begin, Collect, Collected, Waited, Flush, Flushed, Splice,
         Finish, ForcedStop, control
    <3>2. level = "cells" => queue'["facets"] = queue["facets"]
      BY <2>2 DEF MainStep, Begin, Collect, Collected, Waited, Flush, Flushed, Splice,
         Finish, ForcedStop, tasks, TasksType, Levels
    <3> QED BY <1>2, <3>1, <3>2 DEF FacetsAreDone
  <2> QED BY <2>1, <2>2
<1>6. CellsAreDone'
  <2>1. CASE Finish
    <3>1. ~stop => level = "cells" /\ Living(queue["cells"]) = {}
      BY <2>1 DEF Finish, NoLonger
    <3>2. UNCHANGED <<queue, level, stop>>
      BY <2>1 DEF Finish, tasks
    <3> QED BY <1>2, <3>1, <3>2 DEF CellsAreDone, Living
  <2>2. CASE ForcedStop
    BY <2>2 DEF ForcedStop, CellsAreDone
  <2>3. CASE MainStep /\ ~Finish
    <3>1. stage' # "done"
      BY <2>3 DEF MainStep, Begin, Collect, Collected, Waited, Flush, Flushed, Splice,
         ScanCells, control
    <3> QED BY <3>1 DEF CellsAreDone
  <2> QED BY <2>1, <2>2, <2>3
<1> QED BY <1>3, <1>4, <1>5, <1>6

(* At first nothing was reported. *)
LEMMA InitOutcomes == Init => OutcomeInv
<1> SUFFICES ASSUME Init PROVE OutcomeInv
  OBVIOUS
<1>1. PICK first \in SUBSET Slots, shape \in [Slots -> Shapes] : InitWith(first, shape)
  BY DEF Init
<1>2. PICK facets \in SUBSET (UNION {FacetsOf(s) : s \in first}),
           badCells \in SUBSET {CellElement(s) : s \in first} :
             \E badFacets \in SUBSET facets :
               InitRefinement(facets, badCells \cup badFacets)
  BY <1>1 DEF InitWith
<1>3. PICK badFacets \in SUBSET facets :
             InitRefinement(facets, badCells \cup badFacets)
  BY <1>2
<1>4. \A s \in first : ~IsZombie(CellElement(s)) /\ \A f \in FacetsOf(s) : ~IsZombie(f)
  BY DEF IsZombie, CellElement, FacetsOf, FacetElement
<1>5. NoBadZombie
  BY <1>2, <1>3, <1>4 DEF InitRefinement, NoBadZombie
<1>6. CancelledIsStopped /\ FacetsAreDone /\ CellsAreDone
  BY <1>3 DEF InitRefinement, CancelledIsStopped, FacetsAreDone, CellsAreDone
<1>7. \A t \in Threads : ThreadOutcome(t)
  BY <1>3 DEF InitRefinement, ThreadOutcome, InnerOfCell, OutcomeIsTrue, TaskIsGone,
     Working
<1> QED BY <1>5, <1>6, <1>7 DEF OutcomeInv

(* What a thread reports of an element is so, whatever the other threads   *)
(* do before it acts on it: what it forgets was destroyed or given up      *)
(* (Enqueue_element, try_lock_and_refine_element).                         *)
THEOREM OutcomeInvariant ==
  Spec => [](TypeOK /\ ElementsKept /\ LockInv /\ PhaseInv /\ OutcomeInv)
<1>1. Init => OutcomeInv
  BY InitOutcomes
<1>2. TypeOK /\ ElementsKept /\ LockInv /\ PhaseInv /\ OutcomeInv /\ [Next]_vars
        => OutcomeInv'
  <2> SUFFICES ASSUME TypeOK, ElementsKept, LockInv, PhaseInv, OutcomeInv, [Next]_vars
               PROVE  OutcomeInv'
    OBVIOUS
  <2>1. CASE MainStep \/ ForcedStop
    BY <2>1, MainOutcomes
  <2>2. CASE \E t \in Threads : ThreadStep(t)
    BY <2>2, ThreadOutcomes
  <2>3. CASE Done \/ UNCHANGED vars
    BY <2>3 DEF Done, vars, OutcomeInv, NoBadZombie, CancelledIsStopped, FacetsAreDone,
       CellsAreDone, ThreadOutcome, InnerOfCell, OutcomeIsTrue, TaskIsGone, IsGone,
       IsZombie, IsTask, cells, criteria, tasks, status, control
  <2> QED BY <2>1, <2>2, <2>3 DEF Next
<1> QED BY <1>1, <1>2, LockingInvariant, PhaseInvariant, PTL DEF Spec

-----------------------------------------------------------------------------
(***************************************************************************)
(* Bad elements are pending.                                               *)
(***************************************************************************)
LEMMA EnqueueKeeps ==
  ASSUME TypeOK, NEW t \in Threads, NEW e, Enqueue(t, e), ~cancelled
  PROVE  /\ \A x \in buffer[t] \cup {e} : x \in buffer'[t] \/ \E b \in batches' : x \in b
         /\ \A u \in Threads \ {t} : buffer'[u] = buffer[u]
         /\ batches \subseteq batches'
<1> DEFINE b == buffer[t] \cup {e}
<1>1. CASE Cardinality(b) >= batchSize
  <2>1. buffer' = [buffer EXCEPT ![t] = {}] /\ Run({b})
    BY <1>1 DEF Enqueue, b
  <2>2. batches' = batches \cup {b}
    BY <2>1 DEF Run
  <2> HIDE DEF b
  <2>3. \A x \in b : \E c \in batches' : x \in c
    BY <2>2
  <2> QED BY <2>1, <2>2, <2>3 DEF TypeOK, b
<1>2. CASE ~(Cardinality(b) >= batchSize)
  <2>1. buffer' = [buffer EXCEPT ![t] = b] /\ UNCHANGED batches
    BY <1>2 DEF Enqueue, b
  <2> QED BY <2>1 DEF TypeOK
<1> QED BY <1>1, <1>2

(* What is pending for a thread's step, but for what it puts in a list. *)
LEMMA ThreadKeepsPending ==
  ASSUME TypeOK, PhaseInv, OutcomeInv, NEW t \in Threads, ThreadStep(t), ~stop,
         NEW e \in Elements, Pending(e), ~IsGone(e)
  PROVE  Pending(e)'
<1> USE TypeParts DEF Pending
<1>0. queue' = queue /\ ~cancelled /\ level \in Levels
  BY ThreadsKeepControl DEF OutcomeInv, CancelledIsStopped, ControlType
<1>1. CASE \/ FirstTest(t) \/ Lock(t) \/ Refused(t) \/ SecondTest(t) \/ Grow(t)
           \/ Grown(t) \/ RefineEncroached(t) \/ Drop(t) \/ OutsideItsZone(t)
           \/ Unlock(t) \/ GoOn(t) \/ Retry(t) \/ DrainFacet(t)
  <2>1. UNCHANGED <<tasks, task>>
    BY <1>1 DEF FirstTest, Lock, Refused, SecondTest, Grow, Grown, RefineEncroached,
       Drop, OutsideItsZone, Unlock, GoOn, Retry, DrainFacet, status
  <2> QED BY <2>1 DEF tasks
<1>2. CASE Insert(t)
  <2>1. PICK new : List(t, new)
    BY <1>2, InsertParts
  <2>2. \A u \in Threads, l \in Levels : listed[u][l] \subseteq listed'[u][l]
    BY <2>1 DEF List, TasksType
  <2>3. UNCHANGED <<buffer, batches, work, task>>
    BY <1>2 DEF Insert
  <2> QED BY <1>0, <2>2, <2>3
<1>3. CASE TakeBatch(t)
  BY <1>0, <1>3 DEF TakeBatch, status, TasksType
<1>4. CASE StartElement(t)
  BY <1>0, <1>4 DEF StartElement, TasksType, StatusType, PhaseInv, ThreadIsTidy, NoTask
<1>5. CASE CancelTask(t)
  BY <1>5 DEF CancelTask
<1>6. CASE Settled(t)
  <2>1. \A u \in Threads, l \in Levels : \A x \in listed[u][l] :
          x \in listed'[u][l] \/ (x \in cur[t] /\ ~IsTask(t))
    BY <1>6 DEF Settled, TasksType, Levels
  <2>2. ASSUME ~IsTask(t), e \in cur[t] PROVE FALSE
    <3>1. e.level = "facets" /\ pc[t] = "unlock"
      BY <1>6, <2>2 DEF Settled, PhaseInv, ThreadIsTidy, TaskOrFacet, Working
    <3>2. result[t] \notin {"reconsider", "astray"}
      BY <2>2, <3>1 DEF OutcomeInv, ThreadOutcome, InnerOfCell
    <3> QED BY <1>6, <2>2, <3>1, <3>2
            DEF Settled, OutcomeInv, ThreadOutcome, OutcomeIsTrue
  <2>3. UNCHANGED <<buffer, batches, work, task>>
    BY <1>6 DEF Settled
  <2> QED BY <1>0, <2>1, <2>2, <2>3
<1>7. CASE Drained(t)
  <2>1. \A u \in Threads, l \in Levels : \A x \in listed[u][l] :
          x \in listed'[u][l] \/ IsZombie(x)
    BY <1>7 DEF Drained, TasksType, Living, Levels
  <2>2. UNCHANGED <<buffer, batches, work, task>>
    BY <1>7 DEF Drained, status
  <2> QED BY <1>0, <2>1, <2>2 DEF IsGone
<1>8. CASE Requeue(t)
  <2>1. \A u \in Threads \ {t} : task'[u] = task[u]
    BY <1>8 DEF Requeue, StatusType
  <2>2. CASE again[t]
    <3>1. PICK f \in task[t] : Enqueue(t, f)
      BY <1>8, <2>2 DEF Requeue
    <3>2. \A x \in task[t] : x = f
      BY DEF StatusType, IsSingle
    <3>3. /\ \A x \in buffer[t] \cup {f} :
               x \in buffer'[t] \/ \E b \in batches' : x \in b
          /\ \A u \in Threads \ {t} : buffer'[u] = buffer[u]
          /\ batches \subseteq batches'
      BY <1>0, <3>1, EnqueueKeeps
    <3> QED BY <1>0, <1>8, <2>1, <3>2, <3>3 DEF Requeue
  <2>3. CASE ~again[t]
    <3>1. e \notin task[t]
      BY <1>8, <2>3 DEF Requeue, OutcomeInv, ThreadOutcome, TaskIsGone
    <3> QED BY <1>0, <1>8, <2>1, <2>3, <3>1 DEF Requeue
  <2> QED BY <2>2, <2>3
<1>9. CASE Feed(t)
  <2>1. PICK f \in Living(listed[t][level]) :
          listed' = [listed EXCEPT ![t][level] = @ \ {f}] /\ Enqueue(t, f)
    BY <1>9 DEF Feed
  <2>2. \A u \in Threads, l \in Levels : \A x \in listed[u][l] :
          x \in listed'[u][l] \/ x = f
    BY <1>0, <2>1 DEF TasksType
  <2>3. /\ \A x \in buffer[t] \cup {f} : x \in buffer'[t] \/ \E b \in batches' : x \in b
        /\ \A u \in Threads \ {t} : buffer'[u] = buffer[u]
        /\ batches \subseteq batches'
    BY <1>0, <2>1, EnqueueKeeps
  <2> QED BY <1>0, <1>9, <2>2, <2>3 DEF Feed, status
<1>10. CASE Fed(t)
  <2>1. \A u \in Threads, l \in Levels : \A x \in listed[u][l] :
          x \in listed'[u][l] \/ IsZombie(x)
    BY <1>0, <1>10 DEF Fed, TasksType, Living
  <2>2. UNCHANGED <<buffer, batches, work, task>>
    BY <1>10 DEF Fed, status
  <2> QED BY <1>0, <2>1, <2>2 DEF IsGone
<1> QED
  BY <1>1, <1>2, <1>3, <1>4, <1>5, <1>6, <1>7, <1>8, <1>9, <1>10 DEF ThreadStep

(* The main thread loses no bad element, unless it is stopped. *)
LEMMA MainKeepsPending ==
  ASSUME TypeOK, PhaseInv, OutcomeInv, MainStep, ~stop, NEW e \in bad,
         Pending(e) \/ (e.level = "cells" /\ level = "facets")
  PROVE  Pending(e)' \/ (e.level = "cells" /\ level' = "facets")
<1> USE TypeParts, TasksAssumption DEF Pending
<1>0. ~cancelled /\ level \in Levels
  BY DEF OutcomeInv, CancelledIsStopped, ControlType
<1>1. CASE Begin \/ Collected \/ Waited \/ Flushed \/ Finish
  BY <1>1 DEF Begin, Collected, Waited, Flushed, Finish, tasks, status
<1>2. CASE Flush
  <2>1. batches = {}
    BY <1>2 DEF Flush, PhaseInv, PhasesAreQuiet
  <2>2. \A t \in Threads : e \in buffer[t] => buffer[t] \in batches'
    BY <1>2 DEF Flush
  <2> QED BY <1>2, <2>1, <2>2 DEF Flush, status
<1>3. CASE Splice
  <2>1. \A l \in Levels : queue[l] \subseteq queue'[l]
    BY <1>3 DEF Splice, TasksType
  <2>2. \A t \in Threads, l \in Levels : \A x \in listed[t][l] :
          x \in queue'[level] \/ x \in listed'[t][l]
    BY <1>0, <1>3 DEF Splice, TasksType
  <2> QED BY <1>0, <1>3, <2>1, <2>2 DEF Splice, status
<1>4. CASE ScanCells
  <2>1. /\ e.level = "cells" => e \in queue'["cells"]
        /\ e \in queue["facets"] => e \in queue'["facets"]
    BY <1>4 DEF ScanCells, TasksType, Levels
  <2>2. e \in queue["cells"] => e.level = "cells"
    BY DEF PhaseInv, LevelsAgree, Levels
  <2> QED BY <1>4, <2>1, <2>2 DEF ScanCells, status, Levels
<1>5. CASE Collect
  <2>1. PICK f \in Living(queue[level]) :
          queue' = [queue EXCEPT ![level] = @ \ {f}] /\ Enqueue(Main, f)
    BY <1>5 DEF Collect
  <2>2. \A l \in Levels : \A x \in queue[l] : x \in queue'[l] \/ x = f
    BY <1>0, <2>1 DEF TasksType
  <2>3. /\ \A x \in buffer[Main] \cup {f} :
             x \in buffer'[Main] \/ \E b \in batches' : x \in b
        /\ \A u \in Threads \ {Main} : buffer'[u] = buffer[u]
        /\ batches \subseteq batches'
    BY <1>0, <2>1, EnqueueKeeps
  <2> QED BY <1>5, <2>2, <2>3 DEF Collect, status, control
<1> QED BY <1>1, <1>2, <1>3, <1>4, <1>5 DEF MainStep

(* The new bad elements of an insertion are listed. *)
LEMMA InsertLists ==
  ASSUME TypeOK, NEW t \in Threads, Insert(t), NEW e \in bad', e \notin bad
  PROVE  Pending(e)' \/ (e.level = "cells" /\ level = "facets")
<1>1. PICK star \in SUBSET (Slots \ alive) :
        \E badCells \in SUBSET {CellElement(s)' : s \in star},
           onSurface \in SUBSET (UNION {FacetsOf(s)' : s \in star}) :
          \E badFacets \in SUBSET onSurface :
            /\ bad' = {x \in bad : ~IsZombie(x)'} \cup badCells \cup badFacets
            /\ List(t, badCells \cup badFacets)
  BY InsertParts
<1>2. PICK badCells \in SUBSET {CellElement(s)' : s \in star},
           onSurface \in SUBSET (UNION {FacetsOf(s)' : s \in star}) :
          \E badFacets \in SUBSET onSurface :
            /\ bad' = {x \in bad : ~IsZombie(x)'} \cup badCells \cup badFacets
            /\ List(t, badCells \cup badFacets)
  BY <1>1
<1>3. PICK badFacets \in SUBSET onSurface :
            /\ bad' = {x \in bad : ~IsZombie(x)'} \cup badCells \cup badFacets
            /\ List(t, badCells \cup badFacets)
  BY <1>2
<1> DEFINE new == badCells \cup badFacets
<1>4. e \in new
  BY <1>3
<1>5. \A x \in new : x.level \in Levels
  BY DEF CellElement, FacetsOf, FacetElement, Levels
<1>6. List(t, new)
  BY <1>3
<1> HIDE DEF new
<1>7. (e.level = "cells" /\ level = "facets") \/ e \in listed'[t][e.level]
  BY <1>4, <1>5, <1>6, TypeParts DEF List, TasksType
<1> QED BY <1>4, <1>5, <1>7 DEF Pending

(* No step loses a bad element. *)
LEMMA PendingStays ==
  ASSUME TypeOK, PhaseInv, OutcomeInv, BadElementsArePending, [Next]_vars
  PROVE  BadElementsArePending'
<1> SUFFICES ASSUME ~stop', NEW e \in bad', e \notin dropped'
             PROVE  Pending(e)' \/ (e.level = "cells" /\ level' = "facets")
  BY DEF BadElementsArePending
<1>1. CASE MainStep
  <2>1. ~stop /\ e \in bad /\ e \notin dropped
    BY <1>1, MainKeepsMesh DEF criteria
  <2> QED BY <1>1, <2>1, MainKeepsPending DEF BadElementsArePending
<1>2. CASE ForcedStop
  BY <1>2 DEF ForcedStop
<1>3. ASSUME NEW t \in Threads, ThreadStep(t)
      PROVE  Pending(e)' \/ (e.level = "cells" /\ level' = "facets")
  <2>1. ~stop /\ level' = level
    BY <1>3, ThreadsKeepControl
  <2>2. dropped \subseteq dropped'
    BY <1>3 DEF ThreadStep, TakeBatch, StartElement, CancelTask, GoOn, FirstTest, Lock,
       Refused, SecondTest, Grow, Grown, RefineEncroached, Drop, Insert, OutsideItsZone,
       Unlock, Retry, Settled, DrainFacet, Drained, Requeue, Feed, Fed, criteria
  <2>3. CASE e \in bad
    <3>1. ~IsGone(e) /\ e \in Elements
      BY <2>2, <2>3, TypeParts DEF OutcomeInv, NoBadZombie, IsGone, CriteriaType
    <3>2. Pending(e) \/ (e.level = "cells" /\ level = "facets")
      BY <2>1, <2>2, <2>3 DEF BadElementsArePending
    <3> QED BY <1>3, <2>1, <3>1, <3>2, ThreadKeepsPending
  <2>4. CASE e \notin bad
    BY <1>3, <2>1, <2>4, InsertLists, ThreadsKeepMesh
  <2> QED BY <2>3, <2>4
<1>4. CASE Done \/ UNCHANGED vars
  BY <1>4 DEF Done, vars, BadElementsArePending, Pending, criteria, tasks, status, control
<1> QED BY <1>1, <1>2, <1>3, <1>4 DEF Next

(* At first the bad facets are in their queue, and the cells are yet to be *)
(* scanned.                                                                *)
LEMMA InitPending == Init => BadElementsArePending
<1> SUFFICES ASSUME Init PROVE BadElementsArePending
  OBVIOUS
<1>1. PICK first \in SUBSET Slots, shape \in [Slots -> Shapes] : InitWith(first, shape)
  BY DEF Init
<1>2. PICK facets \in SUBSET (UNION {FacetsOf(s) : s \in first}),
           badCells \in SUBSET {CellElement(s) : s \in first} :
             \E badFacets \in SUBSET facets :
               InitRefinement(facets, badCells \cup badFacets)
  BY <1>1 DEF InitWith
<1>3. PICK badFacets \in SUBSET facets :
             InitRefinement(facets, badCells \cup badFacets)
  BY <1>2
<1>4. \A e \in badCells : e.level = "cells"
  BY DEF CellElement
<1> QED BY <1>3, <1>4 DEF InitRefinement, BadElementsArePending, Pending, Levels

(* No bad element is lost on its way between the queues, lists, buffers    *)
(* and tasks, for any number of threads and any interleaving of them,      *)
(* unless the mesher is told to stop.                                      *)
THEOREM BadElementsStayPending == Spec => []BadElementsArePending
<1>1. Init => BadElementsArePending
  BY InitPending
<1>2. /\ TypeOK /\ PhaseInv /\ OutcomeInv
      /\ BadElementsArePending /\ [Next]_vars
      => BadElementsArePending'
  BY PendingStays
<1> QED BY <1>1, <1>2, OutcomeInvariant, PTL DEF Spec

(* When refine_mesh returns without having been told to stop, every bad    *)
(* element of the mesh is one that was given up.                           *)
THEOREM RefinementEndsComplete == Spec => []RefinementIsComplete
<1>1. PhaseInv /\ OutcomeInv /\ BadElementsArePending => RefinementIsComplete
  <2> SUFFICES ASSUME PhaseInv, OutcomeInv, BadElementsArePending, stage = "done", ~stop,
                      NEW e \in bad, e \notin dropped
               PROVE  FALSE
    BY DEF RefinementIsComplete
  <2>1. level = "cells" /\ ~IsZombie(e)
    BY DEF OutcomeInv, CellsAreDone, NoBadZombie
  <2>2. Pending(e)
    BY <2>1 DEF BadElementsArePending
  <2>3. \A l \in Levels : e \notin queue[l]
    BY <2>1 DEF OutcomeInv, CellsAreDone, FacetsAreDone, Levels
  <2>4. batches = {} /\ \A t \in Threads : pc[t] = "idle" /\ work[t] = {}
    BY DEF PhaseInv, PhasesAreQuiet
  <2>5. \A t \in Threads :
          buffer[t] = {} /\ task[t] = {} /\ \A l \in Levels : listed[t][l] = {}
    BY <2>4 DEF PhaseInv, BuffersAreFlushed, ThreadIsTidy, NoTask, ListsAreEmpty
  <2> QED BY <2>2, <2>3, <2>4, <2>5 DEF Pending
<1> QED BY <1>1, OutcomeInvariant, BadElementsStayPending, PTL

-----------------------------------------------------------------------------
(***************************************************************************)
(* An element is in one place.                                             *)
(***************************************************************************)
(* What a thread has for later. *)
Own(t) == buffer[t] \cup work[t] \cup task[t] \cup listed[t][level]

OwnApart(t) ==
  /\ buffer[t] \cap (work[t] \cup task[t] \cup listed[t][level]) = {}
  /\ work[t] \cap (task[t] \cup listed[t][level]) = {}
  /\ task[t] \cap listed[t][level] = {}

(* What is not with a thread. *)
Waiting(e) == e \in queue[level] \/ \E b \in batches : e \in b

PlacesInv ==
  /\ \A b, c \in batches : b # c => b \cap c = {}
  /\ \A b \in batches : b \cap queue[level] = {}
  /\ \A t \in Threads : OwnApart(t) /\ \A e \in Own(t) : ~Waiting(e)
  /\ \A t, u \in Threads : t # u => Own(t) \cap Own(u) = {}

(* What a thread has changes: it takes what waits, gives to those that     *)
(* wait, or adds what is nowhere.                                          *)
LEMMA PlacesStep ==
  ASSUME PlacesInv, NEW t \in Threads, level' = level,
         queue'[level] \subseteq queue[level], OwnApart(t)',
         \A u \in Threads \ {t} : OwnedKept(u),
         \A e \in Own(t)' :
           /\ ~Waiting(e)'
           /\ \/ e \in Own(t) \/ Waiting(e)
              \/ \A u \in Threads : e \notin Own(u),
         \A b \in batches' :
           \/ b \in batches
           \/ \A e \in b : (e \in Own(t) \/ Waiting(e)) /\ e \notin queue'[level],
         \A b, c \in batches' : b # c => b \cap c = {}
  PROVE  PlacesInv'
<1>1. \A u \in Threads \ {t} : Own(u)' = Own(u) /\ OwnApart(u)'
  BY DEF Own, OwnApart, OwnedKept, PlacesInv
<1>2. \A e : Waiting(e)' => Waiting(e) \/ e \in Own(t)
  BY DEF Waiting
<1>3. \A u \in Threads \ {t} : \A e \in Own(u) : ~Waiting(e) /\ e \notin Own(t)
  BY DEF PlacesInv
<1>4. \A u \in Threads : OwnApart(u)' /\ \A e \in Own(u)' : ~Waiting(e)'
  BY <1>1, <1>2, <1>3
<1>5. \A u \in Threads \ {t} : Own(u)' \cap Own(t)' = {}
  BY <1>1, <1>3
<1>6. \A u, v \in Threads : u # v => Own(u)' \cap Own(v)' = {}
  BY <1>1, <1>5 DEF PlacesInv
<1>7. \A b \in batches' : b \cap queue'[level'] = {}
  BY DEF PlacesInv, Waiting
<1> QED BY <1>4, <1>6, <1>7 DEF PlacesInv

(* An element that leaves another place for the work buffer. *)
LEMMA EnqueuePlaces ==
  ASSUME TypeOK, PlacesInv, NEW t \in Threads, NEW e, Enqueue(t, e),
         e \notin buffer[t], \A b \in batches : e \notin b
  PROVE  /\ \A x \in buffer'[t] : x \in buffer[t] \cup {e} /\ \A b \in batches' : x \notin b
         /\ \A b \in batches' : b \in batches \/ b = buffer[t] \cup {e}
         /\ \A b, c \in batches' : b # c => b \cap c = {}
<1> DEFINE n == buffer[t] \cup {e}
<1>1. \A x \in n : \A b \in batches : x \notin b
  BY DEF PlacesInv, Own, Waiting
<1>2. CASE Cardinality(n) >= batchSize
  <2>1. buffer' = [buffer EXCEPT ![t] = {}] /\ Run({n})
    BY <1>2 DEF Enqueue, n
  <2> HIDE DEF n
  <2>2. batches' \subseteq batches \cup {n}
    BY <2>1 DEF Run
  <2>3. buffer'[t] = {}
    BY <2>1 DEF TypeOK
  <2>4. \A b, c \in batches' : b # c => b \cap c = {}
    BY <1>1, <2>2 DEF PlacesInv
  <2>5. \A b \in batches' : b \in batches \/ b = n
    BY <2>2
  <2> QED BY <2>3, <2>4, <2>5 DEF n
<1>3. CASE ~(Cardinality(n) >= batchSize)
  <2>1. buffer' = [buffer EXCEPT ![t] = n] /\ batches' = batches
    BY <1>3 DEF Enqueue, n
  <2>2. buffer'[t] = n
    BY <2>1 DEF TypeOK
  <2> QED BY <1>1, <2>1, <2>2 DEF PlacesInv
<1> QED BY <1>2, <1>3

(* The elements of an insertion name new cells, so they are in no place. *)
LEMMA InsertedAreNew ==
  ASSUME TypeOK, ElementsKept, LockInv, NEW t \in Threads, Insert(t)
  PROVE  \E new :
           /\ List(t, new)
           /\ \A e \in new : e \in Elements => ~IsAround(e)
<1>1. PICK hole \in SUBSET zone[t], star \in SUBSET (Slots \ alive) :
        /\ \E shape \in [star -> Shapes] : Retriangulate(hole, star, shape)
        /\ \E badCells \in SUBSET {CellElement(s)' : s \in star},
              onSurface \in SUBSET (UNION {FacetsOf(s)' : s \in star}) :
             \E badFacets \in SUBSET onSurface : List(t, badCells \cup badFacets)
  BY InsertParts
<1>2. PICK badCells \in SUBSET {CellElement(s)' : s \in star},
           onSurface \in SUBSET (UNION {FacetsOf(s)' : s \in star}) :
        \E badFacets \in SUBSET onSurface : List(t, badCells \cup badFacets)
  BY <1>1
<1>3. PICK badFacets \in SUBSET onSurface : List(t, badCells \cup badFacets)
  BY <1>2
<1>4. \A s \in star : life'[s] = life[s] /\ s \notin alive /\ life[s] \in Nat
  BY <1>1, TypeParts DEF Retriangulate, CellsType, LockInv, ThreadInv, ZoneIsHeld
<1>5. \A e \in badCells \cup badFacets : \E s \in star : e.cell = <<s, life'[s]>>
  BY DEF CellElement, FacetsOf, FacetElement
<1>6. ASSUME NEW e \in badCells \cup badFacets, e \in Elements PROVE ~IsAround(e)
  <2>1. ~IsKnown(e.cell)
    BY <1>4, <1>5 DEF IsKnown
  <2> QED BY <1>6, <2>1 DEF ElementsKept, IsKept
<1> QED BY <1>3, <1>6

(* A step of a thread leaves each element in one place. *)
LEMMA ThreadPlaces ==
  ASSUME TypeOK, ElementsKept, LockInv, PhaseInv, PlacesInv, NEW t \in Threads,
         ThreadStep(t)
  PROVE  PlacesInv'
<1> USE TypeParts
<1>0. /\ level' = level /\ queue' = queue /\ level \in Levels
      /\ \A u \in Threads \ {t} : OwnedKept(u)
      /\ OwnApart(t) /\ \A e \in Own(t) : ~Waiting(e)
      /\ \A b, c \in batches : b # c => b \cap c = {}
  BY ThreadsKeepControl, OthersOwned DEF PlacesInv, ControlType
<1>1. ASSUME batches' = batches, OwnApart(t)', Own(t)' \subseteq Own(t)
      PROVE  PlacesInv'
  BY <1>0, <1>1, PlacesStep DEF Waiting
<1>2. CASE \/ FirstTest(t) \/ Lock(t) \/ Refused(t) \/ SecondTest(t) \/ Grow(t)
           \/ Grown(t) \/ RefineEncroached(t) \/ Drop(t) \/ OutsideItsZone(t)
           \/ Unlock(t) \/ GoOn(t) \/ Retry(t) \/ DrainFacet(t)
  <2>1. UNCHANGED <<tasks, task>>
    BY <1>2 DEF FirstTest, Lock, Refused, SecondTest, Grow, Grown, RefineEncroached,
       Drop, OutsideItsZone, Unlock, GoOn, Retry, DrainFacet, status
  <2> QED BY <1>0, <1>1, <2>1 DEF OwnApart, Own, tasks
<1>3. CASE Insert(t)
  <2>1. PICK new : List(t, new) /\ \A e \in new : e \in Elements => ~IsAround(e)
    BY <1>3, InsertedAreNew
  <2>2. UNCHANGED <<buffer, batches, work, task>>
    BY <1>3 DEF Insert
  <2>3. \A e \in listed'[t][level] :
          e \in listed[t][level] \/ (e \in Elements /\ ~IsAround(e))
    <3>1. listed' \in [Threads -> [Levels -> SUBSET Elements]]
      BY <1>3, InsertType DEF TypeOK
    <3> QED BY <1>0, <2>1, <3>1 DEF List, TasksType
  <2>4. \A e : ~IsAround(e) => ~Waiting(e) /\ \A u \in Threads : e \notin Own(u)
    BY <1>0 DEF IsAround, Waiting, Own
  <2>5. OwnApart(t)'
    BY <1>0, <2>2, <2>3, <2>4 DEF OwnApart, Own
  <2>6. \A e \in Own(t)' :
           /\ ~Waiting(e)'
           /\ e \in Own(t) \/ \A u \in Threads : e \notin Own(u)
    BY <1>0, <2>2, <2>3, <2>4 DEF Own, Waiting
  <2> QED BY <1>0, <2>2, <2>5, <2>6, PlacesStep
<1>4. CASE TakeBatch(t)
  <2>1. PICK b \in batches : work' = [work EXCEPT ![t] = b] /\ batches' = batches \ {b}
    BY <1>4 DEF TakeBatch
  <2>2. work[t] = {} /\ work'[t] = b /\ UNCHANGED <<buffer, listed, task>>
    BY <1>4, <2>1 DEF TakeBatch, status, TasksType
  <2>3. \A e \in b : Waiting(e) /\ e \notin queue[level]
    BY DEF Waiting, PlacesInv
  <2>4. OwnApart(t)'
    BY <1>0, <2>2, <2>3 DEF OwnApart, Own
  <2>5. \A e \in Own(t)' : ~Waiting(e)' /\ (e \in Own(t) \/ Waiting(e))
    BY <1>0, <2>1, <2>2, <2>3 DEF Own, Waiting
  <2> QED BY <1>0, <2>1, <2>4, <2>5, PlacesStep
<1>5. CASE StartElement(t)
  <2>1. PICK e \in work[t] :
          work' = [work EXCEPT ![t] = @ \ {e}] /\ task' = [task EXCEPT ![t] = {e}]
    BY <1>5 DEF StartElement
  <2>2. /\ work'[t] = work[t] \ {e} /\ task'[t] = {e}
        /\ UNCHANGED <<buffer, listed, batches>>
    BY <1>5, <2>1 DEF StartElement, TasksType, StatusType
  <2> QED BY <1>0, <1>1, <2>2 DEF OwnApart, Own
<1>6. CASE CancelTask(t)
  <2>1. /\ work'[t] = {} /\ task'[t] = {} /\ batches' = {}
        /\ UNCHANGED <<buffer, listed>>
    BY <1>6 DEF CancelTask, TasksType, StatusType
  <2>2. OwnApart(t)' /\ \A e \in Own(t)' : e \in Own(t) /\ ~Waiting(e)'
    BY <1>0, <2>1 DEF OwnApart, Own, Waiting
  <2> QED BY <1>0, <2>1, <2>2, PlacesStep
<1>7. CASE Settled(t) \/ Drained(t) \/ Fed(t)
  <2>1. listed'[t][level] \subseteq listed[t][level]
    BY <1>0, <1>7 DEF Settled, Drained, Fed, TasksType
  <2>2. UNCHANGED <<buffer, batches, work, task>>
    BY <1>7 DEF Settled, Drained, Fed, status
  <2> QED BY <1>0, <1>1, <2>1, <2>2 DEF OwnApart, Own
<1>8. CASE Requeue(t)
  <2>1. task'[t] = {} /\ UNCHANGED <<work, listed>>
    BY <1>8 DEF Requeue, StatusType
  <2>2. CASE UNCHANGED <<buffer, batches>>
    BY <1>0, <1>1, <2>1, <2>2 DEF OwnApart, Own
  <2>3. CASE \E e \in task[t] : Enqueue(t, e)
    <3>1. PICK e \in task[t] : Enqueue(t, e)
      BY <2>3
    <3>2. e \in Own(t) /\ ~Waiting(e) /\ e \notin buffer[t]
      BY <1>0 DEF Own, OwnApart
    <3>3. /\ \A x \in buffer'[t] :
               x \in buffer[t] \cup {e} /\ \A b \in batches' : x \notin b
          /\ \A b \in batches' : b \in batches \/ b = buffer[t] \cup {e}
          /\ \A b, c \in batches' : b # c => b \cap c = {}
      BY <3>1, <3>2, EnqueuePlaces DEF Waiting
    <3>4. OwnApart(t)'
      BY <1>0, <2>1, <3>1, <3>3 DEF OwnApart, Own
    <3>5. \A x \in Own(t)' : x \in Own(t) /\ ~Waiting(x)'
      BY <1>0, <2>1, <3>1, <3>2, <3>3 DEF OwnApart, Own, Waiting
    <3>6. \A b \in batches' : b \in batches \/ \A x \in b : x \in Own(t) /\ x \notin queue'[level]
      BY <1>0, <3>2, <3>3 DEF Own, Waiting
    <3> QED BY <1>0, <3>3, <3>4, <3>5, <3>6, PlacesStep
  <2> QED BY <1>8, <2>2, <2>3 DEF Requeue
<1>9. CASE Feed(t)
  <2>1. PICK e \in Living(listed[t][level]) :
          listed' = [listed EXCEPT ![t][level] = @ \ {e}] /\ Enqueue(t, e)
    BY <1>9 DEF Feed
  <2>2. /\ e \in listed[t][level] /\ listed'[t][level] = listed[t][level] \ {e}
        /\ UNCHANGED <<work, task>>
    BY <1>0, <1>9, <2>1 DEF Feed, Living, TasksType, status
  <2>3. e \in Own(t) /\ ~Waiting(e) /\ e \notin buffer[t]
    BY <1>0, <2>2 DEF Own, OwnApart
  <2>4. /\ \A x \in buffer'[t] :
             x \in buffer[t] \cup {e} /\ \A b \in batches' : x \notin b
        /\ \A b \in batches' : b \in batches \/ b = buffer[t] \cup {e}
        /\ \A b, c \in batches' : b # c => b \cap c = {}
    BY <2>1, <2>3, EnqueuePlaces DEF Waiting
  <2>5. OwnApart(t)'
    BY <1>0, <2>2, <2>4 DEF OwnApart
  <2>6. \A x \in Own(t)' : x \in Own(t) /\ ~Waiting(x)'
    BY <1>0, <2>2, <2>3, <2>4 DEF OwnApart, Own, Waiting
  <2>7. \A b \in batches' : b \in batches \/ \A x \in b : x \in Own(t) /\ x \notin queue'[level]
    BY <1>0, <2>3, <2>4 DEF Own, Waiting
  <2> QED BY <1>0, <2>4, <2>5, <2>6, <2>7, PlacesStep
<1> QED
  BY <1>2, <1>3, <1>4, <1>5, <1>6, <1>7, <1>8, <1>9 DEF ThreadStep

(* A step of the main thread leaves each element in one place. *)
LEMMA MainPlaces ==
  ASSUME TypeOK, PhaseInv, PlacesInv, MainStep \/ ForcedStop
  PROVE  PlacesInv'
<1> USE TypeParts, TasksAssumption
<1>0. level \in Levels
  BY DEF ControlType
<1>1. CASE Begin \/ Collected \/ Waited \/ Flushed \/ Finish \/ ForcedStop
  <2>1. UNCHANGED <<tasks, task, level>>
    BY <1>1 DEF Begin, Collected, Waited, Flushed, Finish, ForcedStop, status
  <2> QED BY <2>1 DEF PlacesInv, OwnApart, Own, Waiting, tasks
<1>2. ASSUME stage \in {"flush", "splice", "begin"}
      PROVE  /\ batches = {} /\ \A t \in Threads : work[t] = {} /\ task[t] = {}
             /\ \A t \in Threads, l \in Levels : listed[t][l] = {}
  BY <1>2 DEF PhaseInv, PhasesAreQuiet, ThreadIsTidy, NoTask, ListsAreEmpty
<1>3. CASE Flush
  <2>1. /\ batches' = {buffer[t] : t \in Threads} \ {{}}
        /\ \A t \in Threads : buffer'[t] = {}
        /\ UNCHANGED <<queue, work, listed, task, level>>
    BY <1>3 DEF Flush, status
  <2>2. \A t \in Threads : OwnApart(t)' /\ Own(t)' = {}
    BY <1>0, <1>2, <1>3, <2>1 DEF Flush, OwnApart, Own
  <2>3. \A b \in batches' : b \cap queue[level] = {}
    BY <2>1 DEF PlacesInv, Own, Waiting
  <2>4. \A b, c \in batches' : b # c => b \cap c = {}
    BY <2>1 DEF PlacesInv, Own
  <2> QED BY <2>1, <2>2, <2>3, <2>4 DEF PlacesInv
<1>4. CASE Splice \/ ScanCells
  <2>1. UNCHANGED <<buffer, batches, work, task>> /\ level' \in Levels
    BY <1>0, <1>4 DEF Splice, ScanCells, status, Levels
  <2>2. \A t \in Threads : buffer[t] = {}
    BY <1>4 DEF Splice, ScanCells, PhaseInv, BuffersAreFlushed
  <2>3. \A t \in Threads, l \in Levels : listed'[t][l] = {}
    BY <1>2, <1>4 DEF Splice, ScanCells, TasksType
  <2>4. batches = {} /\ \A t \in Threads : work[t] = {} /\ task[t] = {}
    BY <1>2, <1>4 DEF Splice, ScanCells
  <2>5. \A t \in Threads : OwnApart(t)' /\ Own(t)' = {}
    BY <2>1, <2>2, <2>3, <2>4 DEF OwnApart, Own
  <2> QED BY <2>1, <2>4, <2>5 DEF PlacesInv
<1>5. CASE Collect
  <2>1. PICK e \in Living(queue[level]) :
          queue' = [queue EXCEPT ![level] = @ \ {e}] /\ Enqueue(Main, e)
    BY <1>5 DEF Collect
  <2>2. /\ e \in queue[level] /\ queue'[level] = queue[level] \ {e} /\ level' = level
        /\ UNCHANGED <<work, listed, task>>
    BY <1>0, <1>5, <2>1 DEF Collect, Living, TasksType, status, control
  <2>3. Waiting(e) /\ \A t \in Threads : e \notin Own(t)
    BY <2>2 DEF Waiting, PlacesInv
  <2>4. e \notin buffer[Main] /\ \A b \in batches : e \notin b
    BY <2>2, <2>3 DEF PlacesInv, Own
  <2>5. /\ \A x \in buffer'[Main] :
             x \in buffer[Main] \cup {e} /\ \A b \in batches' : x \notin b
        /\ \A b \in batches' : b \in batches \/ b = buffer[Main] \cup {e}
        /\ \A b, c \in batches' : b # c => b \cap c = {}
    BY <2>1, <2>4, EnqueuePlaces
  <2>6. \A u \in Threads \ {Main} : OwnedKept(u)
    <3>1. \A u \in Threads \ {Main} : buffer'[u] = buffer[u]
      BY <2>1, EnqueueFrame
    <3> QED BY <1>5, <2>2, <3>1 DEF Collect, OwnedKept, status, control, locking, Held
  <2>7. OwnApart(Main)'
    BY <2>2, <2>3, <2>5 DEF OwnApart, Own, PlacesInv
  <2>8. \A x \in Own(Main)' : ~Waiting(x)' /\ (x \in Own(Main) \/ Waiting(x))
    <3>1. \A x \in Own(Main) : ~Waiting(x)
      BY DEF PlacesInv
    <3>2. OwnApart(Main)
      BY DEF PlacesInv
    <3> QED BY <2>2, <2>3, <2>5, <3>1, <3>2 DEF OwnApart, Own, Waiting
  <2>9. \A b \in batches' :
           \/ b \in batches
           \/ \A x \in b : (x \in Own(Main) \/ Waiting(x)) /\ x \notin queue'[level]
    BY <2>2, <2>3, <2>5 DEF PlacesInv, Own, Waiting
  <2> QED BY <2>2, <2>5, <2>6, <2>7, <2>8, <2>9, PlacesStep
<1> QED BY <1>1, <1>3, <1>4, <1>5 DEF MainStep

(* An element waits in one place, so that no element is refined by two     *)
(* tasks: for any number of threads and any interleaving of them, the full *)
(* buffer is cleared when it becomes a task and the list is popped when it *)
(* feeds a buffer (enqueue_work, Enqueue_element).                         *)
THEOREM ItemsStayInOnePlace == Spec => []ItemsInOnePlace
<1>1. Init => PlacesInv
  <2> SUFFICES ASSUME Init PROVE PlacesInv
    OBVIOUS
  <2>1. PICK facets, badOnes : InitRefinement(facets, badOnes)
    BY DEF Init, InitWith
  <2>2. batches = {} /\ \A t \in Threads : Own(t) = {} /\ OwnApart(t)
    BY <2>1 DEF InitRefinement, Own, OwnApart, Levels
  <2> QED BY <2>2 DEF PlacesInv
<1>2. TypeOK /\ ElementsKept /\ LockInv /\ PhaseInv /\ PlacesInv /\ [Next]_vars
        => PlacesInv'
  <2> SUFFICES ASSUME TypeOK, ElementsKept, LockInv, PhaseInv, PlacesInv, [Next]_vars
               PROVE  PlacesInv'
    OBVIOUS
  <2>1. CASE MainStep \/ ForcedStop
    BY <2>1, MainPlaces
  <2>2. CASE \E t \in Threads : ThreadStep(t)
    BY <2>2, ThreadPlaces
  <2>3. CASE Done \/ UNCHANGED vars
    BY <2>3 DEF Done, vars, PlacesInv, OwnApart, Own, Waiting, tasks, status, control
  <2> QED BY <2>1, <2>2, <2>3 DEF Next
<1>3. PlacesInv => ItemsInOnePlace
  BY DEF PlacesInv, ItemsInOnePlace, OwnApart, Own, Waiting
<1> QED BY <1>1, <1>2, <1>3, OutcomeInvariant, PTL DEF Spec

===============================================================================
