----------------------- MODULE ConcurrentCompactContainer -----------------------
(***************************************************************************)
(* Concurrent_compact_container, the memory of the parallel triangulations *)
(* and meshes: elements live in the slots of ever larger blocks, an erased *)
(* slot goes to the free list of the thread that erased it, and a thread   *)
(* inserts into the slots of its own free list, allocating a new block     *)
(* under a mutex when the list is empty.  Next to its value an element has *)
(* the pointer whose two low bits tell used from free (type), the erase    *)
(* counter by which a CC_safe_handle notices that its element is gone, and *)
(* the time stamp that orders elements deterministically.                  *)
(*                                                                         *)
(* The slots are numbered in iteration order: a block is a run of numbers. *)
(***************************************************************************)
EXTENDS Naturals, Sequences, FiniteSets, Functions

CONSTANTS
  Threads,       \* the threads that use the container
  Foreign,       \* the stamps of a triangulation copied into the container
  Unset,         \* the stamp of a slot never used: size_t(-1)
  FirstBlock,    \* CGAL_INIT_CONCURRENT_COMPACT_CONTAINER_BLOCK_SIZE
  Growth,        \* CGAL_INCREMENT_CONCURRENT_COMPACT_CONTAINER_BLOCK_SIZE
  ClearsCounter, \* TRUE: constructing an element zeroes its erase counter
                 \* (std::atomic since C++20), FALSE: it leaves it alone
  CounterRange,  \* the number of values of an erase counter
  MaxCapacity,   \* bound: the slots of all the blocks
  MaxErasures,   \* bound: how often one slot is erased
  MaxHandles     \* bound: the safe handles made

ASSUME ConstantsAssumption ==
  /\ IsFiniteSet(Threads)
  /\ Foreign \subseteq Nat
  /\ Unset \notin Nat
  /\ FirstBlock \in Nat \ {0}
  /\ Growth \in Nat
  /\ ClearsCounter \in BOOLEAN
  /\ MaxCapacity \in Nat
  /\ MaxErasures \in Nat
  /\ CounterRange \in Nat
  /\ MaxErasures < CounterRange

Slots == 1..MaxCapacity

VARIABLES
  capacity,   \* m_capacity
  blockSize,  \* m_block_size, the size of the next block
  clock,      \* m_time_stamp
  type,       \* type[s]: "used", "free", or "none" outside the blocks
  counter,    \* counter[s]: the erase counter
  stamp,      \* stamp[s]: the time stamp
  free,       \* free[t]: the free list of t, its head first
  size,       \* size[t]: the m_size of that list
  pc,         \* pc[t]: where t is inside an insertion or an erasure
  fresh,      \* fresh[t]: the slots of t's new block, not yet marked free
  slot,       \* slot[t]: the slot t is inserting into or erasing
  saved,      \* saved[t]: its erase counter, read before the construction
  source,     \* source[t]: the stamp of the element being copied, or Unset
  prev,       \* prev[t]: prev_value of set_time_stamp's maximum loop
  live,       \* the elements handed out and not erased since
  toCopy,     \* the elements of the copied triangulation still to insert
  lives,      \* lives[s]: how often s was erased (nobody reads it)
  handles     \* the CC_safe_handles made so far

blocks  == <<capacity, blockSize, fresh>>
memory  == <<type, counter, stamp>>
lists   == <<free, size>>
control == <<pc, slot, saved, source, prev>>
clients == <<live, toCopy, lives, handles>>
vars    == <<blocks, clock, memory, lists, control, clients>>

Labels == {"idle", "mark", "listed", "construct", "restore", "finish",
           "test", "raise", "erasing"}

HandLabels == {"construct", "restore", "finish", "test", "raise", "erasing"}

Handle == [slot : Slots, value : Nat, life : Nat]

BlocksOK ==
  /\ capacity \in 0..MaxCapacity
  /\ blockSize \in Nat \ {0}
  /\ clock \in Nat
  /\ fresh \in [Threads -> Seq(1..capacity)]

MemoryOK ==
  /\ type \in [Slots -> {"none", "free", "used"}]
  /\ counter \in [Slots -> 0..MaxErasures]
  /\ stamp \in [Slots -> Nat \cup {Unset}]

ListsOK ==
  /\ free \in [Threads -> Seq(1..capacity)]
  /\ size \in [Threads -> Nat]

ControlOK ==
  /\ pc \in [Threads -> Labels]
  /\ slot \in [Threads -> Nat]
  /\ saved \in [Threads -> 0..MaxErasures]
  /\ source \in [Threads -> Foreign \cup {Unset}]
  /\ prev \in [Threads -> Nat]

ClientsOK ==
  /\ live \in SUBSET (1..capacity)
  /\ toCopy \in SUBSET Foreign
  /\ lives \in [Slots -> 0..MaxErasures]
  /\ handles \in SUBSET Handle

TypeOK == BlocksOK /\ MemoryOK /\ ListsOK /\ ControlOK /\ ClientsOK

-----------------------------------------------------------------------------
Quiescent == \A t \in Threads : pc[t] = "idle"

(* copy_tds is filling the container, which only it may use meanwhile. *)
Copying == toCopy # {} \/ \E t \in Threads : source[t] # Unset

(* What the callers guarantee when t starts to insert or to erase. *)
MayCall(t) == pc[t] = "idle" /\ (Copying => Quiescent)

(* Mutant of NextStamp: the maximum itself, not the stamp after it. *)
SameStamp(t) == stamp[slot[t]]

(* set_time_stamp's new_value. *)
NextStamp(t) == stamp[slot[t]] + 1

(* The locals of the running call go out of scope. *)
ForgetLocals(t) ==
  /\ pc' = [pc EXCEPT ![t] = "idle"]
  /\ slot' = [slot EXCEPT ![t] = 0]
  /\ saved' = [saved EXCEPT ![t] = 0]
  /\ source' = [source EXCEPT ![t] = Unset]
  /\ prev' = [prev EXCEPT ![t] = 0]

(* The insertion returns: the caller has the element now. *)
Return(t) ==
  /\ live' = live \cup {slot[t]}
  /\ ForgetLocals(t)

-----------------------------------------------------------------------------
Init ==
  /\ capacity = 0
  /\ blockSize = FirstBlock
  /\ clock = 0
  /\ type = [s \in Slots |-> "none"]
  /\ counter = [s \in Slots |-> 0]
  /\ stamp = [s \in Slots |-> Unset]
  /\ free = [t \in Threads |-> <<>>]
  /\ size = [t \in Threads |-> 0]
  /\ pc = [t \in Threads |-> "idle"]
  /\ fresh = [t \in Threads |-> <<>>]
  /\ slot = [t \in Threads |-> 0]
  /\ saved = [t \in Threads |-> 0]
  /\ source = [t \in Threads |-> Unset]
  /\ prev = [t \in Threads |-> 0]
  /\ live = {}
  /\ toCopy \in {{}, Foreign}
  /\ lives = [s \in Slots |-> 0]
  /\ handles = {}

(***************************************************************************)
(* allocate_new_block, called by init_insert when the list is empty.       *)
(***************************************************************************)
(* The section under m_mutex: the new block joins the end of the chain. *)
NewBlock(t) ==
  /\ MayCall(t)
  /\ free[t] = <<>>
  /\ capacity + blockSize <= MaxCapacity
  /\ fresh' = [fresh EXCEPT ![t] = [i \in 1..blockSize |-> capacity + i]]
  /\ capacity' = capacity + blockSize
  /\ blockSize' = blockSize + Growth
  /\ pc' = [pc EXCEPT ![t] = "mark"]
  /\ UNCHANGED <<clock, memory, lists, slot, saved, source, prev, clients>>

(* After the mutex: every slot is reset and put on the list, from the last *)
(* to the first, so that the insertion order is the iteration order.       *)
MarkFree(t) ==
  LET new == Range(fresh[t]) IN
  /\ pc[t] = "mark"
  /\ counter' = [s \in Slots |-> IF s \in new THEN 0 ELSE counter[s]]
  /\ stamp' = [s \in Slots |-> IF s \in new THEN Unset ELSE stamp[s]]
  /\ type' = [s \in Slots |-> IF s \in new THEN "free" ELSE type[s]]
  /\ free' = [free EXCEPT ![t] = fresh[t] \o @]
  /\ size' = [size EXCEPT ![t] = @ + Len(fresh[t])]
  /\ fresh' = [fresh EXCEPT ![t] = <<>>]
  /\ pc' = [pc EXCEPT ![t] = "listed"]
  /\ UNCHANGED <<capacity, blockSize, clock, slot, saved, source, prev, clients>>

(***************************************************************************)
(* emplace, and insert of a copy.                                          *)
(***************************************************************************)
(* Mutant of Pop: the head of the free list does not move. *)
PopLeavesHead(t) ==
  /\ MayCall(t) \/ pc[t] = "listed"
  /\ free[t] # <<>>
  /\ slot' = [slot EXCEPT ![t] = Head(free[t])]
  /\ saved' = [saved EXCEPT ![t] = counter[Head(free[t])]]
  /\ \/ /\ toCopy = {}
        /\ UNCHANGED <<source, toCopy>>
     \/ \E k \in toCopy :
          /\ source' = [source EXCEPT ![t] = k]
          /\ toCopy' = toCopy \ {k}
  /\ pc' = [pc EXCEPT ![t] = "construct"]
  /\ UNCHANGED <<blocks, clock, memory, lists, prev, live, lives, handles>>

(* The rest of init_insert, and the read of the slot's erase counter. *)
Pop(t) ==
  /\ MayCall(t) \/ pc[t] = "listed"
  /\ free[t] # <<>>
  /\ slot' = [slot EXCEPT ![t] = Head(free[t])]
  /\ free' = [free EXCEPT ![t] = Tail(@)]
  /\ saved' = [saved EXCEPT ![t] = counter[Head(free[t])]]
  /\ \/ /\ toCopy = {}
        /\ UNCHANGED <<source, toCopy>>
     \/ \E k \in toCopy :
          /\ source' = [source EXCEPT ![t] = k]
          /\ toCopy' = toCopy \ {k}
  /\ pc' = [pc EXCEPT ![t] = "construct"]
  /\ UNCHANGED <<blocks, clock, memory, size, prev, live, lives, handles>>

(* The constructor: the bits say USED; a copy brings the stamp of its      *)
(* source along; the other constructors leave the stamp in memory.         *)
Construct(t) ==
  /\ pc[t] = "construct"
  /\ type' = [type EXCEPT ![slot[t]] = "used"]
  /\ counter' = [counter EXCEPT ![slot[t]] = IF ClearsCounter THEN 0 ELSE @]
  /\ stamp' = [stamp EXCEPT ![slot[t]] = IF source[t] = Unset THEN @ ELSE source[t]]
  /\ pc' = [pc EXCEPT ![t] = "restore"]
  /\ UNCHANGED <<blocks, clock, lists, slot, saved, source, prev, clients>>

(* Mutant of RestoreCounter: nothing puts the counter back. *)
ForgetCounter(t) ==
  /\ pc[t] = "restore"
  /\ pc' = [pc EXCEPT ![t] = "finish"]
  /\ UNCHANGED <<blocks, clock, memory, lists, slot, saved, source, prev, clients>>

RestoreCounter(t) ==
  /\ pc[t] = "restore"
  /\ counter' = [counter EXCEPT ![slot[t]] = saved[t]]
  /\ pc' = [pc EXCEPT ![t] = "finish"]
  /\ UNCHANGED <<blocks, clock, type, stamp, lists, slot, saved, source, prev, clients>>

(* Mutant of DrawStamp: the clock is read but not advanced. *)
ReadStamp(t) ==
  /\ pc[t] = "finish"
  /\ stamp[slot[t]] = Unset
  /\ size' = [size EXCEPT ![t] = @ - 1]
  /\ stamp' = [stamp EXCEPT ![slot[t]] = clock]
  /\ Return(t)
  /\ UNCHANGED <<blocks, clock, type, counter, free, toCopy, lives, handles>>

(* Mutant of DrawStamp: the size of the free list goes down twice. *)
DrawStampCountingTwice(t) ==
  /\ pc[t] = "finish"
  /\ stamp[slot[t]] = Unset
  /\ size' = [size EXCEPT ![t] = @ - 2]
  /\ stamp' = [stamp EXCEPT ![slot[t]] = clock]
  /\ clock' = clock + 1
  /\ Return(t)
  /\ UNCHANGED <<blocks, type, counter, free, toCopy, lives, handles>>

(* finalize_insert of a slot used for the first time: draw a stamp. *)
DrawStamp(t) ==
  /\ pc[t] = "finish"
  /\ stamp[slot[t]] = Unset
  /\ size' = [size EXCEPT ![t] = @ - 1]
  /\ stamp' = [stamp EXCEPT ![slot[t]] = clock]
  /\ clock' = clock + 1
  /\ Return(t)
  /\ UNCHANGED <<blocks, type, counter, free, toCopy, lives, handles>>

(* Mutant of KeepStamp: a recycled slot is not counted off the list. *)
KeepStampUncounted(t) ==
  /\ pc[t] = "finish"
  /\ stamp[slot[t]] # Unset
  /\ prev' = [prev EXCEPT ![t] = clock]
  /\ pc' = [pc EXCEPT ![t] = "test"]
  /\ UNCHANGED <<blocks, clock, memory, lists, slot, saved, source, clients>>

(* finalize_insert of a recycled slot or a copy: the stamp is re-used, and *)
(* m_time_stamp is raised above it by a compare-and-swap loop.             *)
KeepStamp(t) ==
  /\ pc[t] = "finish"
  /\ stamp[slot[t]] # Unset
  /\ size' = [size EXCEPT ![t] = @ - 1]
  /\ prev' = [prev EXCEPT ![t] = clock]
  /\ pc' = [pc EXCEPT ![t] = "test"]
  /\ UNCHANGED <<blocks, clock, memory, free, slot, saved, source, clients>>

ClockIsAhead(t) ==
  /\ pc[t] = "test"
  /\ prev[t] >= NextStamp(t)
  /\ Return(t)
  /\ UNCHANGED <<blocks, clock, memory, lists, toCopy, lives, handles>>

ClockIsBehind(t) ==
  /\ pc[t] = "test"
  /\ prev[t] < NextStamp(t)
  /\ pc' = [pc EXCEPT ![t] = "raise"]
  /\ UNCHANGED <<blocks, clock, memory, lists, slot, saved, source, prev, clients>>

RaiseClock(t) ==
  /\ pc[t] = "raise"
  /\ clock = prev[t]
  /\ clock' = NextStamp(t)
  /\ Return(t)
  /\ UNCHANGED <<blocks, memory, lists, toCopy, lives, handles>>

(* Another thread moved the clock, or the weak operation failed. *)
RaiseFails(t) ==
  /\ pc[t] = "raise"
  /\ prev' = [prev EXCEPT ![t] = clock]
  /\ pc' = [pc EXCEPT ![t] = "test"]
  /\ UNCHANGED <<blocks, clock, memory, lists, slot, saved, source, clients>>

(***************************************************************************)
(* erase, clear, and the safe handles.                                     *)
(***************************************************************************)
(* erase(x): the counter goes up while the element is still there. *)
Erase(t) ==
  /\ MayCall(t)
  /\ toCopy = {}
  /\ \E s \in live :
       /\ type[s] = "used"
       /\ lives[s] < MaxErasures
       /\ counter' = [counter EXCEPT ![s] = (@ + 1) % CounterRange]
       /\ lives' = [lives EXCEPT ![s] = @ + 1]
       /\ slot' = [slot EXCEPT ![t] = s]
       /\ live' = live \ {s}
  /\ pc' = [pc EXCEPT ![t] = "erasing"]
  /\ UNCHANGED <<blocks, clock, type, stamp, lists, saved, source, prev, toCopy, handles>>

(* put_on_free_list, of the erasing thread. *)
PutBack(t) ==
  /\ pc[t] = "erasing"
  /\ type' = [type EXCEPT ![slot[t]] = "free"]
  /\ free' = [free EXCEPT ![t] = <<slot[t]>> \o @]
  /\ size' = [size EXCEPT ![t] = @ + 1]
  /\ ForgetLocals(t)
  /\ UNCHANGED <<blocks, clock, counter, stamp, clients>>

(* clear: the blocks are deallocated and init() resets everything; a copy  *)
(* of another triangulation may follow.                                    *)
Clear ==
  /\ Quiescent
  /\ toCopy = {}
  /\ capacity' = 0
  /\ blockSize' = FirstBlock
  /\ clock' = 0
  /\ type' = [s \in Slots |-> "none"]
  /\ counter' = [s \in Slots |-> 0]
  /\ stamp' = [s \in Slots |-> Unset]
  /\ free' = [t \in Threads |-> <<>>]
  /\ size' = [t \in Threads |-> 0]
  /\ live' = {}
  /\ toCopy' \in {{}, Foreign}
  /\ lives' = [s \in Slots |-> 0]
  /\ handles' = {}
  /\ UNCHANGED <<fresh, control>>

(* make_cc_safe_handle of an element that is not being erased. *)
MakeHandle ==
  /\ Cardinality(handles) < MaxHandles
  /\ \E s \in live :
       handles' = handles \cup {[slot |-> s, value |-> counter[s], life |-> lives[s]]}
  /\ UNCHANGED <<blocks, clock, memory, lists, control, live, toCopy, lives>>

-----------------------------------------------------------------------------
Insertion(t) ==
  \/ NewBlock(t) \/ MarkFree(t) \/ Pop(t) \/ Construct(t) \/ RestoreCounter(t)
  \/ DrawStamp(t) \/ KeepStamp(t) \/ ClockIsAhead(t) \/ ClockIsBehind(t)
  \/ RaiseClock(t) \/ RaiseFails(t)

Erasure(t) == Erase(t) \/ PutBack(t)

Next ==
  \/ \E t \in Threads : Insertion(t) \/ Erasure(t)
  \/ Clear
  \/ MakeHandle

Spec == Init /\ [][Next]_vars

-----------------------------------------------------------------------------
(***************************************************************************)
(* Properties.                                                             *)
(***************************************************************************)
Listed(t) == Range(free[t])

InHand(t) == IF pc[t] \in HandLabels THEN {slot[t]} ELSE {}

(* The slots that only t knows of. *)
Owned(t) == Listed(t) \cup Range(fresh[t]) \cup InHand(t)

(* Whichever threads insert and erase, and whichever list a slot returns   *)
(* to, every slot of the blocks is in one place: it holds an element, or   *)
(* one thread owns it, on its list, in its new block or in its hand.       *)
SlotsInOnePlace ==
  /\ \A t \in Threads :
       /\ IsInjective(free[t])
       /\ InHand(t) \cap Listed(t) = {}
       /\ Owned(t) \cap live = {}
       /\ \A u \in Threads \ {t} : Owned(t) \cap Owned(u) = {}
  /\ 1..capacity = live \cup UNION {Owned(t) : t \in Threads}

(* size(): the capacity minus the sizes of the free lists. *)
Size == capacity - FoldFunction(LAMBDA x, y : x + y, 0, size)

(* What begin()..end() visits: the slots whose bits say USED. *)
Visited == {s \in 1..capacity : type[s] = "used"}

(* Between parallel phases iteration visits the elements that were         *)
(* inserted and not erased, and nothing else.                              *)
IterationIsExact == Quiescent => Visited = live

(* Between parallel phases iteration is exact and size() counts the        *)
(* elements, although no counter of elements is kept.                      *)
ContentIsExact == IterationIsExact /\ (Quiescent => Size = Cardinality(live))

(* Time_stamper::less asserts that two elements have the same stamp only   *)
(* when they are the same: also when slots are recycled by other threads   *)
(* and when a copied triangulation brought its own stamps.                 *)
StampsAreUnique ==
  \A s, r \in live : stamp[s] # Unset /\ (s # r => stamp[s] # stamp[r])

(* is_zombie() *)
IsZombie(h) == counter[h.slot] # h.value

(* Between construction and set_erase_counter the counter is not the one   *)
(* of the slot.                                                            *)
Unsettled(s) == \E t \in Threads : pc[t] = "restore" /\ slot[t] = s

(* The erase counter survives recycling: outside that window a safe handle *)
(* is a zombie if and only if its element was erased since.                *)
SettledHandlesAreExact ==
  \A h \in handles :
    ~Unsettled(h.slot) => (IsZombie(h) <=> lives[h.slot] # h.life)

(* CC_safe_handle: "The is_zombie() function allows to know if the pointee *)
(* was erased since" the handle was made.                                  *)
HandlesAreExact ==
  \A h \in handles : IsZombie(h) <=> lives[h.slot] # h.life

(***************************************************************************)
(* The container implements ElementPool.                                   *)
(***************************************************************************)
Pool == INSTANCE ElementPool WITH elements <- [s \in live |-> stamp[s]]

(* Every insertion hands out a place and a stamp that no element has, and  *)
(* nothing else ever moves, removes or restamps an element.                *)
ImplementsPool == Pool!Spec
===============================================================================
