--------------------------- MODULE CompactContainer ---------------------------
(***************************************************************************)
(* Compact_container, the sequential container under every triangulation   *)
(* and combinatorial map: blocks of growing size in a chain that iteration *)
(* follows, one free list through the slots that hold no element, counters *)
(* kept next to them, and a clock that stamps the elements.                *)
(*                                                                         *)
(* Several containers share one heap of slots, because blocks move between *)
(* containers by merge, swap and moves.  The code is sequential: a call is *)
(* one step.                                                               *)
(***************************************************************************)
EXTENDS Naturals, Sequences, FiniteSets, SequencesExt

CONSTANTS
  Containers,   \* the containers of the program
  FirstBlock,   \* CGAL_INIT_COMPACT_CONTAINER_BLOCK_SIZE
  Growth,       \* CGAL_INCREMENT_COMPACT_CONTAINER_BLOCK_SIZE
  Unset,        \* the time stamp size_t(-1)
  Garbage,      \* what the stamp of memory never written to may read as
  MaxSlots,     \* bound: the slots of the heap
  MaxCalls      \* bound: the calls made to all the containers

ASSUME ConstantsAssumption ==
  /\ FirstBlock \in Nat \ {0}
  /\ Growth \in Nat \ {0} /\ Growth % 2 = 0 /\ Growth <= 2 * FirstBlock
  /\ Unset \notin Nat
  /\ Garbage \subseteq Nat \cup {Unset}
  /\ MaxSlots \in Nat
  /\ MaxCalls \in Nat

Slots == 1..MaxSlots

VARIABLES
  heap,   \* heap[s]: the type bits and the time stamp of a slot
  cont,   \* cont[b]: the members of container b
  past,   \* past[b]: what happened to b (nobody reads it)
  calls   \* how many calls were made (nobody reads it)

vars == <<heap, cont, past, calls>>

Slot == [type : {"none", "free", "used"}, stamp : Nat \cup {Unset}]

Members ==
  [blocks : Seq(Seq(Slots)), free : Seq(Slots), size : Nat, capacity : Nat,
   blockSize : Nat \ {0}, clock : Nat]

Past == [order : Seq(Slots), plain : BOOLEAN, copies : BOOLEAN, joined : BOOLEAN,
         regular : BOOLEAN]

TypeOK ==
  /\ heap \in [Slots -> Slot]
  /\ cont \in [Containers -> Members]
  /\ past \in [Containers -> Past]
  /\ calls \in 0..MaxCalls
  /\ \A b \in Containers : cont[b].capacity <= MaxSlots

-----------------------------------------------------------------------------
(***************************************************************************)
(* Helpers.                                                                *)
(***************************************************************************)
(* init(): the members of an empty container. *)
Fresh ==
  [blocks |-> <<>>, free |-> <<>>, size |-> 0, capacity |-> 0,
   blockSize |-> FirstBlock, clock |-> 0]

(* order: the elements as they arrived; plain: nothing was erased, merged  *)
(* or reserved; copies: it took copies of single elements or of a range;   *)
(* joined: it was merged into or reserved; regular: its blocks come from   *)
(* its own growth.                                                         *)
NoPast ==
  [order |-> <<>>, plain |-> TRUE, copies |-> FALSE, joined |-> FALSE, regular |-> TRUE]

Maximum(m, n) == IF m < n THEN n ELSE m

SlotsOf(c) == ToSet(FlattenSeq(c.blocks))

Unused == {s \in Slots : heap[s].type = "none"}

(* The capacity that k more blocks bring. *)
Capacity(c, k) == k * c.blockSize + Growth * ((k * (k - 1)) \div 2)

(* The numbers of S in increasing order. *)
InOrder(S) ==
  [k \in 1..Cardinality(S) |-> CHOOSE i \in S : Cardinality({j \in S : j < i}) = k - 1]

(* The k next blocks: the allocator's memory is taken in address order. *)
NewBlocks(c, k) ==
  LET memory == InOrder(Unused)
  IN  [i \in 1..k |->
         SubSeq(memory, Capacity(c, i - 1) + 1, Capacity(c, i))]

(* The least number of blocks with room for n more elements. *)
BlocksFor(c, n) ==
  CHOOSE k \in 0..n : Capacity(c, k) >= n /\ (k > 0 => Capacity(c, k - 1) < n)

(* Mutant of Threaded: put_on_free_list works forwards. *)
ThreadedForwards(blocks) == Reverse(FlattenSeq(blocks))

(* The free list of new blocks: put_on_free_list works backwards through   *)
(* them, so that their first slot is its head.                             *)
Threaded(blocks) == FlattenSeq(blocks)

(* k blocks join the end of the chain, and their slots the free list. *)
Grown(c, k) ==
  [c EXCEPT !.blocks = @ \o NewBlocks(c, k),
            !.free = Threaded(NewBlocks(c, k)) \o @,
            !.capacity = @ + Capacity(c, k),
            !.blockSize = @ + k * Growth]

(* Iteration follows the chain and stops at the slots that are in use. *)
Iteration(h, c) ==
  LET chain == FlattenSeq(c.blocks)
      places == InOrder({i \in DOMAIN chain : h[chain[i]].type = "used"})
  IN  [k \in DOMAIN places |-> chain[places[k]]]

(* The time stamps of a container in iteration order. *)
Stamps(c) == LET items == Iteration(heap, c) IN [i \in DOMAIN items |-> heap[items[i]].stamp]

-----------------------------------------------------------------------------
(* The blocks that n more elements need: an empty free list grows one. *)
Needed(c, n) == BlocksFor(c, IF n > Len(c.free) THEN n - Len(c.free) ELSE 0)

HasRoom(c, n) == Capacity(c, Needed(c, n)) <= Cardinality(Unused)

(* The slots for n more elements and those left over, in the order in      *)
(* which the free list hands them out; c once its blocks have joined.      *)
Places(c, n) ==
  LET new == Threaded(NewBlocks(c, Needed(c, n)))
  IN  [new |-> new, all |-> c.free \o new, grown |-> Grown(c, Needed(c, n))]

(* Mutant of Filled: the counter of elements is left alone. *)
FilledUncounted(c, stamps) ==
  LET p == Places(c, Len(stamps))
  IN  [p.grown EXCEPT
         !.free = SubSeq(p.all, Len(stamps) + 1, Len(p.all)),
         !.clock = Max({@} \cup {v + 1 : v \in ToSet(stamps)})]

(* Mutant of Filled: the clock is not put above the stamps that came in. *)
FilledBehind(c, stamps) ==
  LET p == Places(c, Len(stamps))
  IN  [p.grown EXCEPT
         !.free = SubSeq(p.all, Len(stamps) + 1, Len(p.all)),
         !.size = @ + Len(stamps),
         !.clock = Max({@} \cup ToSet(stamps))]

(* c after elements with these time stamps came in, one after the other:   *)
(* set_time_stamp keeps the clock above every stamp.                       *)
Filled(c, stamps) ==
  LET p == Places(c, Len(stamps))
  IN  [p.grown EXCEPT
         !.free = SubSeq(p.all, Len(stamps) + 1, Len(p.all)),
         !.size = @ + Len(stamps),
         !.clock = Max({@} \cup {v + 1 : v \in ToSet(stamps)})]

(* The heap after that; `gone' are slots that were deallocated. *)
HeapFilled(c, stamps, gone) ==
  LET p == Places(c, Len(stamps))
      taken == SubSeq(p.all, 1, Len(stamps))
  IN  [s \in Slots |->
         IF s \in ToSet(taken)
         THEN [type |-> "used", stamp |-> stamps[CHOOSE i \in DOMAIN taken : taken[i] = s]]
         ELSE IF s \in ToSet(p.new) THEN [type |-> "free", stamp |-> Unset]
         ELSE IF s \in gone THEN [type |-> "none", stamp |-> Unset]
         ELSE heap[s]]

Taken(c, n) == SubSeq(Places(c, n).all, 1, n)

-----------------------------------------------------------------------------
Init ==
  /\ heap = [s \in Slots |-> [type |-> "none", stamp |-> Unset]]
  /\ cont = [b \in Containers |-> Fresh]
  /\ past = [b \in Containers |-> NoPast]
  /\ calls = 0

(* One or more elements come into b. *)
Arrive(b, stamps, copied) ==
  /\ HasRoom(cont[b], Len(stamps))
  /\ heap' = HeapFilled(cont[b], stamps, {})
  /\ cont' = [cont EXCEPT ![b] = Filled(cont[b], stamps)]
  /\ past' = [past EXCEPT ![b].order = @ \o Taken(cont[b], Len(stamps)),
                          ![b].copies = @ \/ copied]

(* emplace: the slot's own stamp is re-used if it has one. *)
Emplace(b) ==
  LET s == Head(Places(cont[b], 1).all)
  IN  /\ HasRoom(cont[b], 1)
      /\ Arrive(b, <<IF cont[b].free = <<>> \/ heap[s].stamp = Unset
                     THEN cont[b].clock ELSE heap[s].stamp>>, FALSE)

(* insert(t), t an element of some container: the copy brings its stamp. *)
InsertCopy(b) ==
  \E c \in Containers : \E s \in ToSet(Iteration(heap, cont[c])) :
    Arrive(b, <<heap[s].stamp>>, TRUE)

(* insert(first, last) with the whole of another container. *)
InsertRange(b, c) ==
  /\ b # c
  /\ Arrive(b, Stamps(cont[c]), TRUE)

(* Mutant of Erase: the counter of elements goes down twice. *)
EraseCountedTwice(b) ==
  \E s \in ToSet(Iteration(heap, cont[b])) :
    /\ heap' = [heap EXCEPT ![s].type = "free"]
    /\ cont' = [cont EXCEPT ![b].free = <<s>> \o @, ![b].size = @ - 2]
    /\ past' = [past EXCEPT ![b].plain = FALSE, ![b].order = <<>>]

(* Mutant of Erase: the slot joins the free list but stays marked USED. *)
EraseUnmarked(b) ==
  \E s \in ToSet(Iteration(heap, cont[b])) :
    /\ cont' = [cont EXCEPT ![b].free = <<s>> \o @, ![b].size = @ - 1]
    /\ past' = [past EXCEPT ![b].plain = FALSE, ![b].order = <<>>]
    /\ UNCHANGED heap

Erase(b) ==
  \E s \in ToSet(Iteration(heap, cont[b])) :
    /\ heap' = [heap EXCEPT ![s].type = "free"]
    /\ cont' = [cont EXCEPT ![b].free = <<s>> \o @, ![b].size = @ - 1]
    /\ past' = [past EXCEPT ![b].plain = FALSE, ![b].order = <<>>]

Clear(b) ==
  /\ heap' = [s \in Slots |-> IF s \in SlotsOf(cont[b])
                               THEN [type |-> "none", stamp |-> Unset] ELSE heap[s]]
  /\ cont' = [cont EXCEPT ![b] = Fresh]
  /\ past' = [past EXCEPT ![b] = NoPast]

(* reserve(n): unlike allocate_new_block it stamps no slot, so that a slot *)
(* keeps what the memory held.                                             *)
Reserve(b) ==
  \E n \in (cont[b].capacity + 1)..MaxSlots :
    LET k == BlocksFor(cont[b], n - cont[b].capacity)
        new == ToSet(FlattenSeq(NewBlocks(cont[b], k)))
    IN  /\ Capacity(cont[b], k) <= Cardinality(Unused)
        /\ \E g \in Garbage :
             heap' = [s \in Slots |-> IF s \in new THEN [type |-> "free", stamp |-> g]
                                                   ELSE heap[s]]
        /\ cont' = [cont EXCEPT ![b] = Grown(@, k)]
        /\ past' = [past EXCEPT ![b].plain = FALSE, ![b].joined = TRUE, ![b].order = <<>>]

(***************************************************************************)
(* The operations on two containers.                                       *)
(***************************************************************************)
(* Both free lists and both chains are concatenated; the clock is b's. *)
Merged(b, d) ==
  [blocks |-> cont[b].blocks \o cont[d].blocks,
   free |-> cont[b].free \o cont[d].free,
   size |-> cont[b].size + cont[d].size,
   capacity |-> cont[b].capacity + cont[d].capacity,
   blockSize |-> Maximum(cont[b].blockSize, cont[d].blockSize),
   clock |-> cont[b].clock]

Merge(b, d) ==
  /\ b # d
  /\ cont' = [cont EXCEPT ![b] = Merged(b, d), ![d] = Fresh]
  /\ past' = [past EXCEPT ![b] = [order |-> <<>>, plain |-> FALSE,
                                  copies |-> past[b].copies \/ past[d].copies,
                                  joined |-> TRUE, regular |-> FALSE],
                          ![d] = NoPast]
  /\ UNCHANGED heap

Swap(b, d) ==
  /\ b # d
  /\ cont' = [cont EXCEPT ![b] = cont[d], ![d] = cont[b]]
  /\ past' = [past EXCEPT ![b] = past[d], ![d] = past[b]]
  /\ UNCHANGED heap

(* What the copy constructor starts from: empty, but with the block size   *)
(* and the clock of the original.                                          *)
CopyBase(c) == [Fresh EXCEPT !.blockSize = cont[c].blockSize, !.clock = cont[c].clock]

(* A copy of c is constructed and swapped with b; the old content of b is  *)
(* destroyed with the temporary.                                           *)
ReplaceByCopy(b, c) ==
  LET stamps == Stamps(cont[c])
  IN  /\ HasRoom(CopyBase(c), Len(stamps))
      /\ heap' = HeapFilled(CopyBase(c), stamps, SlotsOf(cont[b]))
      /\ cont' = [cont EXCEPT ![b] = Filled(CopyBase(c), stamps)]
      /\ past' = [past EXCEPT ![b] = [past[c] EXCEPT
                                         !.order = Taken(CopyBase(c), Len(stamps)),
                                         !.plain = TRUE, !.regular = FALSE]]

(* operator=(c) *)
CopyAssign(b, c) == b # c /\ ReplaceByCopy(b, c)

(* The friend swap(b, c) takes c by value: b swaps with a copy of c, and c *)
(* keeps what it had.                                                      *)
FriendSwap(b, c) == ReplaceByCopy(b, c)

(* operator=(std::move(c)): b gets the members of c, c those of an empty   *)
(* container, and the old content of b is destroyed.                       *)
MoveAssign(b, c) ==
  /\ b # c
  /\ heap' = [s \in Slots |-> IF s \in SlotsOf(cont[b])
                               THEN [type |-> "none", stamp |-> Unset] ELSE heap[s]]
  /\ cont' = [cont EXCEPT ![b] = cont[c], ![c] = Fresh]
  /\ past' = [past EXCEPT ![b] = past[c], ![c] = NoPast]

(* The call that comes next. *)
Call ==
  \/ \E b \in Containers : Emplace(b) \/ InsertCopy(b) \/ Erase(b) \/ Clear(b) \/ Reserve(b)
  \/ \E b, c \in Containers :
       \/ InsertRange(b, c) \/ Merge(b, c) \/ Swap(b, c)
       \/ CopyAssign(b, c) \/ FriendSwap(b, c) \/ MoveAssign(b, c)

Next ==
  /\ calls < MaxCalls
  /\ calls' = calls + 1
  /\ Call

Spec == Init /\ [][Next]_vars

-----------------------------------------------------------------------------
(***************************************************************************)
(* The subscript: operator[](i) computes the block and the place in it     *)
(* from i by the growth policy; index(it) walks the blocks.                *)
(***************************************************************************)
(* static_cast<size_type>(std::sqrt(n)) *)
Root(n) == CHOOSE r \in 0..n : r * r <= n /\ n < (r + 1) * (r + 1)

(* Mutant of BlockOf: the first block is taken to be as long as a step. *)
BlockOfUnshifted(i) == Root(8 * Growth * i) \div (2 * Growth)

BlockOf(i) ==
  LET offset == 2 * FirstBlock - Growth
  IN  (Root(offset * offset + 8 * Growth * i) - offset) \div (2 * Growth)

(* get_index_and_block of Addition_size_policy: <<block, index>>. *)
IndexAndBlock(i) ==
  LET k == BlockOf(i)
  IN  IF k = 0 THEN <<1, i + 1>>
      ELSE <<k + 1, i - k * (FirstBlock + (Growth * (k - 1)) \div 2) + 1>>

(* index(it): the slots of the blocks before it. *)
IndexOf(c, s) == (CHOOSE i \in DOMAIN FlattenSeq(c.blocks) : FlattenSeq(c.blocks)[i] = s) - 1

(* operator[](index(it)) is *it. *)
Subscripts(c, s) ==
  LET p == IndexAndBlock(IndexOf(c, s))
  IN  /\ p[1] \in DOMAIN c.blocks
      /\ p[2] \in DOMAIN c.blocks[p[1]]
      /\ c.blocks[p[1]][p[2]] = s

-----------------------------------------------------------------------------
(***************************************************************************)
(* Properties.                                                             *)
(***************************************************************************)
(* However blocks change hands, the heap is divided among the containers:  *)
(* every slot of a block is in that block only, and is in use or, once, on *)
(* the free list of the block's own container.                             *)
SlotsInOnePlace ==
  /\ \A b \in Containers :
       LET slots == FlattenSeq(cont[b].blocks)
       IN  /\ IsInjective(slots) /\ IsInjective(cont[b].free)
           /\ ToSet(cont[b].free) = {s \in ToSet(slots) : heap[s].type = "free"}
           /\ \A s \in ToSet(slots) : heap[s].type # "none"
  /\ \A b, c \in Containers : b # c => SlotsOf(cont[b]) \cap SlotsOf(cont[c]) = {}
  /\ \A s \in Slots \ Unused : \E b \in Containers : s \in SlotsOf(cont[b])

(* size() asserts that the counter is the distance from begin to end; and  *)
(* the capacity is that of the blocks.                                     *)
CountersAreExact ==
  \A b \in Containers :
    /\ cont[b].size = Len(Iteration(heap, cont[b]))
    /\ cont[b].capacity = Cardinality(SlotsOf(cont[b]))

(* The slots are marked free in reverse order "so that the insertion order *)
(* will correspond to the iterator order", and copies preserve the order:  *)
(* true as long as nothing was erased, merged or reserved.                 *)
InsertionOrder ==
  \A b \in Containers : past[b].plain => Iteration(heap, cont[b]) = past[b].order

DifferentStamps(b) ==
  \A s, r \in ToSet(Iteration(heap, cont[b])) : s # r => heap[s].stamp # heap[r].stamp

(* The elements a container made itself, and those of a copied, moved or   *)
(* swapped container, have different stamps, also in recycled slots.       *)
OwnStampsAreUnique ==
  \A b \in Containers : ~past[b].copies /\ ~past[b].joined => DifferentStamps(b)

(* A container that only grew by itself finds by operator[](index(it)) the *)
(* element it points to: the square root of the policy inverts the sum of  *)
(* the block sizes, also at the first and the last slot of a block.        *)
OwnBlocksAreIndexed ==
  \A b \in Containers : past[b].regular =>
    \A s \in ToSet(Iteration(heap, cont[b])) : Subscripts(cont[b], s)

(* "Returns the index of the iterator cit, i.e. the number n so that       *)
(* operator[](n)==*cit", for every container.                              *)
IndexIsTheSubscript ==
  \A b \in Containers : \A s \in ToSet(Iteration(heap, cont[b])) : Subscripts(cont[b], s)

(* Time_stamper::less asserts that two elements have the same stamp only   *)
(* if they are the same, of every two elements it compares; here those of  *)
(* a container that took no copy of a single element.  merge breaks it,    *)
(* and so does reserve in a container that was never merged.               *)
StampsAreUnique == \A b \in Containers : ~past[b].copies => DifferentStamps(b)
===============================================================================
