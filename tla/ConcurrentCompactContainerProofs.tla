------------------- MODULE ConcurrentCompactContainerProofs -------------------
(***************************************************************************)
(* The concurrent compact container, for any number of threads, any block  *)
(* sizes and both builds of the erase counter.  The inductive invariant    *)
(* says where a thread is in its call (CallInv), that a slot is in one     *)
(* place (SlotsInOnePlace), what the bits and the list sizes are           *)
(* meanwhile (BitsInv, SizeInv), what the erase counters are (CounterInv,  *)
(* HandleInv), and that the clock is ahead of every stamp, except of the   *)
(* one that is being copied (CopyInv, StampInv).                           *)
(***************************************************************************)
EXTENDS ConcurrentCompactContainer, DataLemmas, SequenceTheorems, TLAPS

(* The labels of an insertion whose element is constructed. *)
BuiltLabels == {"restore", "finish", "test", "raise"}

(* What t has in its hands at each point of its call. *)
CallInv(t) ==
  /\ pc[t] # "mark" => fresh[t] = <<>>
  /\ pc[t] = "mark" => free[t] = <<>>
  /\ IsInjective(fresh[t])
  /\ pc[t] \in {"test", "raise"} => stamp[slot[t]] # Unset /\ prev[t] <= clock
  /\ pc[t] = "raise" => prev[t] < NextStamp(t)
  /\ pc[t] \notin BuiltLabels \cup {"construct"} => source[t] = Unset

(* t holds the element in slot s, built or not yet torn down. *)
Builds(t, s) == slot[t] = s /\ pc[t] \in BuiltLabels \cup {"erasing"}

(* The bits say USED exactly for the elements and those in some hand. *)
BitsInv ==
  \A s \in Slots : type[s] = "used" <=> s \in live \/ \E t \in Threads : Builds(t, s)

(* m_size is the length of the list, and one more between init_insert and  *)
(* finalize_insert.                                                        *)
SizeInv(t) ==
  size[t] = Len(free[t]) + IF pc[t] \in {"construct", "restore", "finish"} THEN 1 ELSE 0

(* Outside the window of its reconstruction, a counter counts erasures. *)
CounterInv ==
  /\ \A s \in Slots : ~Unsettled(s) => counter[s] = lives[s]
  /\ \A t \in Threads : pc[t] \in {"construct", "restore"} => saved[t] = lives[slot[t]]
  /\ \A s \in Slots : s > capacity => lives[s] = 0
  /\ \A t \in Threads : \A s \in Range(fresh[t]) : lives[s] = 0

HandleInv == \A h \in handles : h.value = h.life

(* While a triangulation is copied, one thread works alone, and the stamps *)
(* in the container are the copied ones.                                   *)
CopyInv ==
  /\ Copying => \A t, u \in Threads : pc[t] # "idle" /\ pc[u] # "idle" => t = u
  /\ toCopy # {} => \A t \in Threads : pc[t] \in HandLabels => source[t] # Unset
  /\ Copying => \A s \in Slots : stamp[s] # Unset => stamp[s] \in Foreign \ toCopy
  /\ \A t \in Threads : source[t] # Unset =>
       /\ source[t] \in Foreign \ toCopy
       /\ pc[t] = "construct" => \A s \in Slots : stamp[s] # source[t]
       /\ pc[t] # "construct" => stamp[slot[t]] = source[t]

(* s is getting the stamp of a copied element. *)
Copied(s) == \E t \in Threads : slot[t] = s /\ source[t] # Unset

StampInv ==
  /\ \A s, r \in Slots : stamp[s] # Unset /\ s # r => stamp[s] # stamp[r]
  /\ \A s \in Slots : stamp[s] # Unset /\ ~Copied(s) => stamp[s] < clock
  /\ \A s \in live : stamp[s] # Unset

Inv ==
  /\ TypeOK
  /\ \A t \in Threads : CallInv(t) /\ SizeInv(t)
  /\ SlotsInOnePlace
  /\ BitsInv
  /\ CounterInv
  /\ HandleInv
  /\ CopyInv
  /\ StampInv

-----------------------------------------------------------------------------
(***************************************************************************)
(* Sequences without repetition, as free lists are.                        *)
(***************************************************************************)
(* The first slot is not on the rest of the list. *)
LEMMA TailOfList ==
  ASSUME NEW S, NEW f \in Seq(S), f # <<>>, IsInjective(f)
  PROVE  /\ Head(f) \in S
         /\ Tail(f) \in Seq(S)
         /\ Len(f) = Len(Tail(f)) + 1
         /\ IsInjective(Tail(f))
         /\ Range(f) = {Head(f)} \cup Range(Tail(f))
         /\ Head(f) \notin Range(Tail(f))
<1> DEFINE g == Tail(f)
<1>1. /\ Len(f) \in Nat \ {0}
      /\ DOMAIN f = 1..Len(f)
      /\ Head(f) = f[1]
  BY LenProperties, EmptySeq
<1>2. /\ Head(f) \in S
      /\ g \in Seq(S)
      /\ Len(g) = Len(f) - 1
      /\ \A i \in 1..Len(g) : g[i] = f[i + 1]
  BY HeadTailProperties
<1>3. DOMAIN g = 1..Len(g)
  BY <1>2, LenProperties
<1> HIDE DEF g
<1>4. \A i \in DOMAIN g : i + 1 \in DOMAIN f /\ i + 1 # 1 /\ g[i] = f[i + 1]
  BY <1>1, <1>2, <1>3
<1>5. \A j \in DOMAIN f : j # 1 => j - 1 \in DOMAIN g /\ g[j - 1] = f[j]
  BY <1>1, <1>2, <1>3
<1>6. IsInjective(g)
  BY <1>3, <1>4 DEF IsInjective
<1>7. Range(f) = {Head(f)} \cup Range(g)
  BY <1>1, <1>4, <1>5 DEF Range
<1>8. Head(f) \notin Range(g)
  BY <1>1, <1>4 DEF Range, IsInjective
<1> QED
  BY <1>1, <1>2, <1>6, <1>7, <1>8 DEF g

(* A slot put in front of a list it is not on. *)
LEMMA FrontOfList ==
  ASSUME NEW S, NEW f \in Seq(S), IsInjective(f), NEW x \in S, x \notin Range(f)
  PROVE  /\ <<x>> \o f \in Seq(S)
         /\ Len(<<x>> \o f) = Len(f) + 1
         /\ IsInjective(<<x>> \o f)
         /\ Range(<<x>> \o f) = {x} \cup Range(f)
<1> DEFINE g == <<x>> \o f
<1>1. <<x>> \in Seq(S) /\ Len(<<x>>) = 1 /\ <<x>>[1] = x
  OBVIOUS
<1>2. /\ g \in Seq(S)
      /\ Len(g) = Len(f) + 1
      /\ \A i \in 1..(Len(f) + 1) : g[i] = IF i <= 1 THEN x ELSE f[i - 1]
  BY <1>1, ConcatProperties, LenProperties
<1>3. DOMAIN f = 1..Len(f) /\ DOMAIN g = 1..Len(g) /\ Len(f) \in Nat
  BY <1>2, LenProperties
<1> HIDE DEF g
<1>4. 1 \in DOMAIN g /\ g[1] = x
  BY <1>2, <1>3
<1>5. \A i \in DOMAIN f : i + 1 \in DOMAIN g /\ g[i + 1] = f[i]
  BY <1>2, <1>3
<1>6. \A j \in DOMAIN g : j # 1 => j - 1 \in DOMAIN f /\ g[j] = f[j - 1]
  BY <1>2, <1>3
<1>7. IsInjective(g)
  BY <1>3, <1>4, <1>6 DEF IsInjective, Range
<1>8. Range(g) = {x} \cup Range(f)
  BY <1>3, <1>4, <1>5, <1>6 DEF Range
<1> QED
  BY <1>2, <1>7, <1>8 DEF g

(* A run of n slots, the slots of a new block. *)
LEMMA RunOfSlots ==
  ASSUME NEW m \in Nat, NEW n \in Nat
  PROVE  LET run == [i \in 1..n |-> m + i]
         IN  /\ run \in Seq(1..(m + n))
             /\ Len(run) = n
             /\ IsInjective(run)
             /\ Range(run) = (m + 1)..(m + n)
<1> DEFINE run == [i \in 1..n |-> m + i]
<1>1. \A i \in 1..n : m + i \in 1..(m + n)
  OBVIOUS
<1>2. run \in Seq(1..(m + n)) /\ Len(run) = n
  BY <1>1
<1>3. IsInjective(run)
  BY DEF IsInjective
<1>4. \A j \in (m + 1)..(m + n) : j - m \in 1..n /\ m + (j - m) = j
  OBVIOUS
<1>5. Range(run) = (m + 1)..(m + n)
  BY <1>4 DEF Range
<1> QED
  BY <1>2, <1>3, <1>5

-----------------------------------------------------------------------------
(* The initial state satisfies the invariant. *)
LEMMA InitInv == Init => Inv
<1> SUFFICES ASSUME Init PROVE Inv
  OBVIOUS
<1> USE ConstantsAssumption
<1>1. TypeOK
  BY EmptySeq DEF Init, TypeOK, BlocksOK, MemoryOK, ListsOK, ControlOK, ClientsOK, Labels, Slots
<1>2. \A t \in Threads : CallInv(t) /\ SizeInv(t)
  BY DEF Init, CallInv, SizeInv, IsInjective
<1>3. SlotsInOnePlace
  <2>1. \A t \in Threads : Listed(t) = {} /\ InHand(t) = {} /\ Owned(t) = {}
    BY DEF Init, Listed, InHand, Owned, HandLabels, Range
  <2>2. UNION {Owned(t) : t \in Threads} = {}
    BY <2>1
  <2> QED
    BY <2>1, <2>2 DEF Init, SlotsInOnePlace, IsInjective
<1>4. BitsInv /\ HandleInv
  BY DEF Init, BitsInv, Builds, BuiltLabels, HandleInv
<1>5. CounterInv
  BY DEF Init, CounterInv, Range
<1>6. CopyInv /\ StampInv
  BY DEF Init, CopyInv, StampInv, HandLabels
<1> QED
  BY <1>1, <1>2, <1>3, <1>4, <1>5, <1>6 DEF Inv

(* The elements and the slots on lists are slots of the blocks; only the   *)
(* slots in a hand can be unsettled.                                       *)
LEMMA Places ==
  ASSUME Inv
  PROVE  /\ 1..capacity \subseteq Slots
         /\ \A t \in Threads : Owned(t) \subseteq 1..capacity
         /\ \A s \in live : ~Unsettled(s)
         /\ \A t \in Threads : \A s \in Listed(t) : ~Unsettled(s)
         /\ \A t \in Threads : pc[t] \in HandLabels => slot[t] \in 1..capacity
         /\ \A t, u \in Threads :
              pc[t] \in HandLabels /\ pc[u] \in HandLabels /\ slot[t] = slot[u] => t = u
<1> USE DEF Inv
<1>1. 1..capacity \subseteq Slots
  BY ConstantsAssumption DEF TypeOK, BlocksOK, Slots
<1>2. \A t \in Threads : Owned(t) \subseteq 1..capacity
  BY DEF SlotsInOnePlace
<1>3. \A t \in Threads : pc[t] \in HandLabels => slot[t] \in InHand(t)
  BY DEF InHand
<1>4. \A t \in Threads : InHand(t) \subseteq Owned(t) /\ Listed(t) \subseteq Owned(t)
  BY DEF Owned
<1>5. \A s \in live : ~Unsettled(s)
  BY <1>3, <1>4 DEF Unsettled, SlotsInOnePlace, HandLabels
<1>6. \A t \in Threads : \A s \in Listed(t) : ~Unsettled(s)
  <2> SUFFICES ASSUME NEW t \in Threads, NEW s \in Listed(t), NEW u \in Threads,
                      pc[u] = "restore", slot[u] = s
               PROVE  FALSE
    BY DEF Unsettled
  <2>1. s \in InHand(u)
    BY <1>3 DEF HandLabels
  <2> QED
    BY <1>4, <2>1 DEF SlotsInOnePlace
<1>7. \A t, u \in Threads :
        pc[t] \in HandLabels /\ pc[u] \in HandLabels /\ slot[t] = slot[u] => t = u
  BY <1>3, <1>4 DEF SlotsInOnePlace
<1>8. \A t \in Threads : pc[t] \in HandLabels => slot[t] \in 1..capacity
  BY <1>2, <1>3, <1>4
<1> QED
  BY <1>1, <1>2, <1>5, <1>6, <1>7, <1>8

(* Below the bound no erase counter wraps. *)
LEMMA CountedErasure ==
  ASSUME Inv, NEW s \in live, lives[s] < MaxErasures
  PROVE  counter[s] = lives[s] /\ (counter[s] + 1) % CounterRange = lives[s] + 1
<1>1. s \in Slots /\ ~Unsettled(s) /\ lives[s] \in Nat
  BY Places, ConstantsAssumption DEF Inv, TypeOK, ClientsOK
<1>2. counter[s] = lives[s]
  BY <1>1 DEF Inv, CounterInv
<1>3. \A m, n \in Nat : m < n => m % n = m
  OBVIOUS
<1>4. lives[s] + 1 \in Nat /\ lives[s] + 1 < CounterRange
  BY <1>1, ConstantsAssumption
<1>5. (lives[s] + 1) % CounterRange = lives[s] + 1
  BY <1>3, <1>4, ConstantsAssumption
<1> QED
  BY <1>2, <1>5

(***************************************************************************)
(* Type correctness is preserved, one group of variables at a time.        *)
(***************************************************************************)
(* The blocks grow by whole blocks, up to the bound; the clock counts. *)
LEMMA BlocksStep ==
  ASSUME Inv, NEW t \in Threads, Insertion(t) \/ Erasure(t)
  PROVE  BlocksOK' /\ capacity <= capacity'
<1> USE ConstantsAssumption DEF blocks
<1>0. BlocksOK /\ MemoryOK
  BY DEF Inv, TypeOK
<1>1. CASE NewBlock(t)
  <2>1. /\ capacity' = capacity + blockSize
        /\ capacity' \in 0..MaxCapacity
        /\ blockSize' \in Nat \ {0}
        /\ clock' = clock
        /\ 1..capacity \subseteq 1..capacity'
    BY <1>0, <1>1 DEF NewBlock, BlocksOK
  <2>2. \A u \in Threads : fresh[u] \in Seq(1..capacity')
    BY <1>0, <2>1, SeqMonotonic DEF BlocksOK
  <2>3. [i \in 1..blockSize |-> capacity + i] \in Seq(1..capacity')
    BY <1>0, <2>1, RunOfSlots DEF BlocksOK
  <2>4. fresh' \in [Threads -> Seq(1..capacity')]
    BY <1>0, <1>1, <2>2, <2>3 DEF NewBlock, BlocksOK
  <2> QED
    BY <1>0, <2>1, <2>4 DEF BlocksOK
<1>2. CASE MarkFree(t)
  BY <1>0, <1>2, EmptySeq DEF MarkFree, BlocksOK
<1>3. CASE DrawStamp(t)
  BY <1>0, <1>3 DEF DrawStamp, BlocksOK
<1>4. CASE RaiseClock(t)
  <2>1. stamp[slot[t]] \in Nat
    BY <1>0, <1>4, Places DEF Inv, RaiseClock, CallInv, HandLabels, MemoryOK
  <2> QED
    BY <1>0, <1>4, <2>1 DEF RaiseClock, NextStamp, BlocksOK
<1>5. CASE UNCHANGED <<blocks, clock>>
  BY <1>0, <1>5 DEF BlocksOK
<1> QED
  BY <1>1, <1>2, <1>3, <1>4, <1>5 DEF Insertion, Erasure, Pop, Construct, RestoreCounter,
     KeepStamp, ClockIsAhead, ClockIsBehind, RaiseFails, Erase, PutBack

(* The bits, counters and stamps are written to slots of the blocks. *)
LEMMA MemoryStep ==
  ASSUME Inv, NEW t \in Threads, Insertion(t) \/ Erasure(t)
  PROVE  MemoryOK'
<1> USE ConstantsAssumption DEF memory
<1>0. /\ MemoryOK /\ BlocksOK /\ ControlOK
      /\ pc[t] \in HandLabels => slot[t] \in Slots
  BY Places DEF Inv, TypeOK
<1>1. CASE MarkFree(t)
  BY <1>0, <1>1 DEF MarkFree, MemoryOK
<1>2. CASE Construct(t)
  <2>1. slot[t] \in Slots /\ source[t] \in Nat \cup {Unset}
    BY <1>0, <1>2 DEF Construct, ControlOK, HandLabels
  <2> QED
    BY <1>2, <2>1, <1>0 DEF Construct, MemoryOK
<1>3. CASE RestoreCounter(t)
  BY <1>0, <1>3 DEF RestoreCounter, MemoryOK, ControlOK, HandLabels
<1>4. CASE DrawStamp(t)
  BY <1>0, <1>4 DEF DrawStamp, MemoryOK, BlocksOK, HandLabels
<1>5. CASE Erase(t)
  <2>1. PICK s \in live :
          /\ lives[s] < MaxErasures
          /\ counter' = [counter EXCEPT ![s] = (@ + 1) % CounterRange]
    BY <1>5 DEF Erase
  <2>2. (counter[s] + 1) % CounterRange = lives[s] + 1
    BY <2>1, CountedErasure
  <2>3. s \in Slots /\ lives[s] + 1 \in 0..MaxErasures
    BY <2>1, Places DEF Inv, TypeOK, ClientsOK
  <2>4. counter' = [counter EXCEPT ![s] = lives[s] + 1]
    BY <1>0, <2>1, <2>2, <2>3 DEF MemoryOK
  <2> QED
    BY <1>0, <1>5, <2>3, <2>4 DEF Erase, MemoryOK
<1>6. CASE PutBack(t)
  BY <1>0, <1>6 DEF PutBack, MemoryOK, HandLabels
<1>7. CASE UNCHANGED memory
  BY <1>0, <1>7 DEF MemoryOK
<1> QED
  BY <1>1, <1>2, <1>3, <1>4, <1>5, <1>6, <1>7 DEF Insertion, Erasure, NewBlock, Pop,
     KeepStamp, ClockIsAhead, ClockIsBehind, RaiseClock, RaiseFails

(* The free lists hold slots, and their sizes do not fall below zero. *)
LEMMA ListsStep ==
  ASSUME Inv, NEW t \in Threads, Insertion(t) \/ Erasure(t)
  PROVE  ListsOK'
<1> USE DEF lists, blocks
<1>0. /\ ListsOK /\ BlocksOK /\ SizeInv(t)
      /\ pc[t] \in HandLabels => slot[t] \in 1..capacity
  BY Places DEF Inv, TypeOK
<1>1. CASE NewBlock(t)
  <2>1. 1..capacity \subseteq 1..capacity'
    BY <1>0, BlocksStep DEF BlocksOK
  <2>2. \A u \in Threads : free[u] \in Seq(1..capacity')
    BY <1>0, <2>1, SeqMonotonic DEF ListsOK
  <2> QED
    BY <1>0, <1>1, <2>2 DEF NewBlock, ListsOK
<1>2. CASE MarkFree(t)
  <2>1. fresh[t] \o free[t] \in Seq(1..capacity)
    BY <1>0, ConcatProperties DEF ListsOK, BlocksOK
  <2>2. size[t] + Len(fresh[t]) \in Nat
    BY <1>0, LenProperties DEF ListsOK, BlocksOK
  <2> QED
    BY <1>0, <1>2, <2>1, <2>2 DEF MarkFree, ListsOK
<1>3. CASE Pop(t)
  <2>1. Tail(free[t]) \in Seq(1..capacity)
    BY <1>0, <1>3, HeadTailProperties DEF Pop, ListsOK
  <2> QED
    BY <1>0, <1>3, <2>1 DEF Pop, ListsOK
<1>4. CASE DrawStamp(t) \/ KeepStamp(t)
  <2>1. size[t] - 1 \in Nat
    BY <1>0, <1>4, LenProperties DEF DrawStamp, KeepStamp, SizeInv, ListsOK
  <2>2. /\ size' = [size EXCEPT ![t] = @ - 1]
        /\ free' = free /\ capacity' = capacity
    BY <1>4 DEF DrawStamp, KeepStamp
  <2> QED
    BY <1>0, <2>1, <2>2 DEF ListsOK
<1>5. CASE PutBack(t)
  <2>1. <<slot[t]>> \in Seq(1..capacity)
    BY <1>0, <1>5 DEF PutBack, HandLabels
  <2>2. <<slot[t]>> \o free[t] \in Seq(1..capacity)
    BY <1>0, <2>1, ConcatProperties DEF ListsOK
  <2> QED
    BY <1>0, <1>5, <2>2 DEF PutBack, ListsOK
<1>6. CASE UNCHANGED <<lists, capacity>>
  BY <1>0, <1>6 DEF ListsOK
<1> QED
  BY <1>1, <1>2, <1>3, <1>4, <1>5, <1>6 DEF Insertion, Erasure, Construct, RestoreCounter,
     ClockIsAhead, ClockIsBehind, RaiseClock, RaiseFails, Erase

(* The locals of a call. *)
LEMMA ControlStep ==
  ASSUME Inv, NEW t \in Threads, Insertion(t) \/ Erasure(t)
  PROVE  ControlOK'
<1> USE DEF control, Labels
<1>0. /\ ControlOK /\ BlocksOK /\ MemoryOK /\ ListsOK /\ ClientsOK
      /\ 1..capacity \subseteq Slots
  BY Places DEF Inv, TypeOK
<1>1. CASE NewBlock(t) \/ MarkFree(t) \/ Construct(t) \/ RestoreCounter(t) \/ ClockIsBehind(t)
  <2>1. /\ \E l \in Labels : pc' = [pc EXCEPT ![t] = l]
        /\ UNCHANGED <<slot, saved, source, prev>>
    BY <1>1 DEF NewBlock, MarkFree, Construct, RestoreCounter, ClockIsBehind
  <2> QED
    BY <1>0, <2>1 DEF ControlOK
<1>2. CASE Pop(t)
  <2>1. Head(free[t]) \in 1..capacity
    BY <1>0, <1>2, HeadTailProperties DEF Pop, ListsOK
  <2>2. Head(free[t]) \in Nat /\ counter[Head(free[t])] \in 0..MaxErasures
    BY <1>0, <2>1 DEF MemoryOK
  <2>3. source' \in [Threads -> Foreign \cup {Unset}]
    BY <1>0, <1>2 DEF Pop, ControlOK, ClientsOK
  <2> QED
    BY <1>0, <1>2, <2>2, <2>3 DEF Pop, ControlOK
<1>3. CASE KeepStamp(t) \/ RaiseFails(t)
  <2>1. /\ \E l \in Labels : pc' = [pc EXCEPT ![t] = l]
        /\ prev' = [prev EXCEPT ![t] = clock]
        /\ UNCHANGED <<slot, saved, source>>
    BY <1>3 DEF KeepStamp, RaiseFails
  <2> QED
    BY <1>0, <2>1 DEF ControlOK, BlocksOK
<1>4. CASE Erase(t)
  BY <1>0, <1>4 DEF Erase, ControlOK, ClientsOK, BlocksOK
<1>5. CASE ForgetLocals(t)
  BY <1>0, <1>5, ConstantsAssumption DEF ForgetLocals, ControlOK
<1> QED
  BY <1>1, <1>2, <1>3, <1>4, <1>5 DEF Insertion, Erasure, Return, DrawStamp, ClockIsAhead,
     RaiseClock, PutBack

(* What the callers hold. *)
LEMMA ClientsStep ==
  ASSUME Inv, NEW t \in Threads, Insertion(t) \/ Erasure(t)
  PROVE  ClientsOK'
<1> USE DEF clients, blocks
<1>0. /\ ClientsOK /\ BlocksOK
      /\ pc[t] \in HandLabels => slot[t] \in 1..capacity
  BY Places DEF Inv, TypeOK
<1>1. CASE NewBlock(t)
  <2>1. 1..capacity \subseteq 1..capacity'
    BY <1>0, BlocksStep DEF BlocksOK
  <2> QED
    BY <1>0, <1>1, <2>1 DEF NewBlock, ClientsOK
<1>2. CASE Pop(t)
  BY <1>0, <1>2 DEF Pop, ClientsOK
<1>3. CASE DrawStamp(t) \/ ClockIsAhead(t) \/ RaiseClock(t)
  <2>1. /\ slot[t] \in 1..capacity
        /\ live' = live \cup {slot[t]}
        /\ UNCHANGED <<capacity, toCopy, lives, handles>>
    BY <1>0, <1>3 DEF DrawStamp, ClockIsAhead, RaiseClock, Return, HandLabels
  <2> QED
    BY <1>0, <2>1 DEF ClientsOK
<1>4. CASE Erase(t)
  <2>1. PICK s \in live :
          /\ lives[s] < MaxErasures
          /\ lives' = [lives EXCEPT ![s] = @ + 1]
          /\ live' = live \ {s}
    BY <1>4 DEF Erase
  <2>2. s \in Slots /\ lives[s] + 1 \in 0..MaxErasures
    BY <1>0, <2>1, Places, ConstantsAssumption DEF ClientsOK
  <2>3. lives' \in [Slots -> 0..MaxErasures] /\ live' \in SUBSET (1..capacity)
    BY <1>0, <2>1, <2>2 DEF ClientsOK
  <2> QED
    BY <1>0, <1>4, <2>3 DEF Erase, ClientsOK
<1>5. CASE UNCHANGED <<clients, capacity>>
  BY <1>0, <1>5 DEF ClientsOK
<1> QED
  BY <1>1, <1>2, <1>3, <1>4, <1>5 DEF Insertion, Erasure, MarkFree, Construct,
     RestoreCounter, KeepStamp, ClockIsBehind, RaiseFails, PutBack

(* Every variable keeps its type. *)
LEMMA TypeStep ==
  ASSUME Inv, NEW t \in Threads, Insertion(t) \/ Erasure(t)
  PROVE  TypeOK'
  BY BlocksStep, MemoryStep, ListsStep, ControlStep, ClientsStep DEF TypeOK

-----------------------------------------------------------------------------
(* A step of one thread leaves the locals of the others alone. *)
LEMMA OthersUnchanged ==
  ASSUME Inv, NEW t \in Threads, Insertion(t) \/ Erasure(t), NEW u \in Threads, u # t
  PROVE  /\ free'[u] = free[u] /\ size'[u] = size[u] /\ pc'[u] = pc[u]
         /\ fresh'[u] = fresh[u] /\ slot'[u] = slot[u] /\ saved'[u] = saved[u]
         /\ source'[u] = source[u] /\ prev'[u] = prev[u]
<1> USE DEF Inv, TypeOK, BlocksOK, ListsOK, ControlOK, blocks, lists, control
<1>1. CASE NewBlock(t) \/ MarkFree(t)
  BY <1>1 DEF NewBlock, MarkFree
<1>2. CASE Pop(t)
  BY <1>2 DEF Pop
<1>3. CASE Construct(t) \/ RestoreCounter(t) \/ KeepStamp(t) \/ ClockIsBehind(t) \/ RaiseFails(t)
  BY <1>3 DEF Construct, RestoreCounter, KeepStamp, ClockIsBehind, RaiseFails
<1>4. CASE DrawStamp(t) \/ ClockIsAhead(t) \/ RaiseClock(t) \/ PutBack(t)
  BY <1>4 DEF DrawStamp, ClockIsAhead, RaiseClock, PutBack, Return, ForgetLocals
<1>5. CASE Erase(t)
  BY <1>5 DEF Erase
<1> QED
  BY <1>1, <1>2, <1>3, <1>4, <1>5 DEF Insertion, Erasure

(* What a step does to the list, the hand and the block of its thread. *)
LEMMA OwnPlaces ==
  ASSUME Inv, NEW t \in Threads, Insertion(t) \/ Erasure(t)
  PROVE  /\ IsInjective(free'[t])
         /\ InHand(t)' \cap Listed(t)' = {}
<1> USE DEF blocks, lists, control, HandLabels
<1>0. /\ TypeOK /\ CallInv(t) /\ IsInjective(free[t])
      /\ InHand(t) \cap Listed(t) = {} /\ Owned(t) \cap live = {}
  BY DEF Inv, SlotsInOnePlace
<1> USE DEF TypeOK, BlocksOK, ListsOK, ControlOK
<1>1. CASE NewBlock(t)
  BY <1>0, <1>1 DEF NewBlock, InHand
<1>2. CASE MarkFree(t)
  <2>1. free[t] = <<>> /\ fresh[t] \o <<>> = fresh[t]
    BY <1>0, <1>2, ConcatEmptySeq DEF MarkFree, CallInv
  <2> QED
    BY <1>0, <1>2, <2>1 DEF MarkFree, InHand, CallInv
<1>3. CASE Pop(t)
  <2>1. /\ slot' = [slot EXCEPT ![t] = Head(free[t])]
        /\ free' = [free EXCEPT ![t] = Tail(free[t])]
        /\ free[t] # <<>>
    BY <1>3 DEF Pop
  <2>2. IsInjective(Tail(free[t])) /\ Head(free[t]) \notin Range(Tail(free[t]))
    BY <1>0, <2>1, TailOfList
  <2> QED
    BY <1>0, <2>1, <2>2 DEF InHand, Listed
<1>4. CASE Construct(t) \/ RestoreCounter(t) \/ KeepStamp(t) \/ ClockIsBehind(t) \/ RaiseFails(t)
  <2>1. InHand(t)' = InHand(t) /\ free' = free
    BY <1>0, <1>4 DEF Construct, RestoreCounter, KeepStamp, ClockIsBehind, RaiseFails, InHand
  <2> QED
    BY <1>0, <2>1 DEF Listed
<1>5. CASE DrawStamp(t) \/ ClockIsAhead(t) \/ RaiseClock(t)
  <2>1. InHand(t)' = {} /\ free' = free
    BY <1>0, <1>5 DEF DrawStamp, ClockIsAhead, RaiseClock, Return, ForgetLocals, InHand
  <2> QED
    BY <1>0, <2>1
<1>6. CASE Erase(t)
  <2>1. InHand(t)' \subseteq live /\ free' = free
    BY <1>0, <1>6 DEF Erase, InHand
  <2> QED
    BY <1>0, <2>1 DEF Listed, Owned
<1>7. CASE PutBack(t)
  <2>1. slot[t] \in InHand(t) /\ slot[t] \in 1..capacity
    BY <1>7, Places DEF PutBack, InHand
  <2>2. IsInjective(<<slot[t]>> \o free[t])
    BY <1>0, <2>1, FrontOfList DEF Listed
  <2>3. InHand(t)' = {}
    BY <1>0, <1>7 DEF PutBack, ForgetLocals, InHand
  <2> QED
    BY <1>0, <1>7, <2>2, <2>3 DEF PutBack
<1> QED
  BY <1>1, <1>2, <1>3, <1>4, <1>5, <1>6, <1>7 DEF Insertion, Erasure

(* The slots a thread owns change when it allocates a block, when an       *)
(* insertion returns and when an erasure starts; the step moves them to    *)
(* or from the elements.                                                   *)
LEMMA OwnedStep ==
  ASSUME Inv, NEW t \in Threads, Insertion(t) \/ Erasure(t)
  PROVE  \/ /\ Owned(t)' = Owned(t) /\ live' = live /\ capacity' = capacity
         \/ /\ Owned(t)' = Owned(t) \cup ((capacity + 1)..capacity') /\ live' = live
         \/ \E s \in Owned(t) :
              /\ Owned(t)' = Owned(t) \ {s} /\ live' = live \cup {s} /\ capacity' = capacity
         \/ \E s \in live :
              /\ Owned(t)' = Owned(t) \cup {s} /\ live' = live \ {s} /\ capacity' = capacity
<1> USE DEF blocks, lists, control, clients, HandLabels
<1>0. /\ TypeOK /\ CallInv(t) /\ IsInjective(free[t])
      /\ InHand(t) \cap Listed(t) = {}
  BY DEF Inv, SlotsInOnePlace
<1>n. Range(<<>>) = {}
  BY DEF Range
<1> USE DEF TypeOK, BlocksOK, ListsOK, ControlOK
<1>1. CASE NewBlock(t)
  <2>1. fresh'[t] = [i \in 1..blockSize |-> capacity + i] /\ capacity' = capacity + blockSize
    BY <1>0, <1>1 DEF NewBlock
  <2>2. Range(fresh'[t]) = (capacity + 1)..capacity'
    <3>1. capacity \in Nat /\ blockSize \in Nat
      BY <1>0
    <3>2. Range([i \in 1..blockSize |-> capacity + i]) = (capacity + 1)..(capacity + blockSize)
      BY <3>1, RunOfSlots
    <3> QED
      BY <2>1, <3>2
  <2>3. InHand(t) = {} /\ InHand(t)' = {} /\ Listed(t)' = Listed(t) /\ Range(fresh[t]) = {}
    BY <1>0, <1>1, <1>n DEF NewBlock, MayCall, InHand, Listed, CallInv
  <2>4. Owned(t)' = Owned(t) \cup ((capacity + 1)..capacity')
    BY <2>2, <2>3 DEF Owned
  <2> QED
    BY <1>1, <2>4 DEF NewBlock
<1>2. CASE MarkFree(t)
  <2>1. free[t] = <<>> /\ fresh[t] \o <<>> = fresh[t]
    BY <1>0, <1>2, ConcatEmptySeq DEF MarkFree, CallInv
  <2>2. free'[t] = fresh[t] /\ fresh'[t] = <<>>
    BY <1>0, <1>2, <2>1 DEF MarkFree
  <2>3. InHand(t) = {} /\ InHand(t)' = {}
    BY <1>0, <1>2 DEF MarkFree, InHand
  <2>4. Owned(t)' = Owned(t)
    BY <1>n, <2>1, <2>2, <2>3 DEF Owned, Listed
  <2> QED
    BY <1>2, <2>4 DEF MarkFree
<1>3. CASE Pop(t)
  <2>1. /\ free[t] # <<>>
        /\ free'[t] = Tail(free[t])
        /\ fresh'[t] = fresh[t]
        /\ InHand(t) = {} /\ InHand(t)' = {Head(free[t])}
    BY <1>0, <1>3 DEF Pop, MayCall, InHand
  <2>2. Range(free[t]) = {Head(free[t])} \cup Range(Tail(free[t]))
    BY <1>0, <2>1, TailOfList
  <2>3. Owned(t)' = Owned(t)
    BY <2>1, <2>2 DEF Owned, Listed
  <2> QED
    BY <1>3, <2>3 DEF Pop
<1>4. CASE Construct(t) \/ RestoreCounter(t) \/ KeepStamp(t) \/ ClockIsBehind(t) \/ RaiseFails(t)
  <2>1. InHand(t)' = InHand(t) /\ free' = free /\ fresh' = fresh
    BY <1>0, <1>4 DEF Construct, RestoreCounter, KeepStamp, ClockIsBehind, RaiseFails, InHand
  <2>2. Owned(t)' = Owned(t)
    BY <2>1 DEF Owned, Listed
  <2> QED
    BY <1>4, <2>2 DEF Construct, RestoreCounter, KeepStamp, ClockIsBehind, RaiseFails
<1>5. CASE DrawStamp(t) \/ ClockIsAhead(t) \/ RaiseClock(t)
  <2>1. /\ InHand(t) = {slot[t]} /\ InHand(t)' = {}
        /\ free' = free /\ fresh' = fresh
        /\ live' = live \cup {slot[t]} /\ capacity' = capacity
    BY <1>0, <1>5 DEF DrawStamp, ClockIsAhead, RaiseClock, Return, ForgetLocals, InHand
  <2>2. fresh[t] = <<>>
    BY <1>0, <1>5 DEF DrawStamp, ClockIsAhead, RaiseClock, CallInv
  <2>3. slot[t] \in Owned(t) /\ Owned(t)' = Owned(t) \ {slot[t]}
    BY <1>0, <1>n, <2>1, <2>2 DEF Owned, Listed
  <2> QED
    BY <2>1, <2>3
<1>6. CASE Erase(t)
  <2>1. PICK s \in live : slot' = [slot EXCEPT ![t] = s] /\ live' = live \ {s}
    BY <1>6 DEF Erase
  <2>2. /\ InHand(t) = {} /\ InHand(t)' = {s}
        /\ free' = free /\ fresh' = fresh /\ capacity' = capacity
    BY <1>0, <1>6, <2>1 DEF Erase, MayCall, InHand
  <2>3. Owned(t)' = Owned(t) \cup {s}
    BY <2>2 DEF Owned, Listed
  <2> QED
    BY <2>1, <2>2, <2>3
<1>7. CASE PutBack(t)
  <2>1. /\ InHand(t) = {slot[t]} /\ InHand(t)' = {} /\ slot[t] \in 1..capacity
        /\ free'[t] = <<slot[t]>> \o free[t] /\ fresh' = fresh
    BY <1>0, <1>7, Places DEF PutBack, ForgetLocals, InHand
  <2>2. Range(<<slot[t]>> \o free[t]) = {slot[t]} \cup Range(free[t])
    BY <1>0, <2>1, FrontOfList DEF Listed
  <2>3. Owned(t)' = Owned(t)
    BY <2>1, <2>2 DEF Owned, Listed
  <2> QED
    BY <1>7, <2>3 DEF PutBack
<1> QED
  BY <1>1, <1>2, <1>3, <1>4, <1>5, <1>6, <1>7 DEF Insertion, Erasure

(* Every slot is in one place, before and after. *)
LEMMA PlaceStep ==
  ASSUME Inv, NEW t \in Threads, Insertion(t) \/ Erasure(t)
  PROVE  SlotsInOnePlace'
<1>1. \A u \in Threads : u # t => Owned(u)' = Owned(u)
  BY OthersUnchanged DEF Owned, Listed, InHand
<1>2. \A u \in Threads : IsInjective(free'[u]) /\ InHand(u)' \cap Listed(u)' = {}
  <2> SUFFICES ASSUME NEW u \in Threads, u # t
               PROVE  IsInjective(free'[u]) /\ InHand(u)' \cap Listed(u)' = {}
    BY OwnPlaces
  <2>1. IsInjective(free[u]) /\ InHand(u) \cap Listed(u) = {}
    BY DEF Inv, SlotsInOnePlace
  <2> QED
    BY <2>1, OthersUnchanged DEF InHand, Listed
<1>3. /\ \A u \in Threads : Owned(u) \cap live = {}
      /\ \A u \in Threads : \A v \in Threads \ {u} : Owned(u) \cap Owned(v) = {}
      /\ 1..capacity = live \cup UNION {Owned(u) : u \in Threads}
      /\ capacity \in Nat
  BY DEF Inv, SlotsInOnePlace, TypeOK, BlocksOK
<1>4. /\ \A u \in Threads : Owned(u)' \cap live' = {}
      /\ \A u \in Threads : \A v \in Threads \ {u} : Owned(u)' \cap Owned(v)' = {}
      /\ 1..capacity' = live' \cup UNION {Owned(u)' : u \in Threads}
  <2>1. CASE Owned(t)' = Owned(t) /\ live' = live /\ capacity' = capacity
    BY <1>1, <1>3, <2>1
  <2>2. CASE Owned(t)' = Owned(t) \cup ((capacity + 1)..capacity') /\ live' = live
    <3>1. capacity' \in Nat /\ capacity <= capacity'
      BY BlocksStep DEF BlocksOK
    <3>2. 1..capacity' = 1..capacity \cup ((capacity + 1)..capacity')
      BY <1>3, <3>1
    <3>3. \A s \in (capacity + 1)..capacity' : s \notin 1..capacity
      BY <1>3, <3>1
    <3> QED
      BY <1>1, <1>3, <2>2, <3>2, <3>3
  <2>3. ASSUME NEW s \in Owned(t), Owned(t)' = Owned(t) \ {s}, live' = live \cup {s},
               capacity' = capacity
        PROVE  <1>4!:
    BY <1>1, <1>3, <2>3
  <2>4. ASSUME NEW s \in live, Owned(t)' = Owned(t) \cup {s}, live' = live \ {s},
               capacity' = capacity
        PROVE  <1>4!:
    BY <1>1, <1>3, <2>4
  <2> QED
    BY <2>1, <2>2, <2>3, <2>4, OwnedStep
<1> QED
  BY <1>2, <1>4 DEF SlotsInOnePlace

-----------------------------------------------------------------------------
(* The clock never goes back, and a thread writes stamps and bits only to  *)
(* the slots it owns.                                                      *)
LEMMA Writes ==
  ASSUME Inv, NEW t \in Threads, Insertion(t) \/ Erasure(t)
  PROVE  /\ clock <= clock'
         /\ \A s \in Slots \ Owned(t) : stamp'[s] = stamp[s] /\ type'[s] = type[s]
<1> USE DEF memory
<1>0. /\ BlocksOK /\ MemoryOK /\ ControlOK /\ CallInv(t)
      /\ pc[t] \in HandLabels => slot[t] \in Slots /\ slot[t] \in Owned(t)
      /\ Range(fresh[t]) \subseteq Owned(t)
  BY Places DEF Inv, TypeOK, Owned, InHand
<1>1. clock <= clock'
  <2>1. CASE DrawStamp(t)
    BY <1>0, <2>1 DEF DrawStamp, BlocksOK
  <2>2. CASE RaiseClock(t)
    <3>1. stamp[slot[t]] \in Nat /\ clock = prev[t] /\ clock' = stamp[slot[t]] + 1
      BY <1>0, <2>2 DEF RaiseClock, NextStamp, CallInv, MemoryOK, HandLabels
    <3>2. prev[t] < stamp[slot[t]] + 1
      BY <1>0, <2>2 DEF RaiseClock, CallInv, NextStamp
    <3> QED
      BY <1>0, <3>1, <3>2 DEF BlocksOK
  <2>3. CASE clock' = clock
    BY <1>0, <2>3 DEF BlocksOK
  <2> QED
    BY <2>1, <2>2, <2>3 DEF Insertion, Erasure, NewBlock, MarkFree, Pop, Construct, RestoreCounter,
       KeepStamp, ClockIsAhead, ClockIsBehind, RaiseFails, Erase, PutBack
<1>2. \A s \in Slots \ Owned(t) : stamp'[s] = stamp[s]
  <2>1. CASE MarkFree(t)
    BY <1>0, <2>1 DEF MarkFree
  <2>2. CASE Construct(t) \/ DrawStamp(t)
    <3>1. slot[t] \in Owned(t) /\ \E k : stamp' = [stamp EXCEPT ![slot[t]] = k]
      BY <1>0, <2>2 DEF Construct, DrawStamp, HandLabels
    <3> QED
      BY <1>0, <3>1 DEF MemoryOK
  <2>3. CASE stamp' = stamp
    BY <2>3
  <2> QED
    BY <2>1, <2>2, <2>3 DEF Insertion, Erasure, NewBlock, Pop, RestoreCounter,
       KeepStamp, ClockIsAhead, ClockIsBehind, RaiseClock, RaiseFails, Erase, PutBack
<1>3. \A s \in Slots \ Owned(t) : type'[s] = type[s]
  <2>1. CASE MarkFree(t)
    BY <1>0, <2>1 DEF MarkFree
  <2>2. CASE Construct(t) \/ PutBack(t)
    <3>1. slot[t] \in Owned(t) /\ \E k : type' = [type EXCEPT ![slot[t]] = k]
      BY <1>0, <2>2 DEF Construct, PutBack, HandLabels
    <3> QED
      BY <1>0, <3>1 DEF MemoryOK
  <2>3. CASE type' = type
    BY <2>3
  <2> QED
    BY <2>1, <2>2, <2>3 DEF Insertion, Erasure, NewBlock, Pop, RestoreCounter, DrawStamp,
       KeepStamp, ClockIsAhead, ClockIsBehind, RaiseClock, RaiseFails, Erase
<1> QED
  BY <1>1, <1>2, <1>3

(* What the other threads have in their hands stays as it is. *)
LEMMA OthersStep ==
  ASSUME Inv, NEW t \in Threads, Insertion(t) \/ Erasure(t), NEW u \in Threads, u # t
  PROVE  CallInv(u)' /\ SizeInv(u)'
<1>1. /\ CallInv(u) /\ SizeInv(u) /\ BlocksOK /\ ControlOK /\ BlocksOK'
  BY BlocksStep DEF Inv, TypeOK
<1>2. pc[u] \in HandLabels => stamp'[slot[u]] = stamp[slot[u]]
  BY Places, Writes DEF Inv, SlotsInOnePlace, Owned, InHand
<1>3. clock <= clock' /\ clock \in Nat /\ clock' \in Nat /\ prev[u] \in Nat
  BY <1>1, Writes DEF BlocksOK, ControlOK
<1>4. pc[u] \in {"test", "raise"} => prev[u] <= clock'
  BY <1>1, <1>3 DEF CallInv
<1> QED
  BY <1>1, <1>2, <1>4, OthersUnchanged DEF CallInv, SizeInv, HandLabels, NextStamp

(* The thread that makes a step keeps count of its list. *)
LEMMA OwnSize ==
  ASSUME Inv, NEW t \in Threads, Insertion(t) \/ Erasure(t)
  PROVE  SizeInv(t)'
<1> USE DEF lists, control
<1>0. /\ ListsOK /\ BlocksOK /\ ControlOK /\ CallInv(t) /\ SizeInv(t)
      /\ Len(free[t]) \in Nat /\ size[t] \in Nat
  BY LenProperties DEF Inv, TypeOK, ListsOK
<1>1. CASE NewBlock(t)
  BY <1>0, <1>1 DEF NewBlock, MayCall, SizeInv, ControlOK
<1>2. CASE MarkFree(t)
  <2>1. Len(fresh[t] \o free[t]) = Len(fresh[t]) + Len(free[t]) /\ Len(fresh[t]) \in Nat
    BY <1>0, ConcatProperties, LenProperties DEF ListsOK, BlocksOK
  <2> QED
    BY <1>0, <1>2, <2>1 DEF MarkFree, SizeInv, ListsOK, ControlOK
<1>3. CASE Pop(t)
  <2>1. Len(Tail(free[t])) = Len(free[t]) - 1
    BY <1>0, <1>3, HeadTailProperties DEF Pop, ListsOK
  <2> QED
    BY <1>0, <1>3, <2>1 DEF Pop, MayCall, SizeInv, ListsOK, ControlOK
<1>4. CASE Construct(t) \/ RestoreCounter(t)
  BY <1>0, <1>4 DEF Construct, RestoreCounter, SizeInv, ControlOK
<1>5. CASE DrawStamp(t)
  BY <1>0, <1>5 DEF DrawStamp, Return, ForgetLocals, SizeInv, ListsOK, ControlOK
<1>6. CASE KeepStamp(t)
  BY <1>0, <1>6 DEF KeepStamp, SizeInv, ListsOK, ControlOK
<1>7. CASE ClockIsAhead(t) \/ RaiseClock(t)
  BY <1>0, <1>7 DEF ClockIsAhead, RaiseClock, Return, ForgetLocals, SizeInv, ControlOK
<1>8. CASE ClockIsBehind(t) \/ RaiseFails(t)
  BY <1>0, <1>8 DEF ClockIsBehind, RaiseFails, SizeInv, ControlOK
<1>9. CASE Erase(t)
  BY <1>0, <1>9 DEF Erase, MayCall, SizeInv, ControlOK
<1>10. CASE PutBack(t)
  <2>1. slot[t] \in 1..capacity
    BY <1>10, Places DEF PutBack, HandLabels
  <2>2. Len(<<slot[t]>> \o free[t]) = Len(free[t]) + 1
    BY <1>0, <2>1, ConcatProperties DEF ListsOK
  <2> QED
    BY <1>0, <1>10, <2>2 DEF PutBack, ForgetLocals, SizeInv, ListsOK, ControlOK
<1> QED
  BY <1>1, <1>2, <1>3, <1>4, <1>5, <1>6, <1>7, <1>8, <1>9, <1>10 DEF Insertion, Erasure

(* The thread that makes a step keeps its own obligations. *)
LEMMA OwnCall ==
  ASSUME Inv, NEW t \in Threads, Insertion(t) \/ Erasure(t)
  PROVE  CallInv(t)'
<1> USE DEF blocks, lists, control, memory, BuiltLabels
<1>0. /\ BlocksOK /\ MemoryOK /\ ListsOK /\ ControlOK /\ CallInv(t)
      /\ pc[t] \in HandLabels => slot[t] \in Slots
  BY Places DEF Inv, TypeOK
<1>e. IsInjective(<<>>)
  BY DEF IsInjective
<1>1. CASE NewBlock(t)
  <2>1. capacity \in Nat /\ blockSize \in Nat
    BY <1>0 DEF BlocksOK
  <2>2. IsInjective([i \in 1..blockSize |-> capacity + i])
    BY <2>1, RunOfSlots
  <2> QED
    BY <1>0, <1>1, <2>2 DEF NewBlock, MayCall, CallInv, BlocksOK, ControlOK
<1>2. CASE MarkFree(t)
  BY <1>0, <1>2, <1>e DEF MarkFree, CallInv, BlocksOK, ControlOK
<1>3. CASE Pop(t)
  BY <1>0, <1>3 DEF Pop, MayCall, CallInv, ControlOK
<1>4. CASE Construct(t) \/ RestoreCounter(t)
  BY <1>0, <1>4 DEF Construct, RestoreCounter, CallInv, ControlOK
<1>5. CASE DrawStamp(t) \/ ClockIsAhead(t) \/ RaiseClock(t)
  <2>1. ForgetLocals(t) /\ free' = free /\ fresh' = fresh /\ pc[t] # "mark"
    BY <1>5 DEF DrawStamp, ClockIsAhead, RaiseClock, Return
  <2> QED
    BY <1>0, <2>1 DEF ForgetLocals, CallInv, ControlOK
<1>6. CASE KeepStamp(t) \/ RaiseFails(t)
  <2>1. /\ pc' = [pc EXCEPT ![t] = "test"] /\ prev' = [prev EXCEPT ![t] = clock]
        /\ pc[t] # "mark" /\ stamp[slot[t]] # Unset
        /\ UNCHANGED <<clock, free, fresh, slot, stamp, source>>
    BY <1>0, <1>6 DEF KeepStamp, RaiseFails, CallInv
  <2> QED
    BY <1>0, <2>1 DEF CallInv, ControlOK, BlocksOK
<1>7. CASE ClockIsBehind(t)
  <2>1. NextStamp(t)' = NextStamp(t) /\ prev' = prev
    BY <1>7 DEF ClockIsBehind, NextStamp
  <2> QED
    BY <1>0, <1>7, <2>1 DEF ClockIsBehind, CallInv, ControlOK
<1>8. CASE Erase(t)
  BY <1>0, <1>8 DEF Erase, MayCall, CallInv, ControlOK
<1>9. CASE PutBack(t)
  BY <1>0, <1>9 DEF PutBack, ForgetLocals, CallInv, ControlOK, ListsOK
<1> QED
  BY <1>1, <1>2, <1>3, <1>4, <1>5, <1>6, <1>7, <1>8, <1>9 DEF Insertion, Erasure
(* The bits follow the elements. *)
LEMMA BitsStep ==
  ASSUME Inv, NEW t \in Threads, Insertion(t) \/ Erasure(t)
  PROVE  BitsInv'
<1> SUFFICES ASSUME NEW s \in Slots
             PROVE  type'[s] = "used" <=> s \in live' \/ \E u \in Threads : Builds(u, s)'
  BY DEF BitsInv
<1> USE DEF memory, clients, control, BuiltLabels
<1>0. /\ MemoryOK /\ ControlOK
      /\ type[s] = "used" <=> s \in live \/ \E u \in Threads : Builds(u, s)
      /\ pc[t] \in HandLabels => slot[t] \in Slots
  BY Places DEF Inv, TypeOK, BitsInv
<1>1. \A u \in Threads : u # t => Builds(u, s)' = Builds(u, s)
  BY OthersUnchanged DEF Builds
<1>2. s \in Owned(t) => s \notin live /\ \A u \in Threads : u # t => ~Builds(u, s)
  BY DEF Inv, SlotsInOnePlace, Builds, Owned, InHand, HandLabels
<1>3. CASE NewBlock(t) \/ Pop(t)
  <2>1. ~Builds(t, s) /\ ~Builds(t, s)' /\ type' = type /\ live' = live
    BY <1>0, <1>3 DEF NewBlock, Pop, MayCall, Builds, ControlOK
  <2> QED
    BY <1>0, <1>1, <2>1
<1>4. CASE MarkFree(t)
  <2>1. ~Builds(t, s) /\ ~Builds(t, s)' /\ live' = live
    BY <1>0, <1>4 DEF MarkFree, Builds, ControlOK
  <2>2. type'[s] = IF s \in Range(fresh[t]) THEN "free" ELSE type[s]
    BY <1>4 DEF MarkFree
  <2>3. s \in Range(fresh[t]) => s \in Owned(t)
    BY DEF Owned
  <2> QED
    BY <1>0, <1>1, <1>2, <2>1, <2>2, <2>3
<1>5. CASE Construct(t)
  <2>1. /\ ~Builds(t, s) /\ Builds(t, s)' <=> slot[t] = s
        /\ type'[s] = IF s = slot[t] THEN "used" ELSE type[s]
        /\ live' = live
    BY <1>0, <1>5 DEF Construct, Builds, ControlOK, MemoryOK
  <2> QED
    BY <1>0, <1>1, <1>5, <2>1 DEF Construct, Builds, ControlOK
<1>6. CASE RestoreCounter(t) \/ KeepStamp(t) \/ ClockIsBehind(t) \/ RaiseFails(t)
  <2>1. Builds(t, s)' = Builds(t, s) /\ type' = type /\ live' = live
    BY <1>0, <1>6 DEF RestoreCounter, KeepStamp, ClockIsBehind, RaiseFails, Builds, ControlOK
  <2> QED
    BY <1>0, <1>1, <2>1
<1>7. CASE DrawStamp(t) \/ ClockIsAhead(t) \/ RaiseClock(t)
  <2>1. /\ Builds(t, s) <=> s = slot[t]
        /\ ~Builds(t, s)'
        /\ type' = type /\ live' = live \cup {slot[t]}
    BY <1>0, <1>7 DEF DrawStamp, ClockIsAhead, RaiseClock, Return, ForgetLocals, Builds, ControlOK
  <2> QED
    BY <1>0, <1>1, <2>1
<1>8. CASE Erase(t)
  <2>1. PICK r \in live : slot' = [slot EXCEPT ![t] = r] /\ live' = live \ {r}
    BY <1>8 DEF Erase
  <2>2. ~Builds(t, s) /\ (Builds(t, s)' <=> s = r) /\ type' = type
    BY <1>0, <1>8, <2>1 DEF Erase, MayCall, Builds, ControlOK
  <2> QED
    BY <1>0, <1>1, <2>1, <2>2
<1>9. CASE PutBack(t)
  <2>1. /\ Builds(t, s) <=> s = slot[t]
        /\ ~Builds(t, s)'
        /\ type'[s] = IF s = slot[t] THEN "free" ELSE type[s]
        /\ live' = live
    BY <1>0, <1>9 DEF PutBack, ForgetLocals, Builds, ControlOK, MemoryOK
  <2>2. slot[t] \in Owned(t)
    BY <1>9 DEF PutBack, Owned, InHand, HandLabels
  <2> QED
    BY <1>0, <1>1, <1>2, <2>1, <2>2
<1> QED
  BY <1>3, <1>4, <1>5, <1>6, <1>7, <1>8, <1>9 DEF Insertion, Erasure

(* An erasure is the only step that counts a life, of an element. *)
LEMMA LivesStep ==
  ASSUME Inv, NEW t \in Threads, Insertion(t) \/ Erasure(t)
  PROVE  \/ lives' = lives
         \/ /\ Erase(t)
            /\ \E s \in live : /\ lives[s] < MaxErasures
                               /\ lives' = [lives EXCEPT ![s] = @ + 1]
                               /\ counter' = [counter EXCEPT ![s] = (@ + 1) % CounterRange]
  BY DEF clients, Insertion, Erasure, NewBlock, MarkFree, Pop, Construct, RestoreCounter, DrawStamp,
     KeepStamp, ClockIsAhead, ClockIsBehind, RaiseClock, RaiseFails, Erase, PutBack

(* The counters follow the erasures. *)
LEMMA CounterStep ==
  ASSUME Inv, NEW t \in Threads, Insertion(t) \/ Erasure(t)
  PROVE  CounterInv'
<1> USE DEF memory, blocks, control
<1>0. /\ CounterInv /\ BlocksOK /\ MemoryOK /\ ListsOK /\ ControlOK /\ ClientsOK
      /\ live \subseteq 1..capacity /\ 1..capacity \subseteq Slots /\ CallInv(t)
  BY Places DEF Inv, TypeOK, ClientsOK
<1>1. \A s \in Slots : s \notin live => lives'[s] = lives[s]
  BY <1>0, LivesStep DEF ClientsOK
<1>2. \A u \in Threads : Owned(u) \subseteq 1..capacity /\ Owned(u) \cap live = {}
  BY Places DEF Inv, SlotsInOnePlace
<1>3. \A u \in Threads : pc[u] \in HandLabels => slot[u] \in Slots /\ slot[u] \notin live
  BY <1>0, <1>2, Places DEF Owned, InHand
<1>4. \A u \in Threads \ {t} : \A s \in Slots : pc'[u] = "restore" /\ slot'[u] = s <=> pc[u] = "restore" /\ slot[u] = s
  BY OthersUnchanged
<1>5. \A s \in Slots : ~Unsettled(s)' => counter'[s] = lives'[s]
  <2> SUFFICES ASSUME NEW s \in Slots, ~Unsettled(s)'
               PROVE  counter'[s] = lives'[s]
    OBVIOUS
  <2>1. \A u \in Threads : u # t => ~(pc[u] = "restore" /\ slot[u] = s)
    BY <1>4 DEF Unsettled
  <2>2. CASE MarkFree(t)
    <3>1. counter'[s] = IF s \in Range(fresh[t]) THEN 0 ELSE counter[s]
      BY <2>2 DEF MarkFree
    <3>2. ~Unsettled(s) /\ lives' = lives
      BY <2>1, <2>2, LivesStep DEF MarkFree, Unsettled, Erase, MayCall
    <3> QED
      BY <1>0, <3>1, <3>2 DEF CounterInv
  <2>3. CASE Construct(t)
    <3>1. s # slot[t]
      BY <1>0, <2>3 DEF Construct, Unsettled, ControlOK
    <3>2. counter'[s] = counter[s] /\ ~Unsettled(s) /\ lives' = lives
      BY <1>0, <2>1, <2>3, <3>1 DEF Construct, Unsettled, MemoryOK, clients
    <3> QED
      BY <1>0, <3>2 DEF CounterInv
  <2>4. CASE RestoreCounter(t)
    <3>1. lives' = lives /\ counter' = [counter EXCEPT ![slot[t]] = saved[t]]
      BY <2>4 DEF RestoreCounter, clients
    <3>2. CASE s = slot[t]
      BY <1>0, <2>4, <3>1, <3>2 DEF RestoreCounter, CounterInv, MemoryOK
    <3>3. CASE s # slot[t]
      BY <1>0, <2>1, <3>1, <3>3 DEF CounterInv, Unsettled, MemoryOK
    <3> QED
      BY <3>2, <3>3
  <2>5. CASE Erase(t)
    <3>1. ~Unsettled(s)
      BY <2>1, <2>5 DEF Erase, MayCall, Unsettled
    <3>2. PICK r \in live : /\ lives[r] < MaxErasures
                            /\ lives' = [lives EXCEPT ![r] = @ + 1]
                            /\ counter' = [counter EXCEPT ![r] = (@ + 1) % CounterRange]
      BY <2>5 DEF Erase
    <3>3. (counter[r] + 1) % CounterRange = lives[r] + 1
      BY <3>2, CountedErasure
    <3> QED
      BY <1>0, <3>1, <3>2, <3>3 DEF CounterInv, MemoryOK, ClientsOK
  <2>6. CASE counter' = counter /\ lives' = lives /\ pc[t] # "restore"
    BY <1>0, <2>1, <2>6 DEF CounterInv, Unsettled
  <2> QED
    BY <2>2, <2>3, <2>4, <2>5, <2>6, LivesStep DEF Insertion, Erasure, NewBlock, Pop, DrawStamp, KeepStamp,
       ClockIsAhead, ClockIsBehind, RaiseClock, RaiseFails, PutBack, MayCall
<1>6. \A u \in Threads : pc'[u] \in {"construct", "restore"} => saved'[u] = lives'[slot'[u]]
  <2> SUFFICES ASSUME NEW u \in Threads, pc'[u] \in {"construct", "restore"}
               PROVE  saved'[u] = lives'[slot'[u]]
    OBVIOUS
  <2>1. CASE u # t
    BY <1>0, <1>1, <1>3, <2>1, OthersUnchanged DEF CounterInv, HandLabels
  <2>2. CASE u = t /\ Pop(t)
    <3>1. /\ slot'[t] = Head(free[t]) /\ saved'[t] = counter[Head(free[t])] /\ lives' = lives
          /\ free[t] # <<>> /\ IsInjective(free[t])
      BY <1>0, <2>2 DEF Pop, ControlOK, Inv, SlotsInOnePlace
    <3>2. free[t] \in Seq(1..capacity)
      BY <1>0 DEF ListsOK
    <3>3. Head(free[t]) \in 1..capacity /\ Head(free[t]) \in Range(free[t])
      <4>1. Range(free[t]) = {Head(free[t])} \cup Range(Tail(free[t]))
        BY <3>1, <3>2, TailOfList
      <4>2. Head(free[t]) \in 1..capacity
        BY <3>1, <3>2, HeadTailProperties
      <4> QED
        BY <4>1, <4>2
    <3> QED
      BY <1>0, <2>2, <3>1, <3>3, Places DEF CounterInv, Listed
  <2>3. CASE u = t /\ Construct(t)
    BY <1>0, <2>2, <2>3 DEF Construct, CounterInv, clients
  <2>4. CASE u = t /\ ~Pop(t) /\ ~Construct(t)
    BY <1>0, <2>4 DEF Insertion, Erasure, NewBlock, MarkFree, RestoreCounter, DrawStamp, KeepStamp,
       ClockIsAhead, ClockIsBehind, RaiseClock, RaiseFails, Erase, PutBack, Return, ForgetLocals, ControlOK
  <2> QED
    BY <2>1, <2>2, <2>3, <2>4
<1>7. \A s \in Slots : s > capacity' => lives'[s] = 0
  <2>1. capacity <= capacity' /\ capacity' \in Nat /\ capacity \in Nat
    BY <1>0, BlocksStep DEF BlocksOK
  <2>2. \A s \in Slots : s > capacity' => s > capacity /\ s \notin live
    BY <1>0, <2>1 DEF Slots
  <2> QED
    BY <1>0, <1>1, <2>2 DEF CounterInv
<1>8. \A u \in Threads : \A s \in Range(fresh'[u]) : lives'[s] = 0
  <2> SUFFICES ASSUME NEW u \in Threads, NEW s \in Range(fresh'[u])
               PROVE  lives'[s] = 0
    OBVIOUS
  <2>1. CASE fresh'[u] = fresh[u]
    <3>1. s \in Owned(u)
      BY <2>1 DEF Owned
    <3> QED
      BY <1>0, <1>1, <1>2, <2>1, <3>1 DEF CounterInv
  <2>2. CASE u = t /\ NewBlock(t)
    <3>1. capacity \in Nat /\ blockSize \in Nat /\ capacity' \in 0..MaxCapacity /\ capacity' = capacity + blockSize
      BY <1>0, <2>2, BlocksStep DEF BlocksOK, NewBlock
    <3>2. fresh'[t] = [i \in 1..blockSize |-> capacity + i]
      BY <1>0, <2>2 DEF NewBlock, BlocksOK
    <3>3. s \in (capacity + 1)..(capacity + blockSize)
      BY <2>2, <3>1, <3>2, RunOfSlots
    <3>4. s \in Slots /\ s > capacity /\ s \notin live
      BY <1>0, <3>1, <3>3, ConstantsAssumption DEF Slots
    <3> QED
      BY <1>0, <1>1, <3>4 DEF CounterInv
  <2>3. CASE u = t /\ MarkFree(t)
    <3>1. fresh'[t] = <<>>
      BY <1>0, <2>3 DEF MarkFree, BlocksOK
    <3> QED
      BY <2>3, <3>1 DEF Range
  <2>4. CASE u # t
    BY <2>1, <2>4, OthersUnchanged
  <2>5. CASE fresh' = fresh
    BY <2>1, <2>5
  <2> QED
    BY <2>2, <2>3, <2>4, <2>5 DEF Insertion, Erasure, Pop, Construct, RestoreCounter, DrawStamp, KeepStamp,
       ClockIsAhead, ClockIsBehind, RaiseClock, RaiseFails, Erase, PutBack
<1> QED
  BY <1>5, <1>6, <1>7, <1>8 DEF CounterInv
-----------------------------------------------------------------------------
(* While a triangulation is copied, only the thread that copies has begun  *)
(* a call, so that a copied stamp is in its hand or nobody's.              *)
LEMMA Alone ==
  ASSUME Inv, NEW t \in Threads, Insertion(t) \/ Erasure(t), Copying
  PROVE  \A u \in Threads : u # t => pc[u] = "idle" /\ source[u] = Unset
<1>1. pc[t] = "idle" => Quiescent
  BY DEF Insertion, Erasure, NewBlock, MarkFree, Pop, Construct, RestoreCounter, DrawStamp, KeepStamp,
     ClockIsAhead, ClockIsBehind, RaiseClock, RaiseFails, Erase, PutBack, MayCall
<1>2. \A u \in Threads : u # t => pc[u] = "idle"
  BY <1>1 DEF Inv, CopyInv, Quiescent
<1> QED
  BY <1>2 DEF Inv, CallInv, BuiltLabels

(* The source of a copy is drawn from the copied triangulation, and kept   *)
(* until the insertion returns.                                            *)
LEMMA SourceStep ==
  ASSUME Inv, NEW t \in Threads, Insertion(t) \/ Erasure(t)
  PROVE  /\ toCopy' \subseteq toCopy
         /\ \/ source'[t] = source[t] /\ toCopy' = toCopy /\ (pc'[t] = "construct" => Pop(t))
            \/ source'[t] = Unset /\ toCopy' = toCopy /\ pc'[t] = "idle"
            \/ /\ Pop(t) /\ pc'[t] = "construct"
               /\ source'[t] \in toCopy /\ toCopy' = toCopy \ {source'[t]}
<1>0. ControlOK
  BY DEF Inv, TypeOK
<1> USE DEF clients, control
<1>1. CASE Pop(t)
  BY <1>0, <1>1 DEF Pop, ControlOK
<1>2. CASE DrawStamp(t) \/ ClockIsAhead(t) \/ RaiseClock(t) \/ PutBack(t)
  BY <1>0, <1>2 DEF DrawStamp, ClockIsAhead, RaiseClock, PutBack, Return, ForgetLocals, ControlOK
<1>3. CASE NewBlock(t) \/ MarkFree(t) \/ Construct(t) \/ RestoreCounter(t) \/ KeepStamp(t)
           \/ ClockIsBehind(t) \/ RaiseFails(t) \/ Erase(t)
  BY <1>0, <1>3 DEF NewBlock, MarkFree, Construct, RestoreCounter, KeepStamp, ClockIsBehind,
     RaiseFails, Erase, ControlOK
<1> QED
  BY <1>1, <1>2, <1>3 DEF Insertion, Erasure

(* What a step does to the stamps. *)
LEMMA StampsWritten ==
  ASSUME Inv, NEW t \in Threads, Insertion(t) \/ Erasure(t)
  PROVE  \/ stamp' = stamp
         \/ /\ MarkFree(t)
            /\ \A s \in Slots : stamp'[s] = stamp[s] \/ stamp'[s] = Unset
         \/ /\ Construct(t) /\ source[t] # Unset
            /\ slot[t] \in Slots /\ stamp' = [stamp EXCEPT ![slot[t]] = source[t]]
         \/ /\ DrawStamp(t) /\ ~Copying /\ clock' = clock + 1
            /\ slot[t] \in Slots /\ stamp' = [stamp EXCEPT ![slot[t]] = clock]
<1> USE DEF memory
<1>0. /\ MemoryOK /\ ControlOK
      /\ pc[t] \in HandLabels => slot[t] \in Slots
  BY Places DEF Inv, TypeOK
<1>1. CASE MarkFree(t)
  BY <1>1 DEF MarkFree
<1>2. CASE Construct(t)
  BY <1>0, <1>2 DEF Construct, MemoryOK, HandLabels
<1>3. CASE DrawStamp(t)
  <2>1. source[t] = Unset
    BY <1>3, ConstantsAssumption DEF Inv, CopyInv, DrawStamp
  <2>2. ~Copying
    <3> SUFFICES ASSUME Copying PROVE FALSE
      OBVIOUS
    <3>1. \A u \in Threads : source[u] = Unset
      BY <2>1, Alone
    <3> QED
      BY <1>3, <2>1, <3>1 DEF Copying, Inv, CopyInv, DrawStamp, HandLabels
  <2> QED
    BY <1>0, <1>3, <2>2 DEF DrawStamp, HandLabels
<1> QED
  BY <1>1, <1>2, <1>3 DEF Insertion, Erasure, NewBlock, Pop, RestoreCounter, KeepStamp,
     ClockIsAhead, ClockIsBehind, RaiseClock, RaiseFails, Erase, PutBack

(* The copy goes on undisturbed. *)
LEMMA CopyStep ==
  ASSUME Inv, NEW t \in Threads, Insertion(t) \/ Erasure(t)
  PROVE  CopyInv'
<1>0. /\ CopyInv /\ CallInv(t) /\ MemoryOK /\ ControlOK /\ ClientsOK
  BY DEF Inv, TypeOK
<1>1. Copying' => Copying
  BY SourceStep, OthersUnchanged DEF Copying
<1>2. Copying => \A u \in Threads : u # t => pc'[u] = "idle" /\ source'[u] = Unset
  BY Alone, OthersUnchanged
<1>3. Copying' => \A u, v \in Threads : pc'[u] # "idle" /\ pc'[v] # "idle" => u = v
  BY <1>1, <1>2
<1>4. toCopy' # {} => \A u \in Threads : pc'[u] \in HandLabels => source'[u] # Unset
  <2> SUFFICES ASSUME toCopy' # {}, pc'[t] \in HandLabels
               PROVE  source'[t] # Unset
    BY <1>1, <1>2 DEF Copying, HandLabels
  <2>1. toCopy # {}
    BY SourceStep
  <2>2. Pop(t) => source'[t] # Unset
    BY <1>0, <2>1, ConstantsAssumption DEF Pop, ControlOK, ClientsOK
  <2>3. pc[t] \in HandLabels => source[t] # Unset
    BY <1>0, <2>1 DEF CopyInv
  <2>4. Pop(t) \/ pc[t] \in HandLabels \/ pc'[t] \notin HandLabels
    BY <1>0, <2>1 DEF Insertion, Erasure, NewBlock, MarkFree, Construct, RestoreCounter, DrawStamp,
       KeepStamp, ClockIsAhead, ClockIsBehind, RaiseClock, RaiseFails, Erase, PutBack, HandLabels, ControlOK
  <2> QED
    BY <2>2, <2>3, <2>4, SourceStep DEF HandLabels
<1>5. Copying' => \A s \in Slots : stamp'[s] # Unset => stamp'[s] \in Foreign \ toCopy'
  <2> SUFFICES ASSUME Copying, NEW s \in Slots, stamp'[s] # Unset
               PROVE  stamp'[s] \in Foreign \ toCopy'
    BY <1>1
  <2>1. toCopy' \subseteq toCopy /\ (stamp[s] # Unset => stamp[s] \in Foreign \ toCopy)
    BY <1>0, SourceStep DEF CopyInv
  <2>2. source[t] # Unset => source[t] \in Foreign \ toCopy
    BY <1>0 DEF CopyInv
  <2> QED
    BY <1>0, <2>1, <2>2, StampsWritten DEF MemoryOK
<1>6. \A u \in Threads : source'[u] # Unset =>
        /\ source'[u] \in Foreign \ toCopy'
        /\ pc'[u] = "construct" => \A s \in Slots : stamp'[s] # source'[u]
        /\ pc'[u] # "construct" => stamp'[slot'[u]] = source'[u]
  <2> SUFFICES ASSUME source'[t] # Unset
               PROVE  /\ source'[t] \in Foreign \ toCopy'
                      /\ pc'[t] = "construct" => \A s \in Slots : stamp'[s] # source'[t]
                      /\ pc'[t] # "construct" => stamp'[slot'[t]] = source'[t]
    <3>1. \A u \in Threads : u # t => source'[u] = Unset
      <4> SUFFICES ASSUME NEW u \in Threads, u # t, source'[u] # Unset PROVE FALSE
        OBVIOUS
      <4>1. Copying
        BY OthersUnchanged DEF Copying
      <4> QED
        BY <1>2, <4>1
    <3> QED
      BY <3>1
  <2>1. CASE Pop(t)
    <3>1. toCopy # {} /\ source'[t] \in toCopy /\ toCopy' = toCopy \ {source'[t]}
      BY <1>0, <2>1 DEF Pop, MayCall, CallInv, ControlOK, ClientsOK, BuiltLabels
    <3>2. \A s \in Slots : stamp[s] # source'[t] /\ stamp'[s] = stamp[s]
      BY <1>0, <2>1, <3>1 DEF Pop, CopyInv, Copying, memory
    <3> QED
      BY <1>0, <2>1, <3>1, <3>2 DEF Pop, ControlOK, ClientsOK
  <2>2. CASE ~Pop(t)
    <3>1. source'[t] = source[t] /\ toCopy' = toCopy /\ pc'[t] # "construct"
      BY <2>2, SourceStep
    <3>2. pc[t] \in BuiltLabels \cup {"construct"}
      BY <1>0, <3>1 DEF CallInv
    <3>3. source[t] \in Foreign \ toCopy
      BY <1>0, <3>1 DEF CopyInv
    <3>4. CASE Construct(t)
      <4>1. slot'[t] = slot[t] /\ slot[t] \in Slots /\ stamp'[slot[t]] = source[t]
        BY <1>0, <3>1, <3>4, StampsWritten, Places DEF Construct, MemoryOK, control, HandLabels
      <4> QED
        BY <3>1, <3>3, <4>1
    <3>5. CASE RestoreCounter(t) \/ KeepStamp(t) \/ ClockIsBehind(t) \/ RaiseFails(t)
      <4>1. slot' = slot /\ stamp' = stamp /\ pc[t] # "construct"
        BY <3>5 DEF RestoreCounter, KeepStamp, ClockIsBehind, RaiseFails, control, memory
      <4> QED
        BY <1>0, <3>1, <3>3, <4>1 DEF CopyInv
    <3> QED
      BY <1>0, <2>2, <3>1, <3>2, <3>4, <3>5 DEF Insertion, Erasure, NewBlock, MarkFree, DrawStamp, ClockIsAhead,
         RaiseClock, Return, ForgetLocals, Erase, PutBack, MayCall, ControlOK, BuiltLabels
  <2> QED
    BY <2>1, <2>2
<1> QED
  BY <1>3, <1>4, <1>5, <1>6 DEF CopyInv
(* The clock stays ahead, and no stamp is given twice. *)
LEMMA StampStep ==
  ASSUME Inv, NEW t \in Threads, Insertion(t) \/ Erasure(t)
  PROVE  StampInv'
<1>0. /\ StampInv /\ CopyInv /\ CallInv(t)
      /\ BlocksOK /\ MemoryOK /\ ControlOK /\ BlocksOK'
      /\ Unset \notin Nat /\ Foreign \subseteq Nat
      /\ clock <= clock'
  BY BlocksStep, Writes, ConstantsAssumption DEF Inv, TypeOK
<1>1. Copying \/ \A s \in Slots : ~Copied(s)
  BY DEF Copying, Copied
<1>2. \A s, r \in Slots : stamp'[s] # Unset /\ s # r => stamp'[s] # stamp'[r]
  <2>1. CASE stamp' = stamp
    BY <1>0, <2>1 DEF StampInv
  <2>2. CASE \A s \in Slots : stamp'[s] = stamp[s] \/ stamp'[s] = Unset
    BY <1>0, <2>2 DEF StampInv
  <2>3. CASE Construct(t) /\ source[t] # Unset /\ slot[t] \in Slots
             /\ stamp' = [stamp EXCEPT ![slot[t]] = source[t]]
    <3>1. \A s \in Slots : stamp[s] # source[t]
      BY <1>0, <2>3 DEF CopyInv, Construct
    <3> QED
      BY <1>0, <2>3, <3>1 DEF StampInv, MemoryOK
  <2>4. CASE ~Copying /\ slot[t] \in Slots /\ stamp' = [stamp EXCEPT ![slot[t]] = clock]
    <3>1. \A s \in Slots : stamp[s] # clock
      <4> SUFFICES ASSUME NEW s \in Slots PROVE stamp[s] # clock
        OBVIOUS
      <4>1. stamp[s] = Unset \/ stamp[s] < clock
        BY <1>0, <1>1, <2>4 DEF StampInv
      <4>2. stamp[s] \in Nat \cup {Unset} /\ clock \in Nat
        BY <1>0 DEF BlocksOK, MemoryOK
      <4> QED
        BY <1>0, <4>1, <4>2
    <3> QED
      BY <1>0, <2>4, <3>1 DEF StampInv, MemoryOK
  <2> QED
    BY <2>1, <2>2, <2>3, <2>4, StampsWritten
<1>3. \A s \in Slots : stamp'[s] # Unset /\ ~Copied(s)' => stamp'[s] < clock'
  <2> SUFFICES ASSUME NEW s \in Slots, stamp'[s] # Unset, ~Copied(s)'
               PROVE  stamp'[s] < clock'
    OBVIOUS
  <2>0. stamp[s] \in Nat \cup {Unset} /\ clock \in Nat /\ clock' \in Nat
    BY <1>0 DEF BlocksOK, MemoryOK
  <2>1. CASE stamp'[s] = stamp[s] /\ ~Copied(s)
    BY <1>0, <2>0, <2>1 DEF StampInv
  <2>2. CASE stamp'[s] = stamp[s] /\ Copied(s)
    <3>1. slot[t] = s /\ source[t] # Unset
      BY <2>2, OthersUnchanged DEF Copied
    <3>2. slot'[t] # s \/ source'[t] = Unset
      BY DEF Copied
    <3>3. pc[t] \in BuiltLabels \cup {"construct"}
      BY <1>0, <3>1 DEF CallInv
    <3>4. ClockIsAhead(t) \/ RaiseClock(t) \/ DrawStamp(t)
      BY <1>0, <3>1, <3>2, <3>3 DEF Insertion, Erasure, NewBlock, MarkFree, Pop, Construct, RestoreCounter,
         KeepStamp, ClockIsBehind, RaiseFails, Erase, PutBack, MayCall, BuiltLabels, control
    <3>5. stamp[s] # Unset /\ ~DrawStamp(t)
      BY <2>2, <3>1 DEF DrawStamp
    <3>6. CASE ClockIsAhead(t)
      <4>1. prev[t] >= stamp[s] + 1 /\ prev[t] <= clock /\ prev[t] \in Nat
        BY <1>0, <3>1, <3>6 DEF ClockIsAhead, NextStamp, CallInv, ControlOK
      <4> QED
        BY <1>0, <2>0, <2>2, <3>5, <4>1
    <3>7. CASE RaiseClock(t)
      <4>1. clock' = stamp[s] + 1
        BY <3>1, <3>7 DEF RaiseClock, NextStamp
      <4> QED
        BY <2>0, <2>2, <3>5, <4>1
    <3> QED
      BY <3>4, <3>5, <3>6, <3>7
  <2>3. CASE stamp'[s] # stamp[s] /\ Construct(t) /\ source[t] # Unset
             /\ stamp' = [stamp EXCEPT ![slot[t]] = source[t]]
    BY <1>0, <2>3 DEF Construct, control, MemoryOK, Copied
  <2>4. CASE stamp'[s] # stamp[s] /\ clock' = clock + 1 /\ stamp' = [stamp EXCEPT ![slot[t]] = clock]
    BY <1>0, <2>0, <2>4 DEF MemoryOK
  <2> QED
    BY <2>1, <2>2, <2>3, <2>4, StampsWritten
<1>4. \A s \in live' : stamp'[s] # Unset
  <2> SUFFICES ASSUME NEW s \in live' PROVE stamp'[s] # Unset
    OBVIOUS
  <2>1. CASE s \in live
    <3>1. s \in Slots \ Owned(t)
      BY <2>1, Places DEF Inv, SlotsInOnePlace, TypeOK, ClientsOK
    <3> QED
      BY <1>0, <2>1, <3>1, Writes DEF StampInv
  <2>2. CASE s \notin live
    <3>1. s = slot[t] /\ (DrawStamp(t) \/ ClockIsAhead(t) \/ RaiseClock(t))
      BY <2>2 DEF Insertion, Erasure, NewBlock, MarkFree, Pop, Construct, RestoreCounter, DrawStamp,
         KeepStamp, ClockIsAhead, ClockIsBehind, RaiseClock, RaiseFails, Return, Erase, PutBack, clients
    <3>2. CASE DrawStamp(t)
      <4>1. slot[t] \in Slots
        BY <3>2, Places DEF DrawStamp, HandLabels
      <4> QED
        BY <1>0, <3>1, <3>2, <4>1 DEF DrawStamp, MemoryOK, BlocksOK
    <3>3. CASE ClockIsAhead(t) \/ RaiseClock(t)
      BY <1>0, <3>1, <3>3 DEF ClockIsAhead, RaiseClock, CallInv, memory
    <3> QED
      BY <3>1, <3>2, <3>3
  <2> QED
    BY <2>1, <2>2
<1> QED
  BY <1>2, <1>3, <1>4 DEF StampInv

(* Handles are made by MakeHandle only. *)
LEMMA HandleStep ==
  ASSUME Inv, NEW t \in Threads, Insertion(t) \/ Erasure(t)
  PROVE  HandleInv'
<1>1. handles' = handles
  BY DEF clients, Insertion, Erasure, NewBlock, MarkFree, Pop, Construct, RestoreCounter, DrawStamp,
     KeepStamp, ClockIsAhead, ClockIsBehind, RaiseClock, RaiseFails, Erase, PutBack
<1> QED
  BY <1>1 DEF Inv, HandleInv

-----------------------------------------------------------------------------
(* Clear starts over, while nobody has a slot in hand. *)
LEMMA ClearStep == Inv /\ Clear => Inv'
<1> SUFFICES ASSUME Inv, Clear PROVE Inv'
  OBVIOUS
<1> USE ConstantsAssumption DEF control
<1>1. /\ TypeOK
      /\ \A t \in Threads : /\ pc[t] = "idle" /\ pc'[t] = "idle"
                            /\ fresh[t] = <<>> /\ fresh'[t] = <<>>
                            /\ source[t] = Unset /\ source'[t] = Unset
                            /\ free'[t] = <<>> /\ size'[t] = 0
  BY DEF Inv, CallInv, Clear, Quiescent, BuiltLabels
<1>2. /\ capacity' = 0 /\ live' = {} /\ handles' = {}
      /\ \A s \in Slots : type'[s] = "none" /\ counter'[s] = 0 /\ stamp'[s] = Unset /\ lives'[s] = 0
  BY DEF Clear
<1>3. TypeOK'
  <2>1. fresh' \in [Threads -> Seq(1..0)] /\ free' \in [Threads -> Seq(1..0)]
    BY <1>1, EmptySeq DEF Clear, TypeOK, BlocksOK
  <2>2. BlocksOK' /\ ListsOK'
    BY <2>1 DEF Clear, BlocksOK, ListsOK
  <2>3. MemoryOK' /\ ClientsOK' /\ ControlOK'
    BY <1>1 DEF Clear, TypeOK, MemoryOK, ClientsOK, ControlOK
  <2> QED
    BY <2>2, <2>3 DEF TypeOK
<1>4. \A t \in Threads : CallInv(t)' /\ SizeInv(t)'
  <2>1. Len(<<>>) = 0 /\ IsInjective(<<>>)
    BY DEF IsInjective
  <2>2. \A t \in Threads : CallInv(t)'
    BY <1>1, <2>1 DEF CallInv
  <2>3. ASSUME NEW t \in Threads PROVE SizeInv(t)'
    <3>1. size'[t] = 0 /\ Len(free'[t]) = 0 /\ pc'[t] = "idle"
      BY <1>1, <2>1
    <3> QED
      BY <3>1 DEF SizeInv
  <2> QED
    BY <2>2, <2>3
<1>5. SlotsInOnePlace'
  <2>1. \A t \in Threads : Listed(t)' = {} /\ InHand(t)' = {} /\ Owned(t)' = {}
    BY <1>1 DEF Listed, InHand, Owned, HandLabels, Range
  <2>2. UNION {Owned(t)' : t \in Threads} = {}
    BY <2>1
  <2> QED
    BY <1>1, <1>2, <2>1, <2>2 DEF SlotsInOnePlace, IsInjective
<1>6. BitsInv' /\ HandleInv'
  BY <1>1, <1>2 DEF BitsInv, Builds, BuiltLabels, HandleInv
<1>7. CounterInv'
  BY <1>1, <1>2 DEF CounterInv, Range
<1>8. CopyInv' /\ StampInv'
  BY <1>1, <1>2 DEF CopyInv, StampInv, HandLabels
<1> QED
  BY <1>3, <1>4, <1>5, <1>6, <1>7, <1>8 DEF Inv

(* A new handle has the counter its element was erased so often by. *)
LEMMA MakeHandleStep == Inv /\ MakeHandle => Inv'
<1> SUFFICES ASSUME Inv, MakeHandle PROVE Inv'
  OBVIOUS
<1> USE DEF blocks, memory, lists, control
<1>1. PICK s \in live :
        handles' = handles \cup {[slot |-> s, value |-> counter[s], life |-> lives[s]]}
  BY DEF MakeHandle
<1>2. s \in Slots /\ counter[s] = lives[s] /\ lives[s] \in Nat
  BY Places DEF Inv, CounterInv, TypeOK, ClientsOK
<1>3. TypeOK' /\ HandleInv'
  BY <1>1, <1>2 DEF MakeHandle, Inv, TypeOK, BlocksOK, MemoryOK, ListsOK, ControlOK, ClientsOK,
     Handle, HandleInv
<1>4. UNCHANGED <<blocks, clock, memory, lists, control, live, toCopy, lives>>
  BY DEF MakeHandle
<1>5. (\A t \in Threads : CallInv(t) /\ SizeInv(t))' /\ BitsInv'
  BY <1>4 DEF Inv, CallInv, SizeInv, NextStamp, BitsInv, Builds
<1>6. SlotsInOnePlace'
  BY <1>4 DEF Inv, SlotsInOnePlace, Owned, Listed, InHand
<1>7. CounterInv' /\ CopyInv' /\ StampInv'
  BY <1>4 DEF Inv, CounterInv, Unsettled, CopyInv, Copying, StampInv, Copied
<1> QED
  BY <1>3, <1>5, <1>6, <1>7 DEF Inv

(* Every step preserves the invariant. *)
LEMMA NextInv == Inv /\ [Next]_vars => Inv'
<1>1. ASSUME Inv, NEW t \in Threads, Insertion(t) \/ Erasure(t) PROVE Inv'
  <2>1. \A u \in Threads : CallInv(u)' /\ SizeInv(u)'
    BY <1>1, OthersStep, OwnCall, OwnSize
  <2> QED
    BY <1>1, <2>1, TypeStep, PlaceStep, BitsStep, CounterStep, HandleStep, CopyStep, StampStep DEF Inv
<1>2. ASSUME Inv, UNCHANGED vars PROVE Inv'
  <2> USE <1>2 DEF vars, blocks, memory, lists, control, clients
  <2>1. TypeOK'
    BY DEF Inv, TypeOK, BlocksOK, MemoryOK, ListsOK, ControlOK, ClientsOK
  <2>2. (\A t \in Threads : CallInv(t) /\ SizeInv(t))' /\ BitsInv' /\ HandleInv'
    BY DEF Inv, CallInv, SizeInv, NextStamp, BitsInv, Builds, HandleInv
  <2>3. SlotsInOnePlace'
    BY DEF Inv, SlotsInOnePlace, Owned, Listed, InHand
  <2>4. CounterInv' /\ CopyInv' /\ StampInv'
    BY DEF Inv, CounterInv, Unsettled, CopyInv, Copying, StampInv, Copied
  <2> QED
    BY <2>1, <2>2, <2>3, <2>4 DEF Inv
<1> QED
  BY <1>1, <1>2, ClearStep, MakeHandleStep DEF Next
-----------------------------------------------------------------------------
(***************************************************************************)
(* The theorems.                                                           *)
(***************************************************************************)
(* The inductive invariant holds in every reachable state. *)
THEOREM Invariance == Spec => []Inv
  BY InitInv, NextInv, PTL DEF Spec

(* Every variable has its type, in particular the erase counters and the   *)
(* sizes of the free lists stay in their range.                            *)
THEOREM Typing == Spec => []TypeOK
<1>1. Inv => TypeOK
  BY DEF Inv
<1> QED
  BY <1>1, Invariance, PTL

(* No slot is handed out twice, put on two lists or lost. *)
THEOREM OnePlace == Spec => []SlotsInOnePlace
<1>1. Inv => SlotsInOnePlace
  BY DEF Inv
<1> QED
  BY <1>1, Invariance, PTL

(* Between parallel phases begin()..end() visits exactly the elements. *)
THEOREM ExactIteration == Spec => []IterationIsExact
<1>1. Inv => IterationIsExact
  <2> SUFFICES ASSUME Inv, Quiescent PROVE Visited = live
    BY DEF IterationIsExact
  <2>1. \A s \in Slots : type[s] = "used" <=> s \in live
    BY DEF Inv, BitsInv, Builds, BuiltLabels, Quiescent
  <2>2. live \subseteq 1..capacity /\ 1..capacity \subseteq Slots
    BY Places DEF Inv, TypeOK, ClientsOK
  <2> QED
    BY <2>1, <2>2 DEF Visited
<1> QED
  BY <1>1, Invariance, PTL

(* Without a counter of elements, the capacity less the sizes of the free  *)
(* lists of all threads is the number of elements, for any number of       *)
(* threads: the lists are disjoint and hold the rest of the blocks.        *)
THEOREM ExactContent == Spec => []ContentIsExact
<1>1. Inv => (Quiescent => Size = Cardinality(live))
  <2> SUFFICES ASSUME Inv, Quiescent PROVE Size = Cardinality(live)
    OBVIOUS
  <2>1. IsFiniteSet(Threads)
    BY ConstantsAssumption
  <2>2. PICK l, C : l = [t \in Threads |-> Listed(t)] /\ C = 1..capacity
    OBVIOUS
  <2>3. ASSUME NEW t \in Threads
        PROVE  /\ Owned(t) = Listed(t) /\ IsFiniteSet(l[t])
               /\ size[t] = Cardinality(l[t])
    <3>1. pc[t] = "idle" /\ CallInv(t) /\ SizeInv(t)
      BY DEF Inv, Quiescent
    <3>2. fresh[t] = <<>> /\ InHand(t) = {}
      BY <3>1 DEF CallInv, InHand, HandLabels
    <3>3. Range(fresh[t]) = {}
      BY <3>2 DEF Range
    <3>4. Owned(t) = Listed(t)
      BY <3>2, <3>3 DEF Owned
    <3>5. free[t] \in Seq(C) /\ IsInjective(free[t])
      BY <2>2 DEF Inv, TypeOK, ListsOK, SlotsInOnePlace
    <3>6. IsFiniteSet(Range(free[t])) /\ Cardinality(Range(free[t])) = Len(free[t])
      BY <3>5, ListLength
    <3>7. Len(free[t]) \in Nat
      BY <3>5, LenProperties
    <3>8. size[t] = Len(free[t])
      BY <3>1, <3>7 DEF SizeInv
    <3>9. l[t] = Range(free[t])
      BY <2>2 DEF Listed
    <3>. QED BY <3>4, <3>6, <3>8, <3>9
  <2>4. Apart(l, Threads)
    <3>1. ASSUME NEW t \in Threads, NEW u \in Threads, t # u PROVE l[t] \cap l[u] = {}
      BY <2>2, <2>3, <3>1 DEF Inv, SlotsInOnePlace
    <3>. QED BY <3>1 DEF Apart
  <2>5. AllFinite(l, Threads)
    BY <2>3 DEF AllFinite
  <2>6. DOMAIN size = Threads /\ \A t \in Threads : size[t] = Cardinality(l[t])
    BY <2>3 DEF Inv, TypeOK, ListsOK
  <2>7. PICK F : F = Joint(l, Threads)
    OBVIOUS
  <2>8. FoldFunction(LAMBDA x, y : x + y, 0, size) = Cardinality(F)
    BY <2>1, <2>4, <2>5, <2>6, <2>7, SizesAddUp
  <2>9. F = UNION {Owned(t) : t \in Threads}
    <3>1. \A t \in Threads : l[t] = Owned(t)
      BY <2>2, <2>3
    <3>. QED BY <2>7, <3>1 DEF Joint
  <2>10. C = live \cup F /\ live \cap F = {}
    BY <2>2, <2>9 DEF Inv, SlotsInOnePlace
  <2>11. capacity \in Nat
    BY ConstantsAssumption DEF Inv, TypeOK, BlocksOK
  <2>12. IsFiniteSet(C) /\ Cardinality(C) = capacity
    BY <2>2, <2>11, FS_Interval
  <2>13. IsFiniteSet(live) /\ IsFiniteSet(F)
    <3>1. live \in SUBSET C /\ F \in SUBSET C
      BY <2>10
    <3>. QED BY <2>12, <3>1, FS_Subset
  <2>14. Cardinality(live) \in Nat /\ Cardinality(F) \in Nat
    BY <2>13, FS_CardinalityType
  <2>15. Cardinality(C) = Cardinality(live) + Cardinality(F)
    <3>1. Cardinality(live \cup F)
            = Cardinality(live) + Cardinality(F) - Cardinality(live \cap F)
      BY <2>13, FS_Union
    <3>2. Cardinality(live \cap F) = 0
      BY <2>10, FS_EmptySet
    <3>. QED BY <2>10, <2>14, <3>1, <3>2
  <2>16. PICK n : n = FoldFunction(LAMBDA x, y : x + y, 0, size)
    OBVIOUS
  <2>17. Size = capacity - n
    BY <2>16, Zenon DEF Size
  <2>18. n = Cardinality(F)
    BY <2>8, <2>16, Zenon
  <2>19. PICK a, b, c, d : /\ a = Cardinality(live) /\ b = Cardinality(F)
                           /\ c = capacity /\ d = Size
    OBVIOUS
  <2>20. a \in Nat /\ b \in Nat /\ c = a + b
    BY <2>12, <2>14, <2>15, <2>19
  <2>21. d = c - b
    BY <2>17, <2>18, <2>19
  <2>22. d = a
    BY <2>20, <2>21
  <2>. QED BY <2>19, <2>22
<1>2. IterationIsExact /\ (Quiescent => Size = Cardinality(live)) => ContentIsExact
  BY DEF ContentIsExact
<1>. QED BY <1>1, <1>2, ExactIteration, Invariance, PTL

(* No two elements have the same time stamp, so Time_stamper::less is a    *)
(* strict order, with recycled slots and copied triangulations too.        *)
THEOREM UniqueStamps == Spec => []StampsAreUnique
<1>1. Inv => StampsAreUnique
  <2> SUFFICES ASSUME Inv PROVE StampsAreUnique
    OBVIOUS
  <2>1. live \subseteq Slots
    BY Places DEF Inv, TypeOK, ClientsOK
  <2> QED
    BY <2>1 DEF Inv, StampInv, StampsAreUnique
<1> QED
  BY <1>1, Invariance, PTL

(* A safe handle is a zombie exactly when its element was erased, except   *)
(* while the slot is being constructed again.                              *)
THEOREM SettledHandles == Spec => []SettledHandlesAreExact
<1>1. Inv => SettledHandlesAreExact
  BY DEF Inv, TypeOK, ClientsOK, Handle, CounterInv, HandleInv, SettledHandlesAreExact, IsZombie
<1> QED
  BY <1>1, Invariance, PTL

(* What the container shows of its elements: their places and stamps. *)
Elements == [s \in live |-> stamp[s]]

(* The container starts as an empty pool. *)
LEMMA PoolInit == Init => Pool!Init
  BY DEF Init, Pool!Init

(* Every step of a thread inserts an element at a free place with a fresh  *)
(* stamp, erases one, or leaves the pool as it is.                         *)
LEMMA PoolStep ==
  ASSUME Inv, Inv', NEW t \in Threads, Insertion(t) \/ Erasure(t)
  PROVE  Pool!Insert \/ Pool!Erase \/ Elements' = Elements
<1>0. /\ \A s \in live : s \in Slots /\ stamp'[s] = stamp[s]
      /\ Owned(t) \subseteq Slots /\ Owned(t) \cap live = {}
  BY Writes, Places DEF Inv, SlotsInOnePlace, TypeOK, ClientsOK
<1>1. CASE live' = live
  <2>1. Elements' = Elements
    BY <1>0, <1>1 DEF Elements
  <2> QED
    BY <2>1
<1>2. ASSUME NEW s \in Owned(t), live' = live \cup {s}
      PROVE  Pool!Insert
  <2>1. s \in Slots /\ s \notin live
    BY <1>0
  <2>2. stamp'[s] \in Nat /\ \A r \in live : stamp'[s] # stamp'[r]
    BY <1>0, <1>2, <2>1 DEF Inv, StampInv, TypeOK, MemoryOK
  <2>3. /\ DOMAIN [r \in live |-> stamp[r]] = live
        /\ DOMAIN [r \in live' |-> stamp'[r]] = live \cup {s}
        /\ [r \in live' |-> stamp'[r]][s] = stamp'[s]
        /\ \A r \in live : [q \in live' |-> stamp'[q]][r] = stamp[r] /\ stamp[r] = stamp'[r]
    BY <1>0, <1>2
  <2> QED
    BY <2>1, <2>2, <2>3 DEF Pool!Insert
<1>3. ASSUME NEW s \in live, live' = live \ {s}
      PROVE  Pool!Erase
  <2>1. DOMAIN [r \in live |-> stamp[r]] = live
    OBVIOUS
  <2>2. [r \in live' |-> stamp'[r]] = [r \in live \ {s} |-> [q \in live |-> stamp[q]][r]]
    BY <1>0, <1>3
  <2> QED
    BY <2>1, <2>2 DEF Pool!Erase
<1> QED
  BY <1>1, <1>2, <1>3, OwnedStep

(* The container implements the pool of elements: insertions and erasures  *)
(* of any threads look like one after the other, each at the step where    *)
(* the element is handed out or taken back.                                *)
THEOREM Refinement == Spec => ImplementsPool
<1>1. Inv /\ Inv' /\ [Next]_vars => [Pool!Next]_([s \in live |-> stamp[s]])
  <2> SUFFICES ASSUME Inv, Inv', [Next]_vars
               PROVE  Pool!Next \/ Elements' = Elements
    BY DEF Elements
  <2>1. CASE UNCHANGED vars
    BY <2>1 DEF vars, memory, clients, Elements
  <2>2. CASE Clear
    BY <2>2 DEF Clear, Pool!Next, Pool!Clear
  <2>3. CASE MakeHandle
    BY <2>3 DEF MakeHandle, memory, Elements
  <2> QED
    BY <2>1, <2>2, <2>3, PoolStep DEF Next, Pool!Next
<1> QED
  BY <1>1, PoolInit, Invariance, PTL DEF Spec, ImplementsPool, Pool!Spec
===============================================================================
