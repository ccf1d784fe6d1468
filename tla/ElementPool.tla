------------------------------ MODULE ElementPool ------------------------------
(***************************************************************************)
(* What a compact container promises to the data structures built on it:  *)
(* a pool of elements at stable places.  A new element gets a place where  *)
(* no other element lives and a time stamp no other element has; erasing   *)
(* or clearing touches nothing else, and an element keeps its stamp.       *)
(***************************************************************************)
EXTENDS Naturals

CONSTANT Slots

VARIABLE elements   \* the stamp of every element, by its place

Init == elements = [s \in {} |-> 0]

Insert ==
  \E s \in Slots \ DOMAIN elements :
    /\ DOMAIN elements' = DOMAIN elements \cup {s}
    /\ elements'[s] \in Nat
    /\ \A r \in DOMAIN elements :
         elements'[r] = elements[r] /\ elements'[s] # elements[r]

Erase ==
  \E s \in DOMAIN elements :
    elements' = [r \in DOMAIN elements \ {s} |-> elements[r]]

Clear == elements' = [s \in {} |-> 0]

Next == Insert \/ Erase \/ Clear

Spec == Init /\ [][Next]_elements
===============================================================================
