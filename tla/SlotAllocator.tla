---------------------------- MODULE SlotAllocator ----------------------------
(***************************************************************************)
(* What VM/Ft_MemPool.c promises its callers, without its data structures: *)
(* an allocator of numbered slots.  A handle is a variable of the program  *)
(* that can hold one pool object.  An allocation gives the handle the      *)
(* lowest slot no other handle holds, so two handles never share a slot    *)
(* and the pool never holds more slots than were in use at its peak.       *)
(***************************************************************************)
EXTENDS Naturals

CONSTANTS
  Handles,   \* the program variables that can hold a pool object
  NoSlot,    \* the handle holds nothing
  Slots      \* the slot numbers that can be handed out

VARIABLE idxOf   \* the slot index each handle holds, or NoSlot

Held == { idxOf[h] : h \in Handles } \ {NoSlot}

Init == idxOf = [h \in Handles |-> NoSlot]

Alloc(h) ==
  /\ idxOf[h] = NoSlot
  /\ \E i \in Slots :
       /\ i \notin Held
       /\ \A j \in 0 .. i - 1 : j \in Held
       /\ idxOf' = [idxOf EXCEPT ![h] = i]

Free(h) ==
  /\ idxOf[h] # NoSlot
  /\ idxOf' = [idxOf EXCEPT ![h] = NoSlot]

Next == \E h \in Handles : Alloc(h) \/ Free(h)

Spec == Init /\ [][Next]_idxOf
==============================================================================
