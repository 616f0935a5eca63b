------------------------------ MODULE RootSlots ------------------------------
(***************************************************************************)
(* The root-reference table: blocks of slots that hold object references,  *)
(* flattened into one sequence.  Blocks are linked newest first, so the    *)
(* first BlockSize entries of the sequence belong to the newest block, and *)
(* a position counted from the END of the sequence never moves.            *)
(*                                                                         *)
(* The operators are the sequential meaning of                             *)
(* il2c_register_root_reference__ and il2c_unregister_root_reference__.    *)
(***************************************************************************)
EXTENDS Naturals, Sequences

\* IL2C_ROOT_REFERENCES.pReferences has three slots.
BlockSize == 3

Assigned(slots, ref) == \E i \in 1 .. Len(slots) : slots[i] = ref

\* i is the first slot, in traversal order, that holds ref.
IsFirst(slots, ref, i) ==
  /\ i \in 1 .. Len(slots)
  /\ slots[i] = ref
  /\ \A j \in 1 .. (i - 1) : slots[j] # ref

FirstSlot(slots, ref) == CHOOSE i \in 1 .. Len(slots) : IsFirst(slots, ref, i)

\* A fresh block: the reference in slot 0, the others zeroed.
NewBlock(ref, null) == [i \in 1 .. BlockSize |-> IF i = 1 THEN ref ELSE null]

\* Nothing is added when the reference is there already; the first free slot
\* is taken otherwise; without one a new block is pushed in front.
Register(slots, ref, null) ==
  IF Assigned(slots, ref)
  THEN slots
  ELSE IF Assigned(slots, null)
       THEN [slots EXCEPT ![FirstSlot(slots, null)] = ref]
       ELSE NewBlock(ref, null) \o slots

\* Only the first occurrence is cleared.
Unregister(slots, ref, null) ==
  IF Assigned(slots, ref)
  THEN [slots EXCEPT ![FirstSlot(slots, ref)] = null]
  ELSE slots

=============================================================================
