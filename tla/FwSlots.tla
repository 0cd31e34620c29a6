------------------------------ MODULE FwSlots ------------------------------
(***************************************************************************)
(* What a software update promises, without saying how it is done: the     *)
(* device runs from one slot and never touches it; the contents of the     *)
(* other change in any way at all; that slot may be selected in one        *)
(* indivisible step, and then it is complete; the device comes to run from *)
(* the selected slot if, when it starts, that slot is complete.            *)
(***************************************************************************)
CONSTANTS Slots,        \* the firmware slots
          Contents,     \* what a slot may hold
          Complete(_)   \* whether it is a complete image

VARIABLES running, selected, images

vars == <<running, selected, images>>

Init ==
  /\ running \in Slots
  /\ selected \in Slots
  /\ images \in [Slots -> Contents]
  /\ Complete(images[running])

Receive ==
  /\ images' \in [Slots -> Contents]
  /\ images'[running] = images[running]
  /\ UNCHANGED <<running, selected>>

Select ==
  /\ selected' \in Slots \ {running}
  /\ Complete(images[selected'])
  /\ UNCHANGED <<running, images>>

Start ==
  /\ Complete(images[selected])
  /\ running' = selected
  /\ UNCHANGED <<selected, images>>

Next == Receive \/ Select \/ Start

Spec == Init /\ [][Next]_vars

=============================================================================
