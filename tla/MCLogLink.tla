------------------------------ MODULE MCLogLink ------------------------------
(***************************************************************************)
(* What the link and the client do in the run of LogLink.                  *)
(***************************************************************************)
EXTENDS LogLink

Course(losses, refusals, writes, levels) ==
  [losses |-> losses, refusals |-> refusals, writes |-> writes, levels |-> levels]

Courses == {Course(0, 0, 1, 1), Course(1, 0, 3, 0), Course(1, 1, 2, 0)}

=============================================================================
