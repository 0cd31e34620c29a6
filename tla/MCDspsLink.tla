----------------------------- MODULE MCDspsLink -----------------------------
(***************************************************************************)
(* What the users and the link do in the runs of DspsLink.                 *)
(***************************************************************************)
EXTENDS DspsLink

Calm(talk, ends) == [talk |-> talk, ends |-> ends, fails |-> 0, losses |-> 0]

OneTalks  == {Calm({s}, K) : s \in Sides}
BothTalk  == {Calm(Sides, K)}
Troubles  == {Calm(Sides, 2),
              [talk |-> {"C"}, ends |-> K - 1, fails |-> 0, losses |-> 1],
              [talk |-> {"P"}, ends |-> 2, fails |-> 1, losses |-> 1]}

=============================================================================
