------------------------------- MODULE MCGate -------------------------------
(* Gate on small sets of model values. *)
EXTENDS Gate, TLC

CONSTANT n1   \* a username

\* The registry's overlaps at the gate: one manager, who is already there.
OneManager == [c \in Checkers |-> [username |-> n1, role |-> "manager", is_active |-> TRUE]]

\* Accounts from the start.
NoChecker == [c \in Checkers |-> NULL]

Symmetry ==
    Permutations(Keys) \cup Permutations(Requests) \cup Permutations(Checkers)
    \cup Permutations(Desks) \cup Permutations(Calls)
=============================================================================
