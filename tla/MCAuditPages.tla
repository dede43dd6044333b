---------------------------- MODULE MCAuditPages ----------------------------
(* AuditPages with interchangeable ids and actions. *)
EXTENDS AuditPages, TLC

Symmetry == Permutations(Ids) \cup Permutations(Actions)
=============================================================================
