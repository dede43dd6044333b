------------------------------ MODULE MCDevice ------------------------------
(* Device on small sets of model values. *)
EXTENDS Device, TLC

Symmetry == Permutations(Keys) \cup Permutations(Requests) \cup Permutations(Contacts)

\* States that differ in the audit log only count as one.  No property reads it,
\* and all it does is to keep a unit from being deleted, which the resident whose
\* row it records does as well: a unit has audit rows only if it has residents.
WithoutAudit == <<clock, units, residents, tokens, pc, local, deviceVars, rotationVars>>
=============================================================================
