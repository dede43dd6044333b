------------------------------ MODULE MCBackend ------------------------------
(* Backend on small sets of model values. *)
EXTENDS Backend, TLC

\* Ids and keys are interchangeable, and so are request slots.
Symmetry == Permutations(Units) \cup Permutations(Residents) \cup Permutations(Keys) \cup Permutations(Requests)
            \cup Permutations(Contacts)
=============================================================================
