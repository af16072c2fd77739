----------------------------- MODULE MCMediaJob -----------------------------
(* Model values and symmetry for checking MediaJob with TLC. *)
EXTENDS MediaJob, TLC

Symmetry == Permutations(Workers) \cup Permutations(Kinds)
=============================================================================
