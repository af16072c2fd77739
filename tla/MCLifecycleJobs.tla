-------------------------- MODULE MCLifecycleJobs --------------------------
EXTENDS LifecycleJobs, TLC

CONSTANTS p, q, f, a, b

\* Root folders p and q, folder f in p; item a in f, item b in p.
Tree == [x \in Nodes |-> CASE x = f -> p [] x = a -> f [] x = b -> p [] OTHER -> None]

Symmetry == Permutations(Units) \cup Permutations(Workers)
=============================================================================
