-------------------------- MODULE MCDecisionCache --------------------------
(***************************************************************************)
(* Small instances of the decision caches for TLC.                         *)
(***************************************************************************)
EXTENDS DecisionCache, TLC

Symmetry == Permutations(Request)
=============================================================================
