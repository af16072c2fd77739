------------------------------ MODULE ByteSums ------------------------------
(***************************************************************************)
(* The size in bytes of a set of uploads, defined as the cardinality of a  *)
(* set of (upload, byte) pairs: the sums the ledger's SQL computes with    *)
(* sum(expected_size_bytes) and sum(original_size_bytes), in a form the    *)
(* theorems on finite sets apply to.                                       *)
(***************************************************************************)
EXTENDS Integers, FiniteSets

CONSTANT MaxUploadBytes  \* largest admitted upload (AdmitsUploadSize)

\* b gives the size of each upload; S is the set of uploads summed.
Units(b, S) == {p \in S \X (1..MaxUploadBytes) : p[2] <= b[p[1]]}
Bytes(b, S) == Cardinality(Units(b, S))
=============================================================================
