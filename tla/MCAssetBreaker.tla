--------------------------- MODULE MCAssetBreaker ---------------------------
(***************************************************************************)
(* A small instance of the circuit breaker for TLC.                        *)
(***************************************************************************)
EXTENDS AssetBreaker
=============================================================================
