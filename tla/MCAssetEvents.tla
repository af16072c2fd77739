--------------------------- MODULE MCAssetEvents ---------------------------
(***************************************************************************)
(* Small instances of the asset events for TLC.                            *)
(***************************************************************************)
EXTENDS AssetEvents
=============================================================================
