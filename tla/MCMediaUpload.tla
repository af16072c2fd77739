--------------------------- MODULE MCMediaUpload ---------------------------
(* Model values and symmetry for checking MediaUpload with TLC. *)
EXTENDS MediaUpload, TLC

Symmetry == Permutations(Uploads) \cup Permutations(Sweepers)
            \cup Permutations(Assets) \cup Permutations(Clients)
=============================================================================
