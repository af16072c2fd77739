------------------------ MODULE MCNotificationPartition ------------------------
(***************************************************************************)
(* Small instances of the notification partition for TLC.                  *)
(***************************************************************************)
EXTENDS NotificationPartition, TLC

Symmetry == Permutations(Job) \cup Permutations(Worker)
=============================================================================
