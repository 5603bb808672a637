----------------------------- MODULE MCSyncPal -----------------------------
(***************************************************************************)
(* The synchronization loop on small instances: the configurations choose  *)
(* the failures of the workers, the sides that change, and the bounds.     *)
(***************************************************************************)
EXTENDS SyncPal
=============================================================================
