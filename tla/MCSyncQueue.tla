---------------------------- MODULE MCSyncQueue -----------------------------
(* Instances of SyncQueue for TLC; the cfg files give the constants. *)
EXTENDS SyncQueue
=============================================================================
