---------------------------- MODULE MCLockedRuns ----------------------------
(* LockedRuns on a small instance. *)
EXTENDS LockedRuns
=============================================================================
