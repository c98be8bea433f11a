---------------------------- MODULE MCCodexToken ----------------------------
(* CodexToken on a small instance. *)
EXTENDS CodexToken
=============================================================================
