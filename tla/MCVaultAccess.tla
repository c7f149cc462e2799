---------------------------- MODULE MCVaultAccess ----------------------------
(* Two requests in flight, one session, two failures to a lock, and an     *)
(* auto-lock after one minute.                                             *)
EXTENDS VaultAccess
=============================================================================
