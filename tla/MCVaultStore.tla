----------------------------- MODULE MCVaultStore ----------------------------
(* One wallet, two current forms and an old one: enough for an edit to be  *)
(* lost, for an old record to be upgraded and for a text to be shorter     *)
(* than the one it replaces.                                               *)
EXTENDS VaultStore, TLC

CONSTANTS old, new1, new2

MCNormal == old :> new1 @@ new1 :> new1 @@ new2 :> new2

\* Requests, passwords and inodes are interchangeable.
StoreSymmetry == Permutations(Requests) \cup Permutations(Passwords) \cup Permutations(Inodes)
=============================================================================
