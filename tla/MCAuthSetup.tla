----------------------------- MODULE MCAuthSetup -----------------------------
(* Two requests at once, two users who may both try to set up, and three   *)
(* secrets, so that a setup can be tried again after a failed one.         *)
EXTENDS AuthSetup, TLC

\* Requests, users, secrets and inodes are interchangeable.
SetupSymmetry ==
  Permutations(Requests) \cup Permutations(Users) \cup Permutations(Secrets) \cup Permutations(Inodes)
=============================================================================
