-------------------------- MODULE MCSignedPsbtPanel --------------------------
(***************************************************************************)
(* A and B are PSBTs of two frames, C of one.  A is valid; B is valid too, *)
(* or verifies with warnings; C and the mixtures are not valid.            *)
(***************************************************************************)
EXTENDS SignedPsbtPanel

CONSTANTS A, B, C

Sizes == [p \in {A, B, C} |-> IF p = C THEN 1 ELSE 2]
OneValid == {<<A, A>>}
TwoValid == {<<A, A>>, <<B, B>>}
=============================================================================
