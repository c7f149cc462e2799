--------------------------- MODULE MCAttemptLimiter --------------------------
(* Three requests at once against a limit of three failures.               *)
EXTENDS AttemptLimiter
=============================================================================
