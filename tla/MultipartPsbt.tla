---------------------------- MODULE MultipartPsbt ----------------------------
(***************************************************************************)
(* The pNofM collector of psbt-multipart.ts: a signed PSBT comes back from *)
(* the cold wallet as numbered frames, shown over and over, captured in    *)
(* any order.  A frame says its number and how many there are, and nothing *)
(* says which PSBT it is of: the fragments of different PSBTs differ, and  *)
(* here a fragment is named by the PSBT it was cut from.                   *)
(***************************************************************************)
EXTENDS Naturals

CONSTANTS
  Psbts,      \* signed PSBTs whose frames may be in front of the camera
  MaxFrames,  \* the most frames a set may have, 100 in the code
  Total,      \* how many frames each is cut into
  Missing     \* frames[index] is undefined

ASSUME MultipartAssumption ==
  /\ MaxFrames \in Nat
  /\ Total \in [Psbts -> Nat \ {0}]
  /\ Missing \notin Psbts

VARIABLES
  total,     \* totalFrames, 0 for null
  frames     \* the fragment captured under each number

multipartVars == <<total, frames>>

Frame == {f \in [of: Psbts, index: 1..MaxFrames] : f.index <= Total[f.of]}

MultipartTypeOK ==
  /\ total \in 0..MaxFrames
  /\ frames \in [1..MaxFrames -> Psbts \cup {Missing}]

MultipartInit ==
  /\ total = 0
  /\ frames = [i \in 1..MaxFrames |-> Missing]

\* getMissingMultipartFrames
MissingFrames(n, captured) == {i \in 1..n : captured[i] = Missing}

\* Mutant: any frame will do.
Begun == total # 0

\* assembleMultipartPsbt: the PSBT each fragment is from, in order.
Complete == total # 0 /\ MissingFrames(total, frames) = {}
Assembled == [i \in 1..total |-> frames[i]]
Whole(p)  == [i \in 1..Total[p] |-> p]

\* parseMultipartPsbtFrame gives no frame of a set that is too large.
Readable(f) == Total[f.of] <= MaxFrames

Mismatch(f) == total # 0 /\ total # Total[f.of]
Conflict(f) == frames[f.index] \notin {Missing, f.of}

\* Mutant: a frame with other data replaces the one captured before.
CaptureReplacing(f) ==
  /\ Readable(f)
  /\ IF Mismatch(f)
     THEN UNCHANGED <<total, frames>>
     ELSE total' = Total[f.of] /\ frames' = [frames EXCEPT ![f.index] = f.of]

\* addMultipartPsbtFrame: a frame of a set of another size, or with other
\* data than one captured before, is refused and the state kept.
Capture(f) ==
  /\ Readable(f)
  /\ IF Mismatch(f) \/ Conflict(f)
     THEN UNCHANGED <<total, frames>>
     ELSE total' = Total[f.of] /\ frames' = [frames EXCEPT ![f.index] = f.of]

\* createMultipartPsbtState
Clear ==
  /\ total' = 0
  /\ frames' = [i \in 1..MaxFrames |-> Missing]

MultipartNext == Clear \/ \E f \in Frame : Capture(f)

MultipartSpec == MultipartInit /\ [][MultipartNext]_multipartVars

-----------------------------------------------------------------------------

\* A frame that was captured stays as it is until the collector is emptied,
\* whatever else the camera sees (addMultipartPsbtFrame).
CapturedStays ==
  [][total' # 0 => \A i \in 1..MaxFrames : frames[i] # Missing => frames'[i] = frames[i]]_multipartVars
=============================================================================
