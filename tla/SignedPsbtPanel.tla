--------------------------- MODULE SignedPsbtPanel ---------------------------
(***************************************************************************)
(* A signed PSBT on its way to Bitcoin Core: the panel of the web page     *)
(* that takes it, has it verified and asks for a broadcast                 *)
(* (VerifyPsbtPanel in phase-one-auth.tsx), the two routes behind it       *)
(* (psbt/verify.ts, broadcast/routes.ts) and the RPC (broadcast/index.ts,  *)
(* core-rpc.ts).  Every request is answered in its own time, the user goes *)
(* on typing and scanning meanwhile, and Core may have accepted what the   *)
(* server gave up on.                                                      *)
(***************************************************************************)
EXTENDS MultipartPsbt, FiniteSets

CONSTANTS
  ValidPsbts,    \* the texts that verify as valid, signed and extractable
  MaxVerifying,  \* bound: verifications of different texts that may be in flight
  Broadcasts     \* broadcasts that may be in flight

VARIABLES
  text,        \* psbtInput
  shown,       \* verifyResult: the text it is of, and whether it is valid
  status,      \* verifyStatus
  confirmed,   \* the box is ticked and BROADCAST typed: the text whose result was on
               \* the page then, none while they are not
  sending,     \* broadcastLoading
  outcome,     \* broadcastResult, broadcastMessage: of which text, and what it says
  verifying,   \* the texts of the verifications in flight
  requests,    \* broadcasts: the text, how far it is, whether the page still listens
  mempool,     \* texts Core has accepted
  unseen,      \* history: Core was sent a text other than the one confirmed
  crossed      \* history: the text changed while a request was in flight

serverVars    == <<requests, mempool>>
confirmVars   == <<confirmed, sending, outcome>>
vars == <<text, multipartVars, shown, status, confirmVars, verifying, serverVars, unseen, crossed>>

Empty == <<>>
Texts == {Empty} \cup UNION {[1..Total[p] -> Psbts] : p \in Psbts}

\* What is typed, pasted or in a file: a whole PSBT, or nothing yet.
Written == {Empty} \cup {Whole(p) : p \in Psbts}

NoResult  == [of |-> Empty, valid |-> FALSE]
NoOutcome == [of |-> Empty, says |-> "nothing"]
NoRequest == [of |-> Empty, at |-> "free", heard |-> FALSE]
Answers   == {"accepted", "failed"}

TypeOK ==
  /\ text \in Texts
  /\ MultipartTypeOK
  /\ shown \in [of: Texts, valid: BOOLEAN]
  /\ status \in {"idle", "loading", "done", "error"}
  /\ confirmed \in Texts
  /\ sending \in BOOLEAN
  /\ outcome \in [of: Texts, says: {"nothing"} \cup Answers]
  /\ verifying \subseteq Texts
  /\ requests \in [Broadcasts -> [of: Texts, at: Answers \cup {"free", "server", "core"}, heard: BOOLEAN]]
  /\ mempool \subseteq Texts
  /\ unseen \in BOOLEAN
  /\ crossed \in BOOLEAN

Init ==
  /\ text = Empty
  /\ MultipartInit
  /\ shown = NoResult
  /\ status = "idle"
  /\ confirmed = Empty
  /\ sending = FALSE
  /\ outcome = NoOutcome
  /\ verifying = {}
  /\ requests = [b \in Broadcasts |-> NoRequest]
  /\ mempool = {}
  /\ unseen = FALSE
  /\ crossed = FALSE

InFlight ==
  \/ verifying # {}
  \/ \E b \in Broadcasts : requests[b].heard

-----------------------------------------------------------------------------
(* The text and its verification *)

\* Mutant: the last answer stays on the page.
ResetKeepingOutcome ==
  /\ confirmed' = Empty
  /\ sending' = FALSE
  /\ UNCHANGED outcome

\* resetBroadcastConfirmation: a broadcast in flight is not cancelled.
ResetConfirmation ==
  /\ confirmed' = Empty
  /\ sending' = FALSE
  /\ outcome' = NoOutcome

\* Another text in the box: what was verified before is taken away.
SetText(t) ==
  /\ text' = t
  /\ shown' = NoResult
  /\ ResetConfirmation
  /\ crossed' = (crossed \/ (InFlight /\ t # text))

\* verifySignedPsbt up to its await, for the text t.
StartVerifying(t) ==
  /\ status' = "loading"
  /\ shown' = NoResult
  /\ ResetConfirmation
  /\ verifying' = verifying \cup {t}
  /\ Cardinality(verifying') <= MaxVerifying

\* Mutant: typing sets the text and nothing else.
TypeKeepingResult(t) ==
  /\ t # text
  /\ text' = t
  /\ crossed' = (crossed \/ InFlight)
  /\ UNCHANGED <<multipartVars, shown, status, confirmVars, verifying, serverVars, unseen>>

\* setSignedPsbtDraft: the box is open for typing at any time.
Type(t) ==
  /\ t # text
  /\ SetText(t)
  /\ status' = "idle"
  /\ UNCHANGED <<multipartVars, verifying, serverVars, unseen>>

\* importSignedPsbtFile, setSignedPsbtInput
LoadFile(t) ==
  /\ SetText(t)
  /\ status' = "idle"
  /\ Clear
  /\ UNCHANGED <<verifying, serverVars, unseen>>

\* A file that is too large or cannot be read, or an empty box to verify: only
\* the error is shown, and a verification in flight goes on.
NothingToVerify ==
  /\ status' = "error"
  /\ UNCHANGED <<text, multipartVars, shown, confirmVars, verifying, serverVars, unseen, crossed>>

\* The scanner's callback on a single QR: the text is set and verified,
\* whether or not a verification is in flight.
ScanWhole(p) ==
  /\ text' = Whole(p)
  /\ Clear
  /\ StartVerifying(Whole(p))
  /\ crossed' = (crossed \/ (InFlight /\ text # Whole(p)))
  /\ UNCHANGED <<serverVars, unseen>>

\* captureMultipartFrame, from the scanner or from a frame pasted and
\* verified: a frame that is refused leaves the text and is reported, one that
\* does not complete its set empties the text, the last one sets it and has
\* it verified.
CaptureFrame(f) ==
  /\ Capture(f)
  /\ \/ /\ Mismatch(f) \/ Conflict(f)
        /\ shown' = NoResult
        /\ ResetConfirmation
        /\ status' = "error"
        /\ UNCHANGED <<text, verifying, crossed>>
     \/ /\ ~(Mismatch(f) \/ Conflict(f))
        /\ ~Complete'
        /\ SetText(Empty)
        /\ status' = "idle"
        /\ UNCHANGED verifying
     \/ /\ ~(Mismatch(f) \/ Conflict(f))
        /\ Complete'
        /\ text' = Assembled'
        /\ StartVerifying(Assembled')
        /\ crossed' = (crossed \/ (InFlight /\ text' # text))
  /\ UNCHANGED <<serverVars, unseen>>

\* clearMultipartFrames, from its button
ClearFrames ==
  /\ Clear
  /\ UNCHANGED <<text, shown, status, confirmVars, verifying, serverVars, unseen, crossed>>

\* handleVerify: the button is disabled while the panel says it is loading,
\* which it stops saying as soon as something is typed.
Verify ==
  /\ status # "loading"
  /\ text # Empty
  /\ Clear
  /\ StartVerifying(text)
  /\ UNCHANGED <<text, serverVars, unseen, crossed>>

\* The answer to a verification, whatever the box holds by then.
VerifyAnswered(t) ==
  /\ t \in verifying
  /\ shown' = [of |-> t, valid |-> t \in ValidPsbts]
  /\ status' = "done"
  /\ verifying' = verifying \ {t}
  /\ UNCHANGED <<text, multipartVars, confirmVars, serverVars, unseen, crossed>>

\* It fails: no PSBT, vault locked, session over, or no connection.
VerifyFailed(t) ==
  /\ t \in verifying
  /\ status' = "error"
  /\ verifying' = verifying \ {t}
  /\ UNCHANGED <<text, multipartVars, shown, confirmVars, serverVars, unseen, crossed>>

\* The dialog is closed: the panel is unmounted and its requests are on their own.
CloseDialog ==
  /\ text' = Empty
  /\ Clear
  /\ shown' = NoResult
  /\ status' = "idle"
  /\ ResetConfirmation
  /\ verifying' = {}
  /\ requests' = [b \in Broadcasts |-> [requests[b] EXCEPT !.heard = FALSE]]
  /\ UNCHANGED <<mempool, unseen, crossed>>

-----------------------------------------------------------------------------
(* The broadcast *)

\* The result is on the page, valid, with the controls of the broadcast.
ReadyToBroadcast == status = "done" /\ shown.valid

\* The box "I verified the recipient, amount, change output, and fee." and BROADCAST.
Confirm ==
  /\ ReadyToBroadcast
  /\ confirmed' = shown.of
  /\ UNCHANGED <<text, multipartVars, shown, status, sending, outcome, verifying, serverVars, unseen, crossed>>

\* handleBroadcast sends what the box holds.
Broadcast(b) ==
  /\ ReadyToBroadcast
  /\ confirmed # Empty
  /\ ~sending
  /\ requests[b].at = "free"
  /\ requests' = [requests EXCEPT ![b] = [of |-> text, at |-> "server", heard |-> TRUE]]
  /\ sending' = TRUE
  /\ outcome' = NoOutcome
  /\ unseen' = (unseen \/ text # confirmed)
  /\ UNCHANGED <<text, multipartVars, shown, status, confirmed, verifying, mempool, crossed>>

\* Request b goes from one station to the next.
Moves(b, from, to) ==
  /\ requests[b].at = from
  /\ requests' = [requests EXCEPT ![b].at = to]
  /\ UNCHANGED <<text, multipartVars, shown, status, confirmVars, verifying, unseen, crossed>>

\* Mutant: the route trusts the page's verification.
ServerTrusts(b) ==
  /\ Moves(b, "server", "core")
  /\ UNCHANGED mempool

\* POST psbt/broadcast verifies the text itself and passes on a valid one.
ServerVerifies(b) ==
  /\ Moves(b, "server", IF requests[b].of \in ValidPsbts THEN "core" ELSE "failed")
  /\ UNCHANGED mempool

\* It stops before Core: an expected value differs, no session, vault locked,
\* backend disabled or not configured.
ServerRefuses(b) ==
  /\ Moves(b, "server", "failed")
  /\ UNCHANGED mempool

\* sendrawtransaction reaches Core, which takes the transaction or has it
\* already.  The server may still fail to read so: no connection, an HTTP
\* error, a body that ends early (read as null), code -27.
CoreTakes(b, told) ==
  /\ Moves(b, "core", told)
  /\ mempool' = mempool \cup {requests[b].of}

CoreDeclines(b) ==
  /\ Moves(b, "core", "failed")
  /\ UNCHANGED mempool

\* Mutant: no AbortController, the request waits for as long as Core takes.
NeverTimesOut(b) ==
  /\ FALSE
  /\ UNCHANGED vars

\* The timer of callCoreRpc aborts the request.  Core may have it by then: when
\* it takes the transaction nobody who waits sees.
TimesOut(b) ==
  /\ Moves(b, "core", "failed")
  /\ mempool' \in {mempool, mempool \cup {requests[b].of}}

\* The answer reaches the page: broadcastResult or broadcastMessage, and the
\* button is free again.
BroadcastAnswered(b) ==
  /\ requests[b].at \in Answers
  /\ requests' = [requests EXCEPT ![b] = NoRequest]
  /\ IF requests[b].heard
     THEN /\ outcome' = [of |-> requests[b].of, says |-> requests[b].at]
          /\ sending' = FALSE
     ELSE UNCHANGED <<outcome, sending>>
  /\ UNCHANGED <<text, multipartVars, shown, status, confirmed, verifying, mempool, unseen, crossed>>

\* The connection to the server is lost, and the server goes on.
ConnectionLost(b) ==
  /\ requests[b].heard
  /\ requests' = [requests EXCEPT ![b].heard = FALSE]
  /\ outcome' = [of |-> requests[b].of, says |-> "failed"]
  /\ sending' = FALSE
  /\ UNCHANGED <<text, multipartVars, shown, status, confirmed, verifying, mempool, unseen, crossed>>

\* "Close" under the answer.
Dismiss ==
  /\ outcome.says = "accepted"
  /\ outcome' = NoOutcome
  /\ UNCHANGED <<text, multipartVars, shown, status, confirmed, sending, verifying, serverVars, unseen, crossed>>

-----------------------------------------------------------------------------

UserNext ==
  \/ \E t \in Written : Type(t) \/ LoadFile(t)
  \/ \E p \in Psbts : ScanWhole(p)
  \/ \E f \in Frame : CaptureFrame(f)
  \/ NothingToVerify \/ ClearFrames \/ Verify \/ CloseDialog \/ Confirm \/ Dismiss
  \/ \E b \in Broadcasts : Broadcast(b)

ServerNext ==
  \/ \E t \in Texts : VerifyAnswered(t) \/ VerifyFailed(t)
  \/ \E b \in Broadcasts :
       \/ ServerVerifies(b) \/ ServerRefuses(b) \/ TimesOut(b)
       \/ BroadcastAnswered(b) \/ ConnectionLost(b)
       \/ CoreDeclines(b) \/ \E told \in Answers : CoreTakes(b, told)

Next == UserNext \/ ServerNext

\* The server works on what it was sent, its timer fires, and its answers
\* arrive or the connection is lost.
Fairness ==
  \A b \in Broadcasts :
    /\ WF_vars(ServerVerifies(b))
    /\ WF_vars(TimesOut(b))
    /\ WF_vars(BroadcastAnswered(b))

Spec == Init /\ [][Next]_vars /\ Fairness

-----------------------------------------------------------------------------

\* "Broadcasting sends this verified signed transaction", says the page above
\* the button (phase-one-auth.tsx): what the page sends is the text
\* whose verification it showed when the user confirmed.
SendsWhatWasVerified == ~unseen

\* It does, if the text never changes while a request is in flight: a late
\* answer then is of the text in the box (setVerifyResult, handleBroadcast).
SendsWhatWasVerifiedUnlessCrossed == crossed \/ SendsWhatWasVerified

\* Whatever the page shows and sends, and however often, no text reaches Core
\* that the route has not found valid itself (broadcast/routes.ts).
OnlyValidReachesCore == mempool \subseteq ValidPsbts

\* What the page says of a broadcast is so: what it says was accepted is in
\* the mempool, and, unless crossed, is the text in the box
\* (resetBroadcastConfirmation, handleBroadcast).
OutcomeIsTrue ==
  /\ outcome.says = "accepted" => outcome.of \in mempool
  /\ outcome # NoOutcome /\ ~crossed => outcome.of = text

\* The button does not stay on "Broadcasting..." (callCoreRpc, handleBroadcast).
BroadcastEnds == sending ~> ~sending
=============================================================================
