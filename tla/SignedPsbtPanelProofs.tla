------------------------ MODULE SignedPsbtPanelProofs ------------------------
(***************************************************************************)
(* What holds of the signed PSBT's way to Core for any set of PSBTs and    *)
(* frames and any number of requests: the collector keeps its frames, no   *)
(* text reaches Core that the route has not found valid itself, what       *)
(* the page says of a broadcast is so and, unless the text changes while a *)
(* request is in flight, it sends what was confirmed.                      *)
(***************************************************************************)
EXTENDS SignedPsbtPanel, TLAPS

\* The collector's state is of its type after any frame and when it is emptied.
THEOREM CollectorType == MultipartSpec => []MultipartTypeOK
<1>1. MultipartInit => MultipartTypeOK
  BY MultipartAssumption DEF MultipartInit, MultipartTypeOK
<1>2. MultipartTypeOK /\ [MultipartNext]_multipartVars => MultipartTypeOK'
  <2> SUFFICES ASSUME MultipartTypeOK, [MultipartNext]_multipartVars
               PROVE  MultipartTypeOK'
    OBVIOUS
  <2>1. CASE Clear
    BY <2>1, MultipartAssumption DEF Clear, MultipartTypeOK
  <2>2. ASSUME NEW f \in Frame, Capture(f)
        PROVE  MultipartTypeOK'
    <3>1. CASE Mismatch(f) \/ Conflict(f)
      BY <2>2, <3>1 DEF Capture, MultipartTypeOK
    <3>2. CASE ~(Mismatch(f) \/ Conflict(f))
      <4>1. f.of \in Psbts /\ f.index \in 1..MaxFrames
        BY DEF Frame
      <4>2. Total[f.of] \in Nat /\ Total[f.of] <= MaxFrames
        BY <2>2, <4>1, MultipartAssumption DEF Capture, Readable
      <4>3. total' = Total[f.of] /\ frames' = [frames EXCEPT ![f.index] = f.of]
        BY <2>2, <3>2 DEF Capture
      <4> QED
        BY <4>1, <4>2, <4>3, MultipartAssumption DEF MultipartTypeOK
    <3> QED
      BY <3>1, <3>2
  <2>3. CASE UNCHANGED multipartVars
    BY <2>3 DEF multipartVars, MultipartTypeOK
  <2> QED
    BY <2>1, <2>2, <2>3 DEF MultipartNext
<1> QED
  BY <1>1, <1>2, PTL DEF MultipartSpec

\* A captured frame stays as it is until the collector is emptied: a frame
\* that conflicts with it is refused, and any other has another number or the
\* same data (addMultipartPsbtFrame).
THEOREM CollectorKeepsFrames == MultipartSpec => CapturedStays
<1> DEFINE Stays == total' # 0 => \A i \in 1..MaxFrames : frames[i] # Missing => frames'[i] = frames[i]
<1>1. MultipartTypeOK /\ [MultipartNext]_multipartVars => [Stays]_multipartVars
  <2> SUFFICES ASSUME MultipartTypeOK, MultipartNext
               PROVE  Stays
    OBVIOUS
  <2>1. CASE Clear
    BY <2>1 DEF Clear
  <2>2. ASSUME NEW f \in Frame, Capture(f)
        PROVE  Stays
    BY <2>2 DEF Capture, Conflict, MultipartTypeOK
  <2> QED
    BY <2>1, <2>2 DEF MultipartNext
<1> QED
  BY <1>1, CollectorType, PTL DEF MultipartSpec, CapturedStays

\* Whatever the panel does, typing, verifying, broadcasting or closing, it
\* empties its collector, captures a frame or leaves it alone.
THEOREM PanelCollects == Spec => MultipartSpec
<1>1. Init => MultipartInit
  BY DEF Init
<1>2. [Next]_vars => [MultipartNext]_multipartVars
  <2> SUFFICES ASSUME [Next]_vars
               PROVE  MultipartNext \/ UNCHANGED multipartVars
    OBVIOUS
  <2>1. CASE UNCHANGED vars
    BY <2>1 DEF vars, multipartVars
  <2>2. CASE UserNext
    <3>1. ASSUME NEW f \in Frame, CaptureFrame(f)
          PROVE  MultipartNext
      BY <3>1 DEF CaptureFrame, MultipartNext
    <3>2. UserNext => \/ Clear
                      \/ \E f \in Frame : CaptureFrame(f)
                      \/ UNCHANGED multipartVars
      BY DEF UserNext, Type, LoadFile, NothingToVerify, ScanWhole, ClearFrames, Verify,
             CloseDialog, Confirm, Broadcast, Dismiss
    <3> QED
      BY <2>2, <3>1, <3>2 DEF MultipartNext
  <2>3. CASE ServerNext
    BY <2>3 DEF ServerNext, VerifyAnswered, VerifyFailed, Moves, ServerVerifies, ServerRefuses,
                CoreTakes, CoreDeclines, TimesOut, BroadcastAnswered, ConnectionLost
  <2> QED
    BY <2>1, <2>2, <2>3 DEF Next
<1> QED
  BY <1>1, <1>2, PTL DEF Spec, MultipartSpec

\* So the panel keeps the frames it captured, too.
THEOREM PanelKeepsFrames == Spec => CapturedStays
BY PanelCollects, CollectorKeepsFrames, PTL

-----------------------------------------------------------------------------

\* What is on its way to Core was found valid by the route.
WayToCore ==
  /\ mempool \subseteq ValidPsbts
  /\ DOMAIN requests = Broadcasts
  /\ \A b \in Broadcasts :
       /\ DOMAIN requests[b] = {"of", "at", "heard"}
       /\ requests[b].at = "core" => requests[b].of \in ValidPsbts

\* A request that moves to another station than Core, and is of the same text,
\* leaves that of every other as it was.
LEMMA MovesOn ==
  ASSUME WayToCore, NEW b \in Broadcasts, NEW from, NEW to, Moves(b, from, to),
         to = "core" => requests[b].of \in ValidPsbts, mempool' \subseteq ValidPsbts
  PROVE  WayToCore'
<1>1. requests' = [requests EXCEPT ![b].at = to]
  BY DEF Moves
<1>2. DOMAIN requests' = Broadcasts
  BY <1>1 DEF WayToCore
<1>3. ASSUME NEW c \in Broadcasts
      PROVE  /\ DOMAIN requests'[c] = {"of", "at", "heard"}
             /\ requests'[c].at = "core" => requests'[c].of \in ValidPsbts
  <2>1. CASE c = b
    <3>1. requests'[b] = [requests[b] EXCEPT !.at = to]
      BY <1>1 DEF WayToCore
    <3>2. requests'[b].at = to /\ requests'[b].of = requests[b].of
      BY <3>1 DEF WayToCore
    <3> QED
      BY <2>1, <3>1, <3>2 DEF WayToCore
  <2>2. CASE c # b
    BY <1>1, <2>2 DEF WayToCore
  <2> QED
    BY <2>1, <2>2
<1> QED
  BY <1>2, <1>3 DEF WayToCore

\* A request that is started, answered or no longer heard is not at Core, or
\* is there with the text it had.
LEMMA Replaced ==
  ASSUME WayToCore, NEW b \in Broadcasts, NEW r,
         DOMAIN r = {"of", "at", "heard"}, r.at = "core" => r.of \in ValidPsbts,
         requests' = [requests EXCEPT ![b] = r], UNCHANGED mempool
  PROVE  WayToCore'
BY DEF WayToCore

\* The user's steps start requests at the server, or leave them.
LEMMA UserKeepsWay == ASSUME WayToCore, UserNext PROVE WayToCore'
<1>1. CASE UNCHANGED serverVars
  BY <1>1 DEF WayToCore, serverVars
<1>2. CASE CloseDialog
  <2>1. requests' = [b \in Broadcasts |-> [requests[b] EXCEPT !.heard = FALSE]] /\ UNCHANGED mempool
    BY <1>2 DEF CloseDialog
  <2>2. ASSUME NEW b \in Broadcasts
        PROVE  /\ DOMAIN requests'[b] = {"of", "at", "heard"}
               /\ requests'[b].at = requests[b].at
               /\ requests'[b].of = requests[b].of
    BY <2>1 DEF WayToCore
  <2> QED
    BY <2>1, <2>2 DEF WayToCore
<1>3. ASSUME NEW b \in Broadcasts, Broadcast(b)
      PROVE  WayToCore'
  <2> DEFINE r == [of |-> text, at |-> "server", heard |-> TRUE]
  <2>1. requests' = [requests EXCEPT ![b] = r] /\ UNCHANGED mempool
    BY <1>3 DEF Broadcast
  <2>2. DOMAIN r = {"of", "at", "heard"} /\ r.at # "core"
    OBVIOUS
  <2> HIDE DEF r
  <2> QED
    BY <2>1, <2>2, Replaced
<1>4. UserNext => \/ UNCHANGED serverVars
                  \/ CloseDialog
                  \/ \E b \in Broadcasts : Broadcast(b)
  BY DEF UserNext, Type, LoadFile, NothingToVerify, ScanWhole, CaptureFrame, ClearFrames,
         Verify, Confirm, Dismiss, serverVars
<1> QED
  BY <1>1, <1>2, <1>3, <1>4

\* The server's steps pass on what is valid and nothing else.
LEMMA ServerKeepsWay == ASSUME WayToCore, ServerNext PROVE WayToCore'
<1>1. ASSUME NEW t \in Texts, VerifyAnswered(t) \/ VerifyFailed(t)
      PROVE  WayToCore'
  BY <1>1 DEF VerifyAnswered, VerifyFailed, serverVars, WayToCore
<1>2. ASSUME NEW b \in Broadcasts, ServerVerifies(b)
      PROVE  WayToCore'
  <2>1. Moves(b, "server", IF requests[b].of \in ValidPsbts THEN "core" ELSE "failed") /\ UNCHANGED mempool
    BY <1>2 DEF ServerVerifies
  <2>2. CASE requests[b].of \in ValidPsbts
    BY <2>1, <2>2, MovesOn DEF WayToCore
  <2>3. CASE requests[b].of \notin ValidPsbts
    BY <2>1, <2>3, MovesOn DEF WayToCore
  <2> QED
    BY <2>2, <2>3
<1>3. ASSUME NEW b \in Broadcasts, ServerRefuses(b) \/ CoreDeclines(b)
      PROVE  WayToCore'
  BY <1>3, MovesOn DEF ServerRefuses, CoreDeclines, WayToCore
<1>4. ASSUME NEW b \in Broadcasts, NEW told \in Answers, CoreTakes(b, told)
      PROVE  WayToCore'
  <2>1. requests[b].at = "core"
    BY <1>4 DEF CoreTakes, Moves
  <2> QED
    BY <1>4, <2>1, MovesOn DEF CoreTakes, WayToCore, Answers
<1>5. ASSUME NEW b \in Broadcasts, TimesOut(b)
      PROVE  WayToCore'
  <2>1. requests[b].at = "core"
    BY <1>5 DEF TimesOut, Moves
  <2> QED
    BY <1>5, <2>1, MovesOn DEF TimesOut, WayToCore
<1>6. ASSUME NEW b \in Broadcasts, BroadcastAnswered(b)
      PROVE  WayToCore'
  <2>1. requests' = [requests EXCEPT ![b] = NoRequest] /\ UNCHANGED mempool
    BY <1>6 DEF BroadcastAnswered
  <2>2. DOMAIN NoRequest = {"of", "at", "heard"} /\ NoRequest.at # "core"
    BY DEF NoRequest
  <2> QED
    BY <2>1, <2>2, Replaced
<1>7. ASSUME NEW b \in Broadcasts, ConnectionLost(b)
      PROVE  WayToCore'
  <2> DEFINE r == [requests[b] EXCEPT !.heard = FALSE]
  <2>1. requests' = [requests EXCEPT ![b] = r] /\ UNCHANGED mempool
    BY <1>7 DEF ConnectionLost
  <2>2. DOMAIN r = {"of", "at", "heard"} /\ r.at = requests[b].at /\ r.of = requests[b].of
    BY DEF WayToCore
  <2>3. r.at = "core" => r.of \in ValidPsbts
    BY <2>2 DEF WayToCore
  <2> HIDE DEF r
  <2> QED
    BY <2>1, <2>2, <2>3, Replaced
<1> QED
  BY <1>1, <1>2, <1>3, <1>4, <1>5, <1>6, <1>7 DEF ServerNext

\* Whatever the page shows and sends, no text is in the mempool that the route
\* has not found valid itself: a request reaches Core only past the
\* verification of POST psbt/broadcast (broadcast/routes.ts).
THEOREM CoreTakesOnlyValid == Spec => []OnlyValidReachesCore
<1>1. Init => WayToCore
  BY DEF Init, WayToCore, NoRequest
<1>2. WayToCore /\ [Next]_vars => WayToCore'
  <2> SUFFICES ASSUME WayToCore, [Next]_vars
               PROVE  WayToCore'
    OBVIOUS
  <2>1. CASE UNCHANGED vars
    BY <2>1 DEF vars, serverVars, WayToCore
  <2> QED
    BY <2>1, UserKeepsWay, ServerKeepsWay DEF Next
<1>3. WayToCore => OnlyValidReachesCore
  BY DEF WayToCore, OnlyValidReachesCore
<1> QED
  BY <1>1, <1>2, <1>3, PTL DEF Spec
-----------------------------------------------------------------------------
(* What the page shows, and of which text it is.                           *)

Stations == Answers \cup {"free", "server", "core"}
Request  == [of: Texts, at: Stations, heard: BOOLEAN]

\* What is in flight on the server, and what the answer of each will say.
ServerInv ==
  /\ requests \in [Broadcasts -> Request]
  /\ mempool \subseteq Texts
  /\ \A b \in Broadcasts : requests[b].at = "accepted" => requests[b].of \in mempool

\* The page is of its type, and says "accepted" of what is in the mempool.
PageInv ==
  /\ text \in Texts
  /\ shown \in [of: Texts, valid: BOOLEAN]
  /\ status \in {"idle", "loading", "done", "error"}
  /\ confirmed \in Texts
  /\ sending \in BOOLEAN
  /\ outcome \in [of: Texts, says: {"nothing"} \cup Answers]
  /\ verifying \subseteq Texts
  /\ outcome.says = "accepted" => outcome.of \in mempool

\* The answers the page still listens to are of the text t.
HeardOf(t) == \A b \in Broadcasts : requests[b].heard => requests[b].of = t

\* All that is on the page or on its way to it is of the text in the box.
OfTheText ==
  /\ verifying \subseteq {text}
  /\ HeardOf(text)
  /\ shown = NoResult \/ shown.of = text
  /\ confirmed \in {Empty, text}
  /\ outcome = NoOutcome \/ outcome.of = text
  /\ ~unseen

PanelInv ==
  /\ ServerInv
  /\ PageInv
  /\ unseen \in BOOLEAN
  /\ crossed \in BOOLEAN
  /\ crossed \/ OfTheText

\* A text is put in the box, the same one perhaps: what was on the page is
\* taken away, and the text may be sent to be verified.
Replaces(t) ==
  /\ text' = t
  /\ shown' = NoResult
  /\ ResetConfirmation
  /\ status' \in {"idle", "loading", "error"}
  /\ verifying' \in {verifying, verifying \cup {t}}
  /\ crossed' \in BOOLEAN
  /\ crossed => crossed'
  /\ InFlight /\ t # text => crossed'
  /\ UNCHANGED <<requests, mempool, unseen>>

\* Request b becomes r.
Becomes(b, r) ==
  /\ requests' = [requests EXCEPT ![b] = r]
  /\ mempool \subseteq mempool'
  /\ mempool' \subseteq Texts
  /\ r.at = "accepted" => r.of \in mempool'

-----------------------------------------------------------------------------
(* What the page starts with is of its type.                               *)
LEMMA PageTypes ==
  /\ Empty \in Texts
  /\ NoResult \in [of: Texts, valid: BOOLEAN]
  /\ NoOutcome \in [of: Texts, says: {"nothing"} \cup Answers]
  /\ NoOutcome.says # "accepted"
  /\ NoRequest \in Request
  /\ ~NoRequest.heard /\ NoRequest.at = "free"
<1>1. Empty \in Texts
  BY DEF Texts
<1> QED
  BY <1>1 DEF NoResult, NoOutcome, NoRequest, Request, Stations

(* A whole PSBT is a text.                                                 *)
LEMMA WholeIsText == \A p \in Psbts : Whole(p) \in Texts
<1> SUFFICES ASSUME NEW p \in Psbts PROVE Whole(p) \in Texts
  OBVIOUS
<1>1. Whole(p) \in [1..Total[p] -> Psbts]
  BY DEF Whole
<1> QED
  BY <1>1 DEF Texts

(* So is what the frames of a complete set are put together to.            *)
LEMMA AssembledIsText ==
  ASSUME MultipartTypeOK', NEW f \in Frame, Capture(f), ~(Mismatch(f) \/ Conflict(f)), Complete'
  PROVE  Assembled' \in Texts
<1>1. f.of \in Psbts /\ total' = Total[f.of]
  BY DEF Capture, Frame
<1>2. Total[f.of] \in Nat /\ Total[f.of] <= MaxFrames
  BY <1>1, MultipartAssumption DEF Capture, Readable
<1>3. ASSUME NEW i \in 1..total'
      PROVE  frames'[i] \in Psbts
  <2>1. frames'[i] # Missing
    BY <1>3 DEF Complete, MissingFrames
  <2>2. i \in 1..MaxFrames
    BY <1>1, <1>2, MultipartAssumption
  <2> QED
    BY <2>1, <2>2 DEF MultipartTypeOK
<1>4. Assembled' \in [1..Total[f.of] -> Psbts]
  BY <1>1, <1>3 DEF Assembled
<1> QED
  BY <1>1, <1>4 DEF Texts

(* A request that is not accepted without reason keeps the server's part,  *)
(* and is heard of the text it says.                                       *)
LEMMA BecomesKeeps ==
  ASSUME ServerInv, NEW b \in Broadcasts, NEW r \in Request, Becomes(b, r)
  PROVE  /\ ServerInv'
         /\ \A t : HeardOf(t) /\ (r.heard => r.of = t) => HeardOf(t)'
<1>1. requests' \in [Broadcasts -> Request]
  BY DEF ServerInv, Becomes
<1>2. requests'[b] = r /\ \A c \in Broadcasts \ {b} : requests'[c] = requests[c]
  BY DEF ServerInv, Becomes
<1>3. ASSUME NEW c \in Broadcasts, requests'[c].at = "accepted"
      PROVE  requests'[c].of \in mempool'
  <2>1. CASE c = b
    BY <1>2, <1>3, <2>1 DEF Becomes
  <2>2. CASE c # b
    <3>1. requests'[c] = requests[c]
      BY <1>2, <2>2
    <3> QED
      BY <1>3, <3>1 DEF ServerInv, Becomes
  <2> QED
    BY <2>1, <2>2
<1>4. ASSUME NEW t, HeardOf(t), r.heard => r.of = t
      PROVE  HeardOf(t)'
  <2>1. ASSUME NEW c \in Broadcasts, requests'[c].heard
        PROVE  requests'[c].of = t
    BY <1>2, <1>4, <2>1 DEF HeardOf
  <2> QED
    BY <2>1 DEF HeardOf
<1> QED
  BY <1>1, <1>3, <1>4 DEF ServerInv, Becomes

(* Another text takes everything of the one before off the page; what is   *)
(* still on its way to the page makes the panel crossed.                   *)
LEMMA ReplacesKeeps == ASSUME PanelInv, NEW t \in Texts, Replaces(t) PROVE PanelInv'
<1>1. ServerInv'
  BY DEF PanelInv, ServerInv, Replaces
<1>2. outcome' = NoOutcome /\ confirmed' = Empty /\ sending' = FALSE
  BY DEF Replaces, ResetConfirmation
<1>3. PageInv'
  <2>1. verifying' \subseteq Texts
    BY DEF PanelInv, PageInv, Replaces
  <2>2. sending' \in BOOLEAN
    BY <1>2
  <2> QED
    BY <1>2, <2>1, <2>2, PageTypes DEF Replaces, PageInv
<1>4. unseen' \in BOOLEAN /\ crossed' \in BOOLEAN
  BY DEF PanelInv, Replaces
<1>5. ASSUME ~crossed'
      PROVE  OfTheText'
  <2>1. OfTheText /\ (InFlight => t = text)
    BY <1>5 DEF PanelInv, Replaces
  <2>2. HeardOf(text)'
    <3> SUFFICES ASSUME NEW b \in Broadcasts, requests[b].heard PROVE requests[b].of = t
      BY DEF HeardOf, Replaces
    <3> QED
      BY <2>1 DEF InFlight, OfTheText, HeardOf
  <2>3. verifying' \subseteq {t}
    BY <2>1 DEF InFlight, OfTheText, Replaces
  <2> QED
    BY <1>2, <2>1, <2>2, <2>3 DEF OfTheText, Replaces
<1> QED
  BY <1>1, <1>3, <1>4, <1>5 DEF PanelInv

-----------------------------------------------------------------------------
(* What the user does.                                                     *)

(* Whatever is typed, loaded, scanned or verified replaces the text.       *)
LEMMA UserReplaces ==
  ASSUME PanelInv, MultipartTypeOK', UserNext
  PROVE  \/ \E t \in Texts : Replaces(t)
         \/ NothingToVerify \/ ClearFrames \/ CloseDialog \/ Confirm \/ Dismiss
         \/ \E b \in Broadcasts : Broadcast(b)
<1> USE DEF SetText, StartVerifying
<1>1. text \in Texts /\ crossed \in BOOLEAN /\ Written \subseteq Texts
  BY PageTypes, WholeIsText DEF PanelInv, PageInv, Written
<1>2. ASSUME NEW t \in Texts, crossed' = (crossed \/ (InFlight /\ t # text))
      PROVE  crossed' \in BOOLEAN /\ (crossed => crossed') /\ (InFlight /\ t # text => crossed')
  BY <1>1, <1>2
<1>3. ASSUME NEW t \in Written, Type(t) \/ LoadFile(t)
      PROVE  Replaces(t)
  BY <1>1, <1>2, <1>3 DEF Type, LoadFile, Replaces, serverVars
<1>4. ASSUME NEW p \in Psbts, ScanWhole(p)
      PROVE  Replaces(Whole(p))
  <2>1. Whole(p) \in Texts /\ crossed' = (crossed \/ (InFlight /\ Whole(p) # text))
    BY <1>4, WholeIsText DEF ScanWhole
  <2> QED
    BY <1>2, <1>4, <2>1 DEF ScanWhole, Replaces, serverVars
<1>5. ASSUME NEW f \in Frame, CaptureFrame(f)
      PROVE  \E t \in Texts : Replaces(t)
  <2>1. CASE Mismatch(f) \/ Conflict(f)
    <3>1. Replaces(text)
      BY <1>1, <1>5, <2>1 DEF CaptureFrame, Replaces, serverVars
    <3> QED
      BY <1>1, <3>1
  <2>2. CASE ~(Mismatch(f) \/ Conflict(f)) /\ ~Complete'
    <3>1. Replaces(Empty)
      BY <1>2, <1>5, <2>2, PageTypes DEF CaptureFrame, Replaces, serverVars
    <3> QED
      BY <3>1, PageTypes
  <2>3. CASE ~(Mismatch(f) \/ Conflict(f)) /\ Complete'
    <3>1. PICK t \in Texts : t = Assembled'
      BY <1>5, <2>3, AssembledIsText DEF CaptureFrame
    <3>2. text' = t /\ crossed' = (crossed \/ (InFlight /\ t # text))
      BY <1>5, <2>3, <3>1 DEF CaptureFrame
    <3>3. verifying' = verifying \cup {t}
      BY <1>5, <2>3, <3>1 DEF CaptureFrame
    <3>4. Replaces(t)
      BY <1>2, <1>5, <2>3, <3>2, <3>3 DEF CaptureFrame, Replaces, serverVars
    <3> QED
      BY <3>4
  <2> QED
    BY <2>1, <2>2, <2>3
<1>6. ASSUME Verify
      PROVE  Replaces(text)
  BY <1>1, <1>6 DEF Verify, Replaces, serverVars
<1> QED
  BY <1>1, <1>3, <1>4, <1>5, <1>6, WholeIsText DEF UserNext

(* What the user does keeps the page of the text in its box.               *)
LEMMA UserKeepsPage == ASSUME PanelInv, MultipartTypeOK', UserNext PROVE PanelInv'
<1>1. ASSUME NothingToVerify \/ ClearFrames
      PROVE  PanelInv'
  <2>1. /\ UNCHANGED <<text, shown, confirmVars, verifying, serverVars, unseen, crossed>>
        /\ status' \in {status, "error"}
    BY <1>1 DEF NothingToVerify, ClearFrames
  <2> QED
    BY <2>1 DEF PanelInv, ServerInv, PageInv, OfTheText, HeardOf, confirmVars, serverVars
<1>2. ASSUME CloseDialog
      PROVE  PanelInv'
  <2>1. \A b \in Broadcasts : requests'[b] \in Request /\ ~requests'[b].heard
                              /\ requests'[b].at = requests[b].at /\ requests'[b].of = requests[b].of
    BY <1>2 DEF CloseDialog, PanelInv, ServerInv, Request
  <2>2. requests' = [b \in Broadcasts |-> [requests[b] EXCEPT !.heard = FALSE]] /\ UNCHANGED mempool
    BY <1>2 DEF CloseDialog
  <2>3. requests' \in [Broadcasts -> Request]
    BY <2>1, <2>2
  <2>4. ServerInv' /\ HeardOf(text)'
    BY <2>1, <2>2, <2>3 DEF PanelInv, ServerInv, HeardOf
  <2>5. text' = Empty /\ shown' = NoResult /\ confirmed' = Empty /\ outcome' = NoOutcome /\ verifying' = {}
        /\ sending' = FALSE /\ status' = "idle" /\ UNCHANGED <<unseen, crossed>>
    BY <1>2 DEF CloseDialog, ResetConfirmation
  <2>6. PageInv'
    BY <2>5, PageTypes DEF PageInv
  <2> QED
    BY <2>4, <2>5, <2>6 DEF PanelInv, OfTheText
<1>3. ASSUME Confirm
      PROVE  PanelInv'
  <2>1. UNCHANGED <<text, shown, status, sending, outcome, verifying, requests, mempool, unseen, crossed>>
    BY <1>3 DEF Confirm, serverVars
  <2>2. confirmed' = shown.of /\ shown # NoResult
    BY <1>3 DEF Confirm, ReadyToBroadcast, NoResult
  <2> QED
    BY <2>1, <2>2 DEF PanelInv, ServerInv, PageInv, OfTheText, HeardOf
<1>4. ASSUME Dismiss
      PROVE  PanelInv'
  <2>1. UNCHANGED <<text, shown, status, confirmed, sending, verifying, requests, mempool, unseen, crossed>>
        /\ outcome' = NoOutcome
    BY <1>4 DEF Dismiss, serverVars
  <2> QED
    BY <2>1, PageTypes DEF PanelInv, ServerInv, PageInv, OfTheText, HeardOf
<1>5. ASSUME NEW b \in Broadcasts, Broadcast(b)
      PROVE  PanelInv'
  <2> DEFINE r == [of |-> text, at |-> "server", heard |-> TRUE]
  <2>1. r \in Request /\ r.of = text /\ r.at = "server"
    BY DEF PanelInv, PageInv, Request, Stations
  <2>2. requests' = [requests EXCEPT ![b] = r]
    BY <1>5 DEF Broadcast
  <2> HIDE DEF r
  <2>3. Becomes(b, r)
    BY <1>5, <2>1, <2>2 DEF Broadcast, Becomes, PanelInv, ServerInv
  <2>4. ServerInv' /\ (HeardOf(text) => HeardOf(text)')
    BY <2>1, <2>3, BecomesKeeps, <1>5 DEF PanelInv, Broadcast, HeardOf
  <2>5. PageInv'
    <3>1. sending' \in BOOLEAN
      BY <1>5 DEF Broadcast
    <3> QED
      BY <1>5, <3>1, PageTypes DEF Broadcast, PanelInv, PageInv
  <2>6. unseen' = (unseen \/ text # confirmed) /\ confirmed # Empty /\ UNCHANGED crossed
    BY <1>5 DEF Broadcast
  <2>7. unseen' \in BOOLEAN
    BY <2>6, SMT DEF PanelInv
  <2>8. ASSUME ~crossed
        PROVE  OfTheText'
    BY <1>5, <2>4, <2>6, <2>8 DEF PanelInv, OfTheText, Broadcast
  <2> QED
    BY <2>4, <2>5, <2>6, <2>7, <2>8 DEF PanelInv
<1> QED
  BY <1>1, <1>2, <1>3, <1>4, <1>5, UserReplaces, ReplacesKeeps

-----------------------------------------------------------------------------
(* What the server answers.                                                *)

(* A request that goes on, with what it says in the mempool if it says     *)
(* "accepted", keeps all that the page knows.                              *)
LEMMA MovesKeeps ==
  ASSUME PanelInv, NEW b \in Broadcasts, NEW from, NEW to \in Stations, Moves(b, from, to),
         mempool \subseteq mempool', mempool' \subseteq Texts,
         to = "accepted" => requests[b].of \in mempool'
  PROVE  PanelInv'
<1> DEFINE r == [requests[b] EXCEPT !.at = to]
<1>1. requests[b] \in Request
  BY DEF PanelInv, ServerInv
<1>2. r \in Request /\ r.at = to /\ r.of = requests[b].of /\ r.heard = requests[b].heard
  BY <1>1 DEF Request
<1>3. requests' = [requests EXCEPT ![b] = r]
  BY DEF Moves
<1> HIDE DEF r
<1>4. Becomes(b, r)
  BY <1>2, <1>3 DEF Becomes
<1>5. ServerInv' /\ (HeardOf(text) => HeardOf(text)')
  BY <1>2, <1>4, BecomesKeeps DEF PanelInv, HeardOf, Moves
<1>6. UNCHANGED <<text, shown, status, confirmed, sending, outcome, verifying, unseen, crossed>>
  BY DEF Moves, confirmVars
<1> QED
  BY <1>5, <1>6 DEF PanelInv, PageInv, OfTheText

(* The server's steps keep the page of the text in its box, unless the     *)
(* text changed under them.                                                *)
LEMMA ServerKeepsPage == ASSUME PanelInv, ServerNext PROVE PanelInv'
<1>1. ASSUME NEW t \in Texts, VerifyAnswered(t)
      PROVE  PanelInv'
  <2>1. shown' = [of |-> t, valid |-> t \in ValidPsbts]
    BY <1>1 DEF VerifyAnswered
  <2>2. shown' \in [of: Texts, valid: BOOLEAN] /\ shown'.of = t
    BY <2>1, SMT
  <2>3. UNCHANGED <<text, confirmed, sending, outcome, requests, mempool, unseen, crossed>>
        /\ status' = "done" /\ verifying' \subseteq verifying /\ t \in verifying
    BY <1>1 DEF VerifyAnswered, confirmVars, serverVars
  <2> QED
    BY <2>2, <2>3 DEF PanelInv, ServerInv, PageInv, OfTheText, HeardOf
<1>2. ASSUME NEW t \in Texts, VerifyFailed(t)
      PROVE  PanelInv'
  <2>1. UNCHANGED <<text, shown, confirmed, sending, outcome, requests, mempool, unseen, crossed>>
        /\ status' = "error" /\ verifying' \subseteq verifying
    BY <1>2 DEF VerifyFailed, confirmVars, serverVars
  <2> QED
    BY <2>1 DEF PanelInv, ServerInv, PageInv, OfTheText, HeardOf
<1>3. ASSUME NEW b \in Broadcasts, ServerVerifies(b)
      PROVE  PanelInv'
  <2>1. PICK to \in {"core", "failed"} : Moves(b, "server", to)
    BY <1>3 DEF ServerVerifies
  <2> QED
    BY <1>3, <2>1, MovesKeeps DEF ServerVerifies, Stations, Answers, PanelInv, ServerInv
<1>4. ASSUME NEW b \in Broadcasts, ServerRefuses(b) \/ CoreDeclines(b)
      PROVE  PanelInv'
  BY <1>4, MovesKeeps DEF ServerRefuses, CoreDeclines, Stations, Answers, PanelInv, ServerInv
<1>5. ASSUME NEW b \in Broadcasts, TimesOut(b) \/ \E told \in Answers : CoreTakes(b, told)
      PROVE  PanelInv'
  <2>1. requests[b].of \in Texts /\ mempool \subseteq Texts
    BY DEF PanelInv, ServerInv, Request
  <2>2. ASSUME TimesOut(b)
        PROVE  PanelInv'
    BY <2>1, <2>2, MovesKeeps DEF TimesOut, Stations, Answers
  <2>3. ASSUME NEW told \in Answers, CoreTakes(b, told)
        PROVE  PanelInv'
    BY <2>1, <2>3, MovesKeeps DEF CoreTakes, Stations
  <2> QED
    BY <1>5, <2>2, <2>3
<1>6. ASSUME NEW b \in Broadcasts, BroadcastAnswered(b)
      PROVE  PanelInv'
  <2>1. Becomes(b, NoRequest)
    BY <1>6, PageTypes DEF BroadcastAnswered, Becomes, PanelInv, ServerInv
  <2>2. ServerInv' /\ (HeardOf(text) => HeardOf(text)')
    BY <1>6, <2>1, PageTypes, BecomesKeeps DEF PanelInv, HeardOf, BroadcastAnswered
  <2>3. UNCHANGED <<text, shown, status, confirmed, verifying, mempool, unseen, crossed>>
    BY <1>6 DEF BroadcastAnswered
  <2>4. requests[b].of \in Texts /\ requests[b].at \in Answers
    BY <1>6 DEF PanelInv, ServerInv, Request, BroadcastAnswered
  <2>5. CASE requests[b].heard
    <3>1. outcome' = [of |-> requests[b].of, says |-> requests[b].at] /\ sending' = FALSE
      BY <1>6, <2>5 DEF BroadcastAnswered
    <3>2. outcome'.says = "accepted" => outcome'.of \in mempool
      BY <3>1 DEF PanelInv, ServerInv
    <3>3. PageInv'
      BY <2>3, <2>4, <3>1, <3>2 DEF PanelInv, PageInv
    <3>4. OfTheText => OfTheText'
      BY <2>2, <2>3, <2>5, <3>1 DEF OfTheText, HeardOf
    <3> QED
      BY <2>2, <2>3, <3>3, <3>4 DEF PanelInv
  <2>6. CASE ~requests[b].heard
    <3>1. UNCHANGED <<outcome, sending>>
      BY <1>6, <2>6 DEF BroadcastAnswered
    <3> QED
      BY <2>2, <2>3, <3>1 DEF PanelInv, PageInv, OfTheText
  <2> QED
    BY <2>5, <2>6
<1>7. ASSUME NEW b \in Broadcasts, ConnectionLost(b)
      PROVE  PanelInv'
  <2> DEFINE r == [requests[b] EXCEPT !.heard = FALSE]
  <2>1. requests[b] \in Request
    BY DEF PanelInv, ServerInv
  <2>2. r \in Request /\ ~r.heard /\ r.at = requests[b].at /\ r.of = requests[b].of
    BY <2>1 DEF Request
  <2>3. requests' = [requests EXCEPT ![b] = r]
    BY <1>7 DEF ConnectionLost
  <2> HIDE DEF r
  <2>4. Becomes(b, r)
    BY <1>7, <2>2, <2>3 DEF ConnectionLost, Becomes, PanelInv, ServerInv
  <2>5. ServerInv' /\ (HeardOf(text) => HeardOf(text)')
    BY <1>7, <2>2, <2>4, BecomesKeeps DEF PanelInv, HeardOf, ConnectionLost
  <2>6. UNCHANGED <<text, shown, status, confirmed, verifying, mempool, unseen, crossed>>
        /\ outcome' = [of |-> requests[b].of, says |-> "failed"] /\ sending' = FALSE /\ requests[b].heard
    BY <1>7 DEF ConnectionLost
  <2>7. PageInv'
    BY <2>1, <2>6 DEF PanelInv, PageInv, Request, Answers
  <2> QED
    BY <2>5, <2>6, <2>7 DEF PanelInv, OfTheText, HeardOf
<1> QED
  BY <1>1, <1>2, <1>3, <1>4, <1>5, <1>6, <1>7 DEF ServerNext

LEMMA PanelInvariant == Spec => []PanelInv
<1>1. Init => PanelInv
  <2> SUFFICES ASSUME Init PROVE PanelInv
    OBVIOUS
  <2>1. ServerInv /\ HeardOf(text)
    BY PageTypes DEF Init, ServerInv, HeardOf
  <2>2. PageInv
    BY PageTypes DEF Init, PageInv
  <2>3. unseen = FALSE /\ crossed = FALSE
    BY DEF Init
  <2>4. OfTheText
    BY <2>1, <2>3 DEF Init, OfTheText
  <2> QED
    BY <2>1, <2>2, <2>3, <2>4 DEF PanelInv
<1>2. PanelInv /\ MultipartTypeOK' /\ [Next]_vars => PanelInv'
  <2> SUFFICES ASSUME PanelInv, MultipartTypeOK', [Next]_vars
               PROVE  PanelInv'
    OBVIOUS
  <2>1. CASE UNCHANGED vars
    BY <2>1 DEF vars, confirmVars, serverVars, PanelInv, ServerInv, PageInv, OfTheText, HeardOf
  <2> QED
    BY <2>1, UserKeepsPage, ServerKeepsPage DEF Next
<1> QED
  BY <1>1, <1>2, PanelCollects, CollectorType, PTL DEF Spec

\* The panel, its requests and what Core has are of their types.
THEOREM PanelTypeCorrect == Spec => []TypeOK
<1>1. PanelInv /\ MultipartTypeOK => TypeOK
  BY DEF PanelInv, ServerInv, PageInv, TypeOK, Request, Stations
<1> QED
  BY <1>1, PanelInvariant, PanelCollects, CollectorType, PTL

\* Unless the text changed while a request was in flight, what the page sends
\* is the text whose verification it showed when the user confirmed
\* (setVerifyResult, handleBroadcast).
THEOREM PanelSendsVerified == Spec => []SendsWhatWasVerifiedUnlessCrossed
<1>1. PanelInv => SendsWhatWasVerifiedUnlessCrossed
  BY DEF PanelInv, OfTheText, SendsWhatWasVerifiedUnlessCrossed, SendsWhatWasVerified
<1> QED
  BY <1>1, PanelInvariant, PTL

\* What the page says was accepted is in the mempool, whatever the server gave
\* up on, lost or was told twice; and, unless crossed, it is the text in the
\* box (resetBroadcastConfirmation, handleBroadcast).
THEOREM PanelOutcomeIsTrue == Spec => []OutcomeIsTrue
<1>1. PanelInv => OutcomeIsTrue
  BY DEF PanelInv, PageInv, OfTheText, OutcomeIsTrue
<1> QED
  BY <1>1, PanelInvariant, PTL
=============================================================================
