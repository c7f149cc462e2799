------------------------------- MODULE SendPanel -------------------------------
(***************************************************************************)
(* The form a payment is drafted with (CreatePsbtBuilderPanel in           *)
(* phase-one-auth.tsx): recipients, fee rate and coins, the one POST that  *)
(* makes a draft of them, and the codes the draft is exported as.  The     *)
(* form stays open while the draft is made and codes are drawn, and the    *)
(* list of coins is read again at any time.                                *)
(*                                                                         *)
(* A row holds [to, sats] as they parse: to is "" for an address that is   *)
(* not one of the network, sats 0 for what is no amount.  A rate of 0 sats *)
(* is one that does not parse.  Both animated codes are one here.          *)
(***************************************************************************)
EXTENDS CoinSelection, Sequences, FiniteSets, SequencesExt, FiniteSetsExt

CONSTANTS
  PanelCoins,    \* the coins that may be listed, and their values
  PanelScript,   \* the script type of the wallet
  RowValues,     \* bound: what is typed into a row
  TypedRates,    \* bound: what is typed as the fee rate
  PresetRates,   \* bound: rates of the presets
  MaxRows,       \* bound: rows of recipients
  MaxPanelEdits, \* bound: changes of the form
  MaxDrafts      \* bound: drafts asked for

ASSUME PanelAssumption ==
  /\ \A c \in DOMAIN PanelCoins : PanelCoins[c] \in Nat \ {0}
  /\ MaxRows \in Nat \ {0} /\ {MaxPanelEdits, MaxDrafts} \subseteq Nat

VARIABLES
  sendForm,  \* recipients, feeRateInput, selectedOutpoints, and changes so far
  listed,    \* builderUtxos
  drafting,  \* psbtStatus, psbtResult, and the request under way
  pictures,  \* exportFormat, the codes shown, and those being drawn
  late       \* history: what changed after the form of the draft was sent

sendVars == <<sendForm, listed, drafting, pictures, late>>

BlankRow == [to |-> "", sats |-> 0]
NoDraft  == [number |-> 0]
NoCode   == NoDraft

\* parseFeeRate
RateParses(rate) == rate.sats > 0 /\ rate.sats <= 1000 * rate.per

Draft == [number: 1..MaxDrafts, rows: Seq(RowValues \cup {BlankRow}), rate: TypedRates \cup PresetRates,
          picked: SUBSET DOMAIN PanelCoins]

SendTypeOK ==
  /\ sendForm.rows \in Seq(RowValues \cup {BlankRow}) /\ Len(sendForm.rows) \in 1..MaxRows
  /\ sendForm.rate \in TypedRates \cup PresetRates
  /\ sendForm.picked \subseteq DOMAIN PanelCoins
  /\ listed \subseteq DOMAIN PanelCoins
  /\ drafting.status \in {"idle", "loading", "done", "error"}
  /\ {drafting.result, drafting.sent} \subseteq Draft \cup {NoDraft}
  /\ pictures.format \in {"text", "qr", "animated"}
  /\ {pictures.single, pictures.frame} \subseteq Draft \cup {NoCode}
  /\ late \subseteq {"edit", "selection", "single"}

\* The form opens with a rate, 5 in the code.
SendInit ==
  /\ sendForm \in [rows: {<<BlankRow>>}, rate: {r \in TypedRates : RateParses(r)}, picked: {{}}, edits: {0}]
  /\ listed = {}
  /\ drafting = [status |-> "idle", result |-> NoDraft, sent |-> NoDraft, asked |-> 0]
  /\ pictures = [format |-> "text", single |-> NoCode, frame |-> NoCode, drawing |-> {}]
  /\ late = {}

-----------------------------------------------------------------------------
(* The plan on the page (buildDraftSpendingPlan) *)

\* selectedUtxos: those picked that are listed.
Selected == sendForm.picked \cap listed

PaidSats(rows) == FoldSeq(LAMBDA row, sum : row.sats + sum, 0, rows)
PickedSats(set) == MapThenSumSet(LAMBDA c : PanelCoins[c], set)

\* looksLikeAddressForWalletNetwork, parseAmountToSats
HasAddress(row) == row.to # ""
HasAmount(row)  == row.sats > 0

\* estimateBuilderVbytes, for rows and change
Estimate == 12 + Cardinality(Selected) * InputVbytes(PanelScript) + (Len(sendForm.rows) + 1) * 43

\* Every row pays something to somebody, and coins that are picked pay for the
\* rows and for a transaction with change.
PlanHasNoErrors ==
  /\ \A row \in ToSet(sendForm.rows) : HasAddress(row) /\ HasAmount(row) /\ row.sats >= Dust
  /\ RateParses(sendForm.rate)
  /\ Selected # {} =>
       /\ PanelScript \in ScriptTypes
       /\ PickedSats(Selected) >= PaidSats(sendForm.rows) + Fee(sendForm.rate, Estimate)

-----------------------------------------------------------------------------
(* Codes *)

\* The effects that follow a change of the result or of the format.  The single
\* code of before stays until its successor is drawn, and one still being
\* drawn is not given up; the animated one is.
Pictured(result, format, before) ==
  LET single == result # NoDraft /\ format = "qr"
      moving == result # NoDraft /\ format = "animated"
      overtaken == {[d EXCEPT !.cancelled = ~d.single] : d \in pictures.drawing}
  IN  /\ pictures' = [format |-> format,
                      single |-> IF single THEN pictures.single ELSE NoCode,
                      frame |-> IF moving THEN pictures.frame ELSE NoCode,
                      drawing |-> overtaken \cup
                        (IF single \/ moving THEN {[of |-> result, single |-> single, cancelled |-> FALSE]} ELSE {})]
      /\ late' = before \cup (IF \E d \in pictures.drawing : d.single THEN {"single"} ELSE {})

\* The result is set; before is what is late without it.
Shows(result, before) ==
  IF result = drafting.result THEN UNCHANGED pictures /\ late' = before
  ELSE Pictured(result, pictures.format, before)

\* A code is drawn, or cannot be (too large).
CodeDrawn(d) ==
  /\ d \in pictures.drawing
  /\ \E code \in {d.of, NoCode} :
       pictures' = [pictures EXCEPT !.drawing = @ \ {d},
                                    !.single = IF d.single THEN code ELSE @,
                                    !.frame = IF d.single \/ d.cancelled THEN @ ELSE code]
  /\ UNCHANGED <<sendForm, listed, drafting, late>>

\* Every half second the next frame, and the one being drawn is given up.
NextFrame ==
  /\ drafting.result # NoDraft /\ pictures.format = "animated"
  /\ pictures' = [pictures EXCEPT !.drawing =
       {[d EXCEPT !.cancelled = ~d.single] : d \in @} \cup
       {[of |-> drafting.result, single |-> FALSE, cancelled |-> FALSE]}]
  /\ UNCHANGED <<sendForm, listed, drafting, late>>

\* The choice of a format is beside the draft.
DraftShown == drafting.status = "done" /\ drafting.result # NoDraft

ChooseFormat(format) ==
  /\ DraftShown
  /\ format # pictures.format
  /\ Pictured(drafting.result, format, late)
  /\ UNCHANGED <<sendForm, listed, drafting>>

-----------------------------------------------------------------------------
(* The form *)

\* A change of the form takes the draft away; one under way is not given up.
Edited(form) ==
  /\ sendForm.edits < MaxPanelEdits
  /\ sendForm' = [form EXCEPT !.edits = @ + 1]
  /\ IF drafting.status = "loading"
     THEN late' = late \cup {"edit"} /\ UNCHANGED <<drafting, pictures>>
     ELSE drafting' = [drafting EXCEPT !.result = NoDraft] /\ Shows(NoDraft, late)
  /\ UNCHANGED listed

\* Mutant: the draft stays when a row is changed.
UpdateRowKeepingDraft(i, row) ==
  /\ i \in DOMAIN sendForm.rows
  /\ sendForm.edits < MaxPanelEdits
  /\ sendForm' = [sendForm EXCEPT !.rows[i] = row, !.edits = @ + 1]
  /\ late' = IF drafting.status = "loading" THEN late \cup {"edit"} ELSE late
  /\ UNCHANGED <<listed, drafting, pictures>>

UpdateRow(i, row) == i \in DOMAIN sendForm.rows /\ Edited([sendForm EXCEPT !.rows[i] = row])

AddRow == Len(sendForm.rows) < MaxRows /\ Edited([sendForm EXCEPT !.rows = Append(@, BlankRow)])

RemoveRow(i) ==
  /\ Len(sendForm.rows) > 1 /\ i \in DOMAIN sendForm.rows
  /\ Edited([sendForm EXCEPT !.rows = RemoveAt(@, i)])

TypeRate(rate) == rate # sendForm.rate /\ Edited([sendForm EXCEPT !.rate = rate])

\* applyFeePreset, for a preset that is there; even when it is the rate already.
ApplyFeePreset(rate) == Edited([sendForm EXCEPT !.rate = rate])

ToggleCoin(c) ==
  /\ c \in listed
  /\ Edited([sendForm EXCEPT !.picked = IF c \in @ THEN @ \ {c} ELSE @ \cup {c}])

\* What is picked becomes this, and the draft stays.
Repicked(picked) ==
  /\ sendForm' = [sendForm EXCEPT !.picked = picked]
  /\ late' = IF picked # sendForm.picked THEN late \cup {"selection"} ELSE late
  /\ UNCHANGED <<drafting, pictures>>

\* The button beside coins that are picked; or #create-psbt or #utxo is entered once
\* more, and the panel that is open gets an empty list of coins to begin with.
ClearSelection ==
  /\ Repicked({})
  /\ UNCHANGED listed

\* refreshBuilderUtxos, asked for when the panel opens or by its button: coins that
\* are not in the answer, which may lack some addresses, are not picked any more.
CoinsListed(answer) ==
  /\ listed' = answer
  /\ Repicked(sendForm.picked \cap answer)

-----------------------------------------------------------------------------
(* The draft *)

Create ==
  /\ drafting.status # "loading" /\ drafting.asked < MaxDrafts
  /\ PlanHasNoErrors
  /\ drafting' = [status |-> "loading", result |-> NoDraft, asked |-> drafting.asked + 1,
                  sent |-> [number |-> drafting.asked + 1, rows |-> sendForm.rows, rate |-> sendForm.rate,
                            picked |-> Selected]]
  /\ Shows(NoDraft, late \cap {"single"})
  /\ UNCHANGED <<sendForm, listed>>

DraftArrives ==
  /\ drafting.status = "loading"
  /\ drafting' = [drafting EXCEPT !.status = "done", !.result = drafting.sent, !.sent = NoDraft]
  /\ Shows(drafting.sent, late)
  /\ UNCHANGED <<sendForm, listed>>

DraftFails ==
  /\ drafting.status = "loading"
  /\ drafting' = [drafting EXCEPT !.status = "error", !.sent = NoDraft]
  /\ UNCHANGED <<sendForm, listed, pictures, late>>

-----------------------------------------------------------------------------

SendNext ==
  \/ \E i \in 1..MaxRows : RemoveRow(i) \/ \E row \in RowValues : UpdateRow(i, row)
  \/ AddRow \/ ClearSelection
  \/ \E rate \in TypedRates : TypeRate(rate)
  \/ \E rate \in PresetRates : ApplyFeePreset(rate)
  \/ \E c \in DOMAIN PanelCoins : ToggleCoin(c)
  \/ \E answer \in SUBSET DOMAIN PanelCoins : CoinsListed(answer)
  \/ \E format \in {"text", "qr", "animated"} : ChooseFormat(format)
  \/ NextFrame \/ Create \/ DraftArrives \/ DraftFails
  \/ \E d \in pictures.drawing : CodeDrawn(d)

SendSpec == SendInit /\ [][SendNext]_sendVars

-----------------------------------------------------------------------------

\* A draft is of the rows and the rate that the form has now, unless the form was
\* changed while the draft was made, and of the coins picked now, unless also the
\* selection was cleared or a list came without them; a code that is shown is of
\* the draft, unless it is the single one and overtook another (handleCreate,
\* updateRecipient, toggleUtxo, the effects that draw).
DraftIsOfTheForm ==
  LET result == drafting.result IN
  /\ result # NoDraft /\ "edit" \notin late =>
       /\ result.rows = sendForm.rows /\ result.rate = sendForm.rate
       /\ "selection" \notin late => result.picked = Selected
  /\ pictures.frame \in {NoCode, result}
  /\ "single" \notin late => pictures.single \in {NoCode, result}
=============================================================================
