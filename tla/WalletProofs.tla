----------------------------- MODULE WalletProofs -----------------------------
(***************************************************************************)
(* Proofs about what becomes of a wallet's money and names, for any coins, *)
(* recipients, rates, texts and labels: the form a payment is drafted with *)
(* (SendPanel), the payment from its request to the verdict on what was    *)
(* signed (Spending), the import (ImportForm) and the labels               *)
(* (WalletLabels); and about all services side by side (WalletServices).   *)
(***************************************************************************)
EXTENDS WalletServices, LookupProofs

(* The send panel.  The argument: while a draft is made, and while it is   *)
(* shown, every change of the form either takes it away or is noted; and a *)
(* picture that is drawn or shown is of the draft, but for a single one    *)
(* that was overtaken.                                                     *)

Row     == RowValues \cup {BlankRow}
RateSet == TypedRates \cup PresetRates
Drawing == [of: Draft \cup {NoCode}, single: BOOLEAN, cancelled: BOOLEAN]

SendShape ==
  /\ sendForm \in [rows: Seq(Row), rate: RateSet, picked: SUBSET DOMAIN PanelCoins, edits: 0..MaxPanelEdits]
  /\ Len(sendForm.rows) \in 1..MaxRows
  /\ listed \subseteq DOMAIN PanelCoins
  /\ drafting \in [status: {"idle", "loading", "done", "error"}, result: Draft \cup {NoDraft},
                   sent: Draft \cup {NoDraft}, asked: 0..MaxDrafts]
  /\ pictures \in [format: {"text", "qr", "animated"}, single: Draft \cup {NoCode}, frame: Draft \cup {NoCode},
                   drawing: SUBSET Drawing]
  /\ late \subseteq {"edit", "selection", "single"}

\* A draft is of the form, but for what is noted.
OfTheForm(draft) ==
  "edit" \notin late =>
    /\ draft.rows = sendForm.rows /\ draft.rate = sendForm.rate
    /\ "selection" \notin late => draft.picked = Selected

\* What is shown and drawn is of the draft, but for what is noted.
OfTheDraft ==
  LET result == drafting.result IN
  /\ pictures.frame \in {NoCode, result}
  /\ "single" \notin late => pictures.single \in {NoCode, result}
  /\ \A d \in pictures.drawing :
       /\ d.of # NoDraft
       /\ d.single /\ "single" \notin late => d.of = result
       /\ ~d.single /\ ~d.cancelled => d.of = result

SendInv ==
  /\ SendShape
  /\ sendForm.picked \subseteq listed
  /\ drafting.status = "loading" => drafting.sent # NoDraft /\ drafting.result = NoDraft /\ OfTheForm(drafting.sent)
  /\ drafting.result # NoDraft => OfTheForm(drafting.result)
  /\ OfTheDraft

\* What there is of pictures after the result is set.
LEMMA PicturedKeeps ==
  ASSUME SendInv, NEW result \in Draft \cup {NoDraft}, NEW format \in {"text", "qr", "animated"}, NEW before,
         before \subseteq {"edit", "selection", "single"}, late \cap {"single"} \subseteq before,
         result = drafting.result \/ drafting.result = NoDraft \/ result = NoDraft,
         Pictured(result, format, before), drafting'.result = result
  PROVE  /\ pictures' \in [format: {"text", "qr", "animated"}, single: Draft \cup {NoCode},
                           frame: Draft \cup {NoCode}, drawing: SUBSET Drawing]
         /\ late' \in {before, before \cup {"single"}}
         /\ OfTheDraft'
<1> DEFINE single == result # NoDraft /\ format = "qr"
           moving == result # NoDraft /\ format = "animated"
           overtaken == {[d EXCEPT !.cancelled = ~d.single] : d \in pictures.drawing}
           new == IF single \/ moving THEN {[of |-> result, single |-> single, cancelled |-> FALSE]} ELSE {}
<1>1. pictures' = [format |-> format,
                   single |-> IF single THEN pictures.single ELSE NoCode,
                   frame |-> IF moving THEN pictures.frame ELSE NoCode,
                   drawing |-> overtaken \cup new]
  BY DEF Pictured
<1>2. late' = before \cup (IF \E d \in pictures.drawing : d.single THEN {"single"} ELSE {})
  BY DEF Pictured
<1>3. /\ pictures.drawing \subseteq Drawing
      /\ pictures.single \in Draft \cup {NoCode} /\ pictures.frame \in Draft \cup {NoCode}
  BY DEF SendInv, SendShape
<1>4. ASSUME NEW d \in pictures.drawing
      PROVE  LET e == [d EXCEPT !.cancelled = ~d.single] IN
             e \in Drawing /\ e.of = d.of /\ e.single = d.single /\ e.cancelled = ~d.single
  BY <1>3 DEF Drawing
<1>5. overtaken \subseteq Drawing
  BY <1>4
<1>6. new \subseteq Drawing
  <2>1. single \in BOOLEAN
    OBVIOUS
  <2> HIDE DEF single, moving
  <2>2. [of |-> result, single |-> single, cancelled |-> FALSE] \in Drawing
    BY <2>1 DEF Drawing, NoCode
  <2> QED BY <2>2
<1>7. \A e \in overtaken : /\ e.of # NoDraft
                           /\ e.single => "single" \in late'
                           /\ ~e.single => e.cancelled
  <2>1. ASSUME NEW d \in pictures.drawing
        PROVE  d.of # NoDraft /\ (d.single => "single" \in late')
    BY <1>2 DEF SendInv, OfTheDraft
  <2>2. ASSUME NEW d \in pictures.drawing, NEW e, e = [d EXCEPT !.cancelled = ~d.single]
        PROVE  e.of # NoDraft /\ (e.single => "single" \in late') /\ (~e.single => e.cancelled)
    <3>1. e.of = d.of /\ e.single = d.single /\ e.cancelled = ~d.single
      BY <1>4, <2>2
    <3> QED BY <2>1, <3>1, Zenon
  <2> QED BY <2>2, Zenon
<1>8. \A e \in new : e.of = result /\ result # NoDraft
  OBVIOUS
<1> HIDE DEF overtaken, new
<1>9. pictures'.drawing = overtaken \cup new
  BY <1>1
<1>10. pictures'.frame \in {NoCode, result}
  <2>1. moving => pictures.frame \in {NoCode, result}
    BY DEF SendInv, OfTheDraft, NoCode
  <2> QED BY <1>1, <2>1
<1>11. "single" \notin late' => pictures'.single \in {NoCode, result}
  <2>1. "single" \notin late' => "single" \notin late
    BY <1>2
  <2>2. single /\ "single" \notin late => pictures.single \in {NoCode, result}
    BY DEF SendInv, OfTheDraft, NoCode
  <2> QED BY <1>1, <2>1, <2>2
<1>12. OfTheDraft'
  BY <1>7, <1>8, <1>9, <1>10, <1>11 DEF OfTheDraft
<1> QED BY <1>1, <1>2, <1>3, <1>5, <1>6, <1>12 DEF new

\* The result is set.
LEMMA ShowsKeeps ==
  ASSUME SendInv, NEW result \in Draft \cup {NoDraft}, NEW before,
         before \subseteq {"edit", "selection", "single"}, late \cap {"single"} \subseteq before,
         drafting.result = NoDraft \/ result = NoDraft,
         Shows(result, before), drafting'.result = result
  PROVE  /\ pictures' \in [format: {"text", "qr", "animated"}, single: Draft \cup {NoCode},
                           frame: Draft \cup {NoCode}, drawing: SUBSET Drawing]
         /\ late' \in {before, before \cup {"single"}}
         /\ OfTheDraft'
<1>1. CASE result = drafting.result
  <2>1. UNCHANGED pictures /\ late' = before /\ drafting'.result = drafting.result
    BY <1>1 DEF Shows
  <2>2. "single" \notin late' => "single" \notin late
    BY <2>1
  <2>3. OfTheDraft'
    BY <2>1, <2>2 DEF SendInv, OfTheDraft
  <2> QED BY <2>1, <2>3 DEF SendInv, SendShape
<1>2. CASE result # drafting.result
  <2>1. Pictured(result, pictures.format, before)
    BY <1>2 DEF Shows
  <2>2. pictures.format \in {"text", "qr", "animated"}
    BY DEF SendInv, SendShape
  <2> QED BY <2>1, <2>2, PicturedKeeps
<1> QED BY <1>1, <1>2

Form == [rows: Seq(Row), rate: RateSet, picked: SUBSET DOMAIN PanelCoins, edits: 0..MaxPanelEdits]

LEMMA EditedKeeps ==
  ASSUME SendInv, NEW form \in Form, form.edits = sendForm.edits, Len(form.rows) \in 1..MaxRows,
         form.picked \subseteq listed, Edited(form)
  PROVE  SendInv'
<1>1. /\ sendForm' = [form EXCEPT !.edits = @ + 1] /\ sendForm.edits < MaxPanelEdits /\ listed' = listed
  BY DEF Edited
<1>2. sendForm.edits + 1 \in 0..MaxPanelEdits
  BY <1>1, PanelAssumption DEF SendInv, SendShape
<1>3. sendForm' \in Form /\ sendForm'.picked = form.picked /\ sendForm'.rows = form.rows
  BY <1>1, <1>2 DEF Form
<1>4. CASE drafting.status = "loading"
  <2>1. late' = late \cup {"edit"} /\ UNCHANGED <<drafting, pictures>>
    BY <1>4 DEF Edited
  <2> QED BY <1>1, <1>3, <1>4, <2>1 DEF SendInv, SendShape, Form, OfTheForm, OfTheDraft
<1>5. CASE drafting.status # "loading"
  <2>1. drafting' = [drafting EXCEPT !.result = NoDraft] /\ Shows(NoDraft, late)
    BY <1>5 DEF Edited
  <2>2. /\ drafting' \in [status: {"idle", "loading", "done", "error"}, result: Draft \cup {NoDraft},
                          sent: Draft \cup {NoDraft}, asked: 0..MaxDrafts]
        /\ drafting'.result = NoDraft /\ drafting'.status = drafting.status
    BY <2>1 DEF SendInv, SendShape
  <2>3. /\ pictures' \in [format: {"text", "qr", "animated"}, single: Draft \cup {NoCode},
                          frame: Draft \cup {NoCode}, drawing: SUBSET Drawing]
        /\ late' \in {late, late \cup {"single"}}
        /\ OfTheDraft'
    BY <2>1, <2>2, ShowsKeeps DEF SendInv, SendShape
  <2>4. late' \subseteq {"edit", "selection", "single"}
    BY <2>3 DEF SendInv, SendShape
  <2>5. SendShape'
    BY <1>1, <1>3, <2>2, <2>3, <2>4 DEF SendInv, SendShape, Form
  <2> QED BY <1>1, <1>3, <1>5, <2>2, <2>3, <2>5 DEF SendInv
<1> QED BY <1>4, <1>5

LEMMA RepickedKeeps ==
  ASSUME SendInv, NEW picked, picked \subseteq sendForm.picked, listed' \subseteq DOMAIN PanelCoins,
         picked \subseteq listed', Repicked(picked)
  PROVE  SendInv'
<1>1. /\ sendForm' = [sendForm EXCEPT !.picked = picked]
      /\ late' = IF picked # sendForm.picked THEN late \cup {"selection"} ELSE late
      /\ UNCHANGED <<drafting, pictures>>
  BY DEF Repicked
<1>2. sendForm \in Form
  BY DEF SendInv, SendShape, Form
<1>3. /\ sendForm' \in Form /\ sendForm'.picked = picked /\ sendForm'.rows = sendForm.rows
      /\ sendForm'.rate = sendForm.rate
  BY <1>1, <1>2 DEF Form
<1>4. late' \subseteq {"edit", "selection", "single"} /\ late \subseteq late'
  BY <1>1 DEF SendInv, SendShape
<1>5. SendShape'
  BY <1>1, <1>3, <1>4 DEF SendInv, SendShape, Form
<1>6. picked = sendForm.picked => Selected' = Selected
  BY <1>3 DEF SendInv, Selected
<1>7. ASSUME NEW draft, OfTheForm(draft)
      PROVE  "edit" \notin late' =>
               /\ draft.rows = sendForm'.rows /\ draft.rate = sendForm'.rate
               /\ "selection" \notin late' => draft.picked = Selected'
  BY <1>1, <1>3, <1>4, <1>6, <1>7 DEF OfTheForm
<1>8. /\ drafting.status = "loading" => OfTheForm(drafting.sent)'
      /\ drafting.result # NoDraft => OfTheForm(drafting.result)'
  BY <1>1, <1>7 DEF SendInv, OfTheForm
<1>9. "single" \in late' <=> "single" \in late
  BY <1>1
<1>10. OfTheDraft'
  BY <1>1, <1>9 DEF SendInv, OfTheDraft
<1> QED BY <1>1, <1>3, <1>5, <1>8, <1>10 DEF SendInv

LEMMA CreateKeeps == ASSUME SendInv, Create PROVE SendInv'
<1> DEFINE sent == [number |-> drafting.asked + 1, rows |-> sendForm.rows, rate |-> sendForm.rate, picked |-> Selected]
<1>1. /\ drafting' = [status |-> "loading", result |-> NoDraft, asked |-> drafting.asked + 1, sent |-> sent]
      /\ drafting.asked < MaxDrafts /\ Shows(NoDraft, late \cap {"single"}) /\ UNCHANGED <<sendForm, listed>>
  BY DEF Create
<1>2. drafting.asked \in 0..MaxDrafts /\ MaxDrafts \in Nat
  BY PanelAssumption DEF SendInv, SendShape
<1>3. drafting.asked + 1 \in 1..MaxDrafts /\ drafting.asked + 1 \in 0..MaxDrafts
  BY <1>1, <1>2
<1>4. sent \in Draft
  BY <1>3 DEF Draft, SendInv, SendShape, Selected, Row, RateSet
<1>5. sent # NoDraft
  <2>1. sent.number = drafting.asked + 1 /\ NoDraft.number = 0
    BY DEF NoDraft
  <2> QED BY <1>2, <2>1
<1>6. sent.rows = sendForm.rows /\ sent.rate = sendForm.rate /\ sent.picked = Selected
  OBVIOUS
<1> HIDE DEF sent
<1>7. drafting'.status = "loading" /\ drafting'.result = NoDraft /\ drafting'.sent = sent
  BY <1>1
<1>8. /\ pictures' \in [format: {"text", "qr", "animated"}, single: Draft \cup {NoCode},
                        frame: Draft \cup {NoCode}, drawing: SUBSET Drawing]
      /\ late' \in {late \cap {"single"}, (late \cap {"single"}) \cup {"single"}}
      /\ OfTheDraft'
  BY <1>1, <1>7, ShowsKeeps
<1>9. SendShape'
  BY <1>1, <1>3, <1>4, <1>8 DEF SendInv, SendShape
<1>10. OfTheForm(drafting.sent)'
  BY <1>1, <1>6, <1>7 DEF OfTheForm, Selected
<1> QED BY <1>1, <1>5, <1>7, <1>8, <1>9, <1>10 DEF SendInv

LEMMA ArrivesKeeps == ASSUME SendInv, DraftArrives PROVE SendInv'
<1>1. /\ drafting.status = "loading"
      /\ drafting' = [drafting EXCEPT !.status = "done", !.result = drafting.sent, !.sent = NoDraft]
      /\ Shows(drafting.sent, late) /\ UNCHANGED <<sendForm, listed>>
  BY DEF DraftArrives
<1>2. /\ drafting.result = NoDraft /\ OfTheForm(drafting.sent) /\ drafting.sent \in Draft \cup {NoDraft}
      /\ late \subseteq {"edit", "selection", "single"}
  BY <1>1 DEF SendInv, SendShape
<1>3. /\ drafting' \in [status: {"idle", "loading", "done", "error"}, result: Draft \cup {NoDraft},
                        sent: Draft \cup {NoDraft}, asked: 0..MaxDrafts]
      /\ drafting'.result = drafting.sent /\ drafting'.status = "done"
  BY <1>1, <1>2 DEF SendInv, SendShape
<1>4. /\ pictures' \in [format: {"text", "qr", "animated"}, single: Draft \cup {NoCode},
                        frame: Draft \cup {NoCode}, drawing: SUBSET Drawing]
      /\ late' \in {late, late \cup {"single"}}
      /\ OfTheDraft'
  BY <1>1, <1>2, <1>3, ShowsKeeps
<1>5. SendShape'
  BY <1>1, <1>2, <1>3, <1>4 DEF SendInv, SendShape
<1>6. OfTheForm(drafting.result)'
  BY <1>1, <1>2, <1>3, <1>4 DEF OfTheForm, Selected
<1> QED BY <1>1, <1>3, <1>4, <1>5, <1>6 DEF SendInv

LEMMA DrawingKeeps ==
  ASSUME SendInv, \/ NextFrame
                  \/ \E d \in pictures.drawing : CodeDrawn(d)
                  \/ \E format \in {"text", "qr", "animated"} : ChooseFormat(format)
  PROVE  SendInv'
<1>1. CASE NextFrame
  <2> DEFINE next == [of |-> drafting.result, single |-> FALSE, cancelled |-> FALSE]
  <2>1. /\ drafting.result # NoDraft /\ UNCHANGED <<sendForm, listed, drafting, late>>
        /\ pictures' = [pictures EXCEPT !.drawing = {[d EXCEPT !.cancelled = ~d.single] : d \in @} \cup {next}]
    BY <1>1 DEF NextFrame
  <2>2. pictures.drawing \subseteq Drawing /\ drafting.result \in Draft \cup {NoCode}
    BY DEF SendInv, SendShape, NoCode
  <2>3. next \in Drawing /\ next.of = drafting.result /\ ~next.single
    BY <2>2 DEF Drawing
  <2> HIDE DEF next
  <2>4. ASSUME NEW d \in pictures.drawing, NEW e, e = [d EXCEPT !.cancelled = ~d.single]
        PROVE  e \in Drawing /\ e.of = d.of /\ e.single = d.single /\ e.cancelled = ~d.single
    BY <2>2, <2>4 DEF Drawing
  <2>5. PICK drawing : drawing = {[d EXCEPT !.cancelled = ~d.single] : d \in pictures.drawing} \cup {next}
    OBVIOUS
  <2>6. pictures' = [pictures EXCEPT !.drawing = drawing]
    BY <2>1, <2>5
  <2>7. drawing \subseteq Drawing
    BY <2>3, <2>4, <2>5
  <2>8. /\ pictures' \in [format: {"text", "qr", "animated"}, single: Draft \cup {NoCode},
                          frame: Draft \cup {NoCode}, drawing: SUBSET Drawing]
        /\ pictures'.drawing = drawing /\ pictures'.frame = pictures.frame /\ pictures'.single = pictures.single
    BY <2>6, <2>7 DEF SendInv, SendShape
  <2>9. ASSUME NEW e \in drawing
        PROVE  /\ e.of # NoDraft
               /\ e.single /\ "single" \notin late => e.of = drafting.result
               /\ ~e.single /\ ~e.cancelled => e.of = drafting.result
    <3>1. CASE e = next
      BY <2>1, <2>3, <3>1
    <3>2. CASE e # next
      <4>1. PICK d \in pictures.drawing : e = [d EXCEPT !.cancelled = ~d.single]
        BY <2>5, <2>9, <3>2
      <4>2. e.of = d.of /\ e.single = d.single /\ e.cancelled = ~d.single
        BY <2>4, <4>1
      <4>3. d.of # NoDraft /\ (d.single /\ "single" \notin late => d.of = drafting.result)
        BY DEF SendInv, OfTheDraft
      <4> QED BY <4>2, <4>3, Zenon
    <3> QED BY <3>1, <3>2
  <2>10. OfTheDraft'
    BY <2>1, <2>8, <2>9 DEF SendInv, OfTheDraft
  <2> QED BY <2>1, <2>8, <2>10 DEF SendInv, SendShape, OfTheForm, Selected
<1>2. ASSUME NEW d \in pictures.drawing, CodeDrawn(d)
      PROVE  SendInv'
  <2>1. UNCHANGED <<sendForm, listed, drafting, late>>
    BY <1>2 DEF CodeDrawn
  <2>2. PICK code \in {d.of, NoCode} :
          pictures' = [pictures EXCEPT !.drawing = @ \ {d},
                                       !.single = IF d.single THEN code ELSE @,
                                       !.frame = IF d.single \/ d.cancelled THEN @ ELSE code]
    BY <1>2 DEF CodeDrawn
  <2>3. d \in Drawing
    BY DEF SendInv, SendShape
  <2>4. code \in Draft \cup {NoCode}
    BY <2>3 DEF Drawing
  <2>5. /\ pictures' \in [format: {"text", "qr", "animated"}, single: Draft \cup {NoCode},
                          frame: Draft \cup {NoCode}, drawing: SUBSET Drawing]
        /\ pictures'.drawing = pictures.drawing \ {d}
        /\ pictures'.single = IF d.single THEN code ELSE pictures.single
        /\ pictures'.frame = IF d.single \/ d.cancelled THEN pictures.frame ELSE code
    BY <2>2, <2>4 DEF SendInv, SendShape
  <2>6. OfTheDraft'
    BY <2>1, <2>5 DEF SendInv, OfTheDraft
  <2> QED BY <2>1, <2>5, <2>6 DEF SendInv, SendShape, OfTheForm, Selected
<1>3. ASSUME NEW format \in {"text", "qr", "animated"}, ChooseFormat(format)
      PROVE  SendInv'
  <2>1. Pictured(drafting.result, format, late) /\ UNCHANGED <<sendForm, listed, drafting>>
    BY <1>3 DEF ChooseFormat
  <2>2. drafting.result \in Draft \cup {NoDraft} /\ late \subseteq {"edit", "selection", "single"}
    BY DEF SendInv, SendShape
  <2>3. /\ pictures' \in [format: {"text", "qr", "animated"}, single: Draft \cup {NoCode},
                          frame: Draft \cup {NoCode}, drawing: SUBSET Drawing]
        /\ late' \in {late, late \cup {"single"}}
        /\ OfTheDraft'
    BY <2>1, <2>2, PicturedKeeps
  <2>4. late' \subseteq {"edit", "selection", "single"} /\ ("edit" \in late' <=> "edit" \in late)
        /\ ("selection" \in late' <=> "selection" \in late)
    BY <2>2, <2>3
  <2> QED BY <2>1, <2>3, <2>4 DEF SendInv, SendShape, OfTheForm, Selected
<1> QED BY <1>1, <1>2, <1>3

LEMMA SendInvariant == SendSpec => []SendInv
<1>1. SendInit => SendInv
  <2> SUFFICES ASSUME SendInit PROVE SendInv
    OBVIOUS
  <2>1. PICK rate \in TypedRates : sendForm = [rows |-> <<BlankRow>>, rate |-> rate, picked |-> {}, edits |-> 0]
    BY DEF SendInit
  <2>2. <<BlankRow>> \in Seq(Row) /\ Len(<<BlankRow>>) = 1
    BY DEF Row
  <2>3. 0 \in 0..MaxPanelEdits /\ 0 \in 0..MaxDrafts /\ 1 \in 1..MaxRows
    BY PanelAssumption
  <2>4. /\ sendForm \in [rows: Seq(Row), rate: RateSet, picked: SUBSET DOMAIN PanelCoins, edits: 0..MaxPanelEdits]
        /\ Len(sendForm.rows) \in 1..MaxRows /\ sendForm.picked = {}
    BY <2>1, <2>2, <2>3 DEF RateSet
  <2> QED BY <2>3, <2>4 DEF SendInit, SendInv, SendShape, OfTheDraft, NoCode
<1>2. SendInv /\ [SendNext]_sendVars => SendInv'
  <2> SUFFICES ASSUME SendInv, [SendNext]_sendVars PROVE SendInv'
    OBVIOUS
  <2>1. /\ sendForm \in Form /\ Len(sendForm.rows) \in 1..MaxRows /\ sendForm.picked \subseteq listed
        /\ listed \subseteq DOMAIN PanelCoins /\ sendForm.rows \in Seq(Row) /\ MaxRows \in Nat
    BY PanelAssumption DEF SendInv, SendShape, Form
  <2>2. ASSUME NEW i \in 1..MaxRows, RemoveRow(i)
        PROVE  SendInv'
    <3>1. PICK rows : rows = RemoveAt(sendForm.rows, i)
      OBVIOUS
    <3>2. Len(sendForm.rows) > 1 /\ i \in 1..Len(sendForm.rows)
      BY <2>1, <2>2 DEF RemoveRow
    <3>3. rows \in Seq(Row) /\ Len(rows) = Len(sendForm.rows) - 1
      <4>1. PICK all, n : all = sendForm.rows /\ n = Len(all)
        OBVIOUS
      <4>2. all \in Seq(Row) /\ n \in Nat /\ i \in 1..n
        BY <2>1, <3>2, <4>1
      <4>3. PICK front : front = SubSeq(all, 1, i - 1)
        OBVIOUS
      <4>4. PICK back : back = SubSeq(all, i + 1, n)
        OBVIOUS
      <4>5. front \in Seq(Row) /\ Len(front) = i - 1
        <5>1. 1 \in 1..(n + 1) /\ i - 1 \in (1 - 1)..n
          BY <4>2
        <5> QED BY <4>1, <4>2, <4>3, <5>1, SubSeqProperties
      <4>6. back \in Seq(Row) /\ Len(back) = n - i
        <5>1. i + 1 \in 1..(n + 1) /\ n \in (i + 1 - 1)..n
          BY <4>2
        <5> QED BY <4>1, <4>2, <4>4, <5>1, SubSeqProperties
      <4>7. rows = front \o back
        BY <3>1, <4>1, <4>3, <4>4 DEF RemoveAt
      <4>8. rows \in Seq(Row) /\ Len(rows) = Len(front) + Len(back)
        BY <4>5, <4>6, <4>7, ConcatProperties
      <4> QED BY <4>1, <4>2, <4>5, <4>6, <4>8
    <3>4. PICK form : form = [sendForm EXCEPT !.rows = rows]
      OBVIOUS
    <3>5. Edited(form)
      BY <2>2, <3>1, <3>4 DEF RemoveRow
    <3>6. form \in Form /\ form.rows = rows /\ form.edits = sendForm.edits /\ form.picked = sendForm.picked
      BY <2>1, <3>3, <3>4 DEF Form
    <3>7. Len(rows) \in 1..MaxRows
      BY <2>1, <3>2, <3>3
    <3> QED BY <2>1, <3>5, <3>6, <3>7, EditedKeeps
  <2>3. ASSUME NEW i \in 1..MaxRows, NEW row \in RowValues, UpdateRow(i, row)
        PROVE  SendInv'
    <3>1. PICK rows : rows = [sendForm.rows EXCEPT ![i] = row]
      OBVIOUS
    <3>2. i \in DOMAIN sendForm.rows
      BY <2>3 DEF UpdateRow
    <3>3. rows \in Seq(Row) /\ Len(rows) = Len(sendForm.rows)
      BY <2>1, <3>1, <3>2, ExceptSeq DEF Row
    <3>4. PICK form : form = [sendForm EXCEPT !.rows[i] = row]
      OBVIOUS
    <3>5. Edited(form)
      BY <2>3, <3>4 DEF UpdateRow
    <3>6. form \in Form /\ form.rows = rows /\ form.edits = sendForm.edits /\ form.picked = sendForm.picked
      BY <2>1, <3>1, <3>3, <3>4 DEF Form
    <3> QED BY <2>1, <3>3, <3>5, <3>6, EditedKeeps
  <2>4. ASSUME AddRow
        PROVE  SendInv'
    <3>1. PICK rows : rows = Append(sendForm.rows, BlankRow)
      OBVIOUS
    <3>2. rows \in Seq(Row) /\ Len(rows) = Len(sendForm.rows) + 1
      BY <2>1, <3>1, AppendProperties DEF Row
    <3>3. PICK form : form = [sendForm EXCEPT !.rows = rows]
      OBVIOUS
    <3>4. Edited(form) /\ Len(sendForm.rows) < MaxRows
      BY <2>4, <3>1, <3>3 DEF AddRow
    <3>5. form \in Form /\ form.rows = rows /\ form.edits = sendForm.edits /\ form.picked = sendForm.picked
      BY <2>1, <3>2, <3>3 DEF Form
    <3>6. Len(rows) \in 1..MaxRows
      BY <2>1, <3>2, <3>4
    <3> QED BY <2>1, <3>4, <3>5, <3>6, EditedKeeps
  <2>5. ASSUME NEW rate \in RateSet, Edited([sendForm EXCEPT !.rate = rate])
        PROVE  SendInv'
    <3>1. PICK form : form = [sendForm EXCEPT !.rate = rate]
      OBVIOUS
    <3>2. /\ form \in Form /\ form.rows = sendForm.rows /\ form.edits = sendForm.edits
          /\ form.picked = sendForm.picked
      BY <2>1, <3>1 DEF Form
    <3> QED BY <2>1, <2>5, <3>1, <3>2, EditedKeeps
  <2>6. ASSUME NEW c \in DOMAIN PanelCoins, ToggleCoin(c)
        PROVE  SendInv'
    <3>1. PICK picked : picked = IF c \in sendForm.picked THEN sendForm.picked \ {c} ELSE sendForm.picked \cup {c}
      OBVIOUS
    <3>2. PICK form : form = [sendForm EXCEPT !.picked = picked]
      OBVIOUS
    <3>3. c \in listed /\ Edited(form)
      BY <2>6, <3>1, <3>2 DEF ToggleCoin
    <3>4. picked \subseteq listed
      BY <2>1, <3>1, <3>3
    <3>5. form \in Form /\ form.rows = sendForm.rows /\ form.edits = sendForm.edits /\ form.picked = picked
      BY <2>1, <3>2, <3>4 DEF Form
    <3> QED BY <2>1, <3>3, <3>4, <3>5, EditedKeeps
  <2>7. ASSUME ClearSelection
        PROVE  SendInv'
    BY <2>1, <2>7, RepickedKeeps DEF ClearSelection
  <2>8. ASSUME NEW answer \in SUBSET DOMAIN PanelCoins, CoinsListed(answer)
        PROVE  SendInv'
    <3>1. listed' = answer /\ Repicked(sendForm.picked \cap answer)
      BY <2>8 DEF CoinsListed
    <3>2. sendForm.picked \cap answer \subseteq sendForm.picked /\ sendForm.picked \cap answer \subseteq listed'
          /\ listed' \subseteq DOMAIN PanelCoins
      BY <3>1
    <3> QED BY <3>1, <3>2, RepickedKeeps
  <2>9. ASSUME DraftFails
        PROVE  SendInv'
    <3>1. /\ drafting.status = "loading" /\ drafting' = [drafting EXCEPT !.status = "error", !.sent = NoDraft]
          /\ UNCHANGED <<sendForm, listed, pictures, late>>
      BY <2>9 DEF DraftFails
    <3>2. /\ drafting' \in [status: {"idle", "loading", "done", "error"}, result: Draft \cup {NoDraft},
                            sent: Draft \cup {NoDraft}, asked: 0..MaxDrafts]
          /\ drafting'.result = drafting.result /\ drafting'.status = "error" /\ drafting.result = NoDraft
      BY <3>1 DEF SendInv, SendShape
    <3> QED BY <3>1, <3>2 DEF SendInv, SendShape, OfTheDraft
  <2>10. ASSUME UNCHANGED sendVars
         PROVE  SendInv'
    BY <2>10 DEF sendVars, SendInv, SendShape, OfTheForm, OfTheDraft, Selected
  <2>11. ASSUME NEW rate, TypeRate(rate), rate \in TypedRates
         PROVE  SendInv'
    BY <2>5, <2>11 DEF TypeRate, RateSet
  <2>12. ASSUME NEW rate, ApplyFeePreset(rate), rate \in PresetRates
         PROVE  SendInv'
    BY <2>5, <2>12 DEF ApplyFeePreset, RateSet
  <2> QED BY <2>2, <2>3, <2>4, <2>6, <2>7, <2>8, <2>9, <2>10, <2>11, <2>12, CreateKeeps, ArrivesKeeps,
             DrawingKeeps DEF SendNext
<1> QED BY <1>1, <1>2, PTL DEF SendSpec

(* A draft that is shown is of the form as it is, and a code of the draft, *)
(* but for what the page lets happen while the draft is made or a single   *)
(* code is drawn: for any number of rows, changes and drafts               *)
(* (handleCreate, updateRecipient, toggleUtxo, the effects that draw).     *)
THEOREM PanelDraftIsOfTheForm == SendSpec => []DraftIsOfTheForm
<1>1. SendInv => DraftIsOfTheForm
  BY DEF SendInv, OfTheForm, OfTheDraft, DraftIsOfTheForm
<1> QED BY <1>1, SendInvariant, PTL

(* Form, list, draft and codes have their types.                           *)
THEOREM SendTypeCorrect == SendSpec => []SendTypeOK
<1>1. SendInv => SendTypeOK
  BY DEF SendInv, SendShape, SendTypeOK, Row, RateSet
<1> QED BY <1>1, SendInvariant, PTL

-----------------------------------------------------------------------------
(* Sums.  The amount of a payment is computed recursively; that it is the  *)
(* last of the partial sums is shown with a least counterexample.          *)

Pay == [to: STRING, amount: Nat]

\* The partial sums of a payment.
PartialSums(p, f, m) == f[0] = 0 /\ \A n \in 1..m : f[n] = f[n - 1] + p[n].amount

\* Each payment has partial sums, up to each of its recipients.
LEMMA SumsExist ==
  ASSUME NEW p \in Seq(Pay), NEW m \in 0..Len(p)
  PROVE  \E f \in [0..m -> Nat] : PartialSums(p, f, m)
<1> DEFINE Has(n) == \E f \in [0..n -> Nat] : PartialSums(p, f, n)
           Bad == {n \in 0..Len(p) : ~Has(n)}
<1>1. SUFFICES ASSUME Bad # {} PROVE FALSE
  OBVIOUS
<1> HIDE DEF Has
<1>2. PICK least \in Bad : \A n \in Bad : least <= n
  <2>1. Bad \subseteq Nat
    OBVIOUS
  <2> HIDE DEF Bad
  <2> QED BY <1>1, <2>1, LeastNatural
<1>3. Has(0)
  <2>1. [n \in 0..0 |-> 0] \in [0..0 -> Nat] /\ PartialSums(p, [n \in 0..0 |-> 0], 0)
    BY DEF PartialSums
  <2> QED BY <2>1 DEF Has
<1>4. least \in 1..Len(p)
  <2>1. least \in 0..Len(p) /\ least # 0
    BY <1>2, <1>3
  <2> QED BY <2>1
<1>5. Has(least - 1)
  <2>1. least - 1 \in 0..Len(p) /\ ~(least <= least - 1)
    BY <1>4
  <2> QED BY <1>2, <2>1
<1>6. PICK f \in [0..(least - 1) -> Nat] : PartialSums(p, f, least - 1)
  BY <1>5 DEF Has
<1> DEFINE g == [n \in 0..least |-> IF n = least THEN f[least - 1] + p[least].amount ELSE f[n]]
<1>7. p[least].amount \in Nat
  <2>1. p[least] \in Pay
    BY <1>4
  <2> QED BY <2>1 DEF Pay
<1>8. g \in [0..least -> Nat]
  BY <1>4, <1>7
<1>9. PartialSums(p, g, least)
  <2>1. g[0] = 0
    BY <1>4, <1>6 DEF PartialSums
  <2>2. ASSUME NEW n \in 1..least
        PROVE  g[n] = g[n - 1] + p[n].amount
    BY <1>4, <1>6, <2>2 DEF PartialSums
  <2> QED BY <2>1, <2>2 DEF PartialSums
<1> QED BY <1>2, <1>8, <1>9 DEF Has

\* They are unique.
LEMMA SumsUnique ==
  ASSUME NEW p \in Seq(Pay), NEW m \in 0..Len(p),
         NEW f, PartialSums(p, f, m), NEW g, PartialSums(p, g, m)
  PROVE  \A n \in 0..m : f[n] = g[n]
<1> DEFINE Bad == {n \in 0..m : f[n] # g[n]}
<1>1. SUFFICES ASSUME Bad # {} PROVE FALSE
  OBVIOUS
<1>2. PICK least \in Bad : \A n \in Bad : least <= n
  <2>1. Bad \subseteq Nat
    OBVIOUS
  <2> HIDE DEF Bad
  <2> QED BY <1>1, <2>1, LeastNatural
<1>3. least # 0
  BY DEF PartialSums
<1>4. least - 1 \in 0..m /\ least \in 1..m /\ f[least - 1] = g[least - 1]
  BY <1>2, <1>3
<1> QED BY <1>2, <1>4 DEF PartialSums

\* The amount of a payment is the last of its partial sums.
LEMMA AmountIs ==
  ASSUME NEW p \in Seq(Pay), NEW f, PartialSums(p, f, Len(p))
  PROVE  AmountOf(p) = f[Len(p)]
<1> DEFINE G == CHOOSE g : g = [n \in 0..Len(p) |-> IF n = 0 THEN 0 ELSE g[n - 1] + p[n].amount]
<1>1. AmountOf(p) = G[Len(p)]
  BY DEF AmountOf
<1>2. PICK h \in [0..Len(p) -> Nat] : PartialSums(p, h, Len(p))
  BY SumsExist
<1>3. h = [n \in 0..Len(p) |-> IF n = 0 THEN 0 ELSE h[n - 1] + p[n].amount]
  BY <1>2 DEF PartialSums
<1>4. G = [n \in 0..Len(p) |-> IF n = 0 THEN 0 ELSE G[n - 1] + p[n].amount]
  BY <1>3
<1> HIDE DEF G
<1>5. PartialSums(p, G, Len(p))
  BY <1>4 DEF PartialSums
<1>6. Len(p) \in 0..Len(p)
  OBVIOUS
<1>7. G[Len(p)] = f[Len(p)]
  BY <1>5, <1>6, SumsUnique
<1> QED BY <1>1, <1>7

\* One recipient more, and the amount is more by what it gets.
LEMMA AmountOfAppend ==
  ASSUME NEW p \in Seq(Pay), NEW x \in Pay
  PROVE  AmountOf(p) \in Nat /\ AmountOf(Append(p, x)) = AmountOf(p) + x.amount
<1> DEFINE q == Append(p, x)
<1>1. PICK f \in [0..Len(p) -> Nat] : PartialSums(p, f, Len(p))
  BY SumsExist
<1>2. AmountOf(p) = f[Len(p)]
  BY <1>1, AmountIs
<1>3. q \in Seq(Pay) /\ Len(q) = Len(p) + 1 /\ q[Len(q)] = x /\ \A n \in 1..Len(p) : q[n] = p[n]
  OBVIOUS
<1> DEFINE g == [n \in 0..Len(q) |-> IF n = Len(q) THEN f[Len(p)] + x.amount ELSE f[n]]
<1> HIDE DEF q
<1>4. PartialSums(q, g, Len(q))
  <2>1. g[0] = 0
    BY <1>1, <1>3 DEF PartialSums
  <2>2. ASSUME NEW n \in 1..Len(q)
        PROVE  g[n] = g[n - 1] + q[n].amount
    <3>1. CASE n = Len(q)
      BY <1>1, <1>3, <3>1
    <3>2. CASE n # Len(q)
      <4>1. n \in 1..Len(p) /\ n - 1 \in 0..Len(p) /\ n - 1 # Len(q)
        BY <1>3, <3>2
      <4> QED BY <1>1, <1>3, <3>2, <4>1 DEF PartialSums
    <3> QED BY <3>1, <3>2
  <2> QED BY <2>1, <2>2 DEF PartialSums
<1>5. AmountOf(q) = g[Len(q)]
  BY <1>3, <1>4, AmountIs
<1>6. g[Len(q)] = f[Len(p)] + x.amount
  BY <1>3
<1> QED BY <1>1, <1>2, <1>5, <1>6 DEF q

\* What a sum over a set is made of: an element that is chosen, and the rest.
Picked(s) == CHOOSE x \in s : TRUE

SumStep(f, s) == IF s = {} THEN 0 ELSE CoinValue[Picked(s)] + f[s \ {Picked(s)}]

Smaller(S, n) == {s \in SUBSET S : Cardinality(s) <= n}

(* The sum of the values of some coins is a natural number, for any number *)
(* of coins.                                                               *)
LEMMA SumIsNat ==
  ASSUME NEW S \in SUBSET Coins
  PROVE  SumOf(S) \in Nat
<1> DEFINE Has(n) == \E f \in [Smaller(S, n) -> Nat] : \A s \in Smaller(S, n) : f[s] = SumStep(f, s)
           Bad == {n \in Nat : ~Has(n)}
<1>1. IsFiniteSet(S) /\ \A s \in SUBSET S : IsFiniteSet(s) /\ Cardinality(s) \in Nat /\ Cardinality(s) <= Cardinality(S)
  BY SpendingAssumption, FS_Subset, FS_CardinalityType DEF Coins
<1>2. \A s \in SUBSET S : s # {} => Picked(s) \in s /\ CoinValue[Picked(s)] \in Nat
  BY SpendingAssumption DEF Picked, Coins
<1>3. ASSUME NEW s \in SUBSET S, s # {}
      PROVE  s \ {Picked(s)} \in SUBSET S /\ Cardinality(s \ {Picked(s)}) = Cardinality(s) - 1
  BY <1>1, <1>2, <1>3, FS_RemoveElement
<1> HIDE DEF Has
<1>4. Bad = {}
  <2>1. SUFFICES ASSUME Bad # {} PROVE FALSE
    OBVIOUS
  <2>2. PICK least \in Bad : \A n \in Bad : least <= n
    <3>1. Bad \subseteq Nat
      OBVIOUS
    <3> HIDE DEF Bad
    <3> QED BY <2>1, <3>1, LeastNatural
  <2>3. Has(0)
    <3>1. \A s \in Smaller(S, 0) : s = {}
      BY <1>1, FS_EmptySet DEF Smaller
    <3>2. [s \in Smaller(S, 0) |-> 0] \in [Smaller(S, 0) -> Nat]
      OBVIOUS
    <3>3. \A s \in Smaller(S, 0) : [t \in Smaller(S, 0) |-> 0][s] = SumStep([t \in Smaller(S, 0) |-> 0], s)
      BY <3>1 DEF SumStep
    <3> QED BY <3>2, <3>3 DEF Has
  <2>4. PICK n \in Nat : least = n + 1
    <3>1. least \in Nat /\ least # 0
      BY <2>2, <2>3
    <3>2. least - 1 \in Nat /\ least = (least - 1) + 1
      BY <3>1
    <3> QED BY <3>2
  <2>5. Has(n)
    <3>1. ~(n + 1 <= n)
      OBVIOUS
    <3> QED BY <2>2, <2>4, <3>1
  <2>6. PICK f \in [Smaller(S, n) -> Nat] : \A s \in Smaller(S, n) : f[s] = SumStep(f, s)
    BY <2>5 DEF Has
  <2> DEFINE g == [s \in Smaller(S, n + 1) |-> SumStep(f, s)]
  <2>7. ASSUME NEW s \in Smaller(S, n + 1), s # {}
        PROVE  /\ s \ {Picked(s)} \in Smaller(S, n) /\ s \ {Picked(s)} \in Smaller(S, n + 1)
               /\ CoinValue[Picked(s)] \in Nat
    <3>1. s \in SUBSET S /\ Cardinality(s) <= n + 1 /\ Cardinality(s) \in Nat
      BY <1>1 DEF Smaller
    <3>2. s \ {Picked(s)} \in SUBSET S /\ Cardinality(s \ {Picked(s)}) = Cardinality(s) - 1
      BY <1>3, <2>7, <3>1
    <3>3. Cardinality(s \ {Picked(s)}) <= n /\ Cardinality(s \ {Picked(s)}) <= n + 1
      BY <3>1, <3>2
    <3> QED BY <1>2, <2>7, <3>1, <3>2, <3>3 DEF Smaller
  <2>8. g \in [Smaller(S, n + 1) -> Nat]
    <3>1. ASSUME NEW s \in Smaller(S, n + 1)
          PROVE  SumStep(f, s) \in Nat
      BY <2>6, <2>7 DEF SumStep
    <3> QED BY <3>1
  <2>9. ASSUME NEW s \in Smaller(S, n + 1)
        PROVE  g[s] = SumStep(g, s)
    <3>1. CASE s = {}
      BY <3>1 DEF SumStep
    <3>2. CASE s # {}
      <4> DEFINE rest == s \ {Picked(s)}
      <4>1. rest \in Smaller(S, n) /\ rest \in Smaller(S, n + 1)
        BY <2>7, <3>2
      <4>2. g[rest] = f[rest]
        BY <2>6, <4>1
      <4>3. g[s] = CoinValue[Picked(s)] + f[rest] /\ SumStep(g, s) = CoinValue[Picked(s)] + g[rest]
        BY <3>2 DEF SumStep
      <4> QED BY <4>2, <4>3
    <3> QED BY <3>1, <3>2
  <2> HIDE DEF g
  <2>10. Has(n + 1)
    BY <2>8, <2>9 DEF Has
  <2> QED BY <2>2, <2>4, <2>10
<1>5. Has(Cardinality(S))
  BY <1>1, <1>4
<1>6. Smaller(S, Cardinality(S)) = SUBSET S
  BY <1>1 DEF Smaller
<1>7. PICK f \in [SUBSET S -> Nat] : \A s \in SUBSET S : f[s] = SumStep(f, s)
  BY <1>5, <1>6 DEF Has
<1> DEFINE G == CHOOSE g : g = [s \in SUBSET S |-> SumStep(g, s)]
<1>8. G = [s \in SUBSET S |-> SumStep(G, s)]
  <2>1. f = [s \in SUBSET S |-> SumStep(f, s)]
    BY <1>7
  <2> QED BY <2>1
<1>9. SumOf(S) = G[S]
  BY DEF SumOf, MapThenSumSet, MapThenFoldSet, SumStep, Picked
<1> HIDE DEF G
<1> DEFINE Wrong == {n \in Nat : \E s \in SUBSET S : Cardinality(s) = n /\ G[s] \notin Nat}
<1>10. Wrong = {}
  <2>1. SUFFICES ASSUME Wrong # {} PROVE FALSE
    OBVIOUS
  <2>2. PICK least \in Wrong : \A n \in Wrong : least <= n
    <3>1. Wrong \subseteq Nat
      OBVIOUS
    <3> HIDE DEF Wrong
    <3> QED BY <2>1, <3>1, LeastNatural
  <2>3. PICK s \in SUBSET S : Cardinality(s) = least /\ G[s] \notin Nat
    BY <2>2
  <2>4. G[s] = SumStep(G, s)
    BY <1>8
  <2>5. s # {}
    BY <2>3, <2>4 DEF SumStep
  <2> DEFINE rest == s \ {Picked(s)}
  <2>6. rest \in SUBSET S /\ Cardinality(rest) = least - 1 /\ Cardinality(rest) \in Nat /\ least \in Nat
    BY <1>1, <1>3, <2>3, <2>5
  <2>7. G[rest] \in Nat
    <3>1. Cardinality(rest) \notin Wrong
      BY <2>2, <2>6
    <3> QED BY <2>6, <3>1
  <2>8. G[s] = CoinValue[Picked(s)] + G[rest] /\ CoinValue[Picked(s)] \in Nat
    BY <1>2, <2>4, <2>5 DEF SumStep
  <2> QED BY <2>3, <2>7, <2>8
<1>11. G[S] \in Nat
  BY <1>1, <1>10
<1> QED BY <1>9, <1>11

-----------------------------------------------------------------------------
(* The payment.  The argument: a plan splits what is spent into what is    *)
(* paid, the change and a fee within bounds, and the PSBT pays by the      *)
(* plan; so the verdict, which compares the two, finds nothing amiss.      *)

IsRate(rate) == rate.sats \in Nat /\ rate.per \in Nat \ {0}

\* The fee does not fall with the size.
LEMMA FeeGrows ==
  ASSUME NEW rate, IsRate(rate), NEW v \in Nat, NEW w \in Nat, v <= w
  PROVE  Fee(rate, v) \in Nat /\ Fee(rate, w) \in Nat /\ Fee(rate, v) <= Fee(rate, w)
<1>1. ASSUME NEW r \in Nat, NEW b \in Nat \ {0}
      PROVE  /\ r * v + b - 1 \in Nat /\ r * w + b - 1 \in Nat /\ r * v + b - 1 <= r * w + b - 1
  <2>1. r * v \in Nat /\ r * w \in Nat /\ r * v <= r * w
    OBVIOUS
  <2> QED BY <2>1
<1>2. ASSUME NEW b \in Nat \ {0}, NEW x \in Nat, NEW y \in Nat, x <= y
      PROVE  x \div b \in Nat /\ y \div b \in Nat /\ x \div b <= y \div b
  BY <1>2
<1>3. PICK r \in Nat, b \in Nat \ {0} : r = rate.sats /\ b = rate.per
  BY DEF IsRate
<1>4. Fee(rate, v) = (r * v + b - 1) \div b /\ Fee(rate, w) = (r * w + b - 1) \div b
  BY <1>3 DEF Fee
<1>5. PICK x \in Nat, y \in Nat : x = r * v + b - 1 /\ y = r * w + b - 1 /\ x <= y
  BY <1>1
<1> QED BY <1>2, <1>4, <1>5

\* Transactions have sizes, and one with more outputs is not smaller.
LEMMA SizesGrow ==
  ASSUME NEW script, NEW inputs \in Nat, NEW m \in Nat, NEW n \in Nat, m <= n
  PROVE  Vbytes(script, inputs, m) \in Nat /\ Vbytes(script, inputs, n) \in Nat
         /\ Vbytes(script, inputs, m) <= Vbytes(script, inputs, n)
<1>1. InputVbytes(script) \in {68, 91, 58}
  BY DEF InputVbytes
<1> QED BY <1>1 DEF Vbytes

PlanType == [total: Nat, fee: Nat, change: Nat]

\* A plan of an amount: nothing is lost, no change is dust, and the fee is no
\* less than the low one and less than dust above the high one.
Balanced(plan, total, amount, low, high) ==
  /\ plan \in PlanType
  /\ total = amount + plan.change + plan.fee
  /\ plan.change # 0 => plan.change >= Dust /\ plan.fee = high
  /\ plan.fee >= low /\ plan.fee < high + Dust

LEMMA SplitIsBalanced ==
  ASSUME NEW total \in Nat, NEW amount \in Nat, NEW fee \in Nat, total >= amount + fee
  PROVE  Balanced(Split(total, amount, fee), total, amount, fee, fee)
<1> DEFINE rest == total - amount - fee
           plan == Split(total, amount, fee)
<1>1. CASE rest >= Dust
  <2>1. plan = [total |-> total, fee |-> fee, change |-> rest]
    BY <1>1 DEF Split, Plan
  <2>2. rest \in Nat /\ total = amount + rest + fee /\ fee < fee + Dust
    BY <1>1 DEF Dust
  <2> QED BY <1>1, <2>1, <2>2 DEF Balanced, PlanType
<1>2. CASE ~(rest >= Dust)
  <2>1. plan = [total |-> total, fee |-> total - amount, change |-> 0]
    BY <1>2 DEF Split, Plan
  <2>2. total - amount \in Nat /\ total - amount >= fee /\ total - amount < fee + Dust
    BY <1>2 DEF Dust
  <2> QED BY <2>1, <2>2 DEF Balanced, PlanType
<1> QED BY <1>1, <1>2

\* The plan of coins that nobody picked is for two outputs.
LEMMA AutomaticIsBalanced ==
  ASSUME NEW script, NEW inputs \in Nat, NEW total \in Nat, NEW amount \in Nat, NEW rate, IsRate(rate),
         NEW plan, plan = AutomaticPlan(script, inputs, total, amount, rate), plan # NoPlan
  PROVE  LET fee == Fee(rate, Vbytes(script, inputs, 2)) IN fee \in Nat /\ Balanced(plan, total, amount, fee, fee)
<1> DEFINE fee == Fee(rate, Vbytes(script, inputs, 2))
<1>1. fee \in Nat
  BY FeeGrows, SizesGrow
<1>2. plan = IF total >= amount + fee THEN Split(total, amount, fee) ELSE NoPlan
  BY DEF AutomaticPlan, AutomaticFee
<1> HIDE DEF fee
<1>3. total >= amount + fee /\ plan = Split(total, amount, fee)
  BY <1>2
<1>4. Balanced(plan, total, amount, fee, fee)
  BY <1>1, <1>3, SplitIsBalanced
<1> QED BY <1>1, <1>4 DEF fee

\* That of coins that were picked is for one output more than recipients, or for
\* no more when only that is paid for.
LEMMA SelectedIsBalanced ==
  ASSUME NEW script, NEW inputs \in Nat, NEW total \in Nat, NEW amount \in Nat, NEW rate, IsRate(rate),
         NEW recipients \in Nat,
         NEW plan, plan = SelectedPlan(script, inputs, total, amount, rate, recipients), plan # NoPlan
  PROVE  LET withChange == Fee(rate, Vbytes(script, inputs, recipients + 1))
             noChange   == Fee(rate, Vbytes(script, inputs, recipients))
         IN  /\ withChange \in Nat /\ noChange \in Nat /\ noChange <= withChange
             /\ Balanced(plan, total, amount, noChange, withChange)
<1> DEFINE withChange == Fee(rate, Vbytes(script, inputs, recipients + 1))
           noChange   == Fee(rate, Vbytes(script, inputs, recipients))
<1>1. withChange \in Nat /\ noChange \in Nat /\ noChange <= withChange
  <2>1. recipients + 1 \in Nat /\ recipients <= recipients + 1
    OBVIOUS
  <2>2. /\ Vbytes(script, inputs, recipients) \in Nat /\ Vbytes(script, inputs, recipients + 1) \in Nat
        /\ Vbytes(script, inputs, recipients) <= Vbytes(script, inputs, recipients + 1)
    BY <2>1, SizesGrow
  <2> QED BY <2>2, FeeGrows
<1>2. plan = IF total >= amount + withChange THEN Split(total, amount, withChange)
             ELSE IF total >= amount + noChange THEN Plan(total, total - amount, 0) ELSE NoPlan
  BY DEF SelectedPlan
<1> HIDE DEF withChange, noChange
<1>3. CASE total >= amount + withChange
  <2>1. Balanced(plan, total, amount, withChange, withChange)
    BY <1>1, <1>2, <1>3, SplitIsBalanced
  <2>2. plan.fee \in Nat /\ plan.fee >= noChange
    BY <1>1, <2>1 DEF Balanced, PlanType
  <2> QED BY <1>1, <2>1, <2>2 DEF Balanced, withChange, noChange
<1>4. CASE ~(total >= amount + withChange)
  <2>1. plan = [total |-> total, fee |-> total - amount, change |-> 0] /\ total >= amount + noChange
    BY <1>2, <1>4 DEF Plan
  <2>2. total - amount \in Nat /\ total - amount >= noChange /\ total - amount < withChange + Dust
    BY <1>1, <1>4, <2>1 DEF Dust
  <2>3. Balanced(plan, total, amount, noChange, withChange)
    BY <2>1, <2>2 DEF Balanced, PlanType
  <2> QED BY <1>1, <2>3 DEF withChange, noChange
<1> QED BY <1>3, <1>4

\* The size of the transaction with n outputs.
SizeOf(s, n) == Vbytes(s.script, Cardinality(s.inputs), n)

\* What is spent is paid for, by the rules of a plan.
Funded(s) ==
  /\ s.inputs # {}
  /\ SumOf(s.inputs) = AmountOf(s.payment) + s.plan.change + s.plan.fee
  /\ s.plan.change # 0 => s.plan.change >= Dust
  /\ \/ s.plan.fee >= Fee(s.rate, SizeOf(s, IF s.plan.change > 0 THEN Len(s.payment) + 1 ELSE Len(s.payment)))
     \/ s.picked = {} /\ Len(s.payment) > 1
  /\ s.plan.fee < Fee(s.rate, SizeOf(s, Len(s.payment) + 1)) + Dust

Psbt == [spends: SUBSET Coins, pays: Seq(Pay), signed: BOOLEAN]

Request == [at: {"asked", "planned", "built", "signed", "verified"}, payment: Payments, rate: Rates, script: Scripts,
            picked: SUBSET Coins, inputs: SUBSET Coins, plan: PlanType, psbt: Psbt,
            verdict: {"none", "invalid", "warning", "valid"}]

SpendInv ==
  /\ coins \in [Coins -> {"confirmed", "unconfirmed", "spent"}]
  /\ \/ spend = [at |-> "idle"] \/ spend = Refused
     \/ spend \in Request /\ Len(spend.payment) >= 1
  /\ spend.at \in {"planned", "built", "signed", "verified"} =>
       Funded(spend) /\ (spend.picked = {} => \A c \in spend.inputs : coins[c] = "confirmed")
  /\ spend.at \in {"built", "signed", "verified"} => spend.psbt.spends = spend.inputs /\ spend.psbt.pays = Outputs
  /\ OwnPsbtVerifies

\* A request has numbers.
LEMMA RequestNumbers ==
  ASSUME NEW s \in Request, Len(s.payment) >= 1
  PROVE  /\ s.payment \in Seq(Pay) /\ Len(s.payment) \in Nat \ {0} /\ AmountOf(s.payment) \in Nat
         /\ IsRate(s.rate)
         /\ \A set \in SUBSET Coins : SumOf(set) \in Nat /\ Cardinality(set) \in Nat
<1>1. s.payment \in Seq(Pay)
  BY SpendingAssumption DEF Request, Pay
<1>2. AmountOf(s.payment) \in Nat
  <2>1. [to |-> OwnAddress, amount |-> 0] \in Pay
    BY SpendingAssumption DEF Pay
  <2> QED BY <1>1, <2>1, AmountOfAppend
<1>3. IsRate(s.rate)
  BY SpendingAssumption DEF Request, IsRate
<1>4. \A set \in SUBSET Coins : SumOf(set) \in Nat /\ Cardinality(set) \in Nat
  BY SpendingAssumption, SumIsNat, FS_Subset, FS_CardinalityType DEF Coins
<1> QED BY <1>1, <1>2, <1>3, <1>4

\* A plan that is balanced makes a payment that is funded.
LEMMA BalancedIsFunded ==
  ASSUME NEW s \in Request, Len(s.payment) >= 1, s.inputs # {}, NEW low \in Nat, NEW high \in Nat,
         Balanced(s.plan, SumOf(s.inputs), AmountOf(s.payment), low, high),
         \/ low = high /\ high = Fee(s.rate, SizeOf(s, 2)) /\ s.picked = {}
         \/ low = Fee(s.rate, SizeOf(s, Len(s.payment))) /\ high = Fee(s.rate, SizeOf(s, Len(s.payment) + 1))
  PROVE  Funded(s)
<1>1. PICK n \in Nat \ {0} : n = Len(s.payment)
  BY RequestNumbers
<1>2. IsRate(s.rate) /\ Cardinality(s.inputs) \in Nat /\ s.plan.change \in Nat /\ s.plan.fee \in Nat
  BY RequestNumbers DEF Request, PlanType
<1>3. ASSUME NEW i \in Nat, NEW j \in Nat, i <= j
      PROVE  /\ Fee(s.rate, SizeOf(s, i)) \in Nat /\ Fee(s.rate, SizeOf(s, j)) \in Nat
             /\ Fee(s.rate, SizeOf(s, i)) <= Fee(s.rate, SizeOf(s, j))
  <2>1. SizeOf(s, i) \in Nat /\ SizeOf(s, j) \in Nat /\ SizeOf(s, i) <= SizeOf(s, j)
    BY <1>2, <1>3, SizesGrow DEF SizeOf
  <2> QED BY <1>2, <2>1, FeeGrows
<1> DEFINE F(k) == Fee(s.rate, SizeOf(s, k))
           outputs == IF s.plan.change > 0 THEN n + 1 ELSE n
<1> HIDE DEF F
<1>4. ASSUME NEW i \in Nat, NEW j \in Nat, i <= j
      PROVE  F(i) \in Nat /\ F(j) \in Nat /\ F(i) <= F(j)
  BY <1>3, <1>4 DEF F
<1>5. /\ s.plan.change # 0 => s.plan.change >= Dust /\ s.plan.fee = high
      /\ s.plan.fee >= low /\ s.plan.fee < high + Dust
      /\ SumOf(s.inputs) = AmountOf(s.payment) + s.plan.change + s.plan.fee
  BY DEF Balanced
<1>6. (s.plan.fee >= F(outputs) \/ (s.picked = {} /\ n > 1)) /\ s.plan.fee < F(n + 1) + Dust
  <2>1. CASE low = high /\ high = F(2) /\ s.picked = {}
    <3>1. F(2) <= F(n + 1) /\ F(2) \in Nat /\ F(n + 1) \in Nat
      <4>1. n + 1 \in Nat /\ 2 <= n + 1
        BY <1>1
      <4> QED BY <1>4, <4>1
    <3>2. n = 1 => outputs \in Nat /\ outputs <= 2
      OBVIOUS
    <3>3. n = 1 => F(outputs) \in Nat /\ F(outputs) <= F(2)
      BY <1>4, <3>2
    <3>4. s.plan.fee < F(n + 1) + Dust
      BY <1>2, <1>5, <2>1, <3>1 DEF Dust
    <3>5. n = 1 => s.plan.fee >= F(outputs)
      BY <1>2, <1>5, <2>1, <3>1, <3>3
    <3>6. n = 1 \/ n > 1
      <4>1. n \in Nat /\ n # 0
        OBVIOUS
      <4> HIDE DEF outputs
      <4> QED BY ONLY <4>1, SMT
    <3> QED BY <2>1, <3>4, <3>5, <3>6, Zenon
  <2>2. CASE low = F(n) /\ high = F(n + 1)
    <3>1. s.plan.fee >= F(outputs)
      <4>1. CASE s.plan.change > 0
        BY <1>2, <1>5, <2>2, <4>1
      <4>2. CASE ~(s.plan.change > 0)
        BY <1>5, <2>2, <4>2
      <4> QED BY <4>1, <4>2
    <3> QED BY <1>5, <2>2, <3>1
  <2>3. \/ low = high /\ high = F(2) /\ s.picked = {}
        \/ low = F(n) /\ high = F(n + 1)
    BY <1>1 DEF F
  <2> QED BY <2>1, <2>2, <2>3
<1> QED BY <1>1, <1>5, <1>6 DEF Funded, F

LEMMA PlannedKeeps ==
  ASSUME SpendInv, spend \in Request, Len(spend.payment) >= 1, spend.at = "asked", UNCHANGED coins,
         NEW inputs \in SUBSET Coins, inputs # {},
         spend.picked = {} => \A c \in inputs : coins[c] = "confirmed",
         NEW plan, NEW low \in Nat, NEW high \in Nat,
         Balanced(plan, SumOf(inputs), AmountOf(spend.payment), low, high),
         \/ /\ low = high /\ spend.picked = {}
            /\ high = Fee(spend.rate, Vbytes(spend.script, Cardinality(inputs), 2))
         \/ /\ low = Fee(spend.rate, Vbytes(spend.script, Cardinality(inputs), Len(spend.payment)))
            /\ high = Fee(spend.rate, Vbytes(spend.script, Cardinality(inputs), Len(spend.payment) + 1)),
         spend' = [spend EXCEPT !.at = "planned", !.inputs = inputs, !.plan = plan]
  PROVE  SpendInv'
<1>1. plan \in PlanType
  BY DEF Balanced
<1>2. PICK s : s = [spend EXCEPT !.at = "planned", !.inputs = inputs, !.plan = plan]
  OBVIOUS
<1>3. /\ s \in Request /\ s.at = "planned" /\ s.inputs = inputs /\ s.plan = plan /\ s.payment = spend.payment
      /\ s.rate = spend.rate /\ s.script = spend.script /\ s.picked = spend.picked
  BY <1>1, <1>2 DEF Request
<1>4. Funded(s)
  BY <1>3, BalancedIsFunded DEF SizeOf
<1>5. spend' = s
  BY <1>2
<1> QED BY <1>3, <1>4, <1>5 DEF SpendInv, OwnPsbtVerifies

LEMMA FindKeeps == ASSUME SpendInv, FindCoins PROVE SpendInv'
<1>1. /\ spend.at = "asked" /\ UNCHANGED coins
      /\ \E reached \in SUBSET Coins :
           IF spend.picked = {} THEN SelectCoins(Found(reached)) ELSE ResolvePicked(Found(reached))
  BY DEF FindCoins
<1>2. spend \in Request /\ Len(spend.payment) >= 1
  BY <1>1 DEF SpendInv, Refused
<1>3. CASE spend' = Refused
  BY <1>1, <1>3 DEF SpendInv, Refused, OwnPsbtVerifies
<1>4. CASE spend.picked = {} /\ spend' # Refused
  <2>1. PICK reached \in SUBSET Coins : SelectCoins(Found(reached))
    BY <1>1, <1>4
  <2> DEFINE confirmed == {c \in Found(reached) : coins[c] = "confirmed"}
  <2>2. PICK inputs \in FirstEnough(confirmed) : Planned(inputs, PlanOfConfirmed(inputs))
    BY <1>4, <2>1 DEF SelectCoins
  <2>3. inputs \in SUBSET confirmed /\ inputs # {} /\ PlanOfConfirmed(inputs) # NoPlan
    BY <2>2 DEF FirstEnough, Largest
  <2>4. inputs \in SUBSET Coins /\ \A c \in inputs : coins[c] = "confirmed"
    BY <2>3 DEF Found
  <2>5. PICK plan : plan = PlanOfConfirmed(inputs)
    OBVIOUS
  <2>6. spend' = [spend EXCEPT !.at = "planned", !.inputs = inputs, !.plan = plan]
    BY <2>2, <2>3, <2>5 DEF Planned
  <2>7. PICK total \in Nat, amount \in Nat, n \in Nat :
          total = SumOf(inputs) /\ amount = AmountOf(spend.payment) /\ n = Cardinality(inputs)
    BY <1>2, <2>4, RequestNumbers
  <2>8. plan = AutomaticPlan(spend.script, n, total, amount, spend.rate) /\ plan # NoPlan
    BY <2>3, <2>5, <2>7 DEF PlanOfConfirmed
  <2>9. PICK fee \in Nat : fee = Fee(spend.rate, Vbytes(spend.script, n, 2)) /\ Balanced(plan, total, amount, fee, fee)
    BY <1>2, <2>7, <2>8, AutomaticIsBalanced, RequestNumbers
  <2> QED BY <1>1, <1>2, <1>4, <2>3, <2>4, <2>6, <2>7, <2>9, PlannedKeeps
<1>5. CASE spend.picked # {} /\ spend' # Refused
  <2>1. PICK reached \in SUBSET Coins : ResolvePicked(Found(reached))
    BY <1>1, <1>5
  <2>2. PICK plan : plan = PlanOfPicked
    OBVIOUS
  <2>3. plan # NoPlan /\ spend' = [spend EXCEPT !.at = "planned", !.inputs = spend.picked, !.plan = plan]
    BY <1>5, <2>1, <2>2 DEF ResolvePicked, Planned
  <2>4. spend.picked \in SUBSET Coins
    BY <1>2 DEF Request
  <2>5. PICK total \in Nat, amount \in Nat, n \in Nat, k \in Nat :
          total = SumOf(spend.picked) /\ amount = AmountOf(spend.payment) /\ n = Cardinality(spend.picked)
          /\ k = Len(spend.payment)
    BY <1>2, <2>4, RequestNumbers
  <2>6. plan = SelectedPlan(spend.script, n, total, amount, spend.rate, k)
    BY <2>2, <2>5 DEF PlanOfPicked
  <2>7. PICK low \in Nat, high \in Nat :
          /\ low = Fee(spend.rate, Vbytes(spend.script, n, k))
          /\ high = Fee(spend.rate, Vbytes(spend.script, n, k + 1))
          /\ Balanced(plan, total, amount, low, high)
    BY <1>2, <2>3, <2>5, <2>6, SelectedIsBalanced, RequestNumbers
  <2> QED BY <1>1, <1>2, <1>5, <2>3, <2>4, <2>5, <2>7, PlannedKeeps
<1> QED BY <1>3, <1>4, <1>5

\* The outputs of a payment that is funded: the recipients in their order, then
\* the change; and what they leave of what is spent is the fee of the plan.
LEMMA OutputsArePaid ==
  ASSUME spend \in Request, Len(spend.payment) >= 1, Funded(spend)
  PROVE  /\ Outputs \in Seq(Pay)
         /\ DOMAIN spend.payment \subseteq DOMAIN Outputs
         /\ \A i \in DOMAIN spend.payment : Outputs[i] = spend.payment[i]
         /\ HasChange => \E i \in DOMAIN Outputs : Outputs[i].to = OwnAddress
         /\ ~HasChange => Outputs = spend.payment
         /\ SumOf(spend.inputs) - AmountOf(Outputs) = spend.plan.fee
         /\ Len(Outputs) = IF spend.plan.change > 0 THEN Len(spend.payment) + 1 ELSE Len(spend.payment)
<1>1. spend.payment \in Seq(Pay) /\ AmountOf(spend.payment) \in Nat
  BY RequestNumbers
<1>2. spend.plan.change \in Nat /\ spend.plan.fee \in Nat
  BY DEF Request, PlanType
<1>3. SumOf(spend.inputs) = AmountOf(spend.payment) + spend.plan.change + spend.plan.fee
  BY DEF Funded
<1>4. CASE HasChange
  <2>1. PICK x : x = [to |-> OwnAddress, amount |-> spend.plan.change]
    OBVIOUS
  <2>2. x \in Pay /\ x.to = OwnAddress /\ x.amount = spend.plan.change
    BY <1>2, <2>1, SpendingAssumption DEF Pay
  <2>3. Outputs = Append(spend.payment, x)
    BY <1>4, <2>1 DEF Outputs
  <2>4. AmountOf(Outputs) = AmountOf(spend.payment) + spend.plan.change
    BY <1>1, <2>2, <2>3, AmountOfAppend
  <2>5. SumOf(spend.inputs) - AmountOf(Outputs) = spend.plan.fee
    BY <1>1, <1>2, <1>3, <2>4
  <2>6. PICK p : p = spend.payment
    OBVIOUS
  <2>7. /\ Append(p, x) \in Seq(Pay) /\ DOMAIN p \subseteq DOMAIN Append(p, x)
        /\ \A i \in DOMAIN p : Append(p, x)[i] = p[i]
        /\ Len(p) + 1 \in DOMAIN Append(p, x) /\ Append(p, x)[Len(p) + 1] = x
        /\ Len(Append(p, x)) = Len(p) + 1
    BY <1>1, <2>2, <2>6
  <2> QED BY <1>4, <2>2, <2>3, <2>5, <2>6, <2>7 DEF HasChange
<1>5. CASE ~HasChange
  <2>1. Outputs = spend.payment /\ spend.plan.change = 0
    BY <1>2, <1>5 DEF Outputs, HasChange
  <2>2. SumOf(spend.inputs) - AmountOf(Outputs) = spend.plan.fee
    BY <1>1, <1>2, <1>3, <2>1
  <2> QED BY <1>1, <1>5, <2>1, <2>2
<1> QED BY <1>4, <1>5

\* An address that is paid is paid first somewhere.
LEMMA FirstIsThere ==
  ASSUME Paid \in Seq(Pay), NEW i \in DOMAIN Paid
  PROVE  \E j \in FirstTo(Paid[i].to) : j <= i
<1> DEFINE There == {j \in DOMAIN Paid : Paid[j].to = Paid[i].to}
<1>1. There \subseteq Nat /\ i \in There
  OBVIOUS
<1>2. PICK j \in There : \A n \in There : j <= n
  <2> HIDE DEF There
  <2> QED BY <1>1, LeastNatural
<1>3. ASSUME NEW n \in 1..(j - 1)
      PROVE  Paid[n].to # Paid[i].to
  <2>1. n \in DOMAIN Paid /\ ~(j <= n)
    OBVIOUS
  <2> QED BY <1>2, <2>1
<1>4. j \in FirstTo(Paid[i].to)
  BY <1>3 DEF FirstTo
<1> QED BY <1>1, <1>2, <1>4

\* The verdict on what was signed as it was built.
LEMMA VerdictIsFair ==
  ASSUME SpendInv, spend.at = "signed", spend.psbt.signed,
         NEW k \in DOMAIN spend.payment, NEW expected \in Expectations, NEW vbytes \in SignedVbytes,
         NEW verdict, verdict = Verdict(k, expected, vbytes)
  PROVE  /\ verdict = "invalid" => ~PaysOnce
         /\ verdict = "valid" => Cardinality(External) <= 1
         /\ Len(spend.payment) = 1 /\ External = {1} /\ spend.plan.fee <= 1000 => verdict = "valid"
<1>1. /\ spend \in Request /\ Len(spend.payment) >= 1 /\ Funded(spend)
      /\ spend.psbt.spends = spend.inputs /\ Paid = Outputs
  BY DEF SpendInv, Refused, Paid
<1>2. /\ Paid \in Seq(Pay)
      /\ DOMAIN spend.payment \subseteq DOMAIN Paid
      /\ \A i \in DOMAIN spend.payment : Paid[i] = spend.payment[i]
      /\ HasChange => \E i \in DOMAIN Paid : Paid[i].to = OwnAddress
      /\ ~HasChange => Paid = spend.payment
      /\ OutputFee = spend.plan.fee
  BY <1>1, OutputsArePaid DEF OutputFee
<1>3. spend.plan.fee \in Nat /\ spend.payment \in Seq(Pay)
  BY <1>1, RequestNumbers DEF Request, PlanType
<1>4. Signed
  BY <1>1 DEF Signed, Funded
<1>5. ~(OutputFee < 0)
  BY <1>2, <1>3
<1>6. ~RecipientMissing(k)
  BY <1>2, FirstIsThere DEF RecipientMissing
<1>7. ~ChangeMissing
  BY <1>2, FirstIsThere DEF ChangeMissing
<1>8. PaysOnce => ~AmountDiffers(k)
  <2> SUFFICES ASSUME PaysOnce, NEW i \in FirstTo(spend.payment[k].to)
               PROVE  Paid[i].amount = spend.payment[k].amount
    BY DEF AmountDiffers
  <2>1. i \in DOMAIN Paid /\ Paid[i].to = spend.payment[k].to /\ \A j \in 1..(i - 1) : Paid[j].to # spend.payment[k].to
    BY DEF FirstTo
  <2>2. k \in Nat /\ i \in Nat /\ k >= 1 /\ i >= 1 /\ k <= Len(spend.payment)
    BY <1>2, <1>3, <2>1
  <2>3. ~(k <= i - 1)
    BY <1>2, <2>1, <2>2
  <2>4. i \in DOMAIN spend.payment
    BY <1>3, <2>2, <2>3
  <2>5. i = k
    BY <1>2, <2>1, <2>4 DEF PaysOnce
  <2> QED BY <1>2, <2>5
<1>9. PaysOnce => ~Errors(k, expected)
  BY <1>4, <1>5, <1>6, <1>7, <1>8, Zenon DEF Errors
<1>10. verdict = "invalid" => ~PaysOnce
  BY <1>9 DEF Verdict
<1>11. Cardinality(External) \in Nat
  <2>1. IsFiniteSet(DOMAIN Paid)
    <3>1. PICK n \in Int : n = Len(Paid)
      BY <1>2
    <3>2. IsFiniteSet(1..n)
      BY 1 \in Int, FS_Interval, Zenon
    <3> QED BY <1>2, <3>1, <3>2
  <2> QED BY <2>1, FS_Subset, FS_CardinalityType DEF External
<1>12. verdict = "valid" => Cardinality(External) <= 1
  <2>1. verdict = "valid" => ~(Cardinality(External) > 1)
    BY DEF Verdict, Warnings
  <2> QED BY <1>11, <2>1
<1>13. ASSUME Len(spend.payment) = 1, External = {1}, spend.plan.fee <= 1000
       PROVE  verdict = "valid"
  <2>1. PaysOnce
    BY <1>3, <1>13 DEF PaysOnce
  <2>2. ~HighFee(vbytes)
    <3>1. PICK m \in Nat : m = Cardinality(spend.psbt.spends) /\ m >= 1
      <4>1. IsFiniteSet(spend.inputs) /\ spend.inputs # {}
        BY <1>1, SpendingAssumption, FS_Subset DEF Request, Coins, Funded
      <4>2. Cardinality(spend.inputs) \in Nat /\ Cardinality(spend.inputs) # 0
        BY <4>1, FS_CardinalityType, FS_EmptySet
      <4> QED BY <1>1, <4>2
    <3>2. PICK l \in Nat : l = Len(Paid) /\ l >= 1
      BY <1>2, <1>13
    <3>3. PICK c \in {68, 91, 58} : c = InputVbytes(spend.script)
      BY DEF InputVbytes
    <3>4. vbytes \in {12 + m * c + l * 43 - 12 * n : n \in {0, l}}
      BY <3>1, <3>2, <3>3 DEF SignedVbytes, Vbytes
    <3>5. vbytes \in Int /\ vbytes >= 10
      <4>1. m * c >= 58 /\ m * c \in Nat
        BY <3>1
      <4> QED BY <3>2, <3>4, <4>1
    <3> QED BY <1>2, <1>3, <1>13, <3>5 DEF HighFee
  <2>3. ~(Cardinality(External) > 1)
    <3>1. Cardinality({1}) = 1
      BY FS_Singleton
    <3> QED BY <1>13, <3>1
  <2>4. ~ChangeUnexpected
    <3> SUFFICES ASSUME ~HasChange, NEW i \in DOMAIN Paid, Owned(Paid[i]) PROVE FALSE
      BY DEF ChangeUnexpected
    <3>1. i = 1
      BY <1>2, <1>3, <1>13
    <3> QED BY <1>13, <3>1 DEF External
  <2>5. ~Warnings(expected, vbytes)
    BY <1>2, <2>2, <2>3, <2>4, Zenon DEF Warnings
  <2>6. ~Errors(k, expected)
    BY <1>9, <2>1
  <2> QED BY <2>5, <2>6 DEF Verdict
<1> QED BY <1>10, <1>12, <1>13

LEMMA RequestKeeps == ASSUME SpendInv, AskPsbt PROVE SpendInv'
<1>1. PICK payment \in Payments, rate \in Rates, script \in Scripts, picked \in SUBSET Coins :
        spend' = IF BodyValid(payment, rate, picked) /\ NoDust(payment) /\ script \in ScriptTypes
                 THEN [at |-> "asked", payment |-> payment, rate |-> rate, script |-> script,
                       picked |-> picked, inputs |-> {}, plan |-> NoPlan, psbt |-> NoPsbt, verdict |-> "none"]
                 ELSE Refused
  BY Zenon DEF AskPsbt
<1>2. UNCHANGED coins
  BY DEF AskPsbt
<1>3. CASE spend' = Refused
  BY <1>2, <1>3 DEF SpendInv, Refused, OwnPsbtVerifies
<1>4. CASE spend' # Refused
  <2>1. BodyValid(payment, rate, picked)
    BY <1>1, <1>4
  <2>2. spend' = [at |-> "asked", payment |-> payment, rate |-> rate, script |-> script, picked |-> picked,
                  inputs |-> {}, plan |-> NoPlan, psbt |-> NoPsbt, verdict |-> "none"]
    BY <1>1, <1>4
  <2>3. NoPlan \in PlanType /\ NoPsbt \in Psbt
    BY DEF NoPlan, Plan, PlanType, NoPsbt, Psbt
  <2>4. Len(payment) >= 1
    <3>1. Len(payment) \in 1..10
      BY <2>1 DEF BodyValid, RecipientsValid
    <3>2. \A n \in 1..10 : n >= 1
      OBVIOUS
    <3> QED BY <3>1, <3>2, Zenon
  <2>5. spend' \in Request /\ spend'.at = "asked" /\ spend'.payment = payment
    BY <2>2, <2>3 DEF Request
  <2> QED BY <1>2, <2>4, <2>5 DEF SpendInv, OwnPsbtVerifies
<1> QED BY <1>3, <1>4

LEMMA CoinsKeep == ASSUME SpendInv, CoinMoves PROVE SpendInv'
<1>1. spend.at \in {"idle", "asked"} /\ UNCHANGED spend
  BY DEF CoinMoves
<1>2. coins' \in [Coins -> {"confirmed", "unconfirmed", "spent"}]
  BY DEF CoinMoves, SpendInv
<1> QED BY <1>1, <1>2 DEF SpendInv, OwnPsbtVerifies

LEMMA BuildKeeps == ASSUME SpendInv, Build PROVE SpendInv'
<1>1. /\ spend.at = "planned" /\ UNCHANGED coins
      /\ spend' = [spend EXCEPT !.at = "built", !.psbt = Unsigned] \/ spend' = Refused
  BY DEF Build
<1>2. CASE spend' = Refused
  BY <1>1, <1>2 DEF SpendInv, Refused, OwnPsbtVerifies
<1>3. CASE spend' # Refused
  <2>1. spend \in Request /\ Len(spend.payment) >= 1 /\ Funded(spend)
        /\ (spend.picked = {} => \A c \in spend.inputs : coins[c] = "confirmed")
    BY <1>1 DEF SpendInv, Refused
  <2>2. Outputs \in Seq(Pay)
    BY <2>1, OutputsArePaid
  <2>3. PICK psbt : psbt = Unsigned
    OBVIOUS
  <2>4. psbt \in Psbt /\ psbt.spends = spend.inputs /\ psbt.pays = Outputs
    BY <2>1, <2>2, <2>3 DEF Unsigned, Psbt, Request
  <2>5. spend' = [spend EXCEPT !.at = "built", !.psbt = psbt]
    BY <1>1, <1>3, <2>3
  <2>6. /\ spend' \in Request /\ spend'.at = "built" /\ spend'.psbt = psbt /\ spend'.payment = spend.payment
        /\ spend'.rate = spend.rate /\ spend'.script = spend.script /\ spend'.picked = spend.picked
        /\ spend'.inputs = spend.inputs /\ spend'.plan = spend.plan
    BY <2>1, <2>4, <2>5 DEF Request
  <2>7. Funded(spend)' /\ Outputs' = Outputs
    BY <2>1, <2>6 DEF Funded, SizeOf, Outputs, HasChange
  <2> QED BY <1>1, <2>1, <2>4, <2>6, <2>7 DEF SpendInv, OwnPsbtVerifies
<1> QED BY <1>2, <1>3

LEMMA SignKeeps == ASSUME SpendInv, Sign PROVE SpendInv'
<1>1. PICK yes \in BOOLEAN : spend' = [spend EXCEPT !.at = "signed", !.psbt.signed = yes]
  BY DEF Sign
<1>2. spend.at = "built" /\ UNCHANGED coins
  BY DEF Sign
<1>3. /\ spend \in Request /\ Len(spend.payment) >= 1 /\ Funded(spend)
      /\ (spend.picked = {} => \A c \in spend.inputs : coins[c] = "confirmed")
      /\ spend.psbt.spends = spend.inputs /\ spend.psbt.pays = Outputs
  BY <1>2 DEF SpendInv, Refused
<1>4. PICK psbt : psbt = [spend.psbt EXCEPT !.signed = yes]
  OBVIOUS
<1>5. psbt \in Psbt /\ psbt.spends = spend.psbt.spends /\ psbt.pays = spend.psbt.pays
  BY <1>3, <1>4 DEF Request, Psbt
<1>6. spend' = [spend EXCEPT !.at = "signed", !.psbt = psbt]
  BY <1>1, <1>3, <1>4 DEF Request
<1>7. /\ spend' \in Request /\ spend'.at = "signed" /\ spend'.psbt = psbt /\ spend'.payment = spend.payment
      /\ spend'.rate = spend.rate /\ spend'.script = spend.script /\ spend'.picked = spend.picked
      /\ spend'.inputs = spend.inputs /\ spend'.plan = spend.plan
  BY <1>3, <1>5, <1>6 DEF Request
<1>8. Funded(spend)' /\ Outputs' = Outputs
  BY <1>3, <1>7 DEF Funded, SizeOf, Outputs, HasChange
<1> QED BY <1>2, <1>3, <1>5, <1>7, <1>8 DEF SpendInv, OwnPsbtVerifies

LEMMA VerifyKeeps == ASSUME SpendInv, VerifySigned PROVE SpendInv'
<1>1. PICK k \in DOMAIN spend.payment, expected \in Expectations, vbytes \in SignedVbytes :
        spend' = [spend EXCEPT !.at = "verified", !.verdict = Verdict(k, expected, vbytes)]
  BY DEF VerifySigned
<1>2. spend.at = "signed" /\ UNCHANGED coins
  BY DEF VerifySigned
<1>3. /\ spend \in Request /\ Len(spend.payment) >= 1 /\ Funded(spend)
      /\ (spend.picked = {} => \A c \in spend.inputs : coins[c] = "confirmed")
      /\ spend.psbt.spends = spend.inputs /\ spend.psbt.pays = Outputs
  BY <1>2 DEF SpendInv, Refused
<1>4. PICK verdict : verdict = Verdict(k, expected, vbytes)
  OBVIOUS
<1>5. verdict \in {"none", "invalid", "warning", "valid"}
  BY <1>4 DEF Verdict
<1>6. /\ spend' \in Request /\ spend'.at = "verified" /\ spend'.verdict = verdict /\ spend'.psbt = spend.psbt
      /\ spend'.payment = spend.payment /\ spend'.rate = spend.rate /\ spend'.script = spend.script
      /\ spend'.picked = spend.picked /\ spend'.inputs = spend.inputs /\ spend'.plan = spend.plan
  BY <1>1, <1>3, <1>4, <1>5 DEF Request
<1>7. Funded(spend)' /\ Outputs' = Outputs
  BY <1>3, <1>6 DEF Funded, SizeOf, Outputs, HasChange
<1>8. External' = External /\ (PaysOnce' <=> PaysOnce)
  BY <1>6 DEF External, Paid, Owned, PaysOnce
<1>9. spend.psbt.signed =>
        /\ verdict = "invalid" => ~PaysOnce
        /\ verdict = "valid" => Cardinality(External) <= 1
        /\ Len(spend.payment) = 1 /\ External = {1} /\ spend.plan.fee <= 1000 => verdict = "valid"
  BY <1>2, <1>4, VerdictIsFair
<1>10. OwnPsbtVerifies'
  BY <1>6, <1>8, <1>9 DEF OwnPsbtVerifies
<1> QED BY <1>2, <1>3, <1>6, <1>7, <1>10 DEF SpendInv

LEMMA SpendInvariant == SpendSpec => []SpendInv
<1>1. SpendInit => SpendInv
  BY DEF SpendInit, SpendInv, OwnPsbtVerifies
<1>2. SpendInv /\ [SpendNext]_spendVars => SpendInv'
  <2> SUFFICES ASSUME SpendInv, [SpendNext]_spendVars PROVE SpendInv'
    OBVIOUS
  <2>1. CASE UNCHANGED spendVars
    <3>1. UNCHANGED <<coins, spend>>
      BY <2>1 DEF spendVars
    <3> QED BY <3>1 DEF SpendInv, Funded, SizeOf, Outputs, HasChange, OwnPsbtVerifies, PaysOnce, External, Paid, Owned
  <2>2. CASE AskPsbt \/ FindCoins \/ CoinMoves
    BY <2>2, RequestKeeps, FindKeeps, CoinsKeep, Zenon
  <2>3. CASE Build \/ Sign \/ VerifySigned
    BY <2>3, BuildKeeps, SignKeeps, VerifyKeeps, Zenon
  <2> QED BY <2>1, <2>2, <2>3, Zenon DEF SpendNext
<1> QED BY <1>1, <1>2, PTL DEF SpendSpec

\* The PSBT of the builder spends what the recipients, the change and the fee
\* take, at the rate that was asked for; its change is not dust (createWalletPsbt,
\* buildUnsignedPsbt): for every set of coins, request and fee rate.
THEOREM SpendBuiltPays == SpendSpec => []BuiltPsbtPays
<1>1. SpendInv => BuiltPsbtPays
  <2> SUFFICES ASSUME SpendInv, spend.at \in {"planned", "built"} PROVE BuiltPsbtPays
    BY DEF BuiltPsbtPays
  <2>1. spend \in Request /\ Len(spend.payment) >= 1 /\ Funded(spend)
        /\ (spend.picked = {} => \A c \in spend.inputs : coins[c] = "confirmed")
    BY DEF SpendInv, Refused
  <2>2. SumOf(spend.inputs) = AmountOf(Outputs) + spend.plan.fee
    <3>1. SumOf(spend.inputs) - AmountOf(Outputs) = spend.plan.fee
      BY <2>1, OutputsArePaid
    <3>2. SumOf(spend.inputs) \in Nat /\ spend.plan.fee \in Nat
      BY <2>1, RequestNumbers DEF Request, PlanType
    <3>3. AmountOf(Outputs) \in Nat
      <4>1. Outputs \in Seq(Pay)
        BY <2>1, OutputsArePaid
      <4>2. [to |-> OwnAddress, amount |-> 0] \in Pay
        BY SpendingAssumption DEF Pay
      <4> QED BY <4>1, <4>2, AmountOfAppend
    <3> QED BY <3>1, <3>2, <3>3
  <2>3. Len(Outputs) = IF spend.plan.change > 0 THEN Len(spend.payment) + 1 ELSE Len(spend.payment)
    BY <2>1, OutputsArePaid
  <2>4. \/ spend.plan.fee >= Fee(spend.rate, SizeOf(spend, Len(Outputs)))
        \/ spend.picked = {} /\ Len(spend.payment) > 1
    BY <2>1, <2>3, Zenon DEF Funded
  <2> QED BY <2>1, <2>2, <2>4 DEF BuiltPsbtPays, Funded, SizeOf
<1> QED BY <1>1, SpendInvariant, PTL

\* A PSBT of the builder that was signed as it is passes the verification, but
\* for the cases it names (verifySignedPsbt).
THEOREM SpendOwnVerifies == SpendSpec => []OwnPsbtVerifies
<1>1. SpendInv => OwnPsbtVerifies
  BY DEF SpendInv
<1> QED BY <1>1, SpendInvariant, PTL

\* A payment keeps its shape from the request to the verdict.
THEOREM SpendTypeCorrect == SpendSpec => []SpendTypeOK
<1>1. SpendInv => SpendTypeOK
  <2> SUFFICES ASSUME SpendInv PROVE SpendTypeOK
    OBVIOUS
  <2>1. spend \in Request => /\ spend.payment \in Payments /\ spend.rate \in Rates /\ spend.script \in Scripts
                             /\ (spend.inputs \cup spend.picked \cup spend.psbt.spends) \subseteq Coins
                             /\ {spend.plan.total, spend.plan.fee, spend.plan.change} \subseteq Nat
    BY DEF Request, Psbt, PlanType
  <2>2. spend.at \in {"idle", "asked", "planned", "built", "signed", "verified", "refused"}
        /\ (spend.at \notin {"idle", "refused"} => spend \in Request)
    BY DEF SpendInv, Request, Refused
  <2> QED BY <2>1, <2>2 DEF SpendInv, SpendTypeOK
<1> QED BY <1>1, SpendInvariant, PTL

-----------------------------------------------------------------------------
(* Importing a wallet.  The argument: an answer to what the form holds now *)
(* shows the account that the API finds in it, and one that is late is     *)
(* passed over; what is stored is that account, in names that reading it   *)
(* back leaves alone.  The page finds the same account in the text, unless *)
(* a JSON text has a field that the two parsers read differently.          *)

CoinOf(network) == IF network = "mainnet" THEN 0 ELSE 1

\* A list of fields with more behind them
With(order, more) == order \o more

\* Two parsers of JSON find the same in every field.
SameInFields(text, reader, other) ==
  /\ \A name : HoldsKey(text, name, other) <=> HoldsKey(text, name, reader)
  /\ \A name, script : HoldsKey(text, name, reader) =>
       FieldCandidate(text.fields[name], script, other) = FieldCandidate(text.fields[name], script, reader)

\* The first field that holds a key is the first in a longer list, for a reader
\* that finds the same in every field.
LEMMA FirstFieldStays ==
  ASSUME NEW Fields, NEW order \in Seq(Fields), NEW more \in Seq(Fields), NEW text,
         NEW r, r.fields = order, NEW longer, longer.fields = With(order, more),
         SameInFields(text, r, longer),
         Candidate(text, r) # NoCandidate
  PROVE  Candidate(text, longer) = Candidate(text, r)
<1> DEFINE There(list) == {i \in DOMAIN list : HoldsKey(text, list[i][1], r)}
<1>1. PICK all : all = With(order, more)
  OBVIOUS
<1>2. /\ DOMAIN order \subseteq DOMAIN all /\ \A i \in DOMAIN order : all[i] = order[i]
      /\ \A i \in DOMAIN all : i \in Nat /\ (i \in DOMAIN order \/ \A j \in DOMAIN order : j < i)
      /\ DOMAIN order \subseteq Nat
  BY <1>1 DEF With
<1>3. There(order) # {}
  BY DEF Candidate
<1>4. PICK first \in There(order) : \A i \in There(order) : first <= i
  <2>1. There(order) \subseteq Nat
    BY <1>2
  <2> HIDE DEF There
  <2> QED BY <1>3, <2>1, LeastNatural
<1>5. first \in There(all) /\ \A i \in There(all) : first <= i
  <2>1. first \in There(all)
    BY <1>2, <1>4
  <2>2. ASSUME NEW i \in There(all) PROVE first <= i
    <3>1. CASE i \in DOMAIN order
      BY <1>2, <1>4, <3>1
    <3>2. CASE i \notin DOMAIN order
      <4>1. first < i /\ first \in Nat /\ i \in Nat
        BY <1>2, <1>4, <3>2
      <4> QED BY <4>1
    <3> QED BY <3>1, <3>2
  <2> QED BY <2>1, <2>2
<1>6. ASSUME NEW S, S \subseteq Nat, first \in S, \A i \in S : first <= i
      PROVE  Min(S) = first
  <2>1. ASSUME NEW x \in S, \A i \in S : x <= i PROVE x = first
    <3>1. x <= first /\ first <= x /\ x \in Nat /\ first \in Nat
      BY <1>6, <2>1
    <3> QED BY <3>1
  <2> QED BY <1>6, <2>1 DEF Min
<1>7. Min(There(order)) = first /\ Min(There(all)) = first
  <2>1. There(order) \subseteq Nat /\ There(all) \subseteq Nat
    BY <1>2
  <2> HIDE DEF There
  <2> QED BY <1>4, <1>5, <1>6, <2>1
<1>8. all[first] = order[first]
  BY <1>2, <1>4
<1>9. Candidate(text, r) = FieldCandidate(text.fields[order[first][1]], order[first][2], r)
  BY <1>3, <1>7 DEF Candidate
<1>10. Candidate(text, longer) = FieldCandidate(text.fields[order[first][1]], order[first][2], longer)
  <2>1. There(all) = {i \in DOMAIN longer.fields : HoldsKey(text, longer.fields[i][1], longer)}
    BY <1>1 DEF SameInFields
  <2>2. longer.fields = all /\ There(all) # {}
    BY <1>1, <1>5
  <2> HIDE DEF There
  <2> QED BY <1>7, <1>8, <2>1, <2>2 DEF Candidate
<1>11. HoldsKey(text, order[first][1], r)
  BY <1>4
<1> QED BY <1>9, <1>10, <1>11 DEF SameInFields

LEMMA ListsOfFields ==
  ASSUME NEW S, NEW a \in S, NEW b \in S, NEW c \in S, NEW d \in S, NEW e \in S, NEW f \in S
  PROVE  <<a, b, c, d, e, f>> \in Seq(S) /\ <<a, b, c>> \in Seq(S)
OBVIOUS

\* The fields are pairs.
FieldPairs ==
  {<<"bip84", "native-segwit">>, <<"p2wpkh", "native-segwit">>, <<"zpub", "native-segwit">>,
   <<"bip49", "nested-segwit">>, <<"p2sh_p2wpkh", "nested-segwit">>, <<"ypub", "nested-segwit">>,
   <<"bip44", "legacy">>, <<"p2pkh", "legacy">>, <<"bip86", "taproot">>, <<"p2tr", "taproot">>,
   <<"taproot", "taproot">>, <<"xpub", "unknown">>,
   <<"tpub", "unknown">>, <<"upub", "nested-segwit">>, <<"vpub", "native-segwit">>}

LEMMA WebFieldsArePairs == WebFields \in Seq(FieldPairs)
<1>1. SegwitFields \in Seq(FieldPairs)
  <2>1. PICK a : a = <<"bip84", "native-segwit">>
    OBVIOUS
  <2>2. PICK b : b = <<"p2wpkh", "native-segwit">>
    OBVIOUS
  <2>3. PICK c : c = <<"zpub", "native-segwit">>
    OBVIOUS
  <2>4. PICK d : d = <<"bip49", "nested-segwit">>
    OBVIOUS
  <2>5. PICK e : e = <<"p2sh_p2wpkh", "nested-segwit">>
    OBVIOUS
  <2>6. PICK f : f = <<"ypub", "nested-segwit">>
    OBVIOUS
  <2>7. a \in FieldPairs /\ b \in FieldPairs /\ c \in FieldPairs /\ d \in FieldPairs /\ e \in FieldPairs /\ f \in FieldPairs
    BY <2>1, <2>2, <2>3, <2>4, <2>5, <2>6, Zenon DEF FieldPairs
  <2>8. SegwitFields = <<a, b, c, d, e, f>>
    BY <2>1, <2>2, <2>3, <2>4, <2>5, <2>6, Zenon DEF SegwitFields
  <2> QED BY <2>7, <2>8, ListsOfFields
<1>2. OtherFields \in Seq(FieldPairs)
  <2>1. PICK a : a = <<"bip44", "legacy">>
    OBVIOUS
  <2>2. PICK b : b = <<"p2pkh", "legacy">>
    OBVIOUS
  <2>3. PICK c : c = <<"bip86", "taproot">>
    OBVIOUS
  <2>4. PICK d : d = <<"p2tr", "taproot">>
    OBVIOUS
  <2>5. PICK e : e = <<"taproot", "taproot">>
    OBVIOUS
  <2>6. PICK f : f = <<"xpub", "unknown">>
    OBVIOUS
  <2>7. a \in FieldPairs /\ b \in FieldPairs /\ c \in FieldPairs /\ d \in FieldPairs /\ e \in FieldPairs /\ f \in FieldPairs
    BY <2>1, <2>2, <2>3, <2>4, <2>5, <2>6, Zenon DEF FieldPairs
  <2>8. OtherFields = <<a, b, c, d, e, f>>
    BY <2>1, <2>2, <2>3, <2>4, <2>5, <2>6, Zenon DEF OtherFields
  <2> QED BY <2>7, <2>8, ListsOfFields
<1> QED BY <1>1, <1>2, ConcatProperties DEF WebFields

LEMMA SameCandidate ==
  ASSUME NEW text, text.kind \in {"json", "bbqr"}, ReadAlike(text), Candidate(text, Web) # NoCandidate
  PROVE  Candidate(text, Server) = Candidate(text, Web)
<1>1. WebFields \in Seq(FieldPairs)
  BY WebFieldsArePairs
<1>2. PICK more : more = <<<<"tpub", "unknown">>, <<"upub", "nested-segwit">>, <<"vpub", "native-segwit">>>>
  OBVIOUS
<1>3. more \in Seq(FieldPairs)
  <2>1. PICK a : a = <<"tpub", "unknown">>
    OBVIOUS
  <2>2. PICK b : b = <<"upub", "nested-segwit">>
    OBVIOUS
  <2>3. PICK c : c = <<"vpub", "native-segwit">>
    OBVIOUS
  <2>4. a \in FieldPairs /\ b \in FieldPairs /\ c \in FieldPairs
    BY <2>1, <2>2, <2>3, Zenon DEF FieldPairs
  <2>5. more = <<a, b, c>>
    BY <1>2, <2>1, <2>2, <2>3, Zenon
  <2> QED BY <2>4, <2>5, ListsOfFields
<1>4. Web.fields = WebFields /\ Server.fields = With(WebFields, more)
  BY <1>2, Zenon DEF ServerFields, Web, Server, With
<1>5. /\ Web.names = WebNames /\ Web.trims = FALSE
      /\ Server.names = ServerNames /\ Server.trims = TRUE
  BY Zenon DEF Web, Server
<1>6. \A name \in DOMAIN text.fields :
        /\ KeyIn(text.fields[name], Web.names) = KeyIn(text.fields[name], Server.names)
        /\ PathIn(text.fields[name], Web.trims) = PathIn(text.fields[name], Server.trims)
  BY <1>5, Zenon DEF ReadAlike
<1>7. \A name : HoldsKey(text, name, Server) <=> HoldsKey(text, name, Web)
  BY <1>6, Zenon DEF HoldsKey
<1>8. ASSUME NEW name, NEW script, HoldsKey(text, name, Web)
      PROVE  FieldCandidate(text.fields[name], script, Server) = FieldCandidate(text.fields[name], script, Web)
  <2>1. name \in DOMAIN text.fields
    BY <1>8 DEF HoldsKey
  <2> QED BY <1>6, <2>1, Zenon DEF FieldCandidate
<1>9. SameInFields(text, Web, Server)
  BY <1>7, <1>8 DEF SameInFields
<1>10. PICK web, server, order, pairs : web = Web /\ server = Server /\ order = WebFields /\ pairs = FieldPairs
  OBVIOUS
<1>11. /\ order \in Seq(pairs) /\ more \in Seq(pairs)
       /\ web.fields = order /\ server.fields = With(order, more)
       /\ SameInFields(text, web, server) /\ Candidate(text, web) # NoCandidate
  BY <1>1, <1>3, <1>4, <1>9, <1>10, Zenon
<1>12. Candidate(text, server) = Candidate(text, web)
  BY <1>11, FirstFieldStays, SMT
<1> QED BY <1>10, <1>12, Zenon

\* Paths follow the script type and the coin of the network.
LEMMA PathsFollow ==
  ASSUME NEW script, NEW n, NEW m, CoinOf(n) = CoinOf(m)
  PROVE  PathFor(script, n) = PathFor(script, m)
BY DEF PathFor, CoinOf

\* What the API finds, for a script type it is told
LEMMA ParsedIs ==
  ASSUME NEW text, NEW network, NEW script, script # "unknown", NEW p, p = Parsed(text, network, script)
  PROVE  p.script = script /\ (script \in AddressTypes => p.path # NoPath)
<1>1. PICK found, net : /\ found = FoundIn(text, network)
                        /\ net = IF found.key.type \in TestTypes THEN found.network ELSE network
  OBVIOUS
<1>2. found = [key |-> found.key, network |-> found.network, script |-> found.script, path |-> found.path]
  BY <1>1, Zenon DEF FoundIn, FoundJson, FoundUr, FoundDescriptor, FoundExpression, FromKey
<1>3. PICK path : path = PathOr(found.path, PathFor(script, net))
  OBVIOUS
<1>4. p = [key |-> found.key, network |-> net, script |-> script, path |-> path]
  BY <1>1, <1>2, <1>3 DEF Parsed, Overridden
<1>5. script \in AddressTypes => path # NoPath
  BY <1>3 DEF PathOr, PathFor, NoPath
<1> QED BY <1>4, <1>5

\* Both parsers find the same account in a text, when the page offers to preview it
\* and they read its fields alike.
LEMMA ParsersAgree ==
  ASSUME NEW f, f.network \in Networks, CanPreview(f), ReadAlike(f.text), NEW p, p = Parsed(f.text, f.network, Effective(f))
  PROVE  /\ p.key = DetectedIn(f).key /\ p.script = Effective(f)
         /\ CoinOf(p.network) = CoinOf(f.network) /\ p.path = EffectivePath(f)
<1>1. PICK text, network, d, found :
        text = f.text /\ network = f.network /\ d = Detected(text, network) /\ found = FoundIn(text, network)
  OBVIOUS
<1>2. DetectedIn(f) = d /\ d.key # NoKey /\ ~Mismatch(f) /\ Effective(f) # "unknown"
  BY <1>1 DEF CanPreview, DetectedIn
<1>3. HasKey(text, Web)
  BY <1>1, <1>2 DEF Detected, Undetected
<1>4. /\ d.network = KeyNetwork(d.key) /\ d.network \in {"mainnet", "testnet"}
      /\ found.key = d.key /\ (found.network = KeyNetwork(d.key) \/ found.network = network)
  <2>1. CASE text.kind \in {"json", "bbqr"}
    <3>1. Candidate(text, Server) = Candidate(text, Web)
      BY <1>1, <1>3, <2>1, SameCandidate DEF HasKey
    <3>2. PICK c : c = Candidate(text, Web)
      OBVIOUS
    <3>3. d = DetectedKey(c.key, c.script, c.path) /\ found = FromKey(c.key, c.script, c.path)
      BY <1>1, <1>3, <2>1, <3>1, <3>2 DEF Detected, DetectedJson, FoundIn, FoundJson
    <3> QED BY <3>3 DEF DetectedKey, FromKey, KeyNetwork
  <2>2. CASE text.kind = "ur"
    BY <1>1, <1>3, <2>2 DEF Detected, DetectedUr, DetectedKey, FoundIn, FoundUr, KeyNetwork
  <2>3. CASE text.kind = "descriptor"
    BY <1>1, <1>3, <2>3 DEF Detected, DetectedDescriptor, DetectedKey, FoundIn, FoundDescriptor, FromKey, KeyNetwork
  <2>4. CASE text.kind = "origin"
    BY <1>1, <1>3, <2>4 DEF Detected, DetectedExpression, DetectedKey, FoundIn, FoundExpression, FromKey, KeyNetwork
  <2>5. CASE text.kind \notin {"json", "bbqr", "ur", "descriptor", "origin"}
    BY <1>1, <1>3, <2>5 DEF Detected, DetectedBare, DetectedKey, FoundIn, FromKey, KeyNetwork
  <2> QED BY <2>1, <2>2, <2>3, <2>4, <2>5
<1>5. CoinOf(d.network) = CoinOf(network)
  BY <1>1, <1>2, <1>4 DEF Mismatch, CoinOf, Networks
<1>6. PICK net : net = IF found.key.type \in TestTypes THEN found.network ELSE network
  OBVIOUS
<1>7. CoinOf(net) = CoinOf(network)
  BY <1>4, <1>5, <1>6
<1>8. PICK way : way = PathOr(found.path, PathFor(Effective(f), net))
  OBVIOUS
<1>9. found = [key |-> found.key, network |-> found.network, script |-> found.script, path |-> found.path]
  BY <1>1, Zenon DEF FoundIn, FoundJson, FoundUr, FoundDescriptor, FoundExpression, FromKey
<1>10. p = [key |-> found.key, network |-> net, script |-> Effective(f), path |-> way]
  BY <1>1, <1>2, <1>6, <1>8, <1>9 DEF Parsed, Overridden
<1>11. way = PathOr(d.path, PathFor(Effective(f), network))
  <2>1. PathFor(Effective(f), net) = PathFor(Effective(f), network)
    BY <1>7, PathsFollow
  <2>2. \A script : PathFor(script, KeyNetwork(d.key)) = PathFor(script, network)
    BY <1>4, <1>5, PathsFollow
  <2>3. \A x, y : PathOr(PathOr(x, y), y) = PathOr(x, y) /\ PathOr(NoPath, y) = y
    BY DEF PathOr
  <2>4. found.path = d.path
    <3>1. CASE text.kind \in {"json", "bbqr"}
      <4>1. Candidate(text, Server) = Candidate(text, Web) /\ Candidate(text, Web) # NoCandidate
        BY <1>1, <1>3, <3>1, SameCandidate DEF HasKey
      <4>2. PICK c : c = Candidate(text, Web) /\ c # NoCandidate
        BY <4>1
      <4>3. d = DetectedKey(c.key, c.script, c.path) /\ found = FromKey(c.key, c.script, c.path)
        BY <1>1, <1>3, <3>1, <4>1, <4>2 DEF Detected, DetectedJson, FoundIn, FoundJson
      <4>4. PICK field, script : c = FieldCandidate(field, script, Web)
        BY <4>2, Zenon DEF Candidate
      <4>5. PICK path : c.path = PathOr(path, PathFor(c.script, KeyNetwork(c.key)))
        BY <4>4, Zenon DEF FieldCandidate
      <4>6. d.path = c.path /\ found.path = PathOr(c.path, PathFor(c.script, KeyNetwork(c.key)))
        BY <4>3 DEF DetectedKey, FromKey
      <4> QED BY <2>3, <4>5, <4>6
    <3>2. CASE text.kind = "ur"
      BY <1>1, <1>3, <3>2 DEF Detected, DetectedUr, DetectedKey, FoundIn, FoundUr
    <3>3. CASE text.kind = "descriptor"
      <4>1. d.key = text.key /\ d.path = PathOr(text.path, PathFor(text.script, network))
        BY <1>1, <1>3, <3>3 DEF Detected, DetectedDescriptor, DetectedKey
      <4>2. found.path = PathOr(PathOr(text.path, PathFor(text.script, network)), PathFor(text.script, KeyNetwork(text.key)))
        BY <1>1, <3>3 DEF FoundIn, FoundDescriptor, FromKey
      <4> QED BY <2>2, <2>3, <4>1, <4>2
    <3>4. CASE text.kind = "origin"
      <4>1. d.key = text.key /\ d.path = PathOr(text.path, PathFor(KeyScript(text.key), network))
        BY <1>1, <1>3, <3>4 DEF Detected, DetectedExpression, DetectedKey
      <4>2. found.path = PathOr(text.path, PathFor(KeyScript(text.key), KeyNetwork(text.key)))
        BY <1>1, <3>4 DEF FoundIn, FoundExpression, FromKey
      <4> QED BY <2>2, <4>1, <4>2
    <3>5. CASE text.kind \notin {"json", "bbqr", "ur", "descriptor", "origin"}
      <4>1. d.path = PathFor(KeyScript(text.key), KeyNetwork(text.key))
        BY <1>1, <1>3, <3>5 DEF Detected, DetectedBare, DetectedKey
      <4>2. found.path = PathOr(NoPath, PathFor(KeyScript(text.key), KeyNetwork(text.key)))
        BY <1>1, <3>5 DEF FoundIn, FromKey
      <4> QED BY <2>3, <4>1, <4>2
    <3> QED BY <3>1, <3>2, <3>3, <3>4, <3>5
  <2> QED BY <1>8, <2>1, <2>4
<1> QED BY <1>1, <1>2, <1>4, <1>7, <1>10, <1>11 DEF EffectivePath

\* A wallet derives what was shown for it, by a script type and a path that are its own.
Settled(w) ==
  /\ w \in [wallet: [key: {w.wallet.key}, script: AddressTypes, network: {w.wallet.network}, path: {w.wallet.path}],
            shown: {w.shown}]
  /\ w.wallet.path # NoPath
  /\ AccountOf(w.wallet) = w.shown

ReadAgain(w) == [w EXCEPT !.wallet = Normalized(@)]

FormShape(f) == f \in [text: {f.text}, network: Networks, script: {f.script}, edits: {f.edits}]

OfThisForm ==
  /\ preview.says = "waits" => CanPreview(importForm)
  /\ \A a \in asked : a \in [of: {a.of}, late: BOOLEAN] /\ (~a.late => a.of = Sent(importForm) /\ CanPreview(importForm))
  /\ preview.says = "shown" =>
       /\ CanPreview(importForm) /\ Effective(importForm) \in AddressTypes
       /\ preview.account = AccountOf(Stored0(Sent(importForm)))

SavedAsShown == saving # Nobody => Settled([wallet |-> Stored0(saving.sent), shown |-> saving.shown])

ImportInv ==
  /\ FormShape(importForm)
  /\ book \in [open: BOOLEAN, wallets: {book.wallets}]
  /\ OfThisForm
  /\ SavedAsShown
  /\ \A w \in book.wallets : IF book.open THEN Settled(w) ELSE Settled(ReadAgain(w))

\* A wallet that is settled stays as it is when it is read back.
LEMMA SettledStays == ASSUME NEW w, Settled(w) PROVE ReadAgain(w) = w
<1>1. PICK wallet, shown : w = [wallet |-> wallet, shown |-> shown] /\ w.wallet = wallet
  BY DEF Settled
<1>2. PICK key, script, network, path :
        /\ wallet = [key |-> key, script |-> script, network |-> network, path |-> path]
        /\ script \in AddressTypes /\ path # NoPath
  BY <1>1 DEF Settled
<1>3. NameNow(script) = script
  BY <1>2 DEF NameNow, AddressTypes
<1>4. Normalized(wallet) = wallet
  <2>1. wallet.script = script /\ wallet.path = path
    BY <1>2
  <2>2. Normalized(wallet) = [wallet EXCEPT !.script = script, !.path = PathOr(path, PathFor(script, wallet.network))]
    BY <1>2, <1>3, <2>1 DEF Normalized
  <2>3. PathOr(path, PathFor(script, wallet.network)) = path
    BY <1>2 DEF PathOr
  <2> QED BY <1>2, <2>2, <2>3
<1> QED BY <1>1, <1>4 DEF ReadAgain

\* The wallets of an older Atlas are settled by reading them.
LEMMA OlderSettle ==
  ASSUME NEW wallets \in OlderWallets, NEW w \in wallets
  PROVE  Settled(ReadAgain(w))
<1>1. PICK key, script, network, path, shown :
        /\ w = [wallet |-> [key |-> key, script |-> script, network |-> network, path |-> path], shown |-> shown]
        /\ script \in OldNames \cup AddressTypes /\ network \in Networks
        /\ shown = Account(key, NameNow(script), network, PathOr(path, PathFor(NameNow(script), network)))
  <2>1. PICK old : old = w.wallet
    OBVIOUS
  <2>2. /\ w \in [wallet: [key: {old.key}, script: OldNames \cup AddressTypes, network: Networks, path: {old.path}],
                  shown: {w.shown}]
        /\ w.shown = Account(old.key, NameNow(old.script), old.network,
                             PathOr(old.path, PathFor(NameNow(old.script), old.network)))
    BY <2>1, OlderWalletsAssumption
  <2>3. /\ w = [wallet |-> old, shown |-> w.shown]
        /\ old = [key |-> old.key, script |-> old.script, network |-> old.network, path |-> old.path]
        /\ old.script \in OldNames \cup AddressTypes /\ old.network \in Networks
    BY <2>1, <2>2
  <2> QED BY <2>2, <2>3, Zenon
<1>2. PICK now : now = NameNow(script)
  OBVIOUS
<1>3. now \in AddressTypes
  BY <1>1, <1>2 DEF NameNow, OldNames, AddressTypes
<1>4. PICK p : p = PathOr(path, PathFor(now, network))
  OBVIOUS
<1>5. p # NoPath
  BY <1>3, <1>4 DEF PathOr, PathFor, NoPath
<1>6. Normalized(w.wallet) = [key |-> key, script |-> now, network |-> network, path |-> p]
  <2>1. PICK wallet : wallet = [key |-> key, script |-> script, network |-> network, path |-> path]
    OBVIOUS
  <2>2. wallet.script = script /\ wallet.path = path /\ wallet.network = network /\ w.wallet = wallet
    BY <1>1, <2>1
  <2>3. Normalized(wallet) = [wallet EXCEPT !.script = now, !.path = p]
    BY <1>1, <1>2, <1>4, <2>2 DEF Normalized
  <2>4. Normalized(wallet) = [key |-> key, script |-> now, network |-> network, path |-> p]
    BY <2>1, <2>3
  <2> QED BY <2>2, <2>4, Zenon
<1>7. ReadAgain(w) = [wallet |-> [key |-> key, script |-> now, network |-> network, path |-> p], shown |-> shown]
  BY <1>1, <1>6 DEF ReadAgain
<1> QED BY <1>1, <1>2, <1>3, <1>4, <1>5, <1>7 DEF Settled, AccountOf

\* The form changes.
LEMMA ChangeKeeps ==
  ASSUME ImportInv, NEW f, FormShape(f), Change(f), UNCHANGED <<saving, book>>
  PROVE  ImportInv'
<1>1. PICK script, edits : /\ importForm' = [f EXCEPT !.edits = edits, !.script = script]
  BY DEF Change
<1>2. FormShape(importForm')
  BY <1>1 DEF FormShape
<1>3. \/ /\ Sent(importForm') = Sent(importForm) /\ UNCHANGED <<preview, asked>>
      \/ /\ preview' = [says |-> IF CanPreview(importForm') THEN "waits" ELSE "nothing"]
         /\ asked' = {[a EXCEPT !.late = TRUE] : a \in asked}
  BY DEF Change
<1>4. CASE Sent(importForm') = Sent(importForm) /\ UNCHANGED <<preview, asked>>
  <2>1. /\ importForm'.text = importForm.text /\ importForm'.network = importForm.network
        /\ Effective(importForm') = Effective(importForm)
    BY <1>4 DEF Sent
  <2>2. DetectedIn(importForm') = DetectedIn(importForm)
    BY <2>1 DEF DetectedIn
  <2>3. CanPreview(importForm') <=> CanPreview(importForm)
    BY <2>1, <2>2 DEF CanPreview, Mismatch
  <2> QED BY <1>2, <1>4, <2>1, <2>3 DEF ImportInv, OfThisForm, SavedAsShown
<1>5. CASE /\ preview' = [says |-> IF CanPreview(importForm') THEN "waits" ELSE "nothing"]
           /\ asked' = {[a EXCEPT !.late = TRUE] : a \in asked}
  <2>1. \A a \in asked' : a \in [of: {a.of}, late: BOOLEAN] /\ a.late
    BY <1>5 DEF ImportInv, OfThisForm
  <2>2. OfThisForm'
    BY <1>5, <2>1 DEF OfThisForm
  <2> QED BY <1>2, <2>2 DEF ImportInv, SavedAsShown
<1> QED BY <1>3, <1>4, <1>5

LEMMA FormKeeps ==
  ASSUME ImportInv,
         \/ \E t \in Texts : SetText(t) \/ ScanCode(t)
         \/ \E n \in Networks : ChooseNetwork(n)
         \/ \E s \in AddressTypes \cup {"unknown"} : ChooseScript(s)
         \/ TryFrames \/ ResetFrames \/ \E f \in FrameSet : ScanFrame(f)
  PROVE  ImportInv'
<1>1. UNCHANGED <<saving, book>>
  BY DEF SetText, ScanCode, ChooseNetwork, ChooseScript, TryFrames, ResetFrames, ScanFrame
<1>2. FormShape(importForm)
  BY DEF ImportInv
<1>3. ASSUME NEW text, Change([importForm EXCEPT !.text = text])
      PROVE  ImportInv'
  <2>1. FormShape([importForm EXCEPT !.text = text])
    BY <1>2 DEF FormShape
  <2> QED BY <1>1, <1>3, <2>1, ChangeKeeps
<1>4. ASSUME NEW n \in Networks, Change([importForm EXCEPT !.network = n])
      PROVE  ImportInv'
  <2>1. FormShape([importForm EXCEPT !.network = n])
    BY <1>2 DEF FormShape
  <2> QED BY <1>1, <1>4, <2>1, ChangeKeeps
<1>5. ASSUME NEW s, Change([importForm EXCEPT !.script = s])
      PROVE  ImportInv'
  <2>1. FormShape([importForm EXCEPT !.script = s])
    BY <1>2 DEF FormShape
  <2> QED BY <1>1, <1>5, <2>1, ChangeKeeps
<1>6. CASE UNCHANGED <<importForm, preview, asked>>
  BY <1>1, <1>6 DEF ImportInv, OfThisForm, SavedAsShown
<1>7. \/ \E text : Change([importForm EXCEPT !.text = text])
      \/ \E n \in Networks : Change([importForm EXCEPT !.network = n])
      \/ \E s : Change([importForm EXCEPT !.script = s])
      \/ UNCHANGED <<importForm, preview, asked>>
  BY DEF SetText, ScanCode, ChooseNetwork, ChooseScript, TryFrames, ResetFrames, ScanFrame
<1> QED BY <1>3, <1>4, <1>5, <1>6, <1>7

LEMMA PreviewKeeps ==
  ASSUME ImportInv, AskPreview \/ \E a \in asked : PreviewArrives(a)
  PROVE  ImportInv'
<1>1. UNCHANGED <<importForm, saving, book>>
  BY DEF AskPreview, PreviewArrives
<1>2. CASE AskPreview
  <2>1. /\ preview.says = "waits" /\ preview' = [says |-> "asked"]
        /\ asked' = asked \cup {[of |-> Sent(importForm), late |-> FALSE]}
    BY <1>2 DEF AskPreview
  <2>2. CanPreview(importForm)
    BY <2>1 DEF ImportInv, OfThisForm
  <2>3. \A a \in asked' : a \in [of: {a.of}, late: BOOLEAN] /\ (~a.late => a.of = Sent(importForm))
    <3>1. PICK new, sent : new = [of |-> sent, late |-> FALSE] /\ sent = Sent(importForm)
      OBVIOUS
    <3>2. new \in [of: {new.of}, late: BOOLEAN] /\ new.of = sent
      BY <3>1
    <3>3. \A a \in asked : a \in [of: {a.of}, late: BOOLEAN] /\ (~a.late => a.of = Sent(importForm))
      BY DEF ImportInv, OfThisForm
    <3>4. asked' = asked \cup {new}
      BY <2>1, <3>1
    <3> QED BY <3>1, <3>2, <3>3, <3>4
  <2>4. OfThisForm'
    BY <1>1, <2>1, <2>2, <2>3 DEF OfThisForm
  <2> QED BY <1>1, <2>4 DEF ImportInv, SavedAsShown
<1>3. ASSUME NEW a \in asked, PreviewArrives(a)
      PROVE  ImportInv'
  <2>1. asked' = asked \ {a}
    BY <1>3 DEF PreviewArrives
  <2>2. CASE UNCHANGED preview
    BY <1>1, <2>1, <2>2 DEF ImportInv, OfThisForm, SavedAsShown
  <2>3. CASE ~UNCHANGED preview
    <3>1. ~a.late /\ preview' \in Answers(a.of)
      BY <1>3, <2>3 DEF PreviewArrives
    <3>2. a.of = Sent(importForm) /\ CanPreview(importForm) /\ importForm.network \in Networks
      BY <3>1 DEF ImportInv, OfThisForm, FormShape
    <3>3. CASE preview' = [says |-> "message"]
      <4>1. OfThisForm'
        BY <1>1, <2>1, <3>3 DEF ImportInv, OfThisForm
      <4> QED BY <1>1, <4>1 DEF ImportInv, SavedAsShown
    <3>4. CASE preview' # [says |-> "message"]
      <4>1. PICK p : p = Parsed(importForm.text, importForm.network, Effective(importForm))
        OBVIOUS
      <4>2. Derivable(p) /\ preview' = [says |-> "shown", account |-> Account(p.key, p.script, p.network, p.path)]
        BY <3>1, <3>2, <3>4, <4>1 DEF Answers, Sent
      <4>3. p.script = Effective(importForm)
        BY <3>2, <4>1, ParsedIs DEF CanPreview
      <4>4. AccountOf(Stored0(Sent(importForm))) = Account(p.key, p.script, p.network, p.path)
        BY <4>1 DEF AccountOf, Stored0, Sent
      <4>5. Effective(importForm) \in AddressTypes
        BY <4>2, <4>3 DEF Derivable
      <4>6. OfThisForm'
        BY <1>1, <2>1, <3>2, <4>2, <4>4, <4>5 DEF ImportInv, OfThisForm
      <4> QED BY <1>1, <4>6 DEF ImportInv, SavedAsShown
    <3> QED BY <3>3, <3>4
  <2> QED BY <2>2, <2>3
<1> QED BY <1>2, <1>3

LEMMA SaveKeeps == ASSUME ImportInv, Submit \/ SaveAnswers PROVE ImportInv'
<1>1. CASE Submit
  <2>1. /\ saving' = [sent |-> Sent(importForm), shown |-> preview.account]
        /\ UNCHANGED <<importForm, preview, asked, book>>
        /\ EffectivePath(importForm) # NoPath /\ preview.says = "shown"
    BY <1>1 DEF Submit, CanSave
  <2>2. /\ Effective(importForm) \in AddressTypes
        /\ preview.account = AccountOf(Stored0(Sent(importForm)))
    BY <2>1 DEF ImportInv, OfThisForm
  <2>3. PICK p : p = Parsed(importForm.text, importForm.network, Effective(importForm))
    OBVIOUS
  <2>4. p.script = Effective(importForm) /\ p.path # NoPath
    <3>1. Effective(importForm) # "unknown"
      BY <2>2 DEF AddressTypes
    <3> QED BY <2>2, <2>3, <3>1, ParsedIs
  <2>5. PICK wallet : wallet = Stored0(saving'.sent)
    OBVIOUS
  <2>6. wallet = [key |-> p.key, script |-> p.script, network |-> p.network, path |-> p.path]
    BY <2>1, <2>3, <2>5 DEF Stored0, Sent
  <2>7. saving'.shown = AccountOf(wallet)
    BY <2>1, <2>2, <2>5
  <2>8. Settled([wallet |-> Stored0(saving'.sent), shown |-> saving'.shown])
    BY <2>2, <2>4, <2>5, <2>6, <2>7 DEF Settled
  <2> QED BY <2>1, <2>8 DEF ImportInv, OfThisForm, SavedAsShown
<1>2. CASE SaveAnswers
  <2>1. saving # Nobody /\ saving' = Nobody
    BY <1>2 DEF SaveAnswers
  <2>2. PICK w : w = [wallet |-> Stored0(saving.sent), shown |-> saving.shown]
    OBVIOUS
  <2>3. Settled(w)
    BY <2>1, <2>2 DEF ImportInv, SavedAsShown
  <2>4. CASE UNCHANGED <<importForm, preview, asked, book>>
    BY <2>1, <2>4 DEF ImportInv, OfThisForm, SavedAsShown
  <2>5. CASE ~UNCHANGED <<importForm, preview, asked, book>>
    <3>1. /\ book.open
          /\ book' = [book EXCEPT !.wallets = @ \cup {w}]
          /\ importForm' = [importForm EXCEPT !.text = NoText, !.script = "unknown"]
          /\ preview' = NoPreview
          /\ asked' = {[a EXCEPT !.late = TRUE] : a \in asked}
      BY <1>2, <2>2, <2>5 DEF SaveAnswers
    <3>2. \A a \in asked' : a \in [of: {a.of}, late: BOOLEAN] /\ a.late
      BY <3>1 DEF ImportInv, OfThisForm
    <3>3. OfThisForm'
      BY <3>1, <3>2 DEF OfThisForm, NoPreview
    <3>4. FormShape(importForm)'
      BY <3>1 DEF ImportInv, FormShape, Networks
    <3>5. book'.open /\ book'.wallets = book.wallets \cup {w} /\ book' \in [open: BOOLEAN, wallets: {book'.wallets}]
      BY <3>1 DEF ImportInv
    <3> QED BY <2>1, <2>3, <3>1, <3>3, <3>4, <3>5 DEF ImportInv, SavedAsShown
  <2> QED BY <2>4, <2>5
<1> QED BY <1>1, <1>2

LEMMA BookKeeps == ASSUME ImportInv, UnlockBook \/ LockBook PROVE ImportInv'
<1>1. UNCHANGED <<importForm, preview, asked, saving>>
  BY DEF UnlockBook, LockBook
<1>2. OfThisForm' /\ SavedAsShown' /\ FormShape(importForm)'
  BY <1>1 DEF ImportInv, OfThisForm, SavedAsShown
<1>3. CASE UnlockBook
  <2>1. ~book.open /\ book'.open /\ book' = [open |-> TRUE, wallets |-> book'.wallets]
        /\ book'.wallets = {ReadAgain(w) : w \in book.wallets}
    BY <1>3 DEF UnlockBook, ReadAgain
  <2>2. \A w \in book'.wallets : Settled(w)
    BY <2>1 DEF ImportInv
  <2> QED BY <1>2, <2>1, <2>2 DEF ImportInv
<1>4. CASE LockBook
  <2>1. book.open /\ ~book'.open /\ book'.wallets = book.wallets /\ book' \in [open: BOOLEAN, wallets: {book'.wallets}]
    BY <1>4 DEF LockBook, ImportInv
  <2>2. \A w \in book'.wallets : Settled(ReadAgain(w))
    BY <2>1, SettledStays DEF ImportInv
  <2> QED BY <1>2, <2>1, <2>2 DEF ImportInv
<1> QED BY <1>3, <1>4

LEMMA ImportInvariant == ImportSpec => []ImportInv
<1>1. ImportInit => ImportInv
  <2> SUFFICES ASSUME ImportInit PROVE ImportInv
    OBVIOUS
  <2>1. PICK wallets \in OlderWallets : book = [open |-> FALSE, wallets |-> wallets]
    BY DEF ImportInit
  <2>2. book \in [open: BOOLEAN, wallets: {book.wallets}] /\ ~book.open /\ book.wallets = wallets
    BY <2>1
  <2>3. \A w \in book.wallets : Settled(ReadAgain(w))
    BY <2>2, OlderSettle
  <2>4. FormShape(importForm) /\ OfThisForm /\ SavedAsShown
    BY DEF ImportInit, FormShape, Networks, OfThisForm, NoPreview, SavedAsShown
  <2> QED BY <2>2, <2>3, <2>4 DEF ImportInv
<1>2. ImportInv /\ [ImportNext]_importVars => ImportInv'
  <2> SUFFICES ASSUME ImportInv, [ImportNext]_importVars PROVE ImportInv'
    OBVIOUS
  <2>1. CASE UNCHANGED importVars
    BY <2>1 DEF importVars, ImportInv, OfThisForm, SavedAsShown
  <2>2. CASE ImportNext
    BY <2>2, FormKeeps, PreviewKeeps, SaveKeeps, BookKeeps DEF ImportNext
  <2> QED BY <2>1, <2>2
<1> QED BY <1>1, <1>2, PTL DEF ImportSpec

\* What is previewed is what saving the form as it is now would give, however
\* late an answer comes; and it is what the page finds in the text, unless a JSON
\* text has a field that the two parsers read differently (WalletCreateForm,
\* detectImportMetadata, parseWalletImport).
THEOREM ImportPreviewIsOfTheForm == ImportSpec => []PreviewIsOfTheForm
<1>1. ImportInv => PreviewIsOfTheForm
  <2> SUFFICES ASSUME ImportInv, preview.says = "shown"
               PROVE  /\ preview.account = AccountOf(Stored0(Sent(importForm)))
                      /\ ReadAlike(importForm.text) => preview.account = PageAccount(importForm)
    BY DEF PreviewIsOfTheForm
  <2>1. /\ preview.account = AccountOf(Stored0(Sent(importForm)))
        /\ CanPreview(importForm) /\ importForm.network \in Networks
    BY DEF ImportInv, OfThisForm, FormShape
  <2>2. ASSUME ReadAlike(importForm.text) PROVE preview.account = PageAccount(importForm)
    <3>1. PICK p : p = Parsed(importForm.text, importForm.network, Effective(importForm))
      OBVIOUS
    <3>2. /\ p.key = DetectedIn(importForm).key /\ p.script = Effective(importForm)
          /\ CoinOf(p.network) = CoinOf(importForm.network) /\ p.path = EffectivePath(importForm)
      BY <2>1, <2>2, <3>1, ParsersAgree
    <3>3. AccountOf(Stored0(Sent(importForm))) = Account(p.key, p.script, p.network, p.path)
      BY <3>1 DEF AccountOf, Stored0, Sent
    <3>4. Account(p.key, p.script, p.network, p.path) = PageAccount(importForm)
      BY <3>2 DEF Account, PageAccount, CoinOf
    <3> QED BY <2>1, <3>3, <3>4
  <2> QED BY <2>1, <2>2
<1> QED BY <1>1, ImportInvariant, PTL

\* A wallet derives what was previewed when it was saved, whatever the text and
\* however often the vault is locked and unlocked, and one of an older Atlas
\* what it derived there (addWallet, normalizeWalletRecord).
THEOREM ImportIsAsPreviewed == ImportSpec => []WalletIsAsPreviewed
<1>1. ImportInv => WalletIsAsPreviewed
  BY DEF ImportInv, Settled, WalletIsAsPreviewed
<1> QED BY <1>1, ImportInvariant, PTL

\* What the page finds in a text names a script type, or none.
ScriptNames == AddressTypes \cup {"unknown"}
TextsThere == Texts \cup {NoText} \cup {Decoded[d] : d \in DOMAIN Decoded}

LEMMA CandidateScript == ASSUME NEW text PROVE Candidate(text, Web).script \in ScriptNames
<1> DEFINE There == {i \in DOMAIN WebFields : HoldsKey(text, WebFields[i][1], Web)}
<1>0. Web.fields = WebFields
  BY Zenon DEF Web
<1>1. CASE There = {}
  <2>1. Candidate(text, Web) = NoCandidate
    BY <1>0, <1>1 DEF Candidate
  <2> QED BY <2>1 DEF NoCandidate, ScriptNames
<1>2. CASE There # {}
  <2>1. There \subseteq Nat /\ There \subseteq DOMAIN WebFields
    BY WebFieldsArePairs
  <2>2. PICK first : first = Min(There)
    OBVIOUS
  <2>3. Candidate(text, Web) = FieldCandidate(text.fields[WebFields[first][1]], WebFields[first][2], Web)
    BY <1>0, <1>2, <2>2 DEF Candidate
  <2>4. first \in There
    <3> HIDE DEF There
    <3>1. PICK m \in There : \A n \in There : m <= n
      BY <1>2, <2>1, LeastNatural
    <3> QED BY <2>2, <3>1 DEF Min
  <2>5. PICK pair : pair = WebFields[first] /\ pair \in FieldPairs
    BY <2>1, <2>4, WebFieldsArePairs
  <2>6. pair[2] \in ScriptNames
    BY <2>5 DEF FieldPairs, ScriptNames, AddressTypes
  <2> QED BY <2>3, <2>5, <2>6 DEF FieldCandidate
<1> QED BY <1>1, <1>2

LEMMA FoundScript ==
  ASSUME NEW f, f.text \in TextsThere
  PROVE  DetectedIn(f).script \in ScriptNames
<1>1. PICK text, d : text = f.text /\ d = Detected(text, f.network)
  OBVIOUS
<1>2. KeyScript(text.key) \in ScriptNames
  BY DEF KeyScript, ScriptNames, AddressTypes
<1>3. CASE ~HasKey(text, Web)
  BY <1>1, <1>3 DEF Detected, DetectedIn, Undetected, ScriptNames
<1>4. CASE HasKey(text, Web)
  <2>1. CASE text.kind \in {"json", "bbqr"}
    <3>1. d.script = Candidate(text, Web).script
      BY <1>1, <1>4, <2>1 DEF Detected, DetectedJson, DetectedKey
    <3> QED BY <1>1, <3>1, CandidateScript DEF DetectedIn
  <2>2. CASE text.kind = "descriptor"
    <3>1. d.script = text.script
      BY <1>1, <1>4, <2>2 DEF Detected, DetectedDescriptor, DetectedKey
    <3>2. text \in Texts \cup {Decoded[x] : x \in DOMAIN Decoded}
      BY <1>1, <2>2 DEF TextsThere, NoText
    <3> QED BY <1>1, <3>1, <3>2, TextsAssumption DEF DetectedIn, ScriptNames
  <2>3. CASE text.kind \notin {"json", "bbqr", "descriptor"}
    <3>1. d.script = KeyScript(text.key)
      BY <1>1, <1>4, <2>3 DEF Detected, DetectedUr, DetectedExpression, DetectedBare, DetectedKey
    <3> QED BY <1>1, <1>2, <3>1 DEF DetectedIn
  <2> QED BY <2>1, <2>2, <2>3
<1> QED BY <1>3, <1>4

ImportTypes ==
  /\ importForm.text \in TextsThere /\ importForm.script \in ScriptNames
  /\ preview.says \in {"nothing", "waits", "asked", "shown", "message"}
  /\ collector \in [bbqr: {collector.bbqr}, animated: Seq(Texts), format: {"none", "bbqr", "other"}]

FormTypes ==
  /\ importForm'.text \in TextsThere /\ importForm'.script \in ScriptNames
  /\ preview'.says \in {"nothing", "waits", "asked", "shown", "message"}

LEMMA ChangeTypes ==
  ASSUME ImportTypes, NEW f, FormShape(f), f.text \in TextsThere, f.script \in ScriptNames, Change(f)
  PROVE  FormTypes
<1>1. PICK script, edits :
        /\ importForm' = [f EXCEPT !.edits = edits, !.script = script]
        /\ script \in {f.script, DetectedIn(f).script}
  BY DEF Change
<1>2. script \in ScriptNames
  BY <1>1, FoundScript
<1>3. importForm'.text = f.text /\ importForm'.script = script
  BY <1>1 DEF FormShape
<1>4. preview' = preview \/ preview'.says \in {"waits", "nothing"}
  BY DEF Change
<1> QED BY <1>2, <1>3, <1>4 DEF ImportTypes, FormTypes

LEMMA FormKeepsTypes ==
  ASSUME ImportInv, ImportTypes,
         \/ \E t \in Texts : SetText(t) \/ ScanCode(t)
         \/ \E n \in Networks : ChooseNetwork(n)
         \/ \E s \in AddressTypes \cup {"unknown"} : ChooseScript(s)
         \/ TryFrames \/ ResetFrames \/ \E f \in FrameSet : ScanFrame(f)
  PROVE  ImportTypes'
<1>1. FormShape(importForm) /\ importForm.text \in TextsThere /\ importForm.script \in ScriptNames
  BY DEF ImportInv, ImportTypes
<1>2. ASSUME NEW text \in TextsThere, Change([importForm EXCEPT !.text = text]) PROVE FormTypes
  <2>1. PICK f : f = [importForm EXCEPT !.text = text]
    OBVIOUS
  <2>2. FormShape(f) /\ f.text = text /\ f.script = importForm.script
    BY <1>1, <2>1 DEF FormShape
  <2> QED BY <1>1, <1>2, <2>1, <2>2, ChangeTypes
<1>3. ASSUME NEW n \in Networks, Change([importForm EXCEPT !.network = n]) PROVE FormTypes
  <2>1. PICK f : f = [importForm EXCEPT !.network = n]
    OBVIOUS
  <2>2. FormShape(f) /\ f.text = importForm.text /\ f.script = importForm.script
    BY <1>1, <2>1 DEF FormShape
  <2> QED BY <1>1, <1>3, <2>1, <2>2, ChangeTypes
<1>4. ASSUME NEW s \in ScriptNames, Change([importForm EXCEPT !.script = s]) PROVE FormTypes
  <2>1. PICK f : f = [importForm EXCEPT !.script = s]
    OBVIOUS
  <2>2. FormShape(f) /\ f.text = importForm.text /\ f.script = s
    BY <1>1, <2>1 DEF FormShape
  <2> QED BY <1>1, <1>4, <2>1, <2>2, ChangeTypes
<1>5. ASSUME UNCHANGED <<importForm, preview>> PROVE FormTypes
  BY <1>5 DEF ImportTypes, FormTypes
<1>6. collector.animated \in Seq(Texts) /\ Texts \subseteq TextsThere /\ NoText \in TextsThere
  BY DEF ImportTypes, TextsThere
<1>7. FormTypes
  <2>1. ASSUME NEW t \in Texts, SetText(t) \/ ScanCode(t) PROVE FormTypes
    BY <1>2, <1>5, <1>6, <2>1 DEF SetText, ScanCode
  <2>2. ASSUME NEW n \in Networks, ChooseNetwork(n) PROVE FormTypes
    BY <1>3, <2>2 DEF ChooseNetwork
  <2>3. ASSUME NEW s \in ScriptNames, ChooseScript(s) PROVE FormTypes
    BY <1>4, <2>3 DEF ChooseScript
  <2>4. CASE TryFrames
    <3>1. PICK keyed, animated : animated = collector.animated /\ keyed = Kept(animated, {t \in Texts : t.key # NoKey})
      OBVIOUS
    <3>2. keyed \in Seq(Texts) /\ animated \in Seq(Texts) /\ animated # <<>>
      <4>1. PICK these : these = {t \in Texts : t.key # NoKey}
        OBVIOUS
      <4>2. PICK g \in [0..Len(animated) -> Seq(Texts)] : Kept(animated, these) = g[Len(animated)]
        BY <1>6, <3>1, KeptFilters
      <4>3. Len(animated) \in 0..Len(animated)
        BY <1>6, <3>1
      <4> QED BY <1>6, <2>4, <3>1, <4>1, <4>2, <4>3 DEF TryFrames
    <3>3. PICK text : text = (IF keyed # <<>> THEN Head(keyed) ELSE Head(animated)) /\ text \in Texts
      BY <3>2
    <3>4. Change([importForm EXCEPT !.text = text])
      BY <2>4, <3>1, <3>3 DEF TryFrames
    <3> QED BY <1>2, <1>6, <3>3, <3>4
  <2>5. CASE ResetFrames
    BY <1>5, <2>5 DEF ResetFrames
  <2>6. ASSUME NEW f \in FrameSet, ScanFrame(f) PROVE FormTypes
    <3>1. PICK bbqr : bbqr = Add(collector.bbqr, f)
      OBVIOUS
    <3>2. \/ Assembles(bbqr) /\ Change([importForm EXCEPT !.text = Decoded[bbqr.data]])
          \/ Change([importForm EXCEPT !.text = NoText])
          \/ UNCHANGED <<importForm, preview>>
      BY <2>6, <3>1 DEF ScanFrame
    <3>3. PICK text : text = Decoded[bbqr.data]
      OBVIOUS
    <3>4. Assembles(bbqr) => text \in TextsThere
      BY <3>3 DEF TextsThere, Assembles
    <3> QED BY <1>2, <1>5, <1>6, <3>2, <3>3, <3>4
  <2> QED BY <2>1, <2>2, <2>3, <2>4, <2>5, <2>6 DEF ScriptNames
<1>8. collector' \in [bbqr: {collector'.bbqr}, animated: Seq(Texts), format: {"none", "bbqr", "other"}]
  <2>1. CASE UNCHANGED collector
    BY <2>1 DEF ImportTypes
  <2>2. ASSUME NEW t \in Texts, ScanCode(t), ~UNCHANGED collector
        PROVE  collector'.animated \in Seq(Texts) /\ collector' \in [bbqr: {collector'.bbqr}, animated: {collector'.animated}, format: {"other"}]
    <3>1. PICK old, new : old = collector.animated /\ new = IF Contains(old, t) THEN old ELSE Append(old, t)
      OBVIOUS
    <3>2. new \in Seq(Texts)
      BY <1>6, <3>1
    <3>3. collector' = [collector EXCEPT !.animated = new, !.format = "other"]
      BY <2>2, <3>1, Zenon DEF ScanCode
    <3> QED BY <3>2, <3>3 DEF ImportTypes
  <2>3. CASE ResetFrames
    BY <2>3 DEF ResetFrames, NothingScanned
  <2>4. ASSUME NEW f \in FrameSet, ScanFrame(f)
        PROVE  collector'.animated \in Seq(Texts) /\ collector' \in [bbqr: {collector'.bbqr}, animated: {collector'.animated}, format: {"bbqr"}]
    BY <1>6, <2>4 DEF ScanFrame, ImportTypes
  <2> QED BY <2>1, <2>2, <2>3, <2>4 DEF SetText, ChooseNetwork, ChooseScript, TryFrames
<1> QED BY <1>7, <1>8 DEF FormTypes, ImportTypes

\* The form of an import, its preview and what is scanned keep their types.
THEOREM ImportTypeCorrect == ImportSpec => []ImportTypeOK
<1>1. ImportInit => ImportTypes
  BY DEF ImportInit, ImportTypes, TextsThere, ScriptNames, NoPreview, NothingScanned
<1>2. ImportInv /\ ImportTypes /\ [ImportNext]_importVars => ImportTypes'
  <2> SUFFICES ASSUME ImportInv, ImportTypes, [ImportNext]_importVars PROVE ImportTypes'
    OBVIOUS
  <2>1. CASE \/ \E t \in Texts : SetText(t) \/ ScanCode(t)
             \/ \E n \in Networks : ChooseNetwork(n)
             \/ \E s \in AddressTypes \cup {"unknown"} : ChooseScript(s)
             \/ TryFrames \/ ResetFrames \/ \E f \in FrameSet : ScanFrame(f)
    BY <2>1, FormKeepsTypes
  <2>2. CASE UNCHANGED <<importForm, collector>> /\ preview'.says \in {preview.says, "asked", "shown", "message"}
    BY <2>2 DEF ImportTypes
  <2>3. ASSUME AskPreview \/ \E a \in asked : PreviewArrives(a) PROVE ImportTypes'
    BY <2>2, <2>3 DEF AskPreview, PreviewArrives, Answers
  <2>4. CASE SaveAnswers
    <3>1. UNCHANGED collector
      BY <2>4 DEF SaveAnswers
    <3>2. CASE UNCHANGED <<importForm, preview>>
      BY <2>2, <3>1, <3>2
    <3>3. CASE importForm' = [importForm EXCEPT !.text = NoText, !.script = "unknown"] /\ preview' = NoPreview
      <4>1. importForm'.text = NoText /\ importForm'.script = "unknown"
        BY <3>3 DEF ImportInv, FormShape
      <4> QED BY <3>1, <3>3, <4>1 DEF ImportTypes, TextsThere, ScriptNames, NoPreview
    <3> QED BY <2>4, <3>2, <3>3 DEF SaveAnswers
  <2>5. CASE Submit \/ UnlockBook \/ LockBook \/ UNCHANGED importVars
    BY <2>2, <2>5 DEF Submit, UnlockBook, LockBook, importVars
  <2> QED BY <2>1, <2>3, <2>4, <2>5 DEF ImportNext
<1>3. ImportInv /\ ImportTypes => ImportTypeOK
  BY DEF ImportInv, FormShape, OfThisForm, ImportTypes, ImportTypeOK, TextsThere, ScriptNames
<1> QED BY <1>1, <1>2, <1>3, ImportInvariant, PTL DEF ImportSpec

CollectorShape == collector \in [bbqr: {collector.bbqr}, animated: {collector.animated}, format: {collector.format}]

FrameStays(old, new) ==
  \/ new = NoFrames
  \/ /\ old.header \in {NoHeader, new.header}
     /\ DOMAIN old.data \subseteq DOMAIN new.data
     /\ \A i \in DOMAIN old.data : new.data[i] = old.data[i]

LEMMA AddKeeps == ASSUME NEW c, NEW f PROVE FrameStays(c, Add(c, f))
<1>1. CASE OfThisSet(c, f) /\ ~Conflicts(c, f)
  <2>1. PICK data : data = Captured(c, f)
    OBVIOUS
  <2>2. DOMAIN data = {f.index} \cup DOMAIN c.data
        /\ \A i \in DOMAIN data : data[i] = IF i = f.index THEN f.data ELSE c.data[i]
    BY <2>1 DEF Captured
  <2>3. Add(c, f) = [header |-> f.header, data |-> data]
    BY <1>1, <2>1 DEF Add
  <2> QED BY <1>1, <2>2, <2>3 DEF FrameStays, OfThisSet, Conflicts
<1>2. CASE ~(OfThisSet(c, f) /\ ~Conflicts(c, f))
  BY <1>2 DEF Add, FrameStays
<1> QED BY <1>1, <1>2

\* A frame that was captured stays as it is until the frames are cleared, for
\* every set of frames, in every order (addBbqrFrame).
THEOREM ImportFramesStay == ImportSpec => FramesStay
<1>1. ImportInit => CollectorShape
  BY DEF ImportInit, NothingScanned, CollectorShape
<1>2. CollectorShape /\ [ImportNext]_importVars =>
        CollectorShape' /\ (UNCHANGED collector \/ FrameStays(collector.bbqr, collector'.bbqr))
  <2> SUFFICES ASSUME CollectorShape, [ImportNext]_importVars
               PROVE  CollectorShape' /\ (UNCHANGED collector \/ FrameStays(collector.bbqr, collector'.bbqr))
    OBVIOUS
  <2>1. CASE UNCHANGED collector
    BY <2>1 DEF CollectorShape
  <2>2. ASSUME NEW t, ScanCode(t), ~UNCHANGED collector
        PROVE  CollectorShape' /\ collector'.bbqr = collector.bbqr
    BY <2>2 DEF ScanCode, CollectorShape
  <2>3. ASSUME NEW f, ScanFrame(f)
        PROVE  CollectorShape' /\ collector'.bbqr = Add(collector.bbqr, f)
    BY <2>3 DEF ScanFrame, CollectorShape
  <2>4. CASE ResetFrames
    BY <2>4 DEF ResetFrames, NothingScanned, CollectorShape, FrameStays
  <2>5. FrameStays(collector.bbqr, collector.bbqr)
    BY DEF FrameStays
  <2>6. \/ UNCHANGED collector
        \/ \E t \in Texts : ScanCode(t)
        \/ \E f \in FrameSet : ScanFrame(f)
        \/ ResetFrames
    BY DEF ImportNext, importVars, SetText, ChooseNetwork, ChooseScript, TryFrames, AskPreview, Submit, SaveAnswers,
           UnlockBook, LockBook, PreviewArrives
  <2> QED BY <2>1, <2>2, <2>3, <2>4, <2>5, <2>6, AddKeeps
<1>3. (UNCHANGED collector \/ FrameStays(collector.bbqr, collector'.bbqr)) =>
        [LET old == collector.bbqr  new == collector'.bbqr IN
           \/ new = NoFrames
           \/ /\ old.header \in {NoHeader, new.header}
              /\ DOMAIN old.data \subseteq DOMAIN new.data
              /\ \A i \in DOMAIN old.data : new.data[i] = old.data[i]]_collector
  BY DEF FrameStays
<1> QED BY <1>1, <1>2, <1>3, PTL DEF ImportSpec, FramesStay

-----------------------------------------------------------------------------
(* Labels.  The argument: no two entries of a list are of one thing, so    *)
(* that taking one out and putting another in is writing on one page, and  *)
(* every entry is valid, so that reading a list back drops none.           *)

\* No two entries are of one thing.
Distinct(list) == \A i, j \in DOMAIN list : i # j => list[i].of # list[j].of

\* Some of the entries of a list, each still one of its thing
SomeOf(kept, list, n, these) ==
  /\ \A e : e \in ToSet(kept) <=> (e \in these /\ \E i \in 1..n : list[i] = e)
  /\ Distinct(kept)

LEMMA AppendedIs ==
  ASSUME NEW S, NEW kept \in Seq(S), NEW x \in S
  PROVE  /\ Append(kept, x) \in Seq(S)
         /\ ToSet(Append(kept, x)) = ToSet(kept) \cup {x}
         /\ Distinct(kept) /\ (\A e \in ToSet(kept) : e.of # x.of) => Distinct(Append(kept, x))
<1>1. PICK all : all = Append(kept, x)
  OBVIOUS
<1>2. /\ all \in Seq(S) /\ DOMAIN all = DOMAIN kept \cup {Len(kept) + 1} /\ Len(kept) + 1 \notin DOMAIN kept
      /\ \A i \in DOMAIN kept : all[i] = kept[i]
      /\ all[Len(kept) + 1] = x
  BY <1>1
<1>3. ToSet(all) = ToSet(kept) \cup {x}
  BY <1>2 DEF ToSet
<1>4. ASSUME Distinct(kept), \A e \in ToSet(kept) : e.of # x.of
      PROVE  Distinct(all)
  BY <1>2, <1>4 DEF Distinct, ToSet
<1> QED BY <1>1, <1>2, <1>3, <1>4

\* What is kept of a list of one entry for each thing.
LEMMA KeptIs ==
  ASSUME NEW S, NEW list \in Seq(S), Distinct(list), NEW these
  PROVE  /\ Kept(list, these) \in Seq(S)
         /\ ToSet(Kept(list, these)) = ToSet(list) \cap these
         /\ Distinct(Kept(list, these))
<1>1. PICK G \in [0..Len(list) -> Seq(S)] : Filters(list, these, G, Len(list)) /\ Kept(list, these) = G[Len(list)]
  BY KeptFilters
<1> DEFINE Good0(n) == G[n] \in Seq(S) /\ SomeOf(G[n], list, n, these)
           Bad == {n \in 0..Len(list) : ~Good0(n)}
<1>2. Bad = {}
  <2>1. SUFFICES ASSUME Bad # {} PROVE FALSE
    OBVIOUS
  <2>2. PICK least \in Bad : \A n \in Bad : least <= n
    <3>1. Bad \subseteq Nat
      OBVIOUS
    <3> HIDE DEF Bad
    <3> QED BY <2>1, <3>1, LeastNatural
  <2>3. least # 0
    <3>1. G[0] = <<>>
      BY <1>1 DEF Filters
    <3>2. Good0(0)
      BY <3>1 DEF SomeOf, Distinct, ToSet
    <3> QED BY <2>2, <3>2
  <2>4. least \in 1..Len(list) /\ least - 1 \in 0..Len(list) /\ ~(least <= least - 1)
    BY <2>2, <2>3
  <2>5. PICK kept : kept = G[least - 1] /\ kept \in Seq(S) /\ SomeOf(kept, list, least - 1, these)
    <3>1. least - 1 \notin Bad
      BY <2>2, <2>4
    <3> QED BY <2>4, <3>1
  <2>6. PICK x \in S : x = list[least]
    BY <2>4
  <2>7. G[least] = IF x \in these THEN Append(kept, x) ELSE kept
    <3>1. G[least] = IF list[least] \in these THEN Append(G[least - 1], list[least]) ELSE G[least - 1]
      BY <1>1, <2>4, Zenon DEF Filters
    <3> QED BY <2>5, <2>6, <3>1, Zenon
  <2>8. \A e : (\E i \in 1..least : list[i] = e) <=> (e = x \/ \E i \in 1..(least - 1) : list[i] = e)
    BY <2>4, <2>6
  <2>9. Good0(least)
    <3>1. CASE x \in these
      <4>1. \A e \in ToSet(kept) : e.of # x.of
        <5> SUFFICES ASSUME NEW e \in ToSet(kept) PROVE e.of # x.of
          OBVIOUS
        <5>1. PICK i \in 1..(least - 1) : list[i] = e
          BY <2>5 DEF SomeOf
        <5>2. i \in DOMAIN list /\ least \in DOMAIN list /\ i # least
          BY <2>4
        <5> QED BY <2>6, <5>1, <5>2 DEF Distinct
      <4>2. /\ Append(kept, x) \in Seq(S) /\ ToSet(Append(kept, x)) = ToSet(kept) \cup {x}
            /\ Distinct(Append(kept, x))
        BY <2>5, <4>1, AppendedIs DEF SomeOf
      <4>3. G[least] = Append(kept, x)
        BY <2>7, <3>1
      <4> QED BY <2>5, <2>8, <3>1, <4>2, <4>3 DEF SomeOf
    <3>2. CASE x \notin these
      BY <2>5, <2>7, <2>8, <3>2 DEF SomeOf
    <3> QED BY <3>1, <3>2
  <2> QED BY <2>2, <2>9
<1>3. Good0(Len(list))
  <2>1. Len(list) \in 0..Len(list)
    OBVIOUS
  <2> QED BY <1>2, <2>1
<1>4. \A e : e \in ToSet(list) <=> \E i \in 1..Len(list) : list[i] = e
  BY DEF ToSet
<1> QED BY <1>1, <1>3, <1>4 DEF SomeOf

\* The page of a thing is its entry.
LEMMA PageIs ==
  ASSUME NEW S, NEW list \in Seq(S), Distinct(list), NEW key
  PROVE  /\ \A e \in ToSet(list) : e.of = key => FirstOfThing(list, key) = <<e.label, e.notes>>
         /\ (\A e \in ToSet(list) : e.of # key) => FirstOfThing(list, key) = <<"", None>>
<1> DEFINE Theirs == {i \in DOMAIN list : list[i].of = key}
<1>1. ASSUME NEW i \in DOMAIN list, list[i].of = key
      PROVE  FirstOfThing(list, key) = <<list[i].label, list[i].notes>>
  <2>1. Theirs = {i}
    BY <1>1 DEF Distinct
  <2>2. Min(Theirs) = i
    <3>1. i \in Nat /\ i <= i
      OBVIOUS
    <3> HIDE DEF Theirs
    <3> QED BY <2>1, <3>1 DEF Min
  <2> QED BY <2>1, <2>2 DEF FirstOfThing
<1>2. ASSUME \A e \in ToSet(list) : e.of # key
      PROVE  FirstOfThing(list, key) = <<"", None>>
  <2>1. Theirs = {}
    BY <1>2 DEF ToSet
  <2> QED BY <2>1 DEF FirstOfThing
<1> QED BY <1>1, <1>2 DEF ToSet

LEMMA WithoutPages ==
  ASSUME NEW S, NEW list \in Seq(S), Distinct(list), NEW key
  PROVE  /\ Without(list, key) \in Seq(S) /\ Distinct(Without(list, key))
         /\ \A e \in ToSet(Without(list, key)) : e.of # key
         /\ FirstOfThing(Without(list, key), key) = <<"", None>>
<1>1. PICK rest : rest = Without(list, key)
  OBVIOUS
<1>2. rest \in Seq(S) /\ Distinct(rest) /\ ToSet(rest) = {e \in ToSet(list) : e.of # key}
  BY <1>1, KeptIs DEF Without
<1>3. FirstOfThing(rest, key) = <<"", None>>
  BY <1>2, PageIs
<1> QED BY <1>1, <1>2, <1>3

LEMMA WithoutLeaves ==
  ASSUME NEW S, NEW list \in Seq(S), Distinct(list), NEW key, NEW j, j # key
  PROVE  FirstOfThing(Without(list, key), j) = FirstOfThing(list, j)
<1>1. PICK rest : rest = Without(list, key)
  OBVIOUS
<1>2. rest \in Seq(S) /\ Distinct(rest) /\ ToSet(rest) = {e \in ToSet(list) : e.of # key}
  BY <1>1, KeptIs DEF Without
<1>3. CASE \E e \in ToSet(list) : e.of = j
  <2>1. PICK e \in ToSet(list) : e.of = j
    BY <1>3
  <2> QED BY <1>1, <1>2, <2>1, PageIs
<1>4. CASE ~\E e \in ToSet(list) : e.of = j
  <2>1. FirstOfThing(rest, j) = <<"", None>>
    BY <1>2, <1>4, PageIs
  <2>2. FirstOfThing(list, j) = <<"", None>>
    BY <1>4, PageIs
  <2> QED BY <1>1, <2>1, <2>2
<1> QED BY <1>3, <1>4

\* The entry of its thing, in place of the one before
Rewritten(list, x) == Append(Without(list, x.of), x)

LEMMA UpsertPages ==
  ASSUME NEW S, NEW list \in Seq(S), Distinct(list), NEW x \in S,
         NEW new, new = Rewritten(list, x)
  PROVE  /\ new \in Seq(S) /\ Distinct(new)
         /\ FirstOfThing(new, x.of) = <<x.label, x.notes>>
<1>1. PICK key, rest : key = x.of /\ rest = Without(list, key)
  OBVIOUS
<1>2. rest \in Seq(S) /\ Distinct(rest) /\ \A e \in ToSet(rest) : e.of # key
  <2>1. Without(list, key) \in Seq(S) /\ Distinct(Without(list, key))
    BY WithoutPages
  <2>2. \A e \in ToSet(Without(list, key)) : e.of # key
    BY WithoutPages
  <2> QED BY <1>1, <2>1, <2>2, Zenon
<1>3. new \in Seq(S) /\ Distinct(new) /\ ToSet(new) = ToSet(rest) \cup {x}
  <2>1. new = Append(rest, x)
    BY <1>1, Zenon DEF Rewritten
  <2>2. ToSet(Append(rest, x)) = ToSet(rest) \cup {x} /\ Append(rest, x) \in Seq(S)
    BY <1>2, AppendedIs
  <2>3. Distinct(Append(rest, x))
    BY <1>1, <1>2, AppendedIs
  <2> QED BY <2>1, <2>2, <2>3, Zenon
<1>4. FirstOfThing(new, x.of) = <<x.label, x.notes>>
  BY <1>3, PageIs
<1> QED BY <1>3, <1>4

LEMMA UpsertLeaves ==
  ASSUME NEW S, NEW list \in Seq(S), Distinct(list), NEW x \in S,
         NEW new, new = Rewritten(list, x), NEW j, j # x.of
  PROVE  FirstOfThing(new, j) = FirstOfThing(list, j)
<1>1. PICK rest : rest = Without(list, x.of)
  OBVIOUS
<1>2. rest \in Seq(S) /\ Distinct(rest)
  BY <1>1, WithoutPages
<1>3. new \in Seq(S) /\ Distinct(new)
  BY UpsertPages
<1>4. ToSet(new) = ToSet(rest) \cup {x}
  <2>1. new = Append(rest, x)
    BY <1>1, Zenon DEF Rewritten
  <2> QED BY <1>2, <2>1, AppendedIs
<1>5. FirstOfThing(new, j) = FirstOfThing(rest, j)
  <2>1. CASE \E e \in ToSet(rest) : e.of = j
    <3>1. PICK e \in ToSet(rest) : e.of = j
      BY <2>1
    <3> QED BY <1>2, <1>3, <1>4, <3>1, PageIs
  <2>2. CASE ~\E e \in ToSet(rest) : e.of = j
    <3>1. FirstOfThing(rest, j) = <<"", None>>
      BY <1>2, <2>2, PageIs
    <3>2. \A e \in ToSet(new) : e.of # j
      BY <1>4, <2>2
    <3>3. FirstOfThing(new, j) = <<"", None>>
      BY <1>3, <3>2, PageIs
    <3> QED BY <3>1, <3>3
  <2> QED BY <2>1, <2>2
<1> QED BY <1>1, <1>5, WithoutLeaves

\* Entries of lists
AddressEntries == [of: {k \in AddressKeys : ValidKey(k)}, label: {l \in LabelTexts : Good(l)}, notes: {n \in NoteTexts : Good(n)}]
TxEntries      == [of: {LowerCase(t) : t \in Txids}, label: {l \in LabelTexts : Good(l)}, notes: {n \in NoteTexts : Good(n)}]

\* Reading a list back drops nothing.
LEMMA ReadBackPages ==
  ASSUME NEW S, S = AddressEntries \/ S = TxEntries, NEW list \in Seq(S), Distinct(list), NEW j
  PROVE  /\ ReadBack(list) \in Seq(S) /\ Distinct(ReadBack(list))
         /\ FirstOfThing(ReadBack(list), j) = FirstOfThing(list, j)
<1>1. PICK back : back = ReadBack(list)
  OBVIOUS
<1>2. \A e \in ToSet(list) : e \in S /\ ValidTransactionLabel(e.label, e.notes)
  <2> SUFFICES ASSUME NEW e \in ToSet(list) PROVE e \in S /\ ValidTransactionLabel(e.label, e.notes)
    OBVIOUS
  <2>1. e \in S
    BY DEF ToSet
  <2>2. Good(e.label) /\ Good(e.notes)
    <3>1. CASE S = AddressEntries
      BY <2>1, <3>1 DEF AddressEntries
    <3>2. CASE S = TxEntries
      BY <2>1, <3>2 DEF TxEntries
    <3> QED BY <3>1, <3>2
  <2> QED BY <2>1, <2>2 DEF ValidTransactionLabel
<1>3. back \in Seq(S) /\ Distinct(back)
      /\ ToSet(back) = ToSet(list) \cap {e \in ToSet(list) : ValidTransactionLabel(e.label, e.notes)}
  BY <1>1, KeptIs DEF ReadBack
<1>4. ToSet(back) = ToSet(list)
  BY <1>2, <1>3
<1>5. FirstOfThing(back, j) = FirstOfThing(list, j)
  <2>1. CASE \E e \in ToSet(list) : e.of = j
    <3>1. PICK e \in ToSet(list) : e.of = j
      BY <2>1
    <3> QED BY <1>3, <1>4, <3>1, PageIs
  <2>2. CASE ~\E e \in ToSet(list) : e.of = j
    BY <1>3, <1>4, <2>2, PageIs
  <2> QED BY <2>1, <2>2
<1> QED BY <1>1, <1>3, <1>5

\* Addresses, transactions and the wallet are different things.
LEMMA ThingsDiffer ==
  /\ TheWallet \notin AddressKeys
  /\ \A t \in Txids : LowerCase(t) \notin AddressKeys /\ LowerCase(t) # TheWallet
<1>1. ASSUME NEW k \in AddressKeys
      PROVE  DOMAIN k = {"chain", "index"}
  BY LabelsAssumption
<1>2. ASSUME NEW t \in Txids
      PROVE  DOMAIN LowerCase(t) = {"id", "upper"}
  BY LabelsAssumption DEF LowerCase
<1>3. DOMAIN TheWallet = {"wallet"}
  BY DEF TheWallet
<1> QED BY <1>1, <1>2, <1>3

\* What is written of a thing, as WalletLabels shows it to LabelBook
PageOf(t) == IF t = TheWallet THEN <<"", labels.notes>>
             ELSE IF t \in AddressKeys THEN FirstOfThing(labels.addresses, t)
             ELSE FirstOfThing(labels.transactions, t)

LabelsInv ==
  /\ labels \in [there: BOOLEAN, addresses: Seq(AddressEntries), transactions: Seq(TxEntries), notes: NoteTexts]
  /\ Distinct(labels.addresses) /\ Distinct(labels.transactions)
  /\ labels.notes \in {n \in NoteTexts : Good(n)}
  /\ labelsOpen \in BOOLEAN
  /\ reply.code \in {"none", "200", "204", "400", "401", "404", "423"}

\* A step of the labels keeps them in order, and is one of the book.
LabelStep == LabelsInv' /\ Book!BookNext

LEMMA LabelsLeft ==
  ASSUME LabelsInv, UNCHANGED labels, labelsOpen' \in BOOLEAN, reply'.code \in {"none", "400", "401", "404", "423"}
  PROVE  LabelStep
<1>1. LabelsInv'
  BY DEF LabelsInv
<1>2. Book!Refuse \/ Book!Turn
  BY DEF Book!Refuse, Book!Turn
<1> QED BY <1>1, <1>2 DEF LabelStep, Book!BookNext

\* One page is written.
LEMMA PageWritten ==
  ASSUME NEW thing \in LabelThings, NEW mark \in (LabelTexts \X NoteTexts) \cup {<<"", None>>},
         reply' = [code |-> "200", of |-> thing, mark |-> mark],
         PageOf(thing)' = mark,
         \A t \in LabelThings : t # thing => PageOf(t)' = PageOf(t)
  PROVE  Book!BookNext
<1> DEFINE Before == [t \in LabelThings |-> PageOf(t)]
<1>1. Before' = [Before EXCEPT ![thing] = mark]
  OBVIOUS
<1>2. reply'.code = "200" /\ reply'.of = thing /\ reply'.mark = mark
  OBVIOUS
<1>3. Book!Write
  BY <1>1, <1>2 DEF Book!Write, PageOf
<1> QED BY <1>3 DEF Book!BookNext

\* A list of addresses changes at one of them.
LEMMA AddressWritten ==
  ASSUME LabelsInv, UNCHANGED labelsOpen, NEW key \in AddressKeys, ValidKey(key),
         NEW list \in Seq(AddressEntries), Distinct(list), labels' = [labels EXCEPT !.addresses = list],
         NEW mark \in (LabelTexts \X NoteTexts) \cup {<<"", None>>},
         reply' = [code |-> "200", of |-> key, mark |-> mark],
         FirstOfThing(list, key) = mark,
         \A j : j # key => FirstOfThing(list, j) = FirstOfThing(labels.addresses, j)
  PROVE  LabelStep
<1>1. labels' \in [there: BOOLEAN, addresses: Seq(AddressEntries), transactions: Seq(TxEntries), notes: NoteTexts]
      /\ labels'.addresses = list /\ labels'.transactions = labels.transactions /\ labels'.notes = labels.notes
  BY DEF LabelsInv
<1>2. LabelsInv'
  BY <1>1 DEF LabelsInv
<1>3. key \in LabelThings /\ key # TheWallet
  BY ThingsDiffer DEF LabelThings
<1>4. PageOf(key)' = mark
  BY <1>1, <1>3 DEF PageOf
<1>5. \A t \in LabelThings : t # key => PageOf(t)' = PageOf(t)
  BY <1>1 DEF PageOf
<1> QED BY <1>2, <1>3, <1>4, <1>5, PageWritten DEF LabelStep

\* A list of transactions does.
LEMMA TxWritten ==
  ASSUME LabelsInv, UNCHANGED labelsOpen, NEW txid \in Txids,
         NEW list \in Seq(TxEntries), Distinct(list), labels' = [labels EXCEPT !.transactions = list],
         NEW mark \in (LabelTexts \X NoteTexts) \cup {<<"", None>>},
         reply' = [code |-> "200", of |-> LowerCase(txid), mark |-> mark],
         FirstOfThing(list, LowerCase(txid)) = mark,
         \A j : j # LowerCase(txid) => FirstOfThing(list, j) = FirstOfThing(labels.transactions, j)
  PROVE  LabelStep
<1>1. labels' \in [there: BOOLEAN, addresses: Seq(AddressEntries), transactions: Seq(TxEntries), notes: NoteTexts]
      /\ labels'.transactions = list /\ labels'.addresses = labels.addresses /\ labels'.notes = labels.notes
  BY DEF LabelsInv
<1>2. LabelsInv'
  BY <1>1 DEF LabelsInv
<1>3. LowerCase(txid) \in LabelThings /\ LowerCase(txid) # TheWallet /\ LowerCase(txid) \notin AddressKeys
  BY ThingsDiffer DEF LabelThings
<1>4. PageOf(LowerCase(txid))' = mark
  BY <1>1, <1>3 DEF PageOf
<1>5. \A t \in LabelThings : t # LowerCase(txid) => PageOf(t)' = PageOf(t)
  BY <1>1 DEF PageOf
<1> QED BY <1>2, <1>3, <1>4, <1>5, PageWritten DEF LabelStep

LEMMA NotesAreTexts ==
  ASSUME NEW notes \in NoteTexts, Good(notes)
  PROVE  NoteOf(notes) \in NoteTexts /\ Good(NoteOf(notes)) /\ None \in NoteTexts /\ Good(None)
BY LabelsAssumption DEF NoteOf, Good, None

\* A request is refused and changes nothing, or it is done.
LEMMA Handled ==
  ASSUME NEW valid, NEW changed, NEW told, Handle(valid, changed, told)
  PROVE  /\ labelsOpen' = labelsOpen
         /\ \/ UNCHANGED labels /\ reply'.code \in {"400", "401", "404", "423"}
            \/ valid /\ reply' = told /\ labels' = changed
<1>1. Code("400").code = "400" /\ Code("401").code = "401" /\ Code("404").code = "404" /\ Code("423").code = "423"
  BY DEF Code
<1>2. labelsOpen' = labelsOpen
  BY DEF Handle
<1>3. CASE valid /\ labelsOpen /\ labels.there /\ reply' = told /\ labels' = changed
  BY <1>2, <1>3, Zenon
<1>4. CASE ~(valid /\ labelsOpen /\ labels.there /\ reply' = told /\ labels' = changed)
  <2>1. /\ UNCHANGED labels
        /\ reply' = Code("400") \/ reply' = Code("401") \/ reply' = Code("404") \/ reply' = Code("423")
    BY <1>4, Zenon DEF Handle
  <2> QED BY <1>1, <1>2, <2>1
<1> QED BY <1>3, <1>4

LEMMA AddressKeeps ==
  ASSUME LabelsInv, PatchAddressLabel \/ DeleteAddressLabel
  PROVE  LabelStep
<1>1. PICK old : old = labels.addresses /\ old \in Seq(AddressEntries) /\ Distinct(old)
  BY DEF LabelsInv
<1>2. ASSUME NEW key \in AddressKeys, ValidKey(key), UNCHANGED labelsOpen,
             labels' = [labels EXCEPT !.addresses = Without(old, key)],
             reply' = Wrote(key, "", None)
      PROVE  LabelStep
  <2>1. PICK list : list = Without(old, key)
    OBVIOUS
  <2>2. list \in Seq(AddressEntries) /\ Distinct(list) /\ FirstOfThing(list, key) = <<"", None>>
    BY <1>1, <2>1, WithoutPages
  <2>3. \A j : j # key => FirstOfThing(list, j) = FirstOfThing(labels.addresses, j)
    BY <1>1, <2>1, WithoutLeaves
  <2>4. reply' = [code |-> "200", of |-> key, mark |-> <<"", None>>]
    BY <1>2 DEF Wrote
  <2> QED BY <1>2, <2>1, <2>2, <2>3, <2>4, AddressWritten
<1>3. ASSUME NEW key \in AddressKeys, ValidKey(key), UNCHANGED labelsOpen,
             NEW label \in LabelTexts, Good(label), NEW notes \in NoteTexts, Good(notes),
             labels' = [labels EXCEPT !.addresses = Append(Without(old, key), [of |-> key, label |-> label, notes |-> NoteOf(notes)])],
             reply' = Wrote(key, label, NoteOf(notes))
      PROVE  LabelStep
  <2>1. PICK x : x = [of |-> key, label |-> label, notes |-> NoteOf(notes)]
    OBVIOUS
  <2>2. x \in AddressEntries /\ x.of = key /\ x.label = label /\ x.notes = NoteOf(notes)
    BY <1>3, <2>1, NotesAreTexts DEF AddressEntries
  <2>3. PICK list : list = Rewritten(old, x)
    OBVIOUS
  <2>4. list \in Seq(AddressEntries) /\ Distinct(list) /\ FirstOfThing(list, x.of) = <<x.label, x.notes>>
    <3>1. PICK S : S = AddressEntries
      OBVIOUS
    <3>2. old \in Seq(S) /\ Distinct(old) /\ x \in S
      BY <1>1, <2>2, <3>1, Zenon
    <3>3. list \in Seq(S) /\ Distinct(list) /\ FirstOfThing(list, x.of) = <<x.label, x.notes>>
      BY ONLY <2>3, <3>2, UpsertPages
    <3> QED BY <3>1, <3>3, Zenon
  <2>5. ASSUME NEW j, j # x.of PROVE FirstOfThing(list, j) = FirstOfThing(old, j)
    <3>1. PICK S : S = AddressEntries
      OBVIOUS
    <3>2. old \in Seq(S) /\ Distinct(old) /\ x \in S
      BY <1>1, <2>2, <3>1, Zenon
    <3> QED BY ONLY <2>3, <2>5, <3>2, UpsertLeaves
  <2>6. PICK mark : mark = <<label, NoteOf(notes)>>
    OBVIOUS
  <2>7. mark \in LabelTexts \X NoteTexts
    BY <1>3, <2>6, NotesAreTexts
  <2>8. reply' = [code |-> "200", of |-> key, mark |-> mark]
    BY <1>3, <2>6 DEF Wrote
  <2>9. labels' = [labels EXCEPT !.addresses = list]
    BY <1>3, <2>1, <2>2, <2>3 DEF Rewritten
  <2>10. FirstOfThing(list, key) = mark /\ \A j : j # key => FirstOfThing(list, j) = FirstOfThing(labels.addresses, j)
    BY <1>1, <2>2, <2>4, <2>5, <2>6
  <2> QED BY <1>3, <2>4, <2>7, <2>8, <2>9, <2>10, AddressWritten
<1>4. CASE PatchAddressLabel
  <2>1. PICK key \in AddressKeys, label \in LabelTexts, notes \in NoteTexts :
          Handle(ValidAddressLabel(key, label, notes),
                 [labels EXCEPT !.addresses = UpsertAddress(@, key, label, notes)],
                 Wrote(key, label, IF label = "" THEN None ELSE NoteOf(notes)))
    BY <1>4 DEF PatchAddressLabel
  <2>2. /\ labelsOpen' = labelsOpen
        /\ \/ UNCHANGED labels /\ reply'.code \in {"400", "401", "404", "423"}
           \/ /\ ValidAddressLabel(key, label, notes)
              /\ labels' = [labels EXCEPT !.addresses = UpsertAddress(@, key, label, notes)]
              /\ reply' = Wrote(key, label, IF label = "" THEN None ELSE NoteOf(notes))
    <3>1. PICK valid, changed, told :
            /\ valid = ValidAddressLabel(key, label, notes)
            /\ changed = [labels EXCEPT !.addresses = UpsertAddress(@, key, label, notes)]
            /\ told = Wrote(key, label, IF label = "" THEN None ELSE NoteOf(notes))
      OBVIOUS
    <3>2. Handle(valid, changed, told)
      BY <2>1, <3>1, Zenon
    <3>3. /\ labelsOpen' = labelsOpen
          /\ \/ UNCHANGED labels /\ reply'.code \in {"400", "401", "404", "423"}
             \/ valid /\ reply' = told /\ labels' = changed
      BY <3>2, Handled, Zenon
    <3> QED BY <3>1, <3>3, Zenon
  <2>3. CASE UNCHANGED labels /\ reply'.code \in {"400", "401", "404", "423"}
    BY <2>2, <2>3, LabelsLeft DEF LabelsInv
  <2>4. CASE /\ ValidAddressLabel(key, label, notes)
             /\ labels' = [labels EXCEPT !.addresses = UpsertAddress(@, key, label, notes)]
             /\ reply' = Wrote(key, label, IF label = "" THEN None ELSE NoteOf(notes))
    <3>1. labels' = [labels EXCEPT !.addresses = UpsertAddress(old, key, label, notes)]
      BY <1>1, <2>4
    <3>2. ValidKey(key) /\ Good(label) /\ Good(notes)
      BY <2>4 DEF ValidAddressLabel
    <3>3. CASE label = ""
      <4>1. UpsertAddress(old, key, label, notes) = Without(old, key)
        BY <3>3 DEF UpsertAddress
      <4>2. reply' = Wrote(key, "", None)
        BY <2>4, <3>3
      <4> QED BY <1>2, <2>2, <3>1, <3>2, <4>1, <4>2
    <3>4. CASE label # ""
      <4>1. UpsertAddress(old, key, label, notes)
              = Append(Without(old, key), [of |-> key, label |-> label, notes |-> NoteOf(notes)])
        BY <3>4 DEF UpsertAddress
      <4>2. reply' = Wrote(key, label, NoteOf(notes))
        BY <2>4, <3>4
      <4> QED BY <1>3, <2>2, <3>1, <3>2, <4>1, <4>2
    <3> QED BY <3>3, <3>4
  <2> QED BY <2>2, <2>3, <2>4
<1>5. CASE DeleteAddressLabel
  <2>1. PICK key \in AddressKeys :
          Handle(ValidKey(key), [labels EXCEPT !.addresses = Without(@, key)], Wrote(key, "", None))
    BY <1>5 DEF DeleteAddressLabel
  <2>2. /\ labelsOpen' = labelsOpen
        /\ \/ UNCHANGED labels /\ reply'.code \in {"400", "401", "404", "423"}
           \/ /\ ValidKey(key)
              /\ labels' = [labels EXCEPT !.addresses = Without(@, key)]
              /\ reply' = Wrote(key, "", None)
    BY <2>1, Handled
  <2>3. CASE UNCHANGED labels /\ reply'.code \in {"400", "401", "404", "423"}
    BY <2>2, <2>3, LabelsLeft DEF LabelsInv
  <2>4. CASE ValidKey(key) /\ labels' = [labels EXCEPT !.addresses = Without(@, key)] /\ reply' = Wrote(key, "", None)
    BY <1>1, <1>2, <2>2, <2>4
  <2> QED BY <2>2, <2>3, <2>4
<1> QED BY <1>4, <1>5

\* Every case of a transaction's label is written by one of two: the entry is
\* gone, or is there anew.
LEMMA TransactionKeeps ==
  ASSUME LabelsInv, PatchTransactionLabel \/ DeleteTransactionLabel
  PROVE  LabelStep
<1>1. PICK old : old = labels.transactions /\ old \in Seq(TxEntries) /\ Distinct(old)
  BY DEF LabelsInv
<1>2. ASSUME NEW txid \in Txids, UNCHANGED labelsOpen,
             labels' = [labels EXCEPT !.transactions = Without(old, LowerCase(txid))],
             reply' = Wrote(LowerCase(txid), "", None)
      PROVE  LabelStep
  <2>1. PICK list, key : key = LowerCase(txid) /\ list = Without(old, key)
    OBVIOUS
  <2>2. list \in Seq(TxEntries) /\ Distinct(list) /\ FirstOfThing(list, key) = <<"", None>>
    BY <1>1, <2>1, WithoutPages
  <2>3. \A j : j # key => FirstOfThing(list, j) = FirstOfThing(labels.transactions, j)
    BY <1>1, <2>1, WithoutLeaves
  <2>4. reply' = [code |-> "200", of |-> key, mark |-> <<"", None>>]
    BY <1>2, <2>1 DEF Wrote
  <2> QED BY <1>2, <2>1, <2>2, <2>3, <2>4, TxWritten
<1>3. ASSUME NEW txid \in Txids, UNCHANGED labelsOpen,
             NEW label \in LabelTexts, Good(label), NEW notes \in NoteTexts, Good(notes),
             labels' = [labels EXCEPT !.transactions =
               Append(Without(old, LowerCase(txid)), [of |-> LowerCase(txid), label |-> label, notes |-> NoteOf(notes)])],
             reply' = Wrote(LowerCase(txid), label, NoteOf(notes))
      PROVE  LabelStep
  <2>1. PICK key, x : key = LowerCase(txid) /\ x = [of |-> key, label |-> label, notes |-> NoteOf(notes)]
    OBVIOUS
  <2>2. x \in TxEntries /\ x.of = key /\ x.label = label /\ x.notes = NoteOf(notes)
    BY <1>3, <2>1, NotesAreTexts DEF TxEntries
  <2>3. PICK list : list = Rewritten(old, x)
    OBVIOUS
  <2>4. list \in Seq(TxEntries) /\ Distinct(list) /\ FirstOfThing(list, x.of) = <<x.label, x.notes>>
    <3>1. PICK S : S = TxEntries
      OBVIOUS
    <3>2. old \in Seq(S) /\ Distinct(old) /\ x \in S
      BY <1>1, <2>2, <3>1, Zenon
    <3>3. list \in Seq(S) /\ Distinct(list) /\ FirstOfThing(list, x.of) = <<x.label, x.notes>>
      BY ONLY <2>3, <3>2, UpsertPages
    <3> QED BY <3>1, <3>3, Zenon
  <2>5. ASSUME NEW j, j # x.of PROVE FirstOfThing(list, j) = FirstOfThing(old, j)
    <3>1. PICK S : S = TxEntries
      OBVIOUS
    <3>2. old \in Seq(S) /\ Distinct(old) /\ x \in S
      BY <1>1, <2>2, <3>1, Zenon
    <3> QED BY ONLY <2>3, <2>5, <3>2, UpsertLeaves
  <2>6. PICK mark : mark = <<label, NoteOf(notes)>>
    OBVIOUS
  <2>7. mark \in LabelTexts \X NoteTexts
    BY <1>3, <2>6, NotesAreTexts
  <2>8. reply' = [code |-> "200", of |-> key, mark |-> mark]
    BY <1>3, <2>1, <2>6 DEF Wrote
  <2>9. labels' = [labels EXCEPT !.transactions = list]
    BY <1>3, <2>1, <2>2, <2>3 DEF Rewritten
  <2> QED BY <1>1, <1>3, <2>1, <2>2, <2>4, <2>5, <2>6, <2>7, <2>8, <2>9, TxWritten
<1>4. CASE PatchTransactionLabel
  <2>1. PICK txid \in Txids, label \in LabelTexts, notes \in NoteTexts :
          Handle(ValidTransactionLabel(label, notes),
                 [labels EXCEPT !.transactions = UpsertTransaction(@, txid, label, notes)],
                 Wrote(LowerCase(txid), label, NoteOf(notes)))
    BY <1>4 DEF PatchTransactionLabel
  <2>2. /\ labelsOpen' = labelsOpen
        /\ \/ UNCHANGED labels /\ reply'.code \in {"400", "401", "404", "423"}
           \/ /\ ValidTransactionLabel(label, notes)
              /\ labels' = [labels EXCEPT !.transactions = UpsertTransaction(@, txid, label, notes)]
              /\ reply' = Wrote(LowerCase(txid), label, NoteOf(notes))
    BY <2>1, Handled
  <2>3. CASE UNCHANGED labels /\ reply'.code \in {"400", "401", "404", "423"}
    BY <2>2, <2>3, LabelsLeft DEF LabelsInv
  <2>4. CASE /\ ValidTransactionLabel(label, notes)
             /\ labels' = [labels EXCEPT !.transactions = UpsertTransaction(@, txid, label, notes)]
             /\ reply' = Wrote(LowerCase(txid), label, NoteOf(notes))
    <3>1. labels' = [labels EXCEPT !.transactions = UpsertTransaction(old, txid, label, notes)]
      BY <1>1, <2>4
    <3>2. Good(label) /\ Good(notes)
      BY <2>4 DEF ValidTransactionLabel
    <3>3. CASE label = "" /\ NoteOf(notes) = None
      <4>1. UpsertTransaction(old, txid, label, notes) = Without(old, LowerCase(txid))
        BY <3>3 DEF UpsertTransaction
      <4>2. reply' = Wrote(LowerCase(txid), "", None)
        BY <2>4, <3>3
      <4> QED BY <1>2, <2>2, <3>1, <4>1, <4>2
    <3>4. CASE ~(label = "" /\ NoteOf(notes) = None)
      <4>1. UpsertTransaction(old, txid, label, notes)
              = Append(Without(old, LowerCase(txid)), [of |-> LowerCase(txid), label |-> label, notes |-> NoteOf(notes)])
        BY <3>4 DEF UpsertTransaction
      <4> QED BY <1>3, <2>2, <2>4, <3>1, <3>2, <4>1
    <3> QED BY <3>3, <3>4
  <2> QED BY <2>2, <2>3, <2>4
<1>5. CASE DeleteTransactionLabel
  <2>1. PICK txid \in Txids :
          Handle(TRUE, [labels EXCEPT !.transactions = Without(@, LowerCase(txid))], Wrote(LowerCase(txid), "", None))
    BY <1>5 DEF DeleteTransactionLabel
  <2>2. /\ labelsOpen' = labelsOpen
        /\ \/ UNCHANGED labels /\ reply'.code \in {"400", "401", "404", "423"}
           \/ /\ labels' = [labels EXCEPT !.transactions = Without(@, LowerCase(txid))]
              /\ reply' = Wrote(LowerCase(txid), "", None)
    BY <2>1, Handled
  <2>3. CASE UNCHANGED labels /\ reply'.code \in {"400", "401", "404", "423"}
    BY <2>2, <2>3, LabelsLeft DEF LabelsInv
  <2>4. CASE labels' = [labels EXCEPT !.transactions = Without(@, LowerCase(txid))] /\ reply' = Wrote(LowerCase(txid), "", None)
    BY <1>1, <1>2, <2>2, <2>4
  <2> QED BY <2>2, <2>3, <2>4
<1> QED BY <1>4, <1>5

LEMMA NotesKeep ==
  ASSUME LabelsInv, PatchNotes
  PROVE  LabelStep
<1>1. PICK notes \in NoteTexts :
        Handle(Good(notes), [labels EXCEPT !.notes = NoteOf(notes)], Wrote(TheWallet, "", NoteOf(notes)))
  BY DEF PatchNotes
<1>2. /\ labelsOpen' = labelsOpen
      /\ \/ UNCHANGED labels /\ reply'.code \in {"400", "401", "404", "423"}
         \/ /\ Good(notes) /\ labels' = [labels EXCEPT !.notes = NoteOf(notes)]
            /\ reply' = Wrote(TheWallet, "", NoteOf(notes))
  BY <1>1, Handled
<1>3. CASE UNCHANGED labels /\ reply'.code \in {"400", "401", "404", "423"}
  BY <1>2, <1>3, LabelsLeft DEF LabelsInv
<1>4. CASE /\ Good(notes) /\ labels' = [labels EXCEPT !.notes = NoteOf(notes)]
           /\ reply' = Wrote(TheWallet, "", NoteOf(notes))
  <2>1. /\ labels' \in [there: BOOLEAN, addresses: Seq(AddressEntries), transactions: Seq(TxEntries), notes: NoteTexts]
        /\ labels'.transactions = labels.transactions /\ labels'.addresses = labels.addresses
        /\ labels'.notes = NoteOf(notes) /\ NoteOf(notes) \in NoteTexts /\ Good(NoteOf(notes))
    BY <1>4, NotesAreTexts DEF LabelsInv
  <2>2. PICK mark : mark = <<"", NoteOf(notes)>>
    OBVIOUS
  <2>3. mark \in LabelTexts \X NoteTexts
    BY <2>1, <2>2, LabelsAssumption
  <2>4. reply' = [code |-> "200", of |-> TheWallet, mark |-> mark]
    BY <1>4, <2>2 DEF Wrote
  <2>5. LabelsInv'
    BY <1>2, <2>1, <2>4 DEF LabelsInv
  <2>6. TheWallet \in LabelThings /\ PageOf(TheWallet)' = mark
    BY <2>1, <2>2 DEF LabelThings, PageOf
  <2>7. \A t \in LabelThings : t # TheWallet => PageOf(t)' = PageOf(t)
    BY <2>1 DEF PageOf
  <2> QED BY <2>3, <2>4, <2>5, <2>6, <2>7, PageWritten DEF LabelStep
<1> QED BY <1>2, <1>3, <1>4

LEMMA EmptyIsBlank ==
  ASSUME NEW w \in {Empty, Gone}
  PROVE  /\ w \in [there: BOOLEAN, addresses: Seq(AddressEntries), transactions: Seq(TxEntries), notes: NoteTexts]
         /\ w.addresses = <<>> /\ w.transactions = <<>> /\ w.notes = None
         /\ \A t : FirstOfThing(<<>>, t) = <<"", None>>
         /\ Distinct(<<>>)
<1>1. <<>> \in Seq(AddressEntries) /\ <<>> \in Seq(TxEntries)
  <2>1. \A S : <<>> \in Seq(S)
    OBVIOUS
  <2> QED BY <2>1, Zenon
<1>2. None \in NoteTexts
  BY LabelsAssumption DEF None
<1>3. ASSUME NEW here \in BOOLEAN, w = [there |-> here, addresses |-> <<>>, transactions |-> <<>>, notes |-> None]
      PROVE  /\ w \in [there: BOOLEAN, addresses: Seq(AddressEntries), transactions: Seq(TxEntries), notes: NoteTexts]
             /\ w.addresses = <<>> /\ w.transactions = <<>> /\ w.notes = None
  BY <1>1, <1>2, <1>3
<1>4. Gone = [there |-> FALSE, addresses |-> <<>>, transactions |-> <<>>, notes |-> None]
  <2>1. PICK none : none = <<>>
    OBVIOUS
  <2>2. Empty = [there |-> TRUE, addresses |-> none, transactions |-> none, notes |-> None]
    BY <2>1, Zenon DEF Empty
  <2>3. Gone = [there |-> FALSE, addresses |-> none, transactions |-> none, notes |-> None]
    <3>1. PICK empty : empty = Empty
      OBVIOUS
    <3>2. Gone = [empty EXCEPT !.there = FALSE]
      BY <3>1, Zenon DEF Gone
    <3> QED BY <2>2, <3>1, <3>2
  <2> QED BY <2>1, <2>3, Zenon
<1>5. ASSUME NEW t PROVE FirstOfThing(<<>>, t) = <<"", None>>
  <2>1. PICK none : none = <<>>
    OBVIOUS
  <2>2. {i \in DOMAIN none : none[i].of = t} = {}
    BY <2>1
  <2>3. FirstOfThing(none, t) = <<"", None>>
    BY <2>2, Zenon DEF FirstOfThing
  <2> QED BY <2>1, <2>3, Zenon
<1>6. Distinct(<<>>)
  BY DEF Distinct
<1>7. w = Gone \/ w = Empty
  OBVIOUS
<1> QED BY <1>3, <1>4, <1>5, <1>6, <1>7, Zenon DEF Empty

LEMMA DeleteKeeps ==
  ASSUME LabelsInv, DeleteWallet
  PROVE  LabelStep
<1>1. /\ labelsOpen' = labelsOpen
      /\ \/ UNCHANGED labels /\ reply'.code \in {"400", "401", "404", "423"}
         \/ labels' = Gone /\ reply' = Code("204")
  BY Handled DEF DeleteWallet
<1>2. CASE UNCHANGED labels /\ reply'.code \in {"400", "401", "404", "423"}
  BY <1>1, <1>2, LabelsLeft DEF LabelsInv
<1>3. CASE labels' = Gone /\ reply' = Code("204")
  <2>1. /\ labels' \in [there: BOOLEAN, addresses: Seq(AddressEntries), transactions: Seq(TxEntries), notes: NoteTexts]
        /\ labels'.addresses = <<>> /\ labels'.transactions = <<>> /\ labels'.notes = None
    BY <1>3, EmptyIsBlank
  <2>2. reply'.code = "204"
    BY <1>3 DEF Code
  <2>3. LabelsInv'
    BY <1>1, <2>1, <2>2, EmptyIsBlank, NotesAreTexts, LabelsAssumption DEF LabelsInv, None, Good
  <2>4. Book!Burn
    BY <2>1, <2>2, EmptyIsBlank DEF Book!Burn
  <2> QED BY <2>3, <2>4 DEF LabelStep, Book!BookNext
<1> QED BY <1>1, <1>2, <1>3

LEMMA TurnKeeps ==
  ASSUME LabelsInv, LockLabels \/ UnlockLabels
  PROVE  LabelStep
<1>1. reply'.code = "none" /\ labelsOpen' \in BOOLEAN
  <2>1. Code("none").code = "none"
    BY DEF Code
  <2>2. reply' = Code("none") /\ labelsOpen' \in {TRUE, FALSE}
    BY DEF LockLabels, UnlockLabels
  <2> QED BY <2>1, <2>2
<1>2. CASE LockLabels
  BY <1>1, <1>2, LabelsLeft DEF LockLabels
<1>3. CASE UnlockLabels
  <2>1. PICK as, ts : as = labels.addresses /\ ts = labels.transactions
    OBVIOUS
  <2>2. as \in Seq(AddressEntries) /\ ts \in Seq(TxEntries) /\ Distinct(as) /\ Distinct(ts)
    BY <2>1 DEF LabelsInv
  <2>3. PICK as2, ts2 : as2 = ReadBack(as) /\ ts2 = ReadBack(ts)
    OBVIOUS
  <2>4. /\ as2 \in Seq(AddressEntries) /\ Distinct(as2)
        /\ ts2 \in Seq(TxEntries) /\ Distinct(ts2)
    BY <2>2, <2>3, ReadBackPages
  <2>5. ASSUME NEW t
        PROVE  FirstOfThing(as2, t) = FirstOfThing(as, t) /\ FirstOfThing(ts2, t) = FirstOfThing(ts, t)
    BY <2>2, <2>3, ReadBackPages
  <2>6. labels' = [labels EXCEPT !.addresses = as2, !.transactions = ts2]
    BY <1>3, <2>1, <2>3 DEF UnlockLabels
  <2>7. /\ labels' \in [there: BOOLEAN, addresses: Seq(AddressEntries), transactions: Seq(TxEntries), notes: NoteTexts]
        /\ labels'.addresses = as2 /\ labels'.transactions = ts2 /\ labels'.notes = labels.notes
    BY <2>4, <2>6 DEF LabelsInv
  <2>8. LabelsInv'
    BY <1>1, <2>4, <2>7 DEF LabelsInv
  <2>9. \A t \in LabelThings : PageOf(t)' = PageOf(t)
    BY <2>1, <2>5, <2>7 DEF PageOf
  <2> DEFINE Pages == [t \in LabelThings |-> PageOf(t)]
  <2>10. Pages' = Pages
    BY <2>9
  <2>11. Book!Turn
    BY <1>1, <2>10 DEF Book!Turn, PageOf
  <2> QED BY <2>8, <2>11 DEF LabelStep, Book!BookNext
<1> QED BY <1>2, <1>3

LEMMA LabelsStart == ASSUME LabelsInit PROVE LabelsInv /\ Book!BookInit
<1>1. /\ labels \in [there: BOOLEAN, addresses: Seq(AddressEntries), transactions: Seq(TxEntries), notes: NoteTexts]
      /\ labels.addresses = <<>> /\ labels.transactions = <<>> /\ labels.notes = None
  BY EmptyIsBlank DEF LabelsInit
<1>2. reply.code = "none" /\ labelsOpen \in BOOLEAN
  BY DEF LabelsInit, Code
<1>3. LabelsInv
  BY <1>1, <1>2, EmptyIsBlank, LabelsAssumption DEF LabelsInv, None, Good
<1>4. Book!BookInit
  BY <1>1, <1>2, EmptyIsBlank DEF Book!BookInit
<1> QED BY <1>3, <1>4

LEMMA LabelsMove ==
  ASSUME LabelsInv, [LabelsNext]_labelVars
  PROVE  LabelsInv' /\ [Book!BookNext]_<<[t \in LabelThings |-> PageOf(t)], reply>>
<1>1. CASE LabelsNext
  BY <1>1, AddressKeeps, TransactionKeeps, NotesKeep, DeleteKeeps, TurnKeeps DEF LabelsNext, LabelStep
<1>2. CASE UNCHANGED labelVars
  BY <1>2 DEF labelVars, LabelsInv, PageOf
<1> QED BY <1>1, <1>2

\* Whatever addresses, transactions and texts there are, the lists are a book of
\* labels: each thing has the label written last, another request leaves it as it
\* is, and so does reading the lists back at the next unlock (upsertAddressLabels,
\* upsertTransactionLabels, normalizeStoredTransactionLabels).
THEOREM LabelsImplementBook == LabelsSpec => LabelsAreABook
<1>1. LabelsInit => LabelsInv /\ Book!BookInit
  BY LabelsStart
<1>2. LabelsInv /\ [LabelsNext]_labelVars => LabelsInv' /\ [Book!BookNext]_<<[t \in LabelThings |-> PageOf(t)], reply>>
  BY LabelsMove
<1> QED BY <1>1, <1>2, PTL DEF LabelsSpec, LabelsAreABook, Book!BookSpec, PageOf

\* The lists of labels keep their types.
THEOREM LabelsTypeCorrect == LabelsSpec => []LabelsTypeOK
<1>1. LabelsInit => LabelsInv
  BY LabelsStart
<1>2. LabelsInv /\ [LabelsNext]_labelVars => LabelsInv'
  BY LabelsMove
<1>3. LabelsInv => LabelsTypeOK
  <2> SUFFICES ASSUME LabelsInv PROVE LabelsTypeOK
    OBVIOUS
  <2>1. AddressEntries \subseteq Entry /\ TxEntries \subseteq Entry
    BY DEF AddressEntries, TxEntries, Entry
  <2>2. ToSet(labels.addresses) \subseteq AddressEntries /\ ToSet(labels.transactions) \subseteq TxEntries
    BY DEF LabelsInv, ToSet
  <2>3. labels.there \in BOOLEAN /\ labels.notes \in NoteTexts
    BY DEF LabelsInv
  <2> QED BY <2>1, <2>2, <2>3 DEF LabelsInv, LabelsTypeOK
<1> QED BY <1>1, <1>2, <1>3, PTL DEF LabelsSpec

-----------------------------------------------------------------------------
(* The services side by side.  The argument: a step of one leaves the      *)
(* others as they are, so what is proved of each holds of all.             *)

\* Each service does by itself what it does beside the others.
THEOREM ServicesAreApart ==
  ServicesSpec => /\ UsageSpec /\ HistorySpec /\ PriceSpec /\ FeesSpec
                  /\ SpendSpec /\ SendSpec /\ ImportSpec /\ LabelsSpec
<1>1. ServicesInit => /\ UsageInit /\ HistoryInit /\ PriceInit /\ FeesInit
                      /\ SpendInit /\ SendInit /\ ImportInit /\ LabelsInit
  BY DEF ServicesInit
<1>2. [ServicesNext]_servicesVars => /\ [UsageNext]_usageVars /\ [HistoryNext]_historyVars
                                     /\ [PriceNext]_priceVars /\ [FeesNext]_feeVars
                                     /\ [SpendNext]_spendVars /\ [SendNext]_sendVars
                                     /\ [ImportNext]_importVars /\ [LabelsNext]_labelVars
  BY DEF ServicesNext, servicesVars
<1> QED BY <1>1, <1>2, PTL DEF ServicesSpec, UsageSpec, HistorySpec, PriceSpec, FeesSpec, SpendSpec, SendSpec,
             ImportSpec, LabelsSpec

OnePart == part \in Parts

\* So the service that runs keeps the types of its state.
THEOREM ServicesTypeCorrect == ServicesSpec => []ServicesTypeOK
<1>1. ServicesInit => OnePart
  BY DEF ServicesInit, OnePart
<1>2. OnePart /\ [ServicesNext]_servicesVars => OnePart'
  BY DEF ServicesNext, servicesVars, OnePart
<1>3. /\ OnePart /\ UsageTypeOK /\ HistoryTypeOK /\ PriceTypeOK /\ FeesTypeOK
      /\ SpendTypeOK /\ SendTypeOK /\ ImportTypeOK /\ LabelsTypeOK
      => ServicesTypeOK
  BY Zenon DEF ServicesTypeOK, Parts, OnePart
<1>4. ServicesSpec => []OnePart
  BY <1>1, <1>2, PTL DEF ServicesSpec
<1>5. ServicesSpec => [](UsageTypeOK /\ HistoryTypeOK /\ PriceTypeOK /\ FeesTypeOK)
  BY ServicesAreApart, UsageTypeCorrect, HistoryTypeCorrect, PriceTypeCorrect, FeesTypeCorrect, PTL
<1>6. ServicesSpec => [](SpendTypeOK /\ SendTypeOK /\ ImportTypeOK /\ LabelsTypeOK)
  BY ServicesAreApart, SpendTypeCorrect, SendTypeCorrect, ImportTypeCorrect, LabelsTypeCorrect, PTL
<1> QED BY <1>3, <1>4, <1>5, <1>6, PTL

=============================================================================
