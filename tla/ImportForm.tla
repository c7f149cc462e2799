------------------------------ MODULE ImportForm ------------------------------
(***************************************************************************)
(* Importing a wallet: the form of the page (WalletCreateForm in           *)
(* phase-one-auth.tsx), the preview of the first receive address that it   *)
(* asks the API for 250 ms after a change, whose answer may come late, the *)
(* wallet the API stores (vault/routes.ts, addWallet in vault/store.ts),   *)
(* and what becomes of it when the vault is unlocked again                 *)
(* (normalizeWalletRecord).  Name, notes, gap limit and device are left out. *)
(***************************************************************************)
EXTENDS ImportParser, BbqrCollector, ArrayFilter

CONSTANTS
  Texts,         \* bound: texts that are typed, pasted, read from a file or scanned
  FrameSet,      \* bound: BBQr frames that are scanned
  OlderWallets,  \* bound: vaults of an older Atlas to begin with
  MaxEdits       \* bound: changes of the form

VARIABLES
  importForm,  \* importText, network, scriptType, and edits so far
  collector,   \* bbqrStateRef, qrFrames and qrFrameFormat
  preview,     \* preview, previewMessage, previewLoading
  asked,       \* previews under way: what was sent, and whether its effect is over
  saving,      \* the wallet being saved: what was sent, and the preview shown then
  book         \* the vault: whether it is open, and its wallets with the preview shown

importVars == <<importForm, collector, preview, asked, saving, book>>

NoText    == [kind |-> "empty"]
NoPreview == [says |-> "nothing"]
Nobody    == [sent |-> NoText]
NothingScanned == [bbqr |-> NoFrames, animated |-> <<>>, format |-> "none"]

\* What decides the first receive address of an account and the path shown with
\* it: deriveAddresses gives one address for each.
Account(key, script, network, path) ==
  [key |-> key.id, script |-> script, coin |-> IF network = "mainnet" THEN 0 ELSE 1, path |-> path]

\* normalizeLegacyScriptType: the names of an older Atlas
OldNames == {"p2pkh", "p2sh-p2wpkh", "p2wpkh"}
NameNow(script) == CASE script = "p2pkh" -> "legacy"
                     [] script = "p2sh-p2wpkh" -> "nested-segwit"
                     [] script = "p2wpkh" -> "native-segwit"
                     [] OTHER -> script

\* A wallet of an older Atlas has a script type, by its old name or the one of now,
\* and perhaps no path; what it derived is what that says.
ASSUME OlderWalletsAssumption ==
  \A wallets \in OlderWallets : \A w \in wallets :
    LET script == NameNow(w.wallet.script)
    IN  /\ w \in [wallet: [key: {w.wallet.key}, script: OldNames \cup AddressTypes, network: Networks,
                           path: {w.wallet.path}],
                  shown: {w.shown}]
        /\ w.shown = Account(w.wallet.key, script, w.wallet.network,
                             PathOr(w.wallet.path, PathFor(script, w.wallet.network)))

\* A text names a script type, or none.
ASSUME TextsAssumption ==
  \A t \in Texts \cup {Decoded[d] : d \in DOMAIN Decoded} : t.script \in AddressTypes \cup {"unknown"}

ImportTypeOK ==
  /\ importForm.text \in Texts \cup {NoText} \cup {Decoded[d] : d \in DOMAIN Decoded}
  /\ importForm.network \in Networks
  /\ importForm.script \in AddressTypes \cup {"unknown"}
  /\ preview.says \in {"nothing", "waits", "asked", "shown", "message"}
  /\ \A a \in asked : a.late \in BOOLEAN
  /\ collector.format \in {"none", "bbqr", "other"}
  /\ book.open \in BOOLEAN

ImportInit ==
  /\ importForm = [text |-> NoText, network |-> "mainnet", script |-> "unknown", edits |-> 0]
  /\ collector = NothingScanned
  /\ preview = NoPreview
  /\ asked = {}
  /\ saving = Nobody
  /\ \E wallets \in OlderWallets : book = [open |-> FALSE, wallets |-> wallets]

-----------------------------------------------------------------------------
(* The form *)

DetectedIn(f)  == Detected(f.text, f.network)
Effective(f)   == IF f.script # "unknown" THEN f.script ELSE DetectedIn(f).script
EffectivePath(f) == PathOr(DetectedIn(f).path, PathFor(Effective(f), f.network))

\* A key of one network, and another network chosen; testnet keys serve for signet.
Mismatch(f) ==
  LET of == DetectedIn(f).network IN of # "none" /\ of # f.network /\ ~(of = "testnet" /\ f.network = "signet")

CanPreview(f) == DetectedIn(f).key # NoKey /\ ~Mismatch(f) /\ Effective(f) # "unknown"

\* What the preview is asked for; the effect runs again when this changes.
Sent(f) == [text |-> f.text, network |-> f.network, script |-> Effective(f)]

\* A change: the script type found is chosen when it is another than before, and
\* what was asked for the form as it was is of no interest any more.
Change(f) ==
  LET found == DetectedIn(f).script
      new == [f EXCEPT !.edits = @ + 1,
                       !.script = IF found \notin {"unknown", DetectedIn(importForm).script} THEN found ELSE @]
  IN  /\ importForm.edits < MaxEdits
      /\ importForm' = new
      /\ IF Sent(new) = Sent(importForm) THEN UNCHANGED <<preview, asked>>
         ELSE /\ preview' = [says |-> IF CanPreview(new) THEN "waits" ELSE "nothing"]
              /\ asked' = {[a EXCEPT !.late = TRUE] : a \in asked}

\* The text is typed, pasted or read from a file.
SetText(text) ==
  /\ Change([importForm EXCEPT !.text = text])
  /\ UNCHANGED <<collector, saving, book>>

ChooseNetwork(network) ==
  /\ network # importForm.network
  /\ Change([importForm EXCEPT !.network = network])
  /\ UNCHANGED <<collector, saving, book>>

ChooseScript(script) ==
  /\ script # importForm.script
  /\ Change([importForm EXCEPT !.script = script])
  /\ UNCHANGED <<collector, saving, book>>

-----------------------------------------------------------------------------
(* The camera *)

\* A code that does not move and may be imported is the text; one that moves is
\* collected, and any other is passed over.
ScanCode(text) ==
  /\ IF text.kind = "ur" /\ text.moves
     THEN /\ collector' = [collector EXCEPT !.animated = IF Contains(@, text) THEN @ ELSE Append(@, text),
                                            !.format = "other"]
          /\ UNCHANGED <<importForm, preview, asked>>
     ELSE /\ Importable(text)
          /\ Change([importForm EXCEPT !.text = text])
          /\ UNCHANGED collector
  /\ UNCHANGED <<saving, book>>

\* tryImportFromFrames: the first frame with a key, or else the first; the button
\* is not there after a frame of a BBQr.
TryFrames ==
  /\ collector.animated # <<>> /\ collector.format # "bbqr"
  /\ LET keyed == Kept(collector.animated, {t \in Texts : t.key # NoKey})
     IN  Change([importForm EXCEPT !.text = IF keyed # <<>> THEN Head(keyed) ELSE Head(collector.animated)])
  /\ UNCHANGED <<collector, saving, book>>

\* captureBbqrFrame: from the camera, or a line that was typed or pasted, which
\* empties the text first; all frames together are the text.
ScanFrame(f) ==
  /\ ValidFrame(f)
  /\ LET bbqr == Add(collector.bbqr, f)
         whole == Accepts(collector.bbqr, f) /\ Assembles(bbqr)
     IN  /\ collector' = [collector EXCEPT !.bbqr = bbqr, !.format = "bbqr"]
         /\ \E pasted \in BOOLEAN :
              IF whole THEN Change([importForm EXCEPT !.text = Decoded[bbqr.data]])
              ELSE IF pasted THEN Change([importForm EXCEPT !.text = NoText])
              ELSE UNCHANGED <<importForm, preview, asked>>
  /\ UNCHANGED <<saving, book>>

ResetFrames ==
  /\ collector' = NothingScanned
  /\ UNCHANGED <<importForm, preview, asked, saving, book>>

-----------------------------------------------------------------------------
(* The preview *)

\* 250 ms without a change
AskPreview ==
  /\ preview.says = "waits"
  /\ preview' = [says |-> "asked"]
  /\ asked' = asked \cup {[of |-> Sent(importForm), late |-> FALSE]}
  /\ UNCHANGED <<importForm, collector, saving, book>>

\* A key that bip32 reads once its version is that of the network
Readable(key) == key.valid

\* derivablePreviewScriptType, and a key that derives addresses
Derivable(parsed) == parsed.script \in AddressTypes /\ Readable(parsed.key)

\* POST import-preview: the account of the text; an error when it has no key or
\* none that derives, or no answer.
Answers(sent) ==
  LET p == Parsed(sent.text, sent.network, sent.script)
  IN  {[says |-> "message"]} \cup
      (IF HasKey(sent.text, Server) /\ Derivable(p)
       THEN {[says |-> "shown", account |-> Account(p.key, p.script, p.network, p.path)]} ELSE {})

\* Mutant: an answer is shown whether or not its effect is over.
PreviewArrivesLate(a) ==
  /\ a \in asked
  /\ asked' = asked \ {a}
  /\ \E answer \in Answers(a.of) : preview' = answer
  /\ UNCHANGED <<importForm, collector, saving, book>>

\* An answer whose effect is over (cancelled) changes nothing.
PreviewArrives(a) ==
  /\ a \in asked
  /\ asked' = asked \ {a}
  /\ IF a.late THEN UNCHANGED preview ELSE \E answer \in Answers(a.of) : preview' = answer
  /\ UNCHANGED <<importForm, collector, saving, book>>

-----------------------------------------------------------------------------
(* Saving *)

\* getWalletSaveDisabledReason says nothing.
CanSave(f) ==
  /\ saving = Nobody
  /\ CanPreview(f) /\ EffectivePath(f) # NoPath
  /\ preview.says = "shown"

Submit ==
  /\ CanSave(importForm)
  /\ saving' = [sent |-> Sent(importForm), shown |-> preview.account]
  /\ UNCHANGED <<importForm, collector, preview, asked, book>>

\* POST wallets (addWallet): what the text holds, not what was shown.
Stored0(sent) == LET p == Parsed(sent.text, sent.network, sent.script)
                 IN  [key |-> p.key, script |-> p.script, network |-> p.network, path |-> p.path]

\* Saved: the form is emptied but for its network, and the frames stay.  Or the
\* vault is locked, or nothing comes back.
SaveAnswers ==
  /\ saving # Nobody
  /\ saving' = Nobody
  /\ \/ /\ book.open /\ HasKey(saving.sent.text, Server)
        /\ book' = [book EXCEPT !.wallets = @ \cup {[wallet |-> Stored0(saving.sent), shown |-> saving.shown]}]
        /\ importForm' = [importForm EXCEPT !.text = NoText, !.script = "unknown"]
        /\ preview' = NoPreview
        /\ asked' = {[a EXCEPT !.late = TRUE] : a \in asked}
     \/ UNCHANGED <<importForm, preview, asked, book>>
  /\ UNCHANGED collector

\* Mutant: the script type of a stored wallet is that of its key.
NormalizedByKey(w) ==
  LET script == IF KeyScript(w.key) = "unknown" THEN "legacy" ELSE KeyScript(w.key)
  IN  [w EXCEPT !.script = script, !.path = PathOr(@, PathFor(script, w.network))]

\* normalizeWalletRecord: script types of an older Atlas have new names, one it
\* does not know is that of the key, and a path that is not there follows it.
Normalized(w) ==
  LET script == IF w.script \in OldNames \cup AddressTypes \cup {"unknown"} THEN NameNow(w.script)
                ELSE IF KeyScript(w.key) = "unknown" THEN "legacy"
                ELSE KeyScript(w.key)
  IN  [w EXCEPT !.script = script, !.path = PathOr(@, PathFor(script, w.network))]

UnlockBook ==
  /\ ~book.open
  /\ book' = [open |-> TRUE, wallets |-> {[w EXCEPT !.wallet = Normalized(@)] : w \in book.wallets}]
  /\ UNCHANGED <<importForm, collector, preview, asked, saving>>

LockBook ==
  /\ book.open
  /\ book' = [book EXCEPT !.open = FALSE]
  /\ UNCHANGED <<importForm, collector, preview, asked, saving>>

ImportNext ==
  \/ \E t \in Texts : SetText(t) \/ ScanCode(t)
  \/ \E n \in Networks : ChooseNetwork(n)
  \/ \E s \in AddressTypes \cup {"unknown"} : ChooseScript(s)
  \/ TryFrames \/ ResetFrames \/ AskPreview \/ Submit \/ SaveAnswers \/ UnlockBook \/ LockBook
  \/ \E f \in FrameSet : ScanFrame(f)
  \/ \E a \in asked : PreviewArrives(a)

ImportSpec == ImportInit /\ [][ImportNext]_importVars

-----------------------------------------------------------------------------

\* A JSON text whose fields hold the same key and path for both parsers.  They look
\* at fields that hold several keys in different orders, only one of them reads
\* descriptors, and they treat blanks in paths differently.
ReadAlike(text) ==
  text.kind \in {"json", "bbqr"} =>
    \A f \in DOMAIN text.fields :
      /\ KeyIn(text.fields[f], WebNames) = KeyIn(text.fields[f], ServerNames)
      /\ PathIn(text.fields[f], FALSE) = PathIn(text.fields[f], TRUE)

AccountOf(w) == Account(w.key, w.script, w.network, w.path)

\* What the form says the first address is of.
PageAccount(f) == Account(DetectedIn(f).key, Effective(f), f.network, EffectivePath(f))

\* The address and the path previewed are those that saving the form as it is now
\* would give: no late answer is shown, however the form changed (WalletCreateForm's
\* preview effect).  And they are those of the key, network, script type and path
\* that the form itself shows, but for JSON texts of which the two parsers read
\* some field differently (detectImportMetadata, parseWalletImport).
PreviewIsOfTheForm ==
  preview.says = "shown" =>
    /\ preview.account = AccountOf(Stored0(Sent(importForm)))
    /\ ReadAlike(importForm.text) => preview.account = PageAccount(importForm)

\* A wallet derives what was previewed when it was saved, however the form changed
\* while it was, after the vault was locked and unlocked, and one of an older
\* Atlas what it derived there (addWallet, normalizeWalletRecord).
WalletIsAsPreviewed ==
  book.open => \A w \in book.wallets : AccountOf(w.wallet) = w.shown

\* A frame that was captured stays as it is until the frames are cleared, and so
\* does the header of its set (addBbqrFrame).
FramesStay ==
  [][LET old == collector.bbqr  new == collector'.bbqr IN
       \/ new = NoFrames
       \/ /\ old.header \in {NoHeader, new.header}
          /\ DOMAIN old.data \subseteq DOMAIN new.data
          /\ \A i \in DOMAIN old.data : new.data[i] = old.data[i]]_collector
=============================================================================
