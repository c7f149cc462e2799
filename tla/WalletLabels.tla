----------------------------- MODULE WalletLabels -----------------------------
(***************************************************************************)
(* The labels and notes of a wallet: the requests that write and delete    *)
(* them (vault/routes.ts), the lists they are kept in (vault/store.ts,     *)
(* vault/labels.ts), and the lists as the next unlock reads them back      *)
(* (normalizeStored...).  That the file is written, and what a failure to  *)
(* write it does, is VaultStore's.                                         *)
(*                                                                         *)
(* A text is what is told of it: "" for one that is empty when trimmed,    *)
(* "long" for one above its limit, "secret" for a key or a seed phrase.    *)
(***************************************************************************)
EXTENDS Integers, Sequences, SequencesExt, ArrayFilter

CONSTANTS
  AddressKeys,  \* chain and index of an address, [chain, index]
  Txids,        \* transaction ids as they are sent, [id, upper]
  LabelTexts,   \* bound: labels that are sent
  NoteTexts     \* bound: notes that are sent; "none" when there are none

ASSUME LabelsAssumption ==
  /\ AddressKeys \subseteq [chain: {"receive", "change"}, index: Int]
  /\ \A txid \in Txids : txid \in [id: {txid.id}, upper: BOOLEAN]
  /\ "" \in LabelTexts /\ "none" \in NoteTexts

VARIABLES
  labels,      \* the wallet: whether it is there, its three kinds of labels
  labelsOpen,  \* the vault is unlocked
  reply        \* the answer to the last request

labelVars == <<labels, labelsOpen, reply>>

None == "none"

TheWallet  == [wallet |-> "notes"]
Code(code) == [code |-> code, of |-> TheWallet, mark |-> <<"", None>>]

\* An address label is of an index that is no negative number; -1 stands for any other.
ValidKey(key) == key.index >= 0

\* Transaction ids in lower case
LowerCase(txid) == [txid EXCEPT !.upper = FALSE]

Good(text) == text \notin {"long", "secret"}

\* The bodies (normalizeAddressLabelInput, normalizeTransactionLabelInput)
ValidAddressLabel(key, label, notes) == ValidKey(key) /\ Good(label) /\ Good(notes)
ValidTransactionLabel(label, notes)  == Good(label) /\ Good(notes)

Empty == [there |-> TRUE, addresses |-> <<>>, transactions |-> <<>>, notes |-> None]
Gone  == [Empty EXCEPT !.there = FALSE]

Entry == [of: AddressKeys \cup {LowerCase(t) : t \in Txids}, label: LabelTexts, notes: NoteTexts]

LabelsTypeOK ==
  /\ labels.there \in BOOLEAN
  /\ \A e \in ToSet(labels.addresses) \cup ToSet(labels.transactions) : e \in Entry
  /\ labels.notes \in NoteTexts
  /\ labelsOpen \in BOOLEAN
  /\ reply.code \in {"none", "200", "204", "400", "401", "404", "423"}

LabelsInit == labels = Empty /\ labelsOpen = TRUE /\ reply = Code("none")

-----------------------------------------------------------------------------
(* The lists *)

NoteOf(text) == IF text = "" THEN None ELSE text

Without(list, key) == Kept(list, {e \in ToSet(list) : e.of # key})

\* An address label that is empty is deleted, whatever its notes are.
UpsertAddress(list, key, label, notes) ==
  IF label = "" THEN Without(list, key)
  ELSE Append(Without(list, key), [of |-> key, label |-> label, notes |-> NoteOf(notes)])

\* Mutant: the label before stays in the list.
UpsertBehind(list, txid, label, notes) ==
  IF label = "" /\ NoteOf(notes) = None THEN Without(list, LowerCase(txid))
  ELSE Append(list, [of |-> LowerCase(txid), label |-> label, notes |-> NoteOf(notes)])

\* That of a transaction only when there are no notes either.
UpsertTransaction(list, txid, label, notes) ==
  IF label = "" /\ NoteOf(notes) = None THEN Without(list, LowerCase(txid))
  ELSE Append(Without(list, LowerCase(txid)), [of |-> LowerCase(txid), label |-> label, notes |-> NoteOf(notes)])

\* normalizeStoredAddressLabels and its like: what is not valid is dropped.
ReadBack(list) == Kept(list, {e \in ToSet(list) : ValidTransactionLabel(e.label, e.notes)})

-----------------------------------------------------------------------------
(* Requests *)

\* ensureAuthenticated, the body, the vault, the wallet: in this order
\* (handleVaultError).  When all is well the wallet is changed and saved.
Handle(valid, changed, told) ==
  /\ UNCHANGED labelsOpen
  /\ \/ reply' = Code("401") /\ UNCHANGED labels
     \/ ~valid /\ reply' = Code("400") /\ UNCHANGED labels
     \/ valid /\ ~labelsOpen /\ reply' = Code("423") /\ UNCHANGED labels
     \/ valid /\ labelsOpen /\ ~labels.there /\ reply' = Code("404") /\ UNCHANGED labels
     \/ valid /\ labelsOpen /\ labels.there /\ reply' = told /\ labels' = changed

\* The request wrote this of that thing.
Wrote(thing, label, notes) == [code |-> "200", of |-> thing, mark |-> <<label, notes>>]

PatchAddressLabel ==
  \E key \in AddressKeys, label \in LabelTexts, notes \in NoteTexts :
    Handle(ValidAddressLabel(key, label, notes),
           [labels EXCEPT !.addresses = UpsertAddress(@, key, label, notes)],
           Wrote(key, label, IF label = "" THEN None ELSE NoteOf(notes)))

DeleteAddressLabel ==
  \E key \in AddressKeys :
    Handle(ValidKey(key), [labels EXCEPT !.addresses = Without(@, key)], Wrote(key, "", None))

PatchTransactionLabel ==
  \E txid \in Txids, label \in LabelTexts, notes \in NoteTexts :
    Handle(ValidTransactionLabel(label, notes),
           [labels EXCEPT !.transactions = UpsertTransaction(@, txid, label, notes)],
           Wrote(LowerCase(txid), label, NoteOf(notes)))

DeleteTransactionLabel ==
  \E txid \in Txids :
    Handle(TRUE, [labels EXCEPT !.transactions = Without(@, LowerCase(txid))],
           Wrote(LowerCase(txid), "", None))

PatchNotes ==
  \E notes \in NoteTexts :
    Handle(Good(notes), [labels EXCEPT !.notes = NoteOf(notes)], Wrote(TheWallet, "", NoteOf(notes)))

DeleteWallet == Handle(TRUE, Gone, Code("204"))

LockLabels ==
  /\ labelsOpen
  /\ labelsOpen' = FALSE /\ reply' = Code("none")
  /\ UNCHANGED labels

UnlockLabels ==
  /\ ~labelsOpen
  /\ labelsOpen' = TRUE /\ reply' = Code("none")
  /\ labels' = [labels EXCEPT !.addresses = ReadBack(@), !.transactions = ReadBack(@)]

LabelsNext ==
  \/ PatchAddressLabel \/ DeleteAddressLabel \/ PatchTransactionLabel \/ DeleteTransactionLabel
  \/ PatchNotes \/ DeleteWallet \/ LockLabels \/ UnlockLabels

LabelsSpec == LabelsInit /\ [][LabelsNext]_labelVars

-----------------------------------------------------------------------------

\* What the page finds of a thing: the first entry of it.
FirstOfThing(list, key) ==
  LET at == {i \in DOMAIN list : list[i].of = key}
  IN  IF at = {} THEN <<"", None>> ELSE <<list[Min(at)].label, list[Min(at)].notes>>

LabelThings == {k \in AddressKeys : ValidKey(k)} \cup {LowerCase(t) : t \in Txids} \cup {TheWallet}

Book == INSTANCE LabelBook WITH
  Things <- LabelThings,
  Marks  <- LabelTexts \X NoteTexts,
  Blank  <- <<"", None>>,
  page   <- [t \in LabelThings |->
               IF t = TheWallet THEN <<"", labels.notes>>
               ELSE IF t \in AddressKeys THEN FirstOfThing(labels.addresses, t)
               ELSE FirstOfThing(labels.transactions, t)],
  answer <- reply

\* Each address and transaction has one label, the one written last, whatever the
\* spelling of the id; another request leaves it as it is, and so does locking
\* and unlocking the vault (upsertAddressLabels, upsertTransactionLabels,
\* normalizeStoredTransactionLabels): the lists implement a book of labels.
LabelsAreABook == Book!BookSpec
=============================================================================
