------------------------------- MODULE LabelBook -------------------------------
(***************************************************************************)
(* What the labels of a wallet promise: one page for each thing labelled,  *)
(* what was written last stands on it, and only a request that was answered *)
(* with 200 writes.  WalletLabels implements this.                         *)
(***************************************************************************)
CONSTANTS
  Things,  \* what may be labelled: addresses, transactions, the wallet
  Marks,   \* what may be written
  Blank    \* nothing is written

VARIABLES
  page,   \* what is written of each thing
  answer  \* the answer to the last request: its code, and what was to be written where

BookInit == page = [t \in Things |-> Blank] /\ answer.code = "none"

Write ==
  /\ answer'.code = "200"
  /\ answer'.of \in Things /\ answer'.mark \in Marks \cup {Blank}
  /\ page' = [page EXCEPT ![answer'.of] = answer'.mark]

\* The wallet is deleted, its labels with it.
Burn ==
  /\ answer'.code = "204"
  /\ page' = [t \in Things |-> Blank]

Refuse ==
  /\ answer'.code \in {"400", "401", "404", "423"}
  /\ UNCHANGED page

\* The vault is locked or unlocked, which writes nothing.
Turn ==
  /\ answer'.code = "none"
  /\ UNCHANGED page

BookNext == Write \/ Burn \/ Refuse \/ Turn

BookSpec == BookInit /\ [][BookNext]_<<page, answer>>
=============================================================================
