---------------------------- MODULE VaultDurable -----------------------------
(***************************************************************************)
(* What the vault promises a client that waits for each answer: one        *)
(* durable envelope, always whole, under one password for its whole life;  *)
(* a change is in the open vault at once, in the stored one atomically,    *)
(* and an acknowledged change is stored.  A change whose save failed stays *)
(* in the open vault and is stored with the next one.  Closing the vault   *)
(* or killing the process loses nothing that was acknowledged.             *)
(***************************************************************************)
CONSTANTS
  Passwords, Wallets,
  Records,      \* the forms a wallet record may be stored in
  Current,      \* the forms this version writes
  Normal,       \* what reading an old form turns it into
  NoRecord,     \* a wallet that is not in the vault
  NoVault       \* nothing stored, nothing open

VARIABLES
  stored,       \* the envelope on disk
  open,         \* the vault in memory
  change        \* the change being made: none, asked for or stored

durableVars == <<stored, open, change>>

Data      == [Wallets -> Records \cup {NoRecord}]
Envelope  == [key : Passwords, data : Data]
NoChange  == [stage |-> "none", creates |-> FALSE, envelope |-> NoVault]
EmptyData == [w \in Wallets |-> NoRecord]
Upgrade(data) == [w \in Wallets |-> IF data[w] = NoRecord THEN NoRecord ELSE Normal[data[w]]]

Init ==
  /\ stored \in Envelope \cup {NoVault}
  /\ open = NoVault
  /\ change = NoChange

Create(pw) ==
  /\ stored = NoVault
  /\ change = NoChange
  /\ change' = [stage |-> "asked", creates |-> TRUE,
                envelope |-> [key |-> pw, data |-> EmptyData]]
  /\ UNCHANGED <<stored, open>>

Edit(w, v) ==
  /\ open # NoVault
  /\ change = NoChange
  /\ open' = [open EXCEPT !.data[w] = v]
  /\ change' = [stage |-> "asked", creates |-> FALSE, envelope |-> open']
  /\ UNCHANGED stored

Commit ==
  /\ change.stage = "asked"
  /\ stored' = change.envelope
  /\ change' = [change EXCEPT !.stage = "stored"]
  /\ UNCHANGED open

Acknowledge ==
  /\ change.stage = "stored"
  /\ stored = change.envelope
  /\ open' = IF change.creates THEN change.envelope ELSE open
  /\ change' = NoChange
  /\ UNCHANGED stored

Refuse ==
  /\ change.stage = "asked"
  /\ change' = NoChange
  /\ UNCHANGED <<stored, open>>

Open(pw) ==
  /\ stored # NoVault
  /\ stored.key = pw
  /\ change = NoChange
  /\ open' = [key |-> pw, data |-> Upgrade(stored.data)]
  /\ UNCHANGED <<stored, change>>

Close == open' = NoVault /\ UNCHANGED <<stored, change>>

Crash == open' = NoVault /\ change' = NoChange /\ UNCHANGED stored

Next ==
  \/ \E pw \in Passwords : Create(pw) \/ Open(pw)
  \/ \E w \in Wallets, v \in Current \cup {NoRecord} : Edit(w, v)
  \/ Commit \/ Acknowledge \/ Refuse \/ Close \/ Crash

Spec == Init /\ [][Next]_durableVars
=============================================================================
