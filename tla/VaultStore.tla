----------------------------- MODULE VaultStore ------------------------------
(***************************************************************************)
(* apps/api/src/vault/store.ts: the vault in memory and wallets.enc on     *)
(* disk, with any number of requests in flight.  The API is one event      *)
(* loop, so a handler is atomic between two awaits; it awaits the          *)
(* existence check, scrypt, the read of the file and each step of the      *)
(* write, and another request may run at every one of these points.        *)
(* A key is named by the password it is derived from; the salt of an       *)
(* envelope always travels with it, so it tells nothing more apart.        *)
(***************************************************************************)
EXTENDS Naturals, FiniteSets

CONSTANTS
  Requests,     \* requests that may be in flight
  Passwords, Wallets,
  Records,      \* the forms a wallet record may be stored in
  Current,      \* the forms this version writes
  Normal,       \* what normalizeWalletRecord makes of each form
  NoRecord,     \* a wallet that is not in the vault
  NoVault,      \* unlockedVault = null, an envelope that is not there
  Inodes, NoInode

ASSUME StoreAssumption ==
  /\ IsFiniteSet(Wallets)
  /\ Current \subseteq Records
  /\ Normal \in [Records -> Current]
  /\ \A v \in Current : Normal[v] = v
  /\ NoRecord \notin Records
  /\ NoVault \notin Requests \cup [key : Passwords, data : [Wallets -> Records \cup {NoRecord}]]
  /\ NoInode \notin Inodes

VARIABLES
  vault,        \* unlockedVault: its key and plaintext, or NoVault
  request,      \* what each request is doing, and what it holds across awaits
  lastSave,     \* history: the newest save or init write, and what became of it
  twoInits,     \* history: two initVault calls have been past the existence check
  main, temp, content, writer, overlapped   \* the file, see ReplaceFile

Data      == [Wallets -> Records \cup {NoRecord}]
Envelope  == [key : Passwords, data : Data]
EmptyData == [w \in Wallets |-> NoRecord]

\* The length of an envelope's text grows with the wallets in it.
EnvelopeSize == [e \in Envelope |-> 1 + Cardinality({w \in Wallets : e.data[w] # NoRecord})]

File == INSTANCE ReplaceFile WITH
          Writers <- Requests, Payloads <- Envelope, Size <- EnvelopeSize, NoPayload <- NoVault

fileVars == <<main, temp, content, writer, overlapped>>
vars == <<vault, request, lastSave, twoInits, fileVars>>

Calls   == {"none", "init", "unlock", "save"}
Request == [call : Calls, key : Passwords \cup {NoVault}, read : Envelope \cup {NoVault}]
NoCall  == [call |-> "none", key |-> NoVault, read |-> NoVault]

(* "pending" until its rename ("stored") or its error ("failed"); then     *)
(* "overwritten" if the rename of an older save puts an older envelope     *)
(* over it, "superseded" if an unlock or an init replaces the plaintext in *)
(* memory by a copy that is not what the file will hold.                   *)
Fates    == {"pending", "stored", "failed", "overwritten", "superseded"}
LastSave == [by : Requests \cup {NoVault}, fate : Fates]
InStep   == [by |-> NoVault, fate |-> "stored"]

TypeOK ==
  /\ vault \in Envelope \cup {NoVault}
  /\ request \in [Requests -> Request]
  /\ lastSave \in LastSave
  /\ twoInits \in BOOLEAN
  /\ File!FileTypeOK

\* readVaultEnvelope finds the file and JSON.parse accepts it.
Readable == main # NoInode /\ File!Intact(content[main])

\* What a restart and an unlock would find.
OnDisk == IF Readable THEN content[main].text ELSE NoVault

InFlight(r) == request[r] # NoCall
Quiet == \A r \in Requests : ~InFlight(r)

\* unlockVault maps every record through normalizeWalletRecord.
Upgrade(data) == [w \in Wallets |-> IF data[w] = NoRecord THEN NoRecord ELSE Normal[data[w]]]

\* Envelopes encrypted and not yet renamed into place.
Underway(r) == writer[r].stage \in {"open", "write", "rename"}

\* No file yet, or one left by this or an earlier version.
Init ==
  /\ vault = NoVault
  /\ request = [r \in Requests |-> NoCall]
  /\ lastSave = InStep
  /\ twoInits = FALSE
  /\ \/ File!FileInit
     \/ \E e \in Envelope, i \in Inodes :
          /\ main = i
          /\ temp = NoInode
          /\ content = [j \in Inodes |-> IF j = i THEN [text |-> e, length |-> EnvelopeSize[e]]
                                                  ELSE File!Empty]
          /\ writer = [r \in Requests |-> File!IdleWriter]
          /\ overlapped = FALSE

-----------------------------------------------------------------------------
(* initVault *)

\* Mutant: no existence check.
InitUnchecked(r, pw) ==
  /\ ~InFlight(r)
  /\ request' = [request EXCEPT ![r] = [NoCall EXCEPT !.call = "init", !.key = pw]]
  /\ twoInits' = (twoInits \/ \E o \in Requests : request[o].call = "init")
  /\ UNCHANGED <<vault, lastSave, fileVars>>

\* vaultFileExists answers no; VaultAlreadyInitializedError changes nothing.
InitCheck(r, pw) ==
  /\ ~InFlight(r)
  /\ main = NoInode
  /\ request' = [request EXCEPT ![r] = [NoCall EXCEPT !.call = "init", !.key = pw]]
  /\ twoInits' = (twoInits \/ \E o \in Requests : request[o].call = "init")
  /\ UNCHANGED <<vault, lastSave, fileVars>>

\* createVaultEnvelope has the key; the empty vault is on its way to the file.
InitDerived(r) ==
  /\ request[r].call = "init"
  /\ File!BeginWrite(r, [key |-> request[r].key, data |-> EmptyData])
  /\ lastSave' = [by |-> r, fate |-> "pending"]
  /\ UNCHANGED <<vault, request, twoInits>>

\* The old key, if there is one, is dropped and not zeroed.
InitDone(r) ==
  /\ request[r].call = "init"
  /\ File!FinishWrite(r)
  /\ vault' = [key |-> request[r].key, data |-> EmptyData]
  /\ request' = [request EXCEPT ![r] = NoCall]
  /\ lastSave' = IF lastSave.by = r THEN lastSave ELSE [lastSave EXCEPT !.fate = "superseded"]
  /\ UNCHANGED twoInits

(* unlockVault *)

\* The envelope is in hand before scrypt starts.  No file, or one that does
\* not parse, is an error that changes nothing.
UnlockRead(r, pw) ==
  /\ ~InFlight(r)
  /\ Readable
  /\ request' = [request EXCEPT ![r] = [call |-> "unlock", key |-> pw, read |-> OnDisk]]
  /\ UNCHANGED <<vault, lastSave, twoInits, fileVars>>

\* decryptVaultWithKey authenticates: the wrong key throws.
UnlockRefused(r) ==
  /\ request[r].call = "unlock"
  /\ request[r].read.key # request[r].key
  /\ request' = [request EXCEPT ![r] = NoCall]
  /\ UNCHANGED <<vault, lastSave, twoInits, fileVars>>

\* Mutant: the records are opened in the form they were stored in.
UnlockRaw(r) ==
  /\ request[r].call = "unlock"
  /\ request[r].read.key = request[r].key
  /\ vault' = request[r].read
  /\ request' = [request EXCEPT ![r] = NoCall]
  /\ lastSave' = IF request[r].read = OnDisk /\ \A o \in Requests : ~Underway(o)
                  THEN InStep ELSE [by |-> NoVault, fate |-> "superseded"]
  /\ UNCHANGED <<twoInits, fileVars>>

UnlockDone(r) ==
  /\ request[r].call = "unlock"
  /\ request[r].read.key = request[r].key
  /\ vault' = [key |-> request[r].key, data |-> Upgrade(request[r].read.data)]
  /\ request' = [request EXCEPT ![r] = NoCall]
  /\ lastSave' = IF request[r].read = OnDisk /\ \A o \in Requests : ~Underway(o)
                  THEN InStep ELSE [by |-> NoVault, fate |-> "superseded"]
  /\ UNCHANGED <<twoInits, fileVars>>

\* Mutant: the key is zeroed and the plaintext is not dropped.
LockKeyOnly ==
  /\ vault # NoVault
  /\ vault' = [vault EXCEPT !.key = NoVault]
  /\ UNCHANGED <<request, lastSave, twoInits, fileVars>>

(* lockVault: by the route, by logout or by the auto-lock timer, with no   *)
(* await, so at any time, whatever is in flight.  When the timer may lock  *)
(* is the business of VaultAccess.                                         *)
LockVault ==
  /\ vault # NoVault
  /\ vault' = NoVault
  /\ UNCHANGED <<request, lastSave, twoInits, fileVars>>

-----------------------------------------------------------------------------
(* The mutations: each finds its wallet, changes the plaintext and         *)
(* encrypts it without an await, and then awaits writeVaultEnvelope.       *)

\* Mutant: encrypts before it changes the plaintext.
SaveBefore(r, data) ==
  /\ vault' = [vault EXCEPT !.data = data]
  /\ File!BeginWrite(r, vault)
  /\ request' = [request EXCEPT ![r] = [NoCall EXCEPT !.call = "save"]]
  /\ lastSave' = [by |-> r, fate |-> "pending"]
  /\ UNCHANGED twoInits

SaveWith(r, data) ==
  /\ vault' = [vault EXCEPT !.data = data]
  /\ File!BeginWrite(r, vault')
  /\ request' = [request EXCEPT ![r] = [NoCall EXCEPT !.call = "save"]]
  /\ lastSave' = [by |-> r, fate |-> "pending"]
  /\ UNCHANGED twoInits

\* addWallet: the id is a fresh UUID.
AddWallet(r, w, v) ==
  /\ ~InFlight(r)
  /\ vault # NoVault
  /\ vault.data[w] = NoRecord
  /\ SaveWith(r, [vault.data EXCEPT ![w] = v])

\* updateWallet, updateWalletNotes and the four label operations: the same
\* steps with a different new record (WalletNotFoundError changes nothing).
UpdateWallet(r, w, v) ==
  /\ ~InFlight(r)
  /\ vault # NoVault
  /\ vault.data[w] # NoRecord
  /\ SaveWith(r, [vault.data EXCEPT ![w] = v])

DeleteWallet(r, w) ==
  /\ ~InFlight(r)
  /\ vault # NoVault
  /\ vault.data[w] # NoRecord
  /\ SaveWith(r, [vault.data EXCEPT ![w] = NoRecord])

SaveDone(r) ==
  /\ request[r].call = "save"
  /\ File!FinishWrite(r)
  /\ request' = [request EXCEPT ![r] = NoCall]
  /\ UNCHANGED <<vault, lastSave, twoInits>>

(* writeVaultEnvelope, for a save and for an init alike *)

WriteTempFile(r) ==
  /\ File!OpenTemp(r) \/ File!WriteTemp(r)
  /\ UNCHANGED <<vault, request, lastSave, twoInits>>

RenameIntoPlace(r) ==
  /\ File!RenameTemp(r)
  /\ lastSave' = IF lastSave = [by |-> r, fate |-> "pending"] THEN [lastSave EXCEPT !.fate = "stored"]
                 ELSE IF lastSave.fate = "stored" THEN [lastSave EXCEPT !.fate = "overwritten"]
                 ELSE lastSave
  /\ UNCHANGED <<vault, request, twoInits>>

\* The answer is a 500.  The change of a save stays in the open vault.
WriteFailed(r) ==
  /\ File!FailWrite(r)
  /\ request' = [request EXCEPT ![r] = NoCall]
  /\ lastSave' = IF lastSave = [by |-> r, fate |-> "pending"] THEN [lastSave EXCEPT !.fate = "failed"]
                 ELSE lastSave
  /\ UNCHANGED <<vault, twoInits>>

\* The process is killed and started again.
Restart ==
  /\ vault' = NoVault
  /\ request' = [r \in Requests |-> NoCall]
  /\ lastSave' = InStep
  /\ File!CrashWriters
  /\ UNCHANGED twoInits

Next ==
  \/ \E r \in Requests :
       \/ \E pw \in Passwords : InitCheck(r, pw) \/ UnlockRead(r, pw)
       \/ InitDerived(r) \/ InitDone(r)
       \/ UnlockRefused(r) \/ UnlockDone(r)
       \/ \E w \in Wallets : \/ \E v \in Current : AddWallet(r, w, v) \/ UpdateWallet(r, w, v)
                             \/ DeleteWallet(r, w)
       \/ WriteTempFile(r) \/ RenameIntoPlace(r) \/ SaveDone(r) \/ WriteFailed(r)
  \/ LockVault
  \/ Restart

Spec == Init /\ [][Next]_vars

-----------------------------------------------------------------------------
\* An init has renamed its envelope and not yet opened the vault.
InitLanding == \E r \in Requests : request[r].call = "init" /\ writer[r].stage = "done"

(* With any number of saves, unlocks and locks in flight, the open vault   *)
(* is exactly what a restart would find from the moment the newest save is *)
(* in place, unless one of the four fates of lastSave struck or two        *)
(* writers shared .tmp: these are all the ways memory and disk can part.   *)
OpenVaultIsStored ==
  ~overlapped /\ lastSave.fate = "stored" /\ vault # NoVault /\ ~InitLanding =>
    /\ Readable
    /\ vault = [key |-> OnDisk.key, data |-> Upgrade(OnDisk.data)]

(* A vault is never re-keyed, whatever saves, unlocks, failures and        *)
(* crashes interleave: only two initVault calls that were both past the    *)
(* existence check can leave wallets.enc under another password.           *)
PasswordStable ==
  [][~twoInits' /\ OnDisk # NoVault /\ OnDisk' # NoVault => OnDisk'.key = OnDisk.key]_vars

(* Whenever no request is in flight, and so after every restart, a         *)
(* wallets.enc that exists can be read: of one client that waits for its   *)
(* answers, whatever write failed or was cut off by a crash                *)
(* (writeVaultEnvelope).  Saves that overlap can leave it unreadable.      *)
WalletsEncPersists == Quiet /\ main # NoInode => Readable

-----------------------------------------------------------------------------
(* Seen from outside: the change of the one request that is writing.       *)
Change ==
  IF \E r \in Requests : writer[r].stage # "idle"
  THEN LET r == CHOOSE q \in Requests : writer[q].stage # "idle"
       IN  [stage |-> IF writer[r].stage = "done" THEN "stored" ELSE "asked",
            creates |-> request[r].call = "init",
            envelope |-> writer[r].text]
  ELSE [stage |-> "none", creates |-> FALSE, envelope |-> NoVault]

Durable == INSTANCE VaultDurable WITH stored <- OnDisk, open <- vault, change <- Change

(* One client that waits for its answers sees the promise of VaultDurable. *)
ImplementsDurable == Durable!Spec
=============================================================================
