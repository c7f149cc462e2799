--------------------------- MODULE VaultStoreProofs ---------------------------
(***************************************************************************)
(* Proofs about VaultStore for any number of requests, passwords, wallets  *)
(* and inodes.  The file half of every step is a step of ReplaceFile, so   *)
(* what is proved there holds of wallets.enc; the rest of the argument is  *)
(* about which text each party of the store has in its hands.              *)
(***************************************************************************)
EXTENDS VaultStore, FiniteSetTheorems, TLAPS

\* The procedure and what is proved of it, for this file.
FP == INSTANCE ReplaceFileProofs WITH
        Writers <- Requests, Payloads <- Envelope, Size <- EnvelopeSize, NoPayload <- NoVault

\* What a request holds across its awaits: a password, and the envelope an
\* unlock has read.
Holding ==
  \A r \in Requests :
    /\ request[r].call \in {"init", "unlock"} => request[r].key \in Passwords
    /\ request[r].call = "unlock" => request[r].read \in Envelope

\* Who is in writeVaultEnvelope, and with which text: a save from its start to
\* its end, an init after its key is derived.
Writing ==
  \A r \in Requests :
    /\ request[r].call = "save" <=> writer[r].stage # "idle" /\ request[r].call # "init"
    /\ writer[r].stage # "idle" /\ request[r].call = "init" =>
         writer[r].text = [key |-> request[r].key, data |-> EmptyData]

StoreInv == TypeOK /\ FP!FileInv /\ Holding /\ Writing

-----------------------------------------------------------------------------
(* The length of any envelope's text is a positive number.                 *)
LEMMA StoreFile == FP!FileAssumption
<1>1. ASSUME NEW e \in Envelope
      PROVE  EnvelopeSize[e] \in Nat \ {0}
  <2> DEFINE There == {w \in Wallets : e.data[w] # NoRecord}
  <2>1. IsFiniteSet(There)
    BY StoreAssumption, FS_Subset, There \subseteq Wallets
  <2>2. Cardinality(There) \in Nat
    BY <2>1, FS_CardinalityType
  <2>3. EnvelopeSize[e] = 1 + Cardinality(There)
    BY DEF EnvelopeSize
  <2> QED BY <2>2, <2>3
<1>2. EnvelopeSize \in [Envelope -> Nat \ {0}]
  BY <1>1 DEF EnvelopeSize
<1>3. NoVault \notin Envelope
  BY StoreAssumption DEF Envelope, Data
<1> QED BY <1>2, <1>3, StoreAssumption DEF FP!FileAssumption

(* The empty vault and an upgraded one are envelopes.                      *)
LEMMA EmptyIsData == EmptyData \in Data
  BY DEF EmptyData, Data

LEMMA UpgradeIsData ==
  ASSUME NEW data \in Data
  PROVE  /\ Upgrade(data) \in Data
         /\ \A w \in Wallets : Upgrade(data)[w] \in Current \cup {NoRecord}
  BY StoreAssumption DEF Upgrade, Data

(* A text that a reader finds whole is an envelope.                        *)
LEMMA OnDiskType == FP!FileInv /\ Readable => OnDisk \in Envelope
  BY DEF FP!FileInv, FP!FileTypeOK, FP!Content, Readable, OnDisk, File!Intact

-----------------------------------------------------------------------------
(* The procedure is the same under both names.                             *)
LEMMA SameFile ==
  /\ [File!FileNext]_fileVars => [FP!FileNext]_(FP!fileVars)
  /\ File!FileInit => FP!FileInit
  /\ File!FileTypeOK <=> FP!FileTypeOK
  /\ File!Empty = FP!Empty
  /\ \A r \in Requests : /\ File!OpenTemp(r) <=> FP!OpenTemp(r)
                         /\ File!WriteTemp(r) <=> FP!WriteTemp(r)
                         /\ File!RenameTemp(r) <=> FP!RenameTemp(r)
                         /\ File!FinishWrite(r) <=> FP!FinishWrite(r)
                         /\ File!FailWrite(r) <=> FP!FailWrite(r)
<1> USE DEF FP!IdleWriter, File!IdleWriter, FP!Empty, File!Empty
<1>1. \A r \in Requests : /\ File!OpenTemp(r) <=> FP!OpenTemp(r)
                          /\ File!WriteTemp(r) <=> FP!WriteTemp(r)
                          /\ File!RenameTemp(r) <=> FP!RenameTemp(r)
                          /\ File!FinishWrite(r) <=> FP!FinishWrite(r)
                          /\ File!FailWrite(r) <=> FP!FailWrite(r)
  BY DEF File!OpenTemp, FP!OpenTemp, File!WriteTemp, FP!WriteTemp, File!RenameTemp, FP!RenameTemp,
         File!FinishWrite, FP!FinishWrite, File!FailWrite, FP!FailWrite, FP!Using, File!Using,
         FP!FreeInodes, File!FreeInodes, FP!Overlay, File!Overlay
<1>2. File!CrashWriters <=> FP!CrashWriters
  BY DEF File!CrashWriters, FP!CrashWriters
<1>3. \A r \in Requests, e \in Envelope : File!BeginWrite(r, e) <=> FP!BeginWrite(r, e)
  BY DEF File!BeginWrite, FP!BeginWrite
<1>4. [File!FileNext]_fileVars => [FP!FileNext]_(FP!fileVars)
  BY <1>1, <1>2, <1>3 DEF File!FileNext, FP!FileNext, fileVars, FP!fileVars
<1>5. File!FileInit => FP!FileInit
  BY DEF File!FileInit, FP!FileInit
<1>6. File!FileTypeOK <=> FP!FileTypeOK
  BY DEF File!FileTypeOK, FP!FileTypeOK, File!Content, FP!Content, File!Writer, FP!Writer,
         File!Stages, FP!Stages
<1> QED BY <1>1, <1>4, <1>5, <1>6

-----------------------------------------------------------------------------
(* The mutations differ in the wallet they look for, and not otherwise.    *)
Edit(r, w, v) ==
  /\ ~InFlight(r)
  /\ vault # NoVault
  /\ SaveWith(r, [vault.data EXCEPT ![w] = v])

LEMMA MutationsEdit ==
  ASSUME NEW r \in Requests, NEW w \in Wallets,
         (\E v \in Current : AddWallet(r, w, v) \/ UpdateWallet(r, w, v)) \/ DeleteWallet(r, w)
  PROVE  \E v \in Current \cup {NoRecord} : Edit(r, w, v)
  BY DEF AddWallet, UpdateWallet, DeleteWallet, Edit

LEMMA NextCases ==
  Next =>
    \/ \E r \in Requests :
         \/ \E pw \in Passwords : InitCheck(r, pw) \/ UnlockRead(r, pw)
         \/ InitDerived(r) \/ InitDone(r) \/ UnlockRefused(r) \/ UnlockDone(r)
         \/ \E w \in Wallets, v \in Current \cup {NoRecord} : Edit(r, w, v)
         \/ WriteTempFile(r) \/ RenameIntoPlace(r) \/ SaveDone(r) \/ WriteFailed(r)
    \/ LockVault
    \/ Restart
  BY MutationsEdit DEF Next

(* An edit of the open vault leaves an envelope.                           *)
LEMMA EditType ==
  ASSUME TypeOK, NEW r \in Requests, NEW w \in Wallets, NEW v \in Current \cup {NoRecord}, Edit(r, w, v)
  PROVE  /\ vault \in Envelope
         /\ vault' = [vault EXCEPT !.data = [vault.data EXCEPT ![w] = v]]
         /\ vault' \in Envelope
         /\ File!BeginWrite(r, vault')
         /\ request[r] = NoCall
         /\ request' = [request EXCEPT ![r] = [NoCall EXCEPT !.call = "save"]]
         /\ lastSave' = [by |-> r, fate |-> "pending"]
<1>1. vault \in Envelope /\ v \in Records \cup {NoRecord}
  BY StoreAssumption DEF TypeOK, Edit
<1>2. /\ vault' = [vault EXCEPT !.data = [vault.data EXCEPT ![w] = v]]
      /\ File!BeginWrite(r, vault')
      /\ request[r] = NoCall
      /\ request' = [request EXCEPT ![r] = [NoCall EXCEPT !.call = "save"]]
      /\ lastSave' = [by |-> r, fate |-> "pending"]
  BY DEF Edit, SaveWith, InFlight
<1>3. [vault.data EXCEPT ![w] = v] \in Data
  BY <1>1 DEF Envelope, Data
<1>4. vault' \in Envelope
  BY <1>1, <1>2, <1>3 DEF Envelope
<1> QED BY <1>1, <1>2, <1>4

(* Every step of the store leaves the file alone or takes a step of        *)
(* ReplaceFile with an envelope for its text.                              *)
LEMMA StepOfFile == StoreInv /\ [Next]_vars => [File!FileNext]_fileVars
<1> SUFFICES ASSUME StoreInv, [Next]_vars
             PROVE  File!FileNext \/ UNCHANGED fileVars
  BY DEF fileVars
<1>1. ASSUME NEW r \in Requests, InitDerived(r)
      PROVE  File!FileNext
  <2>1. [key |-> request[r].key, data |-> EmptyData] \in Envelope
    BY <1>1, EmptyIsData DEF StoreInv, Holding, InitDerived, Envelope
  <2> QED BY <1>1, <2>1 DEF InitDerived, File!FileNext
<1>2. ASSUME NEW r \in Requests, NEW w \in Wallets, NEW v \in Current \cup {NoRecord}, Edit(r, w, v)
      PROVE  File!FileNext
  <2>1. vault' \in Envelope /\ File!BeginWrite(r, vault')
    BY <1>2, EditType DEF StoreInv
  <2> QED BY <2>1 DEF File!FileNext
<1>3. ASSUME NEW r \in Requests, InitDone(r) \/ WriteTempFile(r) \/ RenameIntoPlace(r) \/ SaveDone(r) \/ WriteFailed(r)
      PROVE  File!FileNext
  BY <1>3 DEF InitDone, WriteTempFile, RenameIntoPlace, SaveDone, WriteFailed, File!FileNext
<1>4. ASSUME Restart
      PROVE  File!FileNext
  BY <1>4 DEF Restart, File!FileNext
<1>5. ASSUME NEW r \in Requests, NEW pw \in Passwords, InitCheck(r, pw) \/ UnlockRead(r, pw)
      PROVE  UNCHANGED fileVars
  BY <1>5 DEF InitCheck, UnlockRead
<1>6. ASSUME NEW r \in Requests, UnlockRefused(r) \/ UnlockDone(r)
      PROVE  UNCHANGED fileVars
  BY <1>6 DEF UnlockRefused, UnlockDone
<1>7. ASSUME LockVault \/ UNCHANGED vars
      PROVE  UNCHANGED fileVars
  BY <1>7 DEF LockVault, vars
<1> QED BY <1>1, <1>2, <1>3, <1>4, <1>5, <1>6, <1>7, NextCases

(* So the invariant of ReplaceFile is kept.                                *)
LEMMA StepFileInv == StoreInv /\ [Next]_vars => FP!FileInv'
  BY SameFile, StepOfFile, StoreFile, FP!FileNextInv DEF StoreInv

-----------------------------------------------------------------------------
(* The store's own state keeps its type and its meaning.                   *)
LEMMA InitInv == Init => StoreInv
<1> SUFFICES ASSUME Init PROVE StoreInv
  OBVIOUS
<1>1. FP!FileInv
  <2>1. CASE File!FileInit
    BY <2>1, SameFile, StoreFile, FP!FileInitInv
  <2>2. ASSUME NEW e \in Envelope, NEW i \in Inodes,
               main = i, temp = NoInode,
               content = [j \in Inodes |-> IF j = i THEN [text |-> e, length |-> EnvelopeSize[e]] ELSE File!Empty],
               writer = [r \in Requests |-> File!IdleWriter],
               overlapped = FALSE
        PROVE  FP!FileInv
    <3>1. EnvelopeSize[e] \in Nat
      BY StoreFile DEF FP!FileAssumption
    <3>2. content \in [Inodes -> FP!Content]
      BY <2>2, <3>1 DEF FP!Content, File!Empty
    <3>3. writer \in [Requests -> FP!Writer]
      BY <2>2 DEF File!IdleWriter, FP!Writer, FP!Stages
    <3>4. \A r \in Requests : writer[r].stage = "idle"
      BY <2>2 DEF File!IdleWriter
    <3>5. FP!FileTypeOK
      BY <2>2, <3>2, <3>3 DEF FP!FileTypeOK
    <3>6. FP!Carries /\ FP!Apart
      BY <2>2, <3>4, StoreAssumption DEF FP!Carries, FP!Apart
    <3>7. FP!Intact(content[main])
      BY <2>2, StoreFile DEF FP!Intact, FP!FileAssumption
    <3>8. FP!Exclusive
      BY <3>4, <3>7 DEF FP!Exclusive, FP!Using
    <3> QED BY <3>5, <3>6, <3>8 DEF FP!FileInv
  <2> QED BY <2>1, <2>2 DEF Init
<1>2. \A r \in Requests : writer[r].stage = "idle" /\ request[r] = NoCall
  BY DEF Init, File!FileInit, File!IdleWriter
<1>3. TypeOK
  <2>1. File!FileTypeOK
    BY <1>1, SameFile DEF FP!FileInv
  <2> QED BY <2>1 DEF Init, TypeOK, Request, Calls, NoCall, LastSave, Fates, InStep
<1>4. Holding /\ Writing
  BY <1>2 DEF Holding, Writing, NoCall
<1> QED BY <1>1, <1>3, <1>4 DEF StoreInv

(* The step of one request leaves those of the others as they are, and     *)
(* what it says of itself is enough for the invariant.                     *)
LEMMA OwnStep ==
  ASSUME StoreInv, NEW r \in Requests, NEW q \in Request,
         request' = [request EXCEPT ![r] = q],
         \A o \in Requests \ {r} : writer'[o] = writer[o],
         q.call \in {"init", "unlock"} => q.key \in Passwords,
         q.call = "unlock" => q.read \in Envelope,
         q.call = "save" <=> writer'[r].stage # "idle" /\ q.call # "init",
         writer'[r].stage # "idle" /\ q.call = "init" =>
           writer'[r].text = [key |-> q.key, data |-> EmptyData]
  PROVE  /\ request' \in [Requests -> Request]
         /\ Holding' /\ Writing'
<1>1. request \in [Requests -> Request]
  BY DEF StoreInv, TypeOK
<1>2. request'[r] = q /\ \A o \in Requests \ {r} : request'[o] = request[o]
  BY <1>1
<1> QED BY <1>1, <1>2 DEF StoreInv, Holding, Writing

(* What a step of the procedure does to its writer.                        *)
LEMMA WriterStep ==
  ASSUME FP!FileInv, NEW r \in Requests
  PROVE  /\ File!OpenTemp(r) \/ File!WriteTemp(r) \/ File!RenameTemp(r) =>
              /\ writer[r].stage # "idle" /\ writer'[r].stage # "idle"
              /\ writer'[r].text = writer[r].text
         /\ File!FinishWrite(r) => writer[r].stage = "done" /\ writer'[r].stage = "idle"
         /\ File!FailWrite(r) => writer[r].stage # "idle" /\ writer'[r].stage = "idle"
         /\ \/ File!OpenTemp(r) \/ File!WriteTemp(r) \/ File!RenameTemp(r)
            \/ File!FinishWrite(r) \/ File!FailWrite(r)
            => \A o \in Requests \ {r} : writer'[o] = writer[o]
  BY SameFile, StoreFile, FP!WriterStep

\* A request that is not in a call is not in the procedure.
LEMMA FreeIsIdle ==
  ASSUME StoreInv, NEW r \in Requests, request[r].call \in {"none", "unlock"}
  PROVE  writer[r].stage = "idle"
<1>1. /\ request[r].call = "save" <=> writer[r].stage # "idle" /\ request[r].call # "init"
      /\ request[r].call # "save" /\ request[r].call # "init"
  BY DEF StoreInv, Writing
<1> QED BY <1>1

(* Every step keeps the store's invariant.                                 *)
LEMMA StepInv == StoreInv /\ [Next]_vars => StoreInv'
<1> SUFFICES ASSUME StoreInv, [Next]_vars PROVE StoreInv'
  OBVIOUS
<1> USE DEF Request, Calls
<1> DEFINE Rest == vault' \in Envelope \cup {NoVault} /\ lastSave' \in LastSave /\ twoInits' \in BOOLEAN
           Own  == request' \in [Requests -> Request] /\ Holding' /\ Writing'
<1>1. FP!FileInv' /\ File!FileTypeOK'
  BY StepFileInv DEF FP!FileInv, File!FileTypeOK, FP!FileTypeOK, File!Content, FP!Content,
     File!Writer, FP!Writer, File!Stages, FP!Stages
<1>2. vault \in Envelope \cup {NoVault} /\ lastSave \in LastSave /\ twoInits \in BOOLEAN
  BY DEF StoreInv, TypeOK
<1>3. \A r \in Requests : [lastSave EXCEPT !.fate = "superseded"] \in LastSave
  BY <1>2 DEF LastSave, Fates
<1>4. ASSUME NEW r \in Requests, NEW pw \in Passwords, InitCheck(r, pw)
      PROVE  Rest /\ Own
  <2> DEFINE q == [NoCall EXCEPT !.call = "init", !.key = pw]
  <2>1. request' = [request EXCEPT ![r] = q] /\ UNCHANGED fileVars
    BY <1>4 DEF InitCheck
  <2>2. writer[r].stage = "idle"
    BY <1>4, FreeIsIdle DEF InitCheck, InFlight, NoCall
  <2>3. q.call = "init" /\ q.key = pw /\ q \in Request
    BY DEF NoCall
  <2> HIDE DEF q
  <2>4. Own
    BY <2>1, <2>2, <2>3, OwnStep DEF fileVars
  <2> QED BY <1>2, <1>4, <2>4 DEF InitCheck
<1>5. ASSUME NEW r \in Requests, NEW pw \in Passwords, UnlockRead(r, pw)
      PROVE  Rest /\ Own
  <2> DEFINE q == [call |-> "unlock", key |-> pw, read |-> OnDisk]
  <2>1. request' = [request EXCEPT ![r] = q] /\ UNCHANGED fileVars
    BY <1>5 DEF UnlockRead
  <2>2. OnDisk \in Envelope
    BY <1>5, OnDiskType DEF UnlockRead, StoreInv
  <2>3. writer[r].stage = "idle"
    BY <1>5, FreeIsIdle DEF UnlockRead, InFlight, NoCall
  <2> HIDE DEF q
  <2>4. q.call = "unlock" /\ q.key = pw /\ q.read = OnDisk /\ q \in Request
    BY <2>2 DEF q
  <2>5. Own
    BY <2>1, <2>2, <2>3, <2>4, OwnStep DEF fileVars
  <2> QED BY <1>2, <1>5, <2>5 DEF UnlockRead
<1>6. ASSUME NEW r \in Requests, InitDerived(r)
      PROVE  Rest /\ Own
  <2>1. request' = [request EXCEPT ![r] = request[r]] /\ request[r] \in Request
    BY <1>6 DEF InitDerived, StoreInv, TypeOK
  <2>2. /\ writer'[r] = [stage |-> "open", text |-> [key |-> request[r].key, data |-> EmptyData], fd |-> NoInode]
        /\ \A o \in Requests \ {r} : writer'[o] = writer[o]
    BY <1>6 DEF InitDerived, File!BeginWrite, StoreInv, FP!FileInv, FP!FileTypeOK
  <2>3. /\ writer'[r].stage = "open" /\ writer'[r].text = [key |-> request[r].key, data |-> EmptyData]
        /\ request[r].call = "init" /\ request[r].key \in Passwords
    BY <1>6, <2>2 DEF InitDerived, StoreInv, Holding
  <2>4. Own
    BY <2>1, <2>2, <2>3, OwnStep
  <2> QED BY <1>2, <1>6, <2>4 DEF InitDerived, LastSave, Fates
<1>7. ASSUME NEW r \in Requests, InitDone(r)
      PROVE  Rest /\ Own
  <2>1. request' = [request EXCEPT ![r] = NoCall] /\ NoCall \in Request /\ NoCall.call = "none"
    BY <1>7 DEF InitDone, NoCall
  <2>2. writer'[r].stage = "idle" /\ \A o \in Requests \ {r} : writer'[o] = writer[o]
    BY <1>7, WriterStep DEF InitDone, StoreInv
  <2>3. Own
    BY <2>1, <2>2, OwnStep
  <2>4. vault' \in Envelope
    BY <1>7, EmptyIsData DEF InitDone, StoreInv, Holding, Envelope
  <2> QED BY <1>2, <1>3, <1>7, <2>3, <2>4 DEF InitDone
<1>8. ASSUME NEW r \in Requests, UnlockRefused(r) \/ UnlockDone(r)
      PROVE  Rest /\ Own
  <2>1. request' = [request EXCEPT ![r] = NoCall] /\ NoCall \in Request /\ NoCall.call = "none"
    BY <1>8 DEF UnlockRefused, UnlockDone, NoCall
  <2>2. writer[r].stage = "idle" /\ UNCHANGED writer
    BY <1>8 DEF UnlockRefused, UnlockDone, StoreInv, Writing, fileVars
  <2>3. Own
    BY <2>1, <2>2, OwnStep
  <2>4. CASE UnlockRefused(r)
    BY <1>2, <2>3, <2>4 DEF UnlockRefused
  <2>5. CASE UnlockDone(r)
    <3>1. request[r].key \in Passwords /\ request[r].read.data \in Data
      BY <2>5 DEF UnlockDone, StoreInv, Holding, Envelope
    <3>2. vault' \in Envelope
      BY <2>5, <3>1, UpgradeIsData DEF UnlockDone, Envelope
    <3> QED BY <1>2, <2>3, <2>5, <3>2 DEF UnlockDone, LastSave, Fates, InStep
  <2> QED BY <1>8, <2>4, <2>5
<1>9. ASSUME NEW r \in Requests, NEW w \in Wallets, NEW v \in Current \cup {NoRecord}, Edit(r, w, v)
      PROVE  Rest /\ Own
  <2> DEFINE q == [NoCall EXCEPT !.call = "save"]
  <2>1. request' = [request EXCEPT ![r] = q] /\ q \in Request /\ q.call = "save"
    BY <1>9, EditType DEF StoreInv, NoCall
  <2>2. writer'[r].stage = "open" /\ \A o \in Requests \ {r} : writer'[o] = writer[o]
    BY <1>9, EditType DEF StoreInv, File!BeginWrite, FP!FileInv, FP!FileTypeOK
  <2>3. Own
    BY <2>1, <2>2, OwnStep
  <2> QED BY <1>2, <1>9, <2>3, EditType DEF StoreInv, LastSave, Fates, Edit, SaveWith
<1>10. ASSUME NEW r \in Requests, WriteTempFile(r) \/ RenameIntoPlace(r)
      PROVE  Rest /\ Own
  <2>1. request' = [request EXCEPT ![r] = request[r]] /\ request[r] \in Request
    BY <1>10 DEF WriteTempFile, RenameIntoPlace, StoreInv, TypeOK
  <2>2. /\ writer[r].stage # "idle" /\ writer'[r].stage # "idle" /\ writer'[r].text = writer[r].text
        /\ \A o \in Requests \ {r} : writer'[o] = writer[o]
    BY <1>10, WriterStep DEF WriteTempFile, RenameIntoPlace, StoreInv
  <2>3. Own
    BY <2>1, <2>2, OwnStep DEF StoreInv, Holding, Writing
  <2>4. lastSave' \in LastSave
    BY <1>2, <1>10 DEF WriteTempFile, RenameIntoPlace, LastSave, Fates
  <2> QED BY <1>2, <1>10, <2>3, <2>4 DEF WriteTempFile, RenameIntoPlace
<1>11. ASSUME NEW r \in Requests, SaveDone(r) \/ WriteFailed(r)
      PROVE  Rest /\ Own
  <2>1. request' = [request EXCEPT ![r] = NoCall] /\ NoCall \in Request /\ NoCall.call = "none"
    BY <1>11 DEF SaveDone, WriteFailed, NoCall
  <2>2. writer'[r].stage = "idle" /\ \A o \in Requests \ {r} : writer'[o] = writer[o]
    BY <1>11, WriterStep DEF SaveDone, WriteFailed, StoreInv
  <2>3. Own
    BY <2>1, <2>2, OwnStep
  <2>4. lastSave' \in LastSave
    BY <1>2, <1>11 DEF SaveDone, WriteFailed, LastSave, Fates
  <2> QED BY <1>2, <1>11, <2>3, <2>4 DEF SaveDone, WriteFailed
<1>12. ASSUME LockVault \/ UNCHANGED vars
      PROVE  Rest /\ Own
  BY <1>2, <1>12 DEF LockVault, vars, fileVars, StoreInv, TypeOK, Holding, Writing
<1>13. ASSUME Restart
      PROVE  Rest /\ Own
  <2>1. \A r \in Requests : writer'[r].stage = "idle" /\ request'[r] = NoCall
    BY <1>13 DEF Restart, File!CrashWriters, File!IdleWriter
  <2>2. Own
    BY <1>13, <2>1 DEF Restart, Holding, Writing, NoCall
  <2> QED BY <1>2, <1>13, <2>2 DEF Restart, LastSave, Fates, InStep
<1>14. Rest /\ Own
  BY <1>4, <1>5, <1>6, <1>7, <1>8, <1>9, <1>10, <1>11, <1>12, <1>13, NextCases
<1> QED BY <1>1, <1>14 DEF StoreInv, TypeOK

LEMMA StoreInvariant == Spec => []StoreInv
BY InitInv, StepInv, PTL DEF Spec

-----------------------------------------------------------------------------
(* The open vault, the requests and wallets.enc have their types, and with *)
(* them every request holds what its next step needs.                      *)
THEOREM StoreTypeCorrect == Spec => []TypeOK
<1>1. StoreInv => TypeOK
  BY DEF StoreInv
<1> QED BY <1>1, StoreInvariant, PTL

(* wallets.enc is whole at every step, also inside an initVault and        *)
(* after a crash, unless two writers have had .tmp open together.          *)
THEOREM WalletsEncIntact == Spec => []File!IntactUnlessOverlapped
<1>1. StoreInv => File!IntactUnlessOverlapped
  BY DEF StoreInv, FP!FileInv, FP!Exclusive, FP!Intact, File!IntactUnlessOverlapped, File!Intact
<1> QED BY <1>1, StoreInvariant, PTL

-----------------------------------------------------------------------------
(* One password for the life of the file.                                  *)

Of(c, k) == c.text # NoVault => c.text.key = k

\* Every envelope in memory, on disk or on its way there is under k.
Keyed(k) ==
  /\ vault # NoVault => vault.key = k
  /\ main # NoInode => Of(content[main], k)
  /\ temp # NoInode => Of(content[temp], k)
  /\ \A r \in Requests :
       /\ writer[r].stage # "idle" => writer[r].text.key = k
       /\ request[r].call = "init" => request[r].key = k
       /\ request[r].call = "unlock" => request[r].read.key = k

\* Before there is a file, nobody is about but the one initVault, whose .tmp is
\* its own.
BeforeFile ==
  main = NoInode => /\ vault = NoVault
                    /\ ~overlapped
                    /\ \A r \in Requests : /\ request[r].call \in {"none", "init"}
                                         /\ writer[r].stage # "done"

KeyInv ==
  ~twoInits =>
    /\ \A r, o \in Requests : request[r].call = "init" /\ request[o].call = "init" => r = o
    /\ BeforeFile
    /\ main # NoInode => \E k \in Passwords : Keyed(k)

(* Where the texts on disk come from: a step leaves an inode, empties it   *)
(* or writes the text of a writer; the file is the inode it was or the one *)
(* .tmp named, and what .tmp names otherwise is empty.                     *)
LEMMA ContentStep ==
  ASSUME FP!FileInv, [File!FileNext]_fileVars
  PROVE  /\ main' \in {main, temp}
         /\ main # NoInode => main' # NoInode
         /\ temp' \in {temp, NoInode} \/ (temp' \in Inodes /\ content'[temp'] = File!Empty)
         /\ \A i \in Inodes :
              \/ content'[i] \in {content[i], File!Empty}
              \/ \E r \in Requests : writer[r].stage # "idle" /\ content'[i].text = writer[r].text
  BY SameFile, StoreFile, FP!ContentStep

(* What a step does to the texts of writers: they are kept, or new ones    *)
(* are of the init or the save that begins.                                *)
LEMMA TextStep ==
  ASSUME StoreInv, Next, NEW o \in Requests, writer'[o].stage # "idle"
  PROVE  \/ writer[o].stage # "idle" /\ writer'[o].text = writer[o].text
         \/ request[o].call = "init" /\ writer'[o].text.key = request[o].key
         \/ vault # NoVault /\ writer'[o].text.key = vault.key
<1>1. FP!FileInv /\ writer \in [Requests -> FP!Writer]
  BY DEF StoreInv, FP!FileInv, FP!FileTypeOK
<1>2. CASE writer'[o] = writer[o]
  BY <1>2
<1>3. ASSUME NEW r \in Requests, InitDerived(r)
      PROVE  \/ writer'[o] = writer[o]
             \/ request[o].call = "init" /\ writer'[o].text.key = request[o].key
  BY <1>1, <1>3 DEF InitDerived, File!BeginWrite
<1>4. ASSUME NEW r \in Requests, NEW w \in Wallets, NEW v \in Current \cup {NoRecord}, Edit(r, w, v)
      PROVE  \/ writer'[o] = writer[o]
             \/ vault # NoVault /\ writer'[o].text.key = vault.key
  <2>1. /\ vault \in Envelope /\ vault # NoVault
        /\ vault' = [vault EXCEPT !.data = [vault.data EXCEPT ![w] = v]]
        /\ writer' = [writer EXCEPT ![r] = [stage |-> "open", text |-> vault', fd |-> NoInode]]
    BY <1>4, EditType DEF StoreInv, File!BeginWrite, Edit
  <2>2. vault'.key = vault.key
    BY <2>1 DEF Envelope
  <2> QED BY <1>1, <2>1, <2>2
<1>5. ASSUME NEW r \in Requests,
             InitDone(r) \/ WriteTempFile(r) \/ RenameIntoPlace(r) \/ SaveDone(r) \/ WriteFailed(r)
      PROVE  writer'[o] = writer[o] \/ (writer[o].stage # "idle" /\ writer'[o].text = writer[o].text)
  BY <1>1, <1>5, WriterStep DEF InitDone, WriteTempFile, RenameIntoPlace, SaveDone, WriteFailed
<1>6. ASSUME NEW r \in Requests, NEW pw \in Passwords, InitCheck(r, pw) \/ UnlockRead(r, pw)
      PROVE  writer' = writer
  BY <1>6 DEF InitCheck, UnlockRead, fileVars
<1>7. ASSUME NEW r \in Requests, UnlockRefused(r) \/ UnlockDone(r)
      PROVE  writer' = writer
  BY <1>7 DEF UnlockRefused, UnlockDone, fileVars
<1>8. ASSUME LockVault
      PROVE  writer' = writer
  BY <1>8 DEF LockVault, fileVars
<1>9. ASSUME Restart
      PROVE  FALSE
  BY <1>9 DEF Restart, File!CrashWriters, File!IdleWriter
<1> QED BY <1>2, <1>3, <1>4, <1>5, <1>6, <1>7, <1>8, <1>9, NextCases

(* And what it does to the open vault and to what requests hold.           *)
LEMMA HeldStep ==
  ASSUME StoreInv, Next, NEW o \in Requests
  PROVE  /\ \/ vault' = NoVault
            \/ vault # NoVault /\ vault'.key = vault.key
            \/ \E r \in Requests : request[r].call = "init" /\ vault'.key = request[r].key
            \/ \E r \in Requests : request[r].call = "unlock" /\ vault'.key = request[r].read.key
         /\ \/ request'[o] = request[o]
            \/ request'[o].call \in {"none", "save"}
            \/ request'[o].call = "unlock" /\ Readable /\ request'[o].read = OnDisk
            \/ \E pw \in Passwords : InitCheck(o, pw)
<1>1. request \in [Requests -> Request]
  BY DEF StoreInv, TypeOK
<1>2. ASSUME NEW r \in Requests, NEW pw \in Passwords, InitCheck(r, pw)
      PROVE  vault' = vault /\ (request'[o] = request[o] \/ o = r)
  BY <1>1, <1>2 DEF InitCheck
<1>3. ASSUME NEW r \in Requests, NEW pw \in Passwords, UnlockRead(r, pw)
      PROVE  /\ vault' = vault
             /\ \/ request'[o] = request[o]
                \/ request'[o].call = "unlock" /\ Readable /\ request'[o].read = OnDisk
  BY <1>1, <1>3 DEF UnlockRead
<1>4. ASSUME NEW r \in Requests,
             InitDerived(r) \/ WriteTempFile(r) \/ RenameIntoPlace(r) \/ SaveDone(r) \/ WriteFailed(r) \/ UnlockRefused(r)
      PROVE  vault' = vault /\ (request'[o] = request[o] \/ request'[o].call = "none")
  BY <1>1, <1>4 DEF InitDerived, WriteTempFile, RenameIntoPlace, SaveDone, WriteFailed, UnlockRefused, NoCall
<1>5. ASSUME NEW r \in Requests, InitDone(r)
      PROVE  /\ request[r].call = "init" /\ vault'.key = request[r].key
             /\ request'[o] = request[o] \/ request'[o].call = "none"
  BY <1>1, <1>5 DEF InitDone, NoCall
<1>6. ASSUME NEW r \in Requests, UnlockDone(r)
      PROVE  /\ request[r].call = "unlock" /\ vault'.key = request[r].read.key
             /\ request'[o] = request[o] \/ request'[o].call = "none"
  BY <1>1, <1>6 DEF UnlockDone, NoCall
<1>7. ASSUME NEW r \in Requests, NEW w \in Wallets, NEW v \in Current \cup {NoRecord}, Edit(r, w, v)
      PROVE  /\ vault # NoVault /\ vault'.key = vault.key
             /\ request'[o] = request[o] \/ request'[o].call = "save"
  <2>1. /\ vault \in Envelope /\ vault # NoVault
        /\ vault' = [vault EXCEPT !.data = [vault.data EXCEPT ![w] = v]]
        /\ request' = [request EXCEPT ![r] = [NoCall EXCEPT !.call = "save"]]
    BY <1>7, EditType DEF StoreInv, Edit
  <2>2. vault'.key = vault.key
    BY <2>1 DEF Envelope
  <2>3. request'[o] = request[o] \/ request'[o].call = "save"
    BY <1>1, <2>1 DEF NoCall
  <2> QED BY <2>1, <2>2, <2>3
<1>8. ASSUME LockVault
      PROVE  vault' = NoVault /\ request' = request
  BY <1>8 DEF LockVault
<1>9. ASSUME Restart
      PROVE  vault' = NoVault /\ request'[o].call = "none"
  BY <1>9 DEF Restart, NoCall
<1> QED BY <1>2, <1>3, <1>4, <1>5, <1>6, <1>7, <1>8, <1>9, NextCases

(* Once there is a file its password spreads to all that follows.          *)
LEMMA KeyedStep ==
  ASSUME StoreInv, [Next]_vars, main # NoInode, NEW k \in Passwords, Keyed(k)
  PROVE  Keyed(k)'
<1>1. CASE UNCHANGED vars
  BY <1>1 DEF vars, fileVars, Keyed, Of
<1>2. CASE Next
  <2>1. FP!FileInv /\ [File!FileNext]_fileVars /\ main \in Inodes
    BY StepOfFile DEF StoreInv, FP!FileInv, FP!FileTypeOK
  <2>2. \A i \in Inodes : Of(content[i], k) => Of(content'[i], k)
    BY <2>1, ContentStep DEF Of, Keyed, File!Empty
  <2>3. temp \in Inodes \cup {NoInode}
    BY DEF StoreInv, FP!FileInv, FP!FileTypeOK
  <2>4. main' # NoInode => Of(content'[main'], k)
    BY <2>1, <2>2, <2>3, ContentStep DEF Keyed
  <2>5. temp' # NoInode => Of(content'[temp'], k)
    BY <2>1, <2>2, <2>3, ContentStep DEF Keyed, Of, File!Empty
  <2>6. \A o \in Requests : writer'[o].stage # "idle" => writer'[o].text.key = k
    BY <1>2, TextStep DEF Keyed
  <2>7. ASSUME NEW o \in Requests
        PROVE  /\ request'[o].call = "init" => request'[o].key = k
               /\ request'[o].call = "unlock" => request'[o].read.key = k
    <3>1. Readable => OnDisk.key = k
      BY StoreAssumption DEF Readable, OnDisk, File!Intact, Keyed, Of
    <3> QED BY <1>2, <3>1, HeldStep DEF Keyed, InitCheck
  <2>8. vault' # NoVault => vault'.key = k
    <3>1. CASE Requests = {}
      BY <1>2, <3>1, NextCases DEF LockVault, Restart
    <3>2. CASE Requests # {}
      BY <1>2, <3>2, HeldStep DEF Keyed
    <3> QED BY <3>1, <3>2
  <2> QED BY <2>4, <2>5, <2>6, <2>7, <2>8 DEF Keyed, Of
<1> QED BY <1>1, <1>2

\* Two initVault calls that are past the existence check together are noticed.
OneInit == \A r, o \in Requests : request[r].call = "init" /\ request[o].call = "init" => r = o

LEMMA OneInitStep ==
  ASSUME StoreInv, OneInit, [Next]_vars, ~twoInits'
  PROVE  ~twoInits /\ OneInit'
<1>1. request \in [Requests -> Request] /\ twoInits \in BOOLEAN
  BY DEF StoreInv, TypeOK
<1>2. ASSUME NEW r \in Requests, NEW pw \in Passwords, InitCheck(r, pw)
      PROVE  ~twoInits /\ OneInit'
  BY <1>1, <1>2 DEF InitCheck, OneInit
<1>3. CASE /\ ~\E r \in Requests, pw \in Passwords : InitCheck(r, pw)
           /\ Next
  <2>1. twoInits' = twoInits
    BY <1>3, NextCases DEF UnlockRead, InitDerived, InitDone, UnlockRefused, UnlockDone, Edit, SaveWith,
       WriteTempFile, RenameIntoPlace, SaveDone, WriteFailed, LockVault, Restart
  <2>2. ASSUME NEW o \in Requests, request'[o].call = "init"
        PROVE  request[o].call = "init"
    BY <1>3, <2>2, HeldStep
  <2> QED BY <2>1, <2>2 DEF OneInit
<1>4. CASE UNCHANGED vars
  BY <1>4 DEF vars, OneInit
<1> QED BY <1>2, <1>3, <1>4

\* While there is no file a step leaves it so or is the rename of the one init.
LEMMA BeforeFileStep ==
  ASSUME StoreInv, OneInit, BeforeFile, [Next]_vars, main = NoInode
  PROVE  IF main' = NoInode THEN BeforeFile' ELSE \E r \in Requests : RenameIntoPlace(r)
<1>1. /\ vault = NoVault /\ ~overlapped
      /\ \A r \in Requests : request[r].call \in {"none", "init"} /\ writer[r].stage # "done"
      /\ \A r \in Requests : writer[r].stage # "idle" => request[r].call = "init"
      /\ request \in [Requests -> Request]
      /\ writer \in [Requests -> FP!Writer]
  BY FreeIsIdle DEF BeforeFile, StoreInv, TypeOK, FP!FileInv, FP!FileTypeOK
<1>2. ASSUME NEW r \in Requests, NEW pw \in Passwords, InitCheck(r, pw)
      PROVE  main' = NoInode /\ BeforeFile'
  BY <1>1, <1>2 DEF InitCheck, BeforeFile, NoCall, fileVars
<1>3. ASSUME NEW r \in Requests, InitDerived(r)
      PROVE  main' = NoInode /\ BeforeFile'
  BY <1>1, <1>3 DEF InitDerived, BeforeFile, File!BeginWrite
<1>4. ASSUME NEW r \in Requests, NEW pw \in Passwords, UnlockRead(r, pw)
      PROVE  FALSE
  BY <1>4 DEF UnlockRead, Readable
<1>5. ASSUME NEW r \in Requests, InitDone(r) \/ SaveDone(r) \/ UnlockRefused(r) \/ UnlockDone(r)
      PROVE  FALSE
  BY <1>1, <1>5 DEF InitDone, SaveDone, UnlockRefused, UnlockDone, File!FinishWrite
<1>6. ASSUME NEW r \in Requests, NEW w \in Wallets, NEW v \in Current \cup {NoRecord}, Edit(r, w, v)
      PROVE  FALSE
  BY <1>1, <1>6 DEF Edit
<1>7. ASSUME NEW r \in Requests, WriteTempFile(r)
      PROVE  main' = NoInode /\ BeforeFile'
  <2>1. vault' = vault /\ request' = request /\ main' = main
    BY <1>7 DEF WriteTempFile, File!OpenTemp, File!WriteTemp
  <2>2. \A o \in Requests : writer'[o].stage # "done"
    BY <1>1, <1>7 DEF WriteTempFile, File!OpenTemp, File!WriteTemp, FP!Writer
  <2>3. \A o \in Requests \ {r} : ~File!Using(o)
    <3>1. request[r].call = "init"
      BY <1>1, <1>7 DEF WriteTempFile, File!OpenTemp, File!WriteTemp
    <3> QED BY <1>1, <3>1 DEF OneInit, File!Using
  <2>4. ~overlapped'
    BY <1>1, <1>7, <2>3 DEF WriteTempFile, File!OpenTemp, File!WriteTemp
  <2> QED BY <1>1, <2>1, <2>2, <2>4 DEF BeforeFile
<1>8. ASSUME NEW r \in Requests, RenameIntoPlace(r)
      PROVE  main' # NoInode
  BY <1>8 DEF RenameIntoPlace, File!RenameTemp
<1>9. ASSUME NEW r \in Requests, WriteFailed(r)
      PROVE  main' = NoInode /\ BeforeFile'
  BY <1>1, <1>9 DEF WriteFailed, BeforeFile, File!FailWrite, File!IdleWriter, NoCall
<1>10. ASSUME Restart
      PROVE  main' = NoInode /\ BeforeFile'
  BY <1>1, <1>10 DEF Restart, BeforeFile, File!CrashWriters, File!IdleWriter, NoCall
<1>11. ASSUME LockVault
      PROVE  FALSE
  BY <1>1, <1>11 DEF LockVault
<1>12. ASSUME UNCHANGED vars
      PROVE  main' = NoInode /\ BeforeFile'
  BY <1>1, <1>12 DEF vars, fileVars, BeforeFile
<1> QED BY <1>2, <1>3, <1>4, <1>5, <1>6, <1>7, <1>8, <1>9, <1>10, <1>11, <1>12, NextCases

\* The rename that makes the file is of the one init's own text.
LEMMA FirstRename ==
  ASSUME StoreInv, OneInit, BeforeFile, main = NoInode, NEW r \in Requests, RenameIntoPlace(r)
  PROVE  \E k \in Passwords : Keyed(k)'
<1>1. /\ writer[r].stage = "rename" /\ request[r].call = "init" /\ ~overlapped
      /\ main' = temp /\ temp # NoInode /\ temp' = NoInode
      /\ content' = [i \in Inodes |-> IF i = main THEN File!Empty ELSE content[i]]
  BY FreeIsIdle DEF BeforeFile, RenameIntoPlace, File!RenameTemp
<1>2. PICK k \in Passwords : request[r].key = k /\ writer[r].text = [key |-> k, data |-> EmptyData]
  BY <1>1 DEF StoreInv, Holding, Writing
<1>3. FP!Holds(r) /\ temp \in Inodes
  BY <1>1 DEF StoreInv, FP!FileInv, FP!FileTypeOK, FP!Exclusive, FP!Using
<1>4. content'[main'].text = writer[r].text
  <2>1. content[temp].text = writer[r].text
    BY <1>1, <1>3 DEF FP!Holds
  <2> QED BY <1>1, <1>3, <2>1, StoreAssumption
<1>5. vault' = NoVault /\ request' = request
  BY DEF BeforeFile, RenameIntoPlace
<1>6. \A o \in Requests \ {r} : request[o].call = "none" /\ writer[o].stage = "idle"
  BY <1>1, FreeIsIdle DEF OneInit, BeforeFile
<1>7. /\ writer'[r].text = writer[r].text
      /\ \A o \in Requests \ {r} : writer'[o] = writer[o]
  BY WriterStep DEF RenameIntoPlace, StoreInv
<1>8. Keyed(k)'
  BY <1>1, <1>2, <1>4, <1>5, <1>6, <1>7 DEF Keyed, Of
<1> QED BY <1>8

LEMMA KeyInvariant == Spec => []KeyInv
<1>1. Init => KeyInv
  <2> SUFFICES ASSUME Init PROVE KeyInv
    OBVIOUS
  <2>1. vault = NoVault /\ ~overlapped /\ temp = NoInode
    BY DEF Init, File!FileInit
  <2>2. \A r \in Requests : request[r].call = "none" /\ writer[r].stage = "idle"
    BY DEF Init, File!FileInit, NoCall, File!IdleWriter
  <2>3. ASSUME main # NoInode
        PROVE  \E k \in Passwords : Keyed(k)
    <3>1. PICK e \in Envelope, i \in Inodes :
            main = i /\ content = [j \in Inodes |-> IF j = i THEN [text |-> e, length |-> EnvelopeSize[e]]
                                                    ELSE File!Empty]
      BY <2>3 DEF Init, File!FileInit
    <3>2. content[main].text = e /\ e.key \in Passwords
      BY <3>1 DEF Envelope
    <3> QED BY <2>1, <2>2, <3>2 DEF Keyed, Of
  <2> QED BY <2>1, <2>2, <2>3 DEF KeyInv, BeforeFile
<1>2. StoreInv /\ KeyInv /\ [Next]_vars => KeyInv'
  <2> SUFFICES ASSUME StoreInv, KeyInv, [Next]_vars, ~twoInits'
               PROVE  OneInit' /\ BeforeFile' /\ (main' # NoInode => \E k \in Passwords : Keyed(k)')
    BY DEF KeyInv, OneInit
  <2>1. twoInits \in BOOLEAN
    BY DEF StoreInv, TypeOK
  <2>2. ~twoInits
    BY DEF vars, Next, InitCheck, UnlockRead, InitDerived, InitDone, UnlockRefused, UnlockDone, AddWallet,
       UpdateWallet, DeleteWallet, SaveWith, WriteTempFile, RenameIntoPlace, SaveDone, WriteFailed, LockVault, Restart
  <2>3. OneInit /\ BeforeFile /\ (main # NoInode => \E k \in Passwords : Keyed(k))
    BY <2>2 DEF KeyInv, OneInit
  <2>4. OneInit'
    BY <2>3, OneInitStep
  <2>5. CASE main = NoInode
    BY <2>3, <2>4, <2>5, BeforeFileStep, FirstRename DEF BeforeFile
  <2>6. CASE main # NoInode
    <3>1. PICK k \in Passwords : Keyed(k)
      BY <2>3, <2>6
    <3>2. Keyed(k)'
      BY <2>6, <3>1, KeyedStep
    <3>3. main' # NoInode
      BY <2>6, StepOfFile, ContentStep DEF StoreInv
    <3> QED BY <2>4, <3>2, <3>3 DEF BeforeFile
  <2> QED BY <2>5, <2>6
<1> QED BY <1>1, <1>2, StoreInvariant, PTL DEF Spec

(* A vault is never re-keyed, by no interleaving of saves, unlocks,        *)
(* failures and crashes, unless two initVault calls were past the          *)
(* existence check together.                                               *)
THEOREM StorePasswordStable == Spec => PasswordStable
<1>1. StoreInv /\ KeyInv /\ [Next]_vars =>
        [~twoInits' /\ OnDisk # NoVault /\ OnDisk' # NoVault => OnDisk'.key = OnDisk.key]_vars
  <2> SUFFICES ASSUME StoreInv, KeyInv, Next, ~twoInits', OnDisk # NoVault, OnDisk' # NoVault
               PROVE  OnDisk'.key = OnDisk.key
    OBVIOUS
  <2>1. ~twoInits
    BY DEF Next, InitCheck, UnlockRead, InitDerived, InitDone, UnlockRefused, UnlockDone, AddWallet,
       UpdateWallet, DeleteWallet, SaveWith, WriteTempFile, RenameIntoPlace, SaveDone, WriteFailed, LockVault, Restart
  <2>2. /\ main # NoInode /\ OnDisk = content[main].text
        /\ main' # NoInode /\ OnDisk' = content'[main'].text
    BY DEF OnDisk, Readable
  <2>3. PICK k \in Passwords : Keyed(k)
    BY <2>1, <2>2 DEF KeyInv
  <2>4. Keyed(k)'
    BY <2>2, <2>3, KeyedStep
  <2> QED BY <2>2, <2>3, <2>4 DEF Keyed, Of
<1> QED BY <1>1, StoreInvariant, KeyInvariant, PTL DEF Spec, PasswordStable

-----------------------------------------------------------------------------
(* The open vault and the file.                                            *)

\* An init has renamed its envelope and not yet opened the vault.
Landed(r) == r \in Requests /\ request[r].call = "init" /\ writer[r].stage = "done"

\* The open vault is what an unlock would make of the file.
UpToDate ==
  /\ main # NoInode
  /\ vault = [key |-> content[main].text.key, data |-> Upgrade(content[main].text.data)]

\* The records of an open vault are of the forms this version writes.
CurrentForms == vault # NoVault => \A w \in Wallets : vault.data[w] \in Current \cup {NoRecord}

\* A save that is not yet in place carries the open vault.
Pending ==
  lastSave.fate = "pending" =>
    /\ lastSave.by \in Requests
    /\ request[lastSave.by].call = "save" /\ vault # NoVault => vault = writer[lastSave.by].text

\* One that is in place has left a file, and it is up to date; an init in place
\* has left its text, and the vault is opened next.
InPlace ==
  lastSave.fate = "stored" =>
    /\ lastSave.by # NoVault => main # NoInode
    /\ ~overlapped => IF Landed(lastSave.by)
                      THEN main # NoInode /\ content[main].text = writer[lastSave.by].text
                      ELSE vault # NoVault => UpToDate

SyncInv == CurrentForms /\ Pending /\ InPlace

(* Records of current forms are not changed by an upgrade.                 *)
LEMMA UpgradeCurrent ==
  ASSUME NEW data \in Data, \A w \in Wallets : data[w] \in Current \cup {NoRecord}
  PROVE  Upgrade(data) = data
  BY StoreAssumption DEF Upgrade, Data

(* What a reader finds changes by a rename only, and a rename puts its own *)
(* writer's text there.                                                    *)
LEMMA FileKept ==
  ASSUME FP!FileInv, [File!FileNext]_fileVars, ~overlapped', main # NoInode,
         \A r \in Requests : ~File!RenameTemp(r)
  PROVE  ~overlapped /\ main' = main /\ content'[main] = content[main]
  BY SameFile, StoreFile, FP!FileKept

LEMMA FileReplaced ==
  ASSUME FP!FileInv, ~overlapped, NEW r \in Requests, File!RenameTemp(r)
  PROVE  main' # NoInode /\ content'[main'].text = writer[r].text /\ writer[r].text \in Envelope
  BY SameFile, StoreFile, FP!FileReplaced

\* A step that renames nothing, and leaves the vault, the newest save and who
\* has landed as they are, leaves what is said of them.
LEMMA SyncKept ==
  ASSUME StoreInv, SyncInv, [Next]_vars, UNCHANGED <<vault, lastSave>>,
         \A r \in Requests : ~File!RenameTemp(r),
         lastSave.fate = "pending" /\ request'[lastSave.by].call = "save" =>
           request[lastSave.by].call = "save" /\ writer'[lastSave.by].text = writer[lastSave.by].text,
         lastSave.fate = "stored" =>
           /\ Landed(lastSave.by)' <=> Landed(lastSave.by)
           /\ Landed(lastSave.by) => writer'[lastSave.by].text = writer[lastSave.by].text
  PROVE  SyncInv'
<1>1. FP!FileInv /\ [File!FileNext]_fileVars
  BY StepOfFile DEF StoreInv
<1>2. main # NoInode => main' # NoInode
  BY <1>1, ContentStep
<1>3. ~overlapped' /\ main # NoInode => ~overlapped /\ main' = main /\ content'[main] = content[main]
  BY <1>1, FileKept
<1>4. CurrentForms'
  BY DEF SyncInv, CurrentForms
<1>5. Pending'
  BY DEF SyncInv, Pending
<1>6. overlapped => overlapped'
  BY <1>1, SameFile, StoreFile, FP!OverlapStays
<1>7. InPlace'
  <2> SUFFICES ASSUME lastSave.fate = "stored"
               PROVE  /\ lastSave.by # NoVault => main' # NoInode
                      /\ ~overlapped' => IF Landed(lastSave.by)'
                                         THEN main' # NoInode /\ content'[main'].text = writer'[lastSave.by].text
                                         ELSE vault # NoVault => UpToDate'
    BY DEF InPlace
  <2>1. lastSave.by # NoVault => main' # NoInode
    BY <1>2 DEF SyncInv, InPlace
  <2>2. CASE ~overlapped' /\ Landed(lastSave.by)
    BY <1>3, <1>6, <2>2 DEF SyncInv, InPlace
  <2>3. CASE ~overlapped' /\ ~Landed(lastSave.by) /\ vault # NoVault
    <3>1. UpToDate
      BY <1>6, <2>3 DEF SyncInv, InPlace
    <3> QED BY <1>3, <3>1, <2>3 DEF UpToDate
  <2> QED BY <2>1, <2>2, <2>3
<1> QED BY <1>4, <1>5, <1>7 DEF SyncInv

(* The rename of the newest save puts the open vault in place.             *)
LEMMA SyncRename ==
  ASSUME StoreInv, SyncInv, NEW r \in Requests, RenameIntoPlace(r)
  PROVE  SyncInv'
<1>1. /\ File!RenameTemp(r) /\ UNCHANGED <<vault, request>> /\ overlapped' = overlapped
      /\ writer[r].stage = "rename"
      /\ FP!FileInv /\ writer \in [Requests -> FP!Writer]
      /\ writer' = [writer EXCEPT ![r].stage = "done", ![r].fd = NoInode]
  BY DEF RenameIntoPlace, File!RenameTemp, StoreInv, FP!FileInv, FP!FileTypeOK
<1>2. \A o \in Requests : writer'[o].text = writer[o].text
  BY <1>1 DEF FP!Writer
<1>3. CurrentForms'
  BY <1>1 DEF SyncInv, CurrentForms
<1>4. lastSave \in LastSave /\ vault \in Envelope \cup {NoVault}
  BY DEF StoreInv, TypeOK
<1>5. CASE lastSave.by = r /\ lastSave.fate = "pending"
  <2>1. lastSave'.by = r /\ lastSave'.fate = "stored"
    BY <1>4, <1>5 DEF RenameIntoPlace, LastSave
  <2>2. Pending'
    BY <2>1 DEF Pending
  <2>3. ASSUME ~overlapped'
        PROVE  IF Landed(r)' THEN main' # NoInode /\ content'[main'].text = writer'[r].text
                             ELSE vault' # NoVault => UpToDate'
    <3>1. main' # NoInode /\ content'[main'].text = writer[r].text
      BY <1>1, <2>3, FileReplaced
    <3>2. CASE request[r].call = "init"
      BY <1>1, <1>2, <3>1, <3>2 DEF Landed, FP!Writer
    <3>3. CASE request[r].call # "init" /\ vault # NoVault
      <4>1. request[r].call = "save"
        BY <1>1, <3>3 DEF StoreInv, Writing
      <4>2. vault = writer[r].text
        BY <1>5, <3>3, <4>1 DEF SyncInv, Pending
      <4>3. vault.data \in Data /\ Upgrade(vault.data) = vault.data
        BY <1>4, <3>3, UpgradeCurrent DEF SyncInv, CurrentForms, Envelope
      <4> QED BY <1>1, <1>4, <3>1, <3>3, <4>2, <4>3 DEF UpToDate, Landed, Envelope
    <3> QED BY <1>1, <3>2, <3>3 DEF Landed
  <2>4. main' # NoInode
    BY <1>1 DEF File!RenameTemp
  <2>5. InPlace'
    BY <2>1, <2>3, <2>4 DEF InPlace
  <2> QED BY <1>3, <2>2, <2>5 DEF SyncInv
<1>6. CASE lastSave.fate = "stored"
  <2>1. lastSave'.fate = "overwritten"
    BY <1>4, <1>6 DEF RenameIntoPlace, LastSave
  <2> QED BY <1>3, <2>1 DEF SyncInv, Pending, InPlace
<1>7. CASE ~(lastSave.by = r /\ lastSave.fate = "pending") /\ lastSave.fate # "stored"
  <2>1. lastSave' = lastSave
    BY <1>7 DEF RenameIntoPlace
  <2>2. Pending'
    BY <1>1, <1>2, <2>1 DEF SyncInv, Pending
  <2> QED BY <1>3, <1>7, <2>1, <2>2 DEF SyncInv, InPlace
<1> QED BY <1>5, <1>6, <1>7

(* An initVault opens the vault it has put in place, or one that some      *)
(* other save has since replaced on disk.                                  *)
LEMMA SyncInitDone ==
  ASSUME StoreInv, SyncInv, NEW r \in Requests, InitDone(r)
  PROVE  SyncInv'
<1>1. /\ request[r].call = "init" /\ writer[r].stage = "done"
      /\ request' = [request EXCEPT ![r] = NoCall] /\ request \in [Requests -> Request]
      /\ vault' = [key |-> request[r].key, data |-> EmptyData]
      /\ UNCHANGED <<main, content, overlapped>>
  BY DEF InitDone, File!FinishWrite, StoreInv, TypeOK
<1>2. CurrentForms'
  BY <1>1 DEF CurrentForms, EmptyData
<1>3. lastSave \in LastSave
  BY DEF StoreInv, TypeOK
<1>4. CASE lastSave.by # r
  <2>1. lastSave'.fate = "superseded"
    BY <1>3, <1>4 DEF InitDone, LastSave
  <2> QED BY <1>2, <2>1 DEF SyncInv, Pending, InPlace
<1>5. CASE lastSave.by = r
  <2>1. lastSave' = lastSave /\ request'[r].call = "none"
    BY <1>1, <1>5 DEF InitDone, NoCall
  <2>2. Pending'
    BY <1>5, <2>1 DEF Pending
  <2>3. ASSUME lastSave.fate = "stored", ~overlapped
        PROVE  UpToDate'
    <3>1. main # NoInode /\ content[main].text = writer[r].text
      BY <1>1, <1>5, <2>3 DEF SyncInv, InPlace, Landed
    <3>2. writer[r].text = [key |-> request[r].key, data |-> EmptyData]
      BY <1>1 DEF StoreInv, Writing
    <3>3. Upgrade(EmptyData) = EmptyData
      BY DEF Upgrade, EmptyData
    <3> QED BY <1>1, <3>1, <3>2, <3>3 DEF UpToDate
  <2>4. lastSave.fate = "stored" => main # NoInode
    BY <1>5, StoreAssumption DEF SyncInv, InPlace
  <2>5. InPlace'
    BY <1>1, <1>5, <2>1, <2>3, <2>4 DEF InPlace, Landed
  <2> QED BY <1>2, <2>2, <2>5 DEF SyncInv
<1> QED BY <1>4, <1>5

(* An unlock opens what the file holds, if nothing else is on its way.     *)
LEMMA SyncUnlock ==
  ASSUME StoreInv, NEW r \in Requests, UnlockDone(r)
  PROVE  SyncInv'
<1>1. /\ request[r].read.key = request[r].key /\ request[r].read \in Envelope
      /\ vault' = [key |-> request[r].key, data |-> Upgrade(request[r].read.data)]
      /\ UNCHANGED <<main, content>>
  BY DEF UnlockDone, StoreInv, Holding, fileVars
<1>2. CurrentForms'
  BY <1>1, UpgradeIsData DEF CurrentForms, Envelope
<1>3. CASE request[r].read # OnDisk \/ \E o \in Requests : Underway(o)
  <2>1. lastSave'.fate = "superseded"
    BY <1>3 DEF UnlockDone
  <2> QED BY <1>2, <2>1 DEF SyncInv, Pending, InPlace
<1>4. CASE request[r].read = OnDisk /\ \A o \in Requests : ~Underway(o)
  <2>1. lastSave'.by = NoVault /\ lastSave'.fate = "stored"
    BY <1>4 DEF UnlockDone, InStep
  <2>2. main # NoInode /\ OnDisk = content[main].text
    BY <1>1, <1>4, StoreFile DEF OnDisk, Readable, FP!FileAssumption
  <2>3. UpToDate'
    BY <1>1, <1>4, <2>2 DEF UpToDate
  <2>4. ~Landed(NoVault)'
    BY StoreAssumption DEF Landed
  <2> QED BY <1>2, <2>1, <2>3, <2>4 DEF SyncInv, Pending, InPlace
<1> QED BY <1>3, <1>4

(* So the open vault and the file stay in step.                            *)
LEMMA SyncStep == StoreInv /\ SyncInv /\ [Next]_vars => SyncInv'
<1> SUFFICES ASSUME StoreInv, SyncInv, [Next]_vars PROVE SyncInv'
  OBVIOUS
<1>1. /\ request \in [Requests -> Request] /\ writer \in [Requests -> FP!Writer]
      /\ vault \in Envelope \cup {NoVault} /\ lastSave \in LastSave
  BY DEF StoreInv, TypeOK, FP!FileInv, FP!FileTypeOK
<1>2. ASSUME UNCHANGED fileVars
      PROVE  \A r \in Requests : ~File!RenameTemp(r)
  BY <1>2 DEF fileVars, File!RenameTemp
<1>3. ASSUME NEW r \in Requests, NEW pw \in Passwords, InitCheck(r, pw)
      PROVE  SyncInv'
  <2>1. /\ main = NoInode /\ UNCHANGED <<vault, lastSave, fileVars>>
        /\ request'[r].call = "init" /\ \A o \in Requests \ {r} : request'[o] = request[o]
    BY <1>1, <1>3 DEF InitCheck, NoCall
  <2>2. lastSave.fate = "stored" => lastSave.by # r
    BY <2>1, StoreAssumption DEF SyncInv, InPlace
  <2> QED BY <1>2, <2>1, <2>2, SyncKept DEF Landed, fileVars, SyncInv, Pending
<1>4. ASSUME NEW r \in Requests, NEW pw \in Passwords, UnlockRead(r, pw)
      PROVE  SyncInv'
  <2>1. /\ UNCHANGED <<vault, lastSave, fileVars>> /\ request[r].call = "none"
        /\ request'[r].call = "unlock" /\ \A o \in Requests \ {r} : request'[o] = request[o]
    BY <1>1, <1>4 DEF UnlockRead, NoCall, InFlight
  <2> QED BY <1>2, <2>1, SyncKept DEF Landed, fileVars, SyncInv, Pending
<1>5. ASSUME NEW r \in Requests, UnlockRefused(r)
      PROVE  SyncInv'
  <2>1. /\ UNCHANGED <<vault, lastSave, fileVars>> /\ request[r].call = "unlock"
        /\ request'[r].call = "none" /\ \A o \in Requests \ {r} : request'[o] = request[o]
    BY <1>1, <1>5 DEF UnlockRefused, NoCall
  <2> QED BY <1>2, <2>1, SyncKept DEF Landed, fileVars, SyncInv, Pending
<1>6. ASSUME NEW r \in Requests, WriteTempFile(r)
      PROVE  SyncInv'
  <2>1. /\ UNCHANGED <<vault, request, lastSave>>
        /\ writer[r].stage \in {"open", "write"} /\ writer'[r].stage \in {"write", "rename"}
        /\ \A o \in Requests \ {r} : writer'[o] = writer[o]
    BY <1>1, <1>6 DEF WriteTempFile, File!OpenTemp, File!WriteTemp, FP!Writer
  <2>2. \A o \in Requests : writer'[o].text = writer[o].text
    BY <1>6, <2>1, WriterStep DEF WriteTempFile, StoreInv
  <2>3. \A o \in Requests : ~File!RenameTemp(o)
    BY <1>1, <2>1 DEF File!RenameTemp, FP!Writer
  <2> QED BY <2>1, <2>2, <2>3, SyncKept DEF Landed, SyncInv, Pending
<1>7. ASSUME NEW r \in Requests, SaveDone(r)
      PROVE  SyncInv'
  <2>1. /\ UNCHANGED <<vault, lastSave, main>> /\ request[r].call = "save"
        /\ request'[r].call = "none" /\ \A o \in Requests \ {r} : request'[o] = request[o]
        /\ writer'[r].stage = "idle" /\ \A o \in Requests \ {r} : writer'[o] = writer[o]
    BY <1>1, <1>7 DEF SaveDone, NoCall, File!FinishWrite, File!IdleWriter
  <2>2. \A o \in Requests : ~File!RenameTemp(o)
    BY <1>1, <1>7, <2>1 DEF SaveDone, File!FinishWrite, File!RenameTemp, FP!Writer
  <2> QED BY <2>1, <2>2, SyncKept DEF Landed, SyncInv, Pending
<1>8. ASSUME NEW r \in Requests, WriteFailed(r)
      PROVE  SyncInv'
  <2>1. /\ vault' = vault /\ writer[r].stage # "done"
        /\ request'[r].call = "none" /\ \A o \in Requests \ {r} : request'[o] = request[o]
        /\ writer'[r].stage = "idle" /\ \A o \in Requests \ {r} : writer'[o] = writer[o]
    BY <1>1, <1>8 DEF WriteFailed, NoCall, File!FailWrite, File!IdleWriter
  <2>2. \A o \in Requests : ~File!RenameTemp(o)
    BY <1>1, <1>8, <2>1 DEF WriteFailed, File!FailWrite, File!RenameTemp, FP!Writer
  <2>3. CASE lastSave' = lastSave
    BY <2>1, <2>2, <2>3, SyncKept DEF Landed, SyncInv, Pending
  <2>4. CASE lastSave' = [lastSave EXCEPT !.fate = "failed"]
    <3>1. lastSave'.fate = "failed"
      BY <1>1, <2>4 DEF LastSave
    <3> QED BY <2>1, <3>1 DEF SyncInv, CurrentForms, Pending, InPlace
  <2> QED BY <1>8, <2>3, <2>4 DEF WriteFailed
<1>9. ASSUME NEW r \in Requests, InitDerived(r)
      PROVE  SyncInv'
  <2>1. vault' = vault /\ request'[r].call = "init" /\ lastSave'.by = r /\ lastSave'.fate = "pending"
    BY <1>9 DEF InitDerived
  <2> QED BY <2>1 DEF SyncInv, CurrentForms, Pending, InPlace
<1>10. ASSUME NEW r \in Requests, NEW w \in Wallets, NEW v \in Current \cup {NoRecord}, Edit(r, w, v)
       PROVE  SyncInv'
  <2>1. /\ vault \in Envelope /\ vault # NoVault
        /\ vault' = [vault EXCEPT !.data = [vault.data EXCEPT ![w] = v]]
        /\ writer'[r].text = vault'
        /\ lastSave'.by = r /\ lastSave'.fate = "pending"
    BY <1>1, <1>10, EditType DEF StoreInv, Edit, File!BeginWrite
  <2>2. \A x \in Wallets : vault'.data[x] \in Current \cup {NoRecord}
    BY <2>1 DEF SyncInv, CurrentForms, Envelope, Data
  <2> QED BY <2>1, <2>2 DEF SyncInv, CurrentForms, Pending, InPlace
<1>11. ASSUME LockVault
       PROVE  SyncInv'
  <2>1. vault' = NoVault /\ UNCHANGED <<request, lastSave, fileVars>>
    BY <1>11 DEF LockVault
  <2> QED BY <2>1 DEF SyncInv, CurrentForms, Pending, InPlace, Landed, fileVars
<1>12. ASSUME Restart
       PROVE  SyncInv'
  <2>1. vault' = NoVault /\ lastSave'.by = NoVault /\ lastSave'.fate = "stored"
    BY <1>12 DEF Restart, InStep
  <2> QED BY <2>1, StoreAssumption DEF SyncInv, CurrentForms, Pending, InPlace, Landed
<1>13. ASSUME UNCHANGED vars
       PROVE  SyncInv'
  BY <1>13 DEF vars, fileVars, SyncInv, CurrentForms, Pending, InPlace, Landed, UpToDate
<1> QED BY <1>3, <1>4, <1>5, <1>6, <1>7, <1>8, <1>9, <1>10, <1>11, <1>12, <1>13,
           SyncInitDone, SyncUnlock, SyncRename, NextCases

LEMMA SyncInvariant == Spec => []SyncInv
<1>1. Init => SyncInv
  <2> SUFFICES ASSUME Init PROVE SyncInv
    OBVIOUS
  <2>1. vault = NoVault /\ lastSave.by = NoVault /\ lastSave.fate = "stored"
    BY DEF Init, InStep
  <2> QED BY <2>1, StoreAssumption DEF SyncInv, CurrentForms, Pending, InPlace, Landed
<1> QED BY <1>1, SyncStep, StoreInvariant, PTL DEF Spec

(* Once the newest save is in place the open vault is exactly what a       *)
(* restart would find, with any number of saves, unlocks, locks and        *)
(* failures in flight: what can part the two is one of the four fates of   *)
(* lastSave, or a shared .tmp, and nothing else.                           *)
THEOREM StoreOpenVaultIsStored == Spec => []OpenVaultIsStored
<1>1. StoreInv /\ SyncInv => OpenVaultIsStored
  <2> SUFFICES ASSUME StoreInv, SyncInv, ~overlapped, lastSave.fate = "stored", vault # NoVault, ~InitLanding
               PROVE  Readable /\ vault = [key |-> OnDisk.key, data |-> Upgrade(OnDisk.data)]
    BY DEF OpenVaultIsStored
  <2>1. UpToDate
    BY DEF SyncInv, InPlace, Landed, InitLanding
  <2>2. Readable
    BY <2>1 DEF UpToDate, Readable, StoreInv, FP!FileInv, FP!Exclusive, FP!Intact, File!Intact
  <2> QED BY <2>1, <2>2 DEF UpToDate, OnDisk
<1> QED BY <1>1, StoreInvariant, SyncInvariant, PTL

-----------------------------------------------------------------------------
(* One client that waits for each answer before it asks again.             *)
Alone == \A r, s \in Requests : r = s

\* Nobody shares .tmp with the one request, and what it has read or put in
\* place is what the file holds.
AloneInv ==
  /\ ~overlapped
  /\ \A r \in Requests :
       /\ request[r].call = "init" /\ writer[r].stage # "done" => main = NoInode
       /\ request[r].call = "unlock" => main # NoInode /\ content[main].text = request[r].read
       /\ writer[r].stage = "done" => main # NoInode /\ content[main].text = writer[r].text

(* The file is not touched but by a rename.                                *)
LEMMA MainKept ==
  ASSUME [File!FileNext]_fileVars, \A r \in Requests : ~File!RenameTemp(r)
  PROVE  main' = main
  BY SameFile, StoreFile, FP!MainKept

(* One request alone never finds another one in .tmp.                      *)
LEMMA AloneOverlap ==
  ASSUME Alone, ~overlapped, [File!FileNext]_fileVars
  PROVE  ~overlapped'
<1>1. \A r \in Requests : Requests \ {r} = {}
  BY DEF Alone
<1> QED BY <1>1 DEF fileVars, File!FileNext, File!BeginWrite, File!OpenTemp, File!WriteTemp,
           File!RenameTemp, File!FinishWrite, File!FailWrite, File!CrashWriters

(* The one request's steps keep that.                                      *)
LEMMA AloneStep ==
  ASSUME Alone
  PROVE  StoreInv /\ AloneInv /\ [Next]_vars => AloneInv'
<1> SUFFICES ASSUME StoreInv, AloneInv, [Next]_vars PROVE AloneInv'
  OBVIOUS
<1>1. /\ request \in [Requests -> Request] /\ writer \in [Requests -> FP!Writer] /\ FP!FileInv
      /\ [File!FileNext]_fileVars
  BY StepOfFile DEF StoreInv, TypeOK, FP!FileInv, FP!FileTypeOK
<1>2. ~overlapped /\ ~overlapped'
  BY <1>1, AloneOverlap DEF AloneInv
<1>3. ASSUME NEW r \in Requests,
             request'[r].call = "init" /\ writer'[r].stage # "done" => main' = NoInode,
             request'[r].call = "unlock" => main' # NoInode /\ content'[main'].text = request'[r].read,
             writer'[r].stage = "done" => main' # NoInode /\ content'[main'].text = writer'[r].text
      PROVE  AloneInv'
  <2>1. \A o \in Requests : o = r
    BY DEF Alone
  <2> QED BY <1>2, <1>3, <2>1 DEF AloneInv
<1>4. ASSUME NEW r \in Requests, NEW pw \in Passwords, InitCheck(r, pw)
      PROVE  AloneInv'
  <2>1. main' = NoInode /\ request'[r].call = "init" /\ writer'[r].stage = "idle"
    BY <1>1, <1>4, FreeIsIdle DEF InitCheck, NoCall, InFlight, fileVars
  <2> QED BY <1>3, <2>1
<1>5. ASSUME NEW r \in Requests, NEW pw \in Passwords, UnlockRead(r, pw)
      PROVE  AloneInv'
  <2>1. /\ main' # NoInode /\ request'[r].call = "unlock" /\ request'[r].read = OnDisk
        /\ OnDisk = content'[main'].text /\ writer'[r].stage = "idle"
    BY <1>1, <1>5, FreeIsIdle DEF UnlockRead, NoCall, InFlight, fileVars, Readable, OnDisk
  <2> QED BY <1>3, <2>1
<1>6. ASSUME NEW r \in Requests, UnlockRefused(r) \/ UnlockDone(r) \/ InitDone(r) \/ SaveDone(r) \/ WriteFailed(r)
      PROVE  AloneInv'
  <2>1. request'[r].call = "none"
    BY <1>1, <1>6 DEF UnlockRefused, UnlockDone, InitDone, SaveDone, WriteFailed, NoCall
  <2>2. CASE UnlockRefused(r) \/ UnlockDone(r)
    <3>1. writer'[r].stage = "idle"
      BY <2>2, FreeIsIdle DEF UnlockRefused, UnlockDone, fileVars
    <3> QED BY <1>3, <2>1, <3>1
  <2>3. CASE InitDone(r) \/ SaveDone(r) \/ WriteFailed(r)
    <3>1. writer'[r].stage = "idle"
      BY <1>1, <2>3, WriterStep DEF InitDone, SaveDone, WriteFailed
    <3> QED BY <1>3, <2>1, <3>1
  <2> QED BY <1>6, <2>2, <2>3
<1>7. ASSUME NEW r \in Requests, InitDerived(r)
      PROVE  AloneInv'
  <2>1. request' = request /\ main' = main /\ request[r].call = "init" /\ writer[r].stage = "idle" /\ writer'[r].stage = "open"
    BY <1>1, <1>7 DEF InitDerived, File!BeginWrite, File!IdleWriter
  <2> QED BY <1>3, <2>1 DEF AloneInv
<1>8. ASSUME NEW r \in Requests, NEW w \in Wallets, NEW v \in Current \cup {NoRecord}, Edit(r, w, v)
      PROVE  AloneInv'
  <2>1. request'[r].call = "save" /\ writer'[r].stage = "open"
    BY <1>1, <1>8, EditType DEF StoreInv, File!BeginWrite, NoCall
  <2> QED BY <1>3, <2>1
<1>9. ASSUME NEW r \in Requests, WriteTempFile(r)
      PROVE  AloneInv'
  <2>1. /\ request' = request /\ main' = main
        /\ writer[r].stage \in {"open", "write"} /\ writer'[r].stage \in {"write", "rename"}
    BY <1>1, <1>9 DEF WriteTempFile, File!OpenTemp, File!WriteTemp, FP!Writer
  <2>2. request[r].call # "unlock"
    BY <2>1, FreeIsIdle
  <2> QED BY <1>3, <2>1, <2>2 DEF AloneInv
<1>10. ASSUME NEW r \in Requests, RenameIntoPlace(r)
       PROVE  AloneInv'
  <2>1. /\ request' = request /\ File!RenameTemp(r)
        /\ writer[r].stage = "rename" /\ writer'[r].stage = "done" /\ writer'[r].text = writer[r].text
    BY <1>1, <1>10 DEF RenameIntoPlace, File!RenameTemp, FP!Writer
  <2>2. request[r].call # "unlock"
    BY <2>1, FreeIsIdle
  <2>3. main' # NoInode /\ content'[main'].text = writer[r].text
    BY <1>1, <1>2, <2>1, FileReplaced
  <2> QED BY <1>3, <2>1, <2>2, <2>3
<1>11. ASSUME Restart
       PROVE  AloneInv'
  <2>1. \A r \in Requests : request'[r].call = "none" /\ writer'[r].stage = "idle"
    BY <1>11 DEF Restart, NoCall, File!CrashWriters, File!IdleWriter
  <2> QED BY <1>2, <2>1 DEF AloneInv
<1>12. ASSUME LockVault \/ UNCHANGED vars
       PROVE  AloneInv'
  BY <1>12 DEF LockVault, vars, fileVars, AloneInv
<1> QED BY <1>4, <1>5, <1>6, <1>7, <1>8, <1>9, <1>10, <1>11, <1>12, NextCases

LEMMA AloneInvariant ==
  ASSUME Alone
  PROVE  Spec => []AloneInv
<1>1. Init => AloneInv
  BY DEF Init, File!FileInit, AloneInv, NoCall, File!IdleWriter
<1>2. StoreInv /\ AloneInv /\ [Next]_vars => AloneInv'
  BY AloneStep
<1> QED BY <1>1, <1>2, StoreInvariant, PTL DEF Spec

(* With one client at a time a wallets.enc that is there can be read:      *)
(* after every answer, and after every restart, wherever in the write the  *)
(* process was killed.                                                     *)
THEOREM AloneWalletsEncPersists ==
  ASSUME Alone
  PROVE  Spec => []WalletsEncPersists
<1>1. StoreInv /\ AloneInv => WalletsEncPersists
  BY DEF StoreInv, FP!FileInv, FP!Exclusive, FP!Intact, File!Intact, AloneInv, WalletsEncPersists, Readable
<1> QED BY <1>1, StoreInvariant, AloneInvariant, PTL

-----------------------------------------------------------------------------
(* The refinement of VaultDurable.                                         *)

\* What a reader finds, when no two writers have shared .tmp.
LEMMA Disk ==
  ASSUME FP!FileInv, ~overlapped
  PROVE  /\ main # NoInode => OnDisk = content[main].text /\ OnDisk \in Envelope
         /\ main = NoInode => OnDisk = NoVault
<1>1. main # NoInode => Readable
  BY DEF FP!FileInv, FP!Exclusive, FP!Intact, File!Intact, Readable
<1> QED BY <1>1, OnDiskType DEF OnDisk, Readable

\* The same of the state after a step.
LEMMA DiskNext ==
  ASSUME FP!FileInv', ~overlapped'
  PROVE  /\ main' # NoInode => OnDisk' = content'[main'].text
         /\ main' = NoInode => OnDisk' = NoVault
  BY DEF FP!FileInv, FP!Exclusive, FP!Intact, File!Intact, Readable, OnDisk

\* The change in hand is the one request's, while it is in the procedure.
LEMMA ChangeOf ==
  ASSUME Alone, NEW r \in Requests
  PROVE  Change = IF writer[r].stage # "idle"
                  THEN [stage |-> IF writer[r].stage = "done" THEN "stored" ELSE "asked",
                        creates |-> request[r].call = "init",
                        envelope |-> writer[r].text]
                  ELSE Durable!NoChange
<1>1. \A o \in Requests : o = r
  BY DEF Alone
<1>2. CASE writer[r].stage # "idle"
  <2>1. (CHOOSE q \in Requests : writer[q].stage # "idle") = r
    BY <1>1, <1>2
  <2> QED BY <1>2, <2>1 DEF Change
<1>3. CASE writer[r].stage = "idle"
  BY <1>1, <1>3 DEF Change, Durable!NoChange
<1> QED BY <1>2, <1>3

LEMMA ChangeOfNext ==
  ASSUME Alone, NEW r \in Requests
  PROVE  Change' = IF writer'[r].stage # "idle"
                   THEN [stage |-> IF writer'[r].stage = "done" THEN "stored" ELSE "asked",
                         creates |-> request'[r].call = "init",
                         envelope |-> writer'[r].text]
                   ELSE Durable!NoChange
<1>1. \A o \in Requests : o = r
  BY DEF Alone
<1>2. CASE writer'[r].stage # "idle"
  <2>1. (CHOOSE q \in Requests : writer'[q].stage # "idle") = r
    BY <1>1, <1>2
  <2> QED BY <1>2, <2>1 DEF Change
<1>3. CASE writer'[r].stage = "idle"
  BY <1>1, <1>3 DEF Change, Durable!NoChange
<1> QED BY <1>2, <1>3

(* Every step of the one request is a step of VaultDurable, or none.       *)
LEMMA DurableStep ==
  ASSUME Alone
  PROVE  StoreInv /\ StoreInv' /\ AloneInv /\ AloneInv' /\ [Next]_vars
           => [Durable!Next]_<<OnDisk, vault, Change>>
<1> SUFFICES ASSUME StoreInv, StoreInv', AloneInv, AloneInv', [Next]_vars
             PROVE  Durable!Next \/ UNCHANGED <<OnDisk, vault, Change>>
  OBVIOUS
<1>1. /\ request \in [Requests -> Request] /\ writer \in [Requests -> FP!Writer]
      /\ FP!FileInv /\ FP!FileInv' /\ ~overlapped /\ ~overlapped' /\ [File!FileNext]_fileVars
      /\ vault \in Envelope \cup {NoVault}
  BY StepOfFile DEF StoreInv, TypeOK, FP!FileInv, FP!FileTypeOK, AloneInv
<1>2. ASSUME \A o \in Requests : ~File!RenameTemp(o)
      PROVE  OnDisk' = OnDisk
  BY <1>1, <1>2, MainKept, FileKept, Disk, DiskNext
<1>3. ASSUME NEW r \in Requests, writer[r].stage # "rename"
      PROVE  OnDisk' = OnDisk
  <2>1. \A o \in Requests : ~File!RenameTemp(o)
    BY <1>3 DEF Alone, File!RenameTemp
  <2> QED BY <1>2, <2>1
<1>4. ASSUME NEW r \in Requests, NEW pw \in Passwords, InitCheck(r, pw) \/ UnlockRead(r, pw)
      PROVE  UNCHANGED <<OnDisk, vault, Change>>
  <2>1. vault' = vault /\ writer' = writer /\ writer[r].stage = "idle"
    BY <1>4, FreeIsIdle DEF InitCheck, UnlockRead, InFlight, NoCall, fileVars
  <2> QED BY <1>3, <2>1, ChangeOf, ChangeOfNext
<1>5. ASSUME NEW r \in Requests, UnlockRefused(r)
      PROVE  UNCHANGED <<OnDisk, vault, Change>>
  <2>1. vault' = vault /\ writer' = writer /\ writer[r].stage = "idle"
    BY <1>5, FreeIsIdle DEF UnlockRefused, fileVars
  <2> QED BY <1>3, <2>1, ChangeOf, ChangeOfNext
<1>6. ASSUME NEW r \in Requests, UnlockDone(r)
      PROVE  Durable!Next
  <2>1. writer' = writer /\ writer[r].stage = "idle"
    BY <1>6, FreeIsIdle DEF UnlockDone, fileVars
  <2>2. UNCHANGED <<OnDisk, Change>> /\ Change = Durable!NoChange
    BY <1>3, <2>1, ChangeOf, ChangeOfNext
  <2>3. /\ request[r].read = OnDisk /\ OnDisk # NoVault
        /\ request[r].key = OnDisk.key /\ request[r].key \in Passwords
    BY <1>1, <1>6, Disk, StoreFile DEF UnlockDone, AloneInv, StoreInv, Holding, FP!FileAssumption
  <2>4. vault' = [key |-> request[r].key, data |-> Durable!Upgrade(OnDisk.data)]
    BY <1>6, <2>3 DEF UnlockDone, Upgrade, Durable!Upgrade
  <2>5. Durable!Open(request[r].key)
    BY <2>2, <2>3, <2>4 DEF Durable!Open
  <2> QED BY <2>3, <2>5 DEF Durable!Next
<1>7. ASSUME NEW r \in Requests, InitDerived(r)
      PROVE  Durable!Next
  <2>1. /\ writer[r].stage = "idle" /\ writer'[r].stage = "open"
        /\ writer'[r].text = [key |-> request[r].key, data |-> EmptyData]
        /\ request[r].call = "init" /\ request' = request /\ vault' = vault
        /\ request[r].key \in Passwords
    BY <1>1, <1>7 DEF InitDerived, File!BeginWrite, File!IdleWriter, StoreInv, Holding
  <2>2. OnDisk = NoVault /\ OnDisk' = OnDisk
    BY <1>1, <1>3, <2>1, Disk DEF AloneInv
  <2>3. /\ Change = Durable!NoChange
        /\ Change' = [stage |-> "asked", creates |-> TRUE,
                      envelope |-> [key |-> request[r].key, data |-> Durable!EmptyData]]
    BY <2>1, ChangeOf, ChangeOfNext DEF EmptyData, Durable!EmptyData
  <2>4. Durable!Create(request[r].key)
    BY <2>1, <2>2, <2>3 DEF Durable!Create
  <2> QED BY <2>1, <2>4 DEF Durable!Next
<1>8. ASSUME NEW r \in Requests, NEW w \in Wallets, NEW v \in Current \cup {NoRecord}, Edit(r, w, v)
      PROVE  Durable!Next
  <2>1. /\ vault # NoVault /\ vault \in Envelope
        /\ vault' = [vault EXCEPT !.data = [vault.data EXCEPT ![w] = v]]
        /\ request'[r].call = "save"
        /\ writer[r].stage = "idle" /\ writer'[r].stage = "open" /\ writer'[r].text = vault'
    BY <1>1, <1>8, EditType DEF Edit, StoreInv, File!BeginWrite, File!IdleWriter, NoCall
  <2>2. vault' = [vault EXCEPT !.data[w] = v]
    BY <2>1 DEF Envelope
  <2>3. OnDisk' = OnDisk
    BY <1>3, <2>1
  <2>4. Change = Durable!NoChange /\ Change' = [stage |-> "asked", creates |-> FALSE, envelope |-> vault']
    BY <2>1, ChangeOf, ChangeOfNext
  <2>5. Durable!Edit(w, v)
    BY <2>1, <2>2, <2>3, <2>4 DEF Durable!Edit
  <2> QED BY <2>5 DEF Durable!Next
<1>9. ASSUME NEW r \in Requests, WriteTempFile(r)
      PROVE  UNCHANGED <<OnDisk, vault, Change>>
  <2>1. /\ vault' = vault /\ request' = request
        /\ writer[r].stage \in {"open", "write"} /\ writer'[r].stage \in {"write", "rename"}
        /\ writer'[r].text = writer[r].text
    BY <1>1, <1>9 DEF WriteTempFile, File!OpenTemp, File!WriteTemp, FP!Writer
  <2>2. Change' = Change
    BY <2>1, ChangeOf, ChangeOfNext
  <2> QED BY <1>3, <2>1, <2>2
<1>10. ASSUME NEW r \in Requests, RenameIntoPlace(r)
       PROVE  Durable!Next
  <2>1. /\ vault' = vault /\ request' = request /\ File!RenameTemp(r)
        /\ writer[r].stage = "rename" /\ writer'[r].stage = "done" /\ writer'[r].text = writer[r].text
    BY <1>1, <1>10 DEF RenameIntoPlace, File!RenameTemp, FP!Writer
  <2>2. OnDisk' = writer[r].text
    BY <1>1, <2>1, FileReplaced, DiskNext
  <2>3. /\ Change = [stage |-> "asked", creates |-> request[r].call = "init", envelope |-> writer[r].text]
        /\ Change' = [stage |-> "stored", creates |-> request[r].call = "init", envelope |-> writer[r].text]
    BY <2>1, ChangeOf, ChangeOfNext
  <2>4. Durable!Commit
    BY <2>1, <2>2, <2>3 DEF Durable!Commit
  <2> QED BY <2>4 DEF Durable!Next
<1>11. ASSUME NEW r \in Requests, InitDone(r) \/ SaveDone(r)
       PROVE  Durable!Next
  <2>1. writer[r].stage = "done" /\ writer'[r].stage = "idle"
    BY <1>1, <1>11, WriterStep DEF InitDone, SaveDone
  <2>2. OnDisk' = OnDisk /\ OnDisk = writer[r].text
    BY <1>1, <1>3, <2>1, Disk DEF AloneInv
  <2>3. /\ Change = [stage |-> "stored", creates |-> request[r].call = "init", envelope |-> writer[r].text]
        /\ Change' = Durable!NoChange
    BY <2>1, ChangeOf, ChangeOfNext
  <2>4. vault' = IF request[r].call = "init" THEN writer[r].text ELSE vault
    BY <1>11, <2>1 DEF InitDone, SaveDone, StoreInv, Writing
  <2>5. Durable!Acknowledge
    BY <2>2, <2>3, <2>4 DEF Durable!Acknowledge
  <2> QED BY <2>5 DEF Durable!Next
<1>12. ASSUME NEW r \in Requests, WriteFailed(r)
       PROVE  Durable!Next
  <2>1. /\ writer[r].stage \in {"open", "write", "rename"} /\ writer'[r].stage = "idle" /\ vault' = vault
        /\ UNCHANGED <<main, content, overlapped>>
    BY <1>1, <1>12 DEF WriteFailed, File!FailWrite, File!IdleWriter
  <2>2. OnDisk' = OnDisk
    BY <2>1 DEF OnDisk, Readable
  <2>3. Change.stage = "asked" /\ Change' = Durable!NoChange
    BY <2>1, ChangeOf, ChangeOfNext
  <2>4. Durable!Refuse
    BY <2>1, <2>2, <2>3 DEF Durable!Refuse
  <2> QED BY <2>4 DEF Durable!Next
<1>13. ASSUME LockVault
       PROVE  Durable!Next
  <2>1. vault' = NoVault /\ UNCHANGED <<OnDisk, Change>>
    BY <1>13 DEF LockVault, OnDisk, Readable, Change, fileVars
  <2> QED BY <2>1 DEF Durable!Close, Durable!Next
<1>14. ASSUME Restart
       PROVE  Durable!Next
  <2>1. vault' = NoVault /\ OnDisk' = OnDisk
    BY <1>14 DEF Restart, File!CrashWriters, OnDisk, Readable
  <2>2. Change' = Durable!NoChange
    BY <1>14 DEF Restart, File!CrashWriters, File!IdleWriter, Change, Durable!NoChange
  <2> QED BY <2>1, <2>2 DEF Durable!Crash, Durable!Next
<1>15. ASSUME UNCHANGED vars
       PROVE  UNCHANGED <<OnDisk, vault, Change>>
  BY <1>15 DEF vars, fileVars, OnDisk, Readable, Change
<1> QED BY <1>4, <1>5, <1>6, <1>7, <1>8, <1>9, <1>10, <1>11, <1>12, <1>13, <1>14, <1>15, NextCases

(* To one client that waits for its answers the store keeps the promise of *)
(* VaultDurable: its steps are that specification's steps, or none.        *)
THEOREM StoreImplementsDurable ==
  ASSUME Alone
  PROVE  Spec => ImplementsDurable
<1>1. Init /\ StoreInv /\ AloneInv => Durable!Init
  <2> SUFFICES ASSUME Init, StoreInv, AloneInv PROVE Durable!Init
    OBVIOUS
  <2>1. vault = NoVault /\ \A r \in Requests : writer[r].stage = "idle"
    BY DEF Init, File!FileInit, File!IdleWriter
  <2>2. Change = Durable!NoChange
    BY <2>1 DEF Change, Durable!NoChange
  <2>3. OnDisk \in Envelope \cup {NoVault}
    BY OnDiskType DEF StoreInv, OnDisk
  <2> QED BY <2>1, <2>2, <2>3 DEF Durable!Init, Envelope, Data, Durable!Envelope, Durable!Data
<1>2. StoreInv /\ StoreInv' /\ AloneInv /\ AloneInv' /\ [Next]_vars => [Durable!Next]_(Durable!durableVars)
  BY DurableStep DEF Durable!durableVars
<1>3. Spec => []AloneInv
  BY AloneInvariant
<1> QED BY <1>1, <1>2, <1>3, StoreInvariant, PTL DEF Spec, ImplementsDurable, Durable!Spec
=============================================================================
