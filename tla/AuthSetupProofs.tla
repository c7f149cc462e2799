--------------------------- MODULE AuthSetupProofs ---------------------------
(***************************************************************************)
(* Proofs about AuthSetup for any number of requests, users, secrets and   *)
(* inodes.  The argument: once auth.json is there, everything about it, in *)
(* memory, on disk, in .tmp and on the clients' screens, is of one user    *)
(* and one secret; and whoever is still going to write it then is a        *)
(* verify, which writes it enabled.                                        *)
(***************************************************************************)
EXTENDS AuthSetup, FiniteSetTheorems, TLAPS

\* The procedure and what is proved of it, for this file.
FP == INSTANCE ReplaceFileProofs WITH
        Writers <- Requests, Payloads <- Account, Size <- AccountSize, NoPayload <- NoAccount

\* Who is in writeAuthRecord, and with which text: a setup with its new record,
\* a verify with the record it read, enabled.
Working ==
  \A r \in Requests :
    /\ request[r].call # "none" => request[r].account \in Account
    /\ writer[r].stage # "idle" =>
         \/ request[r].call = "setup" /\ writer[r].text = request[r].account
         \/ request[r].call = "verify" /\ writer[r].text = [request[r].account EXCEPT !.enabled = TRUE]

AuthInv == TypeOK /\ FP!FileInv /\ Working

Of(c, k) == c.text # NoAccount => Qr(c.text) = k

\* All that there is of an account is of the user and the secret k.
OneAccount(k) ==
  /\ main # NoInode => Of(content[main], k)
  /\ temp # NoInode => Of(content[temp], k)
  /\ \A r \in Requests : request[r].call # "none" => Qr(request[r].account) = k
  /\ shown \subseteq {k}
  /\ sessions \subseteq {k[1]}

OneSetup == \A r, o \in Requests : request[r].call = "setup" /\ request[o].call = "setup" => r = o

\* Before there is a file nobody is about but the one setup.
BeforeFile ==
  main = NoInode => /\ shown = {} /\ sessions = {}
                    /\ \A r \in Requests : /\ request[r].call \in {"none", "setup"}
                                         /\ writer[r].stage # "done"

Verified == main # NoInode /\ content[main].text.enabled

\* Once there is, the setup is through with it, and what a session, a login or
\* a verify that wrote the file goes by is enabled.
AfterFile ==
  /\ \A r \in Requests :
       /\ main # NoInode /\ request[r].call = "setup" => writer[r].stage = "done"
       /\ request[r].call = "verify" /\ writer[r].stage = "done" => Verified
       /\ request[r].call = "login" => Verified
  /\ sessions # {} => Verified

SetupInv ==
  Apart =>
    /\ OneSetup /\ BeforeFile /\ AfterFile
    /\ main # NoInode => \E k \in Users \X Secrets : OneAccount(k)

-----------------------------------------------------------------------------
(* The two lengths of a record are positive numbers.                       *)
LEMMA AuthFile == FP!FileAssumption
  BY SetupAssumption DEF FP!FileAssumption, AccountSize, Account

(* The procedure is the same under both names.                             *)
LEMMA SameFile ==
  /\ [File!FileNext]_fileVars => [FP!FileNext]_(FP!fileVars)
  /\ File!FileInit => FP!FileInit
  /\ File!FileTypeOK <=> FP!FileTypeOK
  /\ File!Empty = FP!Empty
  /\ \A r \in Requests : /\ File!OpenTemp(r) <=> FP!OpenTemp(r)
                         /\ File!WriteTemp(r) <=> FP!WriteTemp(r)
                         /\ File!RenameTemp(r) <=> FP!RenameTemp(r)
                         /\ File!FinishWrite(r) <=> FP!FinishWrite(r)
                         /\ File!FailWrite(r) <=> FP!FailWrite(r)
<1> USE DEF FP!IdleWriter, File!IdleWriter, FP!Empty, File!Empty
<1>1. \A r \in Requests : /\ File!OpenTemp(r) <=> FP!OpenTemp(r)
                          /\ File!WriteTemp(r) <=> FP!WriteTemp(r)
                          /\ File!RenameTemp(r) <=> FP!RenameTemp(r)
                          /\ File!FinishWrite(r) <=> FP!FinishWrite(r)
                          /\ File!FailWrite(r) <=> FP!FailWrite(r)
  BY DEF File!OpenTemp, FP!OpenTemp, File!WriteTemp, FP!WriteTemp, File!RenameTemp, FP!RenameTemp,
         File!FinishWrite, FP!FinishWrite, File!FailWrite, FP!FailWrite, FP!Using, File!Using,
         FP!FreeInodes, File!FreeInodes, FP!Overlay, File!Overlay
<1>2. File!CrashWriters <=> FP!CrashWriters
  BY DEF File!CrashWriters, FP!CrashWriters
<1>3. \A r \in Requests, e \in Account : File!BeginWrite(r, e) <=> FP!BeginWrite(r, e)
  BY DEF File!BeginWrite, FP!BeginWrite
<1>4. [File!FileNext]_fileVars => [FP!FileNext]_(FP!fileVars)
  BY <1>1, <1>2, <1>3 DEF File!FileNext, FP!FileNext, fileVars, FP!fileVars
<1>5. File!FileInit => FP!FileInit
  BY DEF File!FileInit, FP!FileInit
<1>6. File!FileTypeOK <=> FP!FileTypeOK
  BY DEF File!FileTypeOK, FP!FileTypeOK, File!Content, FP!Content, File!Writer, FP!Writer,
         File!Stages, FP!Stages
<1> QED BY <1>1, <1>4, <1>5, <1>6

-----------------------------------------------------------------------------
(* Every step leaves the file alone or is a step of ReplaceFile with an    *)
(* account for its text.                                                   *)
LEMMA StepOfFile == AuthInv /\ [Next]_vars => [File!FileNext]_fileVars
<1> SUFFICES ASSUME AuthInv, [Next]_vars
             PROVE  File!FileNext \/ UNCHANGED fileVars
  BY DEF fileVars
<1>1. ASSUME NEW r \in Requests, SetupHashed(r) \/ VerifyAccepts(r)
      PROVE  File!FileNext
  <2>1. request[r].account \in Account /\ [request[r].account EXCEPT !.enabled = TRUE] \in Account
    BY <1>1 DEF SetupHashed, VerifyAccepts, AuthInv, Working, Account
  <2> QED BY <1>1, <2>1 DEF SetupHashed, VerifyAccepts, File!FileNext
<1>2. ASSUME NEW r \in Requests, SetupAnswers(r) \/ VerifyAnswers(r) \/ WriteTempFile(r) \/ WriteFailed(r)
      PROVE  File!FileNext
  BY <1>2 DEF SetupAnswers, VerifyAnswers, WriteTempFile, WriteFailed, File!FileNext
<1>3. ASSUME Restart
      PROVE  File!FileNext
  BY <1>3 DEF Restart, File!FileNext
<1>4. ASSUME NEW r \in Requests,
             \/ \E u \in Users : SetupStarts(r, u)
             \/ AgainStarts(r) \/ VerifyStarts(r) \/ LoginStarts(r)
             \/ AgainAnswers(r) \/ LoginAnswers(r) \/ Refused(r)
      PROVE  UNCHANGED fileVars
  BY <1>4 DEF SetupStarts, AgainStarts, VerifyStarts, LoginStarts, Begin, AgainAnswers, LoginAnswers, Refused
<1>5. ASSUME (\E u \in Users : SessionEnds(u)) \/ UNCHANGED vars
      PROVE  UNCHANGED fileVars
  BY <1>5 DEF SessionEnds, vars
<1> QED BY <1>1, <1>2, <1>3, <1>4, <1>5 DEF Next

LEMMA StepFileInv == AuthInv /\ [Next]_vars => FP!FileInv'
  BY SameFile, StepOfFile, AuthFile, FP!FileNextInv DEF AuthInv

(* What a reader finds is an account.                                      *)
LEMMA OnDiskType == FP!FileInv /\ Readable => main # NoInode /\ OnDisk = content[main].text /\ OnDisk \in Account
  BY DEF FP!FileInv, FP!FileTypeOK, FP!Content, Readable, OnDisk, File!Intact

(* What a step may do to a request: end it, or begin one: a setup when     *)
(* there is no file, any other with the record in the file.                *)
LEMMA RequestStep ==
  ASSUME AuthInv, [Next]_vars, NEW o \in Requests
  PROVE  \/ request'[o] = request[o]
         \/ request'[o] = NoCall
         \/ /\ main = NoInode /\ request[o] = NoCall
            /\ \E u \in Users : SetupStarts(o, u)
            /\ request'[o].call = "setup" /\ request'[o].account \in Account
            /\ UNCHANGED fileVars
         \/ /\ Readable /\ request[o] = NoCall
            /\ request'[o].call \in {"again", "verify", "login"} /\ request'[o].account = OnDisk
            /\ request'[o].call = "login" => OnDisk.enabled
            /\ UNCHANGED fileVars
<1>1. request \in [Requests -> Request]
  BY DEF AuthInv, TypeOK
<1>2. ASSUME NEW r \in Requests, NEW u \in Users, SetupStarts(r, u)
      PROVE  \/ request'[o] = request[o]
             \/ /\ main = NoInode /\ request[o] = NoCall
                /\ \E x \in Users : SetupStarts(o, x)
                /\ request'[o].call = "setup" /\ request'[o].account \in Account
                /\ UNCHANGED fileVars
  <2>1. PICK s \in Secrets :
          /\ request[r] = NoCall /\ main = NoInode /\ UNCHANGED fileVars
          /\ request' = [request EXCEPT ![r] = [call |-> "setup", account |-> [user |-> u, secret |-> s, enabled |-> FALSE]]]
    BY <1>2 DEF SetupStarts, FreshSecrets, Begin
  <2>2. CASE o = r
    BY <1>1, <1>2, <2>1, <2>2 DEF Account
  <2> QED BY <1>1, <2>1, <2>2
<1>3. ASSUME NEW r \in Requests, AgainStarts(r) \/ VerifyStarts(r) \/ LoginStarts(r)
      PROVE  \/ request'[o] = request[o]
             \/ /\ Readable /\ request[o] = NoCall
                /\ request'[o].call \in {"again", "verify", "login"} /\ request'[o].account = OnDisk
                /\ request'[o].call = "login" => OnDisk.enabled
                /\ UNCHANGED fileVars
  <2>1. LoginStarts(r) => Readable /\ OnDisk.enabled
    BY DEF LoginStarts, Enrolled, OnDisk
  <2> QED BY <1>1, <1>3, <2>1 DEF AgainStarts, VerifyStarts, LoginStarts, Begin
<1>4. ASSUME NEW r \in Requests,
             SetupAnswers(r) \/ AgainAnswers(r) \/ VerifyAnswers(r) \/ LoginAnswers(r) \/ Refused(r) \/ WriteFailed(r)
      PROVE  request'[o] = request[o] \/ request'[o] = NoCall
  BY <1>1, <1>4 DEF SetupAnswers, AgainAnswers, VerifyAnswers, LoginAnswers, Refused, WriteFailed
<1>5. ASSUME NEW r \in Requests, SetupHashed(r) \/ VerifyAccepts(r) \/ WriteTempFile(r)
      PROVE  request'[o] = request[o]
  BY <1>5 DEF SetupHashed, VerifyAccepts, WriteTempFile, authVars
<1>6. ASSUME (\E u \in Users : SessionEnds(u)) \/ UNCHANGED vars
      PROVE  request'[o] = request[o]
  BY <1>6 DEF SessionEnds, vars, authVars
<1>7. ASSUME Restart
      PROVE  request'[o] = NoCall
  BY <1>7 DEF Restart
<1> QED BY <1>2, <1>3, <1>4, <1>5, <1>6, <1>7 DEF Next

(* What a step may do to a writer: go on with its text, end with its       *)
(* request, or begin.                                                      *)
LEMMA BusyStep ==
  ASSUME AuthInv, [Next]_vars, NEW o \in Requests, writer'[o].stage # "idle"
  PROVE  /\ request'[o] = request[o]
         /\ \/ writer[o].stage # "idle" /\ writer'[o].text = writer[o].text
            \/ writer'[o].stage = "open" /\ \/ request[o].call = "setup" /\ writer'[o].text = request[o].account
                                            \/ request[o].call = "verify" /\ writer'[o].text = [request[o].account EXCEPT !.enabled = TRUE]
         /\ writer'[o].stage = "done" => writer[o].stage = "done" \/ File!RenameTemp(o)
<1>1. request \in [Requests -> Request] /\ writer \in [Requests -> FP!Writer]
  BY DEF AuthInv, TypeOK, FP!FileInv, FP!FileTypeOK
<1>2. ASSUME NEW r \in Requests, SetupHashed(r) \/ VerifyAccepts(r)
      PROVE  /\ request' = request
             /\ \/ writer'[o] = writer[o]
                \/ writer'[o].stage = "open" /\ \/ request[o].call = "setup" /\ writer'[o].text = request[o].account
                                                \/ request[o].call = "verify" /\ writer'[o].text = [request[o].account EXCEPT !.enabled = TRUE]
  <2>1. PICK t : /\ writer' = [writer EXCEPT ![r] = [stage |-> "open", text |-> t, fd |-> NoInode]]
                 /\ \/ request[r].call = "setup" /\ t = request[r].account
                    \/ request[r].call = "verify" /\ t = [request[r].account EXCEPT !.enabled = TRUE]
    BY <1>2 DEF SetupHashed, VerifyAccepts, File!BeginWrite
  <2>2. request' = request
    BY <1>2 DEF SetupHashed, VerifyAccepts, authVars
  <2>3. CASE o = r
    <3>1. writer'[o].stage = "open" /\ writer'[o].text = t
      BY <1>1, <2>1, <2>3
    <3> QED BY <2>1, <2>2, <2>3, <3>1
  <2> QED BY <1>1, <2>1, <2>2, <2>3
<1>3. ASSUME NEW r \in Requests, SetupAnswers(r) \/ VerifyAnswers(r) \/ WriteFailed(r)
      PROVE  request'[o] = request[o] /\ writer'[o] = writer[o]
  <2>1. writer' = [writer EXCEPT ![r] = File!IdleWriter] /\ request' = [request EXCEPT ![r] = NoCall]
    BY <1>3 DEF SetupAnswers, VerifyAnswers, WriteFailed, File!FinishWrite, File!FailWrite
  <2>2. o # r
    BY <1>1, <2>1 DEF File!IdleWriter
  <2> QED BY <1>1, <2>1, <2>2
<1>4. ASSUME NEW r \in Requests, WriteTempFile(r)
      PROVE  /\ request' = request
             /\ \/ writer'[o] = writer[o]
                \/ /\ writer[o].stage # "idle" /\ writer'[o].text = writer[o].text
                   /\ writer'[o].stage = "done" => File!RenameTemp(o)
  BY <1>1, <1>4 DEF WriteTempFile, authVars, File!OpenTemp, File!WriteTemp, File!RenameTemp, FP!Writer
<1>5. ASSUME NEW r \in Requests,
             \/ \E u \in Users : SetupStarts(r, u)
             \/ AgainStarts(r) \/ VerifyStarts(r) \/ LoginStarts(r)
             \/ AgainAnswers(r) \/ LoginAnswers(r) \/ Refused(r)
      PROVE  request'[o] = request[o] /\ writer'[o] = writer[o]
  <2>1. writer' = writer
    BY <1>5 DEF SetupStarts, AgainStarts, VerifyStarts, LoginStarts, Begin, AgainAnswers, LoginAnswers, Refused, fileVars
  <2>2. request[r].call \in {"none", "again", "login"} \/ writer[r].stage = "idle"
    BY <1>5 DEF SetupStarts, AgainStarts, VerifyStarts, LoginStarts, Begin, AgainAnswers, LoginAnswers, Refused,
       NoCall, File!IdleWriter
  <2>3. o # r
    BY <2>1, <2>2 DEF AuthInv, Working
  <2>4. \E q : request' = [request EXCEPT ![r] = q]
    BY <1>5 DEF SetupStarts, AgainStarts, VerifyStarts, LoginStarts, Begin, AgainAnswers, LoginAnswers, Refused
  <2> QED BY <1>1, <2>1, <2>3, <2>4
<1>6. ASSUME (\E u \in Users : SessionEnds(u)) \/ UNCHANGED vars
      PROVE  request'[o] = request[o] /\ writer'[o] = writer[o]
  BY <1>6 DEF SessionEnds, vars, authVars, fileVars
<1>7. ASSUME Restart
      PROVE  FALSE
  BY <1>7 DEF Restart, File!CrashWriters, File!IdleWriter
<1> QED BY <1>2, <1>3, <1>4, <1>5, <1>6, <1>7 DEF Next

(* And what it may do to what clients have been shown and given.           *)
LEMMA AnswerStep ==
  ASSUME AuthInv, [Next]_vars
  PROVE  /\ \/ shown' = shown
            \/ \E r \in Requests : /\ shown' = shown \cup {Qr(request[r].account)}
                                   /\ \/ request[r].call = "again"
                                      \/ request[r].call = "setup" /\ writer[r].stage = "done"
         /\ \/ sessions' \subseteq sessions
            \/ \E r \in Requests : /\ sessions' = sessions \cup {request[r].account.user}
                                   /\ \/ request[r].call = "login"
                                      \/ request[r].call = "verify" /\ writer[r].stage = "done"
         /\ shown' # shown \/ ~(sessions' \subseteq sessions) => UNCHANGED <<main, content>>
         /\ twoSetups => twoSetups'
<1>1. ASSUME NEW r \in Requests, NEW u \in Users, SetupStarts(r, u)
      PROVE  UNCHANGED <<shown, sessions>> /\ (twoSetups => twoSetups')
  BY <1>1 DEF SetupStarts, Begin
<1>2. ASSUME NEW r \in Requests, AgainStarts(r) \/ VerifyStarts(r) \/ LoginStarts(r)
      PROVE  UNCHANGED <<shown, sessions, twoSetups>>
  BY <1>2 DEF AgainStarts, VerifyStarts, LoginStarts, Begin
<1>3. ASSUME NEW r \in Requests, SetupHashed(r) \/ VerifyAccepts(r) \/ WriteTempFile(r) \/ WriteFailed(r) \/ Refused(r)
      PROVE  UNCHANGED <<shown, sessions, twoSetups>>
  BY <1>3 DEF SetupHashed, VerifyAccepts, WriteTempFile, WriteFailed, Refused, authVars
<1>4. ASSUME NEW r \in Requests, SetupAnswers(r) \/ AgainAnswers(r)
      PROVE  /\ shown' = shown \cup {Qr(request[r].account)} /\ UNCHANGED <<sessions, twoSetups, main, content>>
             /\ request[r].call = "again" \/ (request[r].call = "setup" /\ writer[r].stage = "done")
  BY <1>4 DEF SetupAnswers, AgainAnswers, File!FinishWrite, fileVars
<1>5. ASSUME NEW r \in Requests, VerifyAnswers(r) \/ LoginAnswers(r)
      PROVE  /\ sessions' = sessions \cup {request[r].account.user} /\ UNCHANGED <<shown, twoSetups, main, content>>
             /\ request[r].call = "login" \/ (request[r].call = "verify" /\ writer[r].stage = "done")
  BY <1>5 DEF VerifyAnswers, LoginAnswers, File!FinishWrite, fileVars
<1>6. ASSUME (\E u \in Users : SessionEnds(u)) \/ Restart \/ UNCHANGED vars
      PROVE  UNCHANGED <<shown, twoSetups>> /\ sessions' \subseteq sessions
  BY <1>6 DEF SessionEnds, Restart, vars, authVars
<1> QED BY <1>1, <1>2, <1>3, <1>4, <1>5, <1>6 DEF Next
-----------------------------------------------------------------------------
LEMMA InitInv == Init => AuthInv
<1> SUFFICES ASSUME Init PROVE AuthInv
  OBVIOUS
<1>1. FP!FileInv
  BY SameFile, AuthFile, FP!FileInitInv DEF Init
<1>2. TypeOK
  BY <1>1, SameFile DEF Init, TypeOK, Request, Calls, NoCall, FP!FileInv
<1>3. Working
  BY DEF Init, File!FileInit, File!IdleWriter, Working, NoCall
<1> QED BY <1>1, <1>2, <1>3 DEF AuthInv

(* Every step keeps the types, and every request the record it goes by.    *)
LEMMA StepInv == AuthInv /\ [Next]_vars => AuthInv'
<1> SUFFICES ASSUME AuthInv, [Next]_vars PROVE AuthInv'
  OBVIOUS
<1>1. FP!FileInv' /\ File!FileTypeOK'
  BY StepFileInv DEF FP!FileInv, File!FileTypeOK, FP!FileTypeOK, File!Content, FP!Content,
     File!Writer, FP!Writer, File!Stages, FP!Stages
<1>2. Readable => OnDisk \in Account
  BY OnDiskType DEF AuthInv
<1>3. Working'
  <2>1. ASSUME NEW o \in Requests, request'[o].call # "none"
        PROVE  request'[o].account \in Account
    <3>1. \/ request'[o] = request[o] /\ request[o].call # "none"
          \/ request'[o].account \in Account
          \/ Readable /\ request'[o].account = OnDisk
      BY <2>1, RequestStep DEF NoCall
    <3> QED BY <1>2, <3>1 DEF AuthInv, Working
  <2>2. ASSUME NEW o \in Requests, writer'[o].stage # "idle"
        PROVE  \/ request'[o].call = "setup" /\ writer'[o].text = request'[o].account
               \/ request'[o].call = "verify" /\ writer'[o].text = [request'[o].account EXCEPT !.enabled = TRUE]
    BY <2>2, BusyStep DEF AuthInv, Working
  <2> QED BY <2>1, <2>2 DEF Working
<1>4. request' \in [Requests -> Request]
  <2>1. request \in [Requests -> Request] /\ NoCall \in Request
    BY DEF AuthInv, TypeOK, NoCall, Request, Calls
  <2>2. ASSUME NEW r \in Requests, NEW call \in Calls, NEW account \in Account, Begin(r, call, account)
        PROVE  request' \in [Requests -> Request]
    BY <2>1, <2>2 DEF Begin, Request
  <2>3. ASSUME NEW r \in Requests, NEW u \in Users, SetupStarts(r, u)
        PROVE  request' \in [Requests -> Request]
    BY <2>2, <2>3 DEF SetupStarts, FreshSecrets, Account, Calls
  <2>4. ASSUME NEW r \in Requests, AgainStarts(r) \/ VerifyStarts(r) \/ LoginStarts(r)
        PROVE  request' \in [Requests -> Request]
    <3>1. Readable
      BY <2>4 DEF AgainStarts, VerifyStarts, LoginStarts, Enrolled, OnDisk
    <3> QED BY <1>2, <2>2, <2>4, <3>1 DEF AgainStarts, VerifyStarts, LoginStarts, Calls
  <2>5. ASSUME NEW r \in Requests,
               SetupAnswers(r) \/ AgainAnswers(r) \/ VerifyAnswers(r) \/ LoginAnswers(r) \/ Refused(r) \/ WriteFailed(r)
        PROVE  request' \in [Requests -> Request]
    BY <2>1, <2>5 DEF SetupAnswers, AgainAnswers, VerifyAnswers, LoginAnswers, Refused, WriteFailed
  <2>6. ASSUME NEW r \in Requests, SetupHashed(r) \/ VerifyAccepts(r) \/ WriteTempFile(r)
        PROVE  request' = request
    BY <2>6 DEF SetupHashed, VerifyAccepts, WriteTempFile, authVars
  <2>7. ASSUME (\E u \in Users : SessionEnds(u)) \/ Restart \/ UNCHANGED vars
        PROVE  request' \in [Requests -> Request]
    BY <2>1, <2>7 DEF SessionEnds, Restart, vars, authVars
  <2> QED BY <2>1, <2>3, <2>4, <2>5, <2>6, <2>7 DEF Next
<1>5. \A r \in Requests : request[r].call # "none" =>
        request[r].account.user \in Users /\ Qr(request[r].account) \in Users \X Secrets
  BY DEF AuthInv, Working, Account, Qr
<1>6. sessions' \subseteq Users /\ shown' \subseteq Users \X Secrets
  BY <1>5, AnswerStep DEF AuthInv, TypeOK
<1>7. twoSetups' \in BOOLEAN
  BY DEF AuthInv, TypeOK, Next, vars, authVars, SetupStarts, AgainStarts, VerifyStarts, LoginStarts, Begin,
     SetupHashed, SetupAnswers, AgainAnswers, VerifyAccepts, VerifyAnswers, LoginAnswers, Refused,
     WriteTempFile, WriteFailed, SessionEnds, Restart
<1> QED BY <1>1, <1>3, <1>4, <1>6, <1>7 DEF AuthInv, TypeOK

LEMMA AuthInvariant == Spec => []AuthInv
BY InitInv, StepInv, PTL DEF Spec

(* The requests, the sessions and auth.json have their types, and no       *)
(* handler that is past its first await is without a record.               *)
THEOREM AuthTypeCorrect == Spec => []TypeOK
<1>1. AuthInv => TypeOK
  BY DEF AuthInv
<1> QED BY <1>1, AuthInvariant, PTL

-----------------------------------------------------------------------------
(* The file under the store's own names.                                   *)
LEMMA FileFacts ==
  ASSUME AuthInv, [Next]_vars
  PROVE  /\ FP!FileInv /\ [FP!FileNext]_(FP!fileVars)
         /\ Apart' => Apart
         /\ main # NoInode => main' # NoInode
         /\ \A r \in Requests : File!RenameTemp(r) <=> FP!RenameTemp(r)
<1>1. FP!FileInv /\ [FP!FileNext]_(FP!fileVars)
  BY StepOfFile, SameFile DEF AuthInv
<1>2. main # NoInode => main' # NoInode
  BY <1>1, AuthFile, FP!ContentStep
<1>3. Apart' => Apart
  BY <1>1, AuthFile, FP!OverlapStays, AnswerStep DEF Apart
<1> QED BY <1>1, <1>2, <1>3, SameFile

(* Without a rename the record in the file stays; with one it is the text  *)
(* of the writer, and if there was a file that is a verify's.              *)
LEMMA RecordStep ==
  ASSUME AuthInv, SetupInv, [Next]_vars, Apart'
  PROVE  /\ (\A r \in Requests : ~File!RenameTemp(r)) =>
              main' = main /\ (main # NoInode => content'[main] = content[main])
         /\ \A r \in Requests : File!RenameTemp(r) =>
              /\ main' # NoInode /\ content'[main'].text = writer[r].text
              /\ main # NoInode => request[r].call = "verify"
              /\ main = NoInode => request[r].call = "setup"
<1>1. Apart /\ ~overlapped /\ ~overlapped'
  BY FileFacts DEF Apart
<1>2. CASE \A r \in Requests : ~File!RenameTemp(r)
  <2>1. main' = main
    BY <1>2, FileFacts, AuthFile, FP!MainKept
  <2>2. main # NoInode => content'[main] = content[main]
    BY <1>1, <1>2, FileFacts, AuthFile, FP!FileKept
  <2> QED BY <1>2, <2>1, <2>2
<1>3. ASSUME NEW r \in Requests, File!RenameTemp(r)
      PROVE  /\ main' # NoInode /\ content'[main'].text = writer[r].text
             /\ main # NoInode => request[r].call = "verify"
             /\ main = NoInode => request[r].call = "setup"
  <2>1. main' # NoInode /\ content'[main'].text = writer[r].text
    BY <1>1, <1>3, FileFacts, AuthFile, FP!FileReplaced
  <2>2. writer[r].stage = "rename"
    BY <1>3 DEF File!RenameTemp
  <2>3. request[r].call \in {"setup", "verify"}
    BY <2>2 DEF AuthInv, Working
  <2> QED BY <1>1, <2>1, <2>2, <2>3 DEF SetupInv, AfterFile, BeforeFile
<1> QED BY <1>2, <1>3
(* Once a code was verified the record in the file is an enabled one.      *)
LEMMA VerifiedStays ==
  ASSUME AuthInv, SetupInv, [Next]_vars, Apart', Verified
  PROVE  Verified'
<1>1. CASE \A r \in Requests : ~File!RenameTemp(r)
  BY <1>1, RecordStep DEF Verified
<1>2. ASSUME NEW r \in Requests, File!RenameTemp(r)
      PROVE  Verified'
  <2>1. main' # NoInode /\ content'[main'].text = writer[r].text /\ request[r].call = "verify"
    BY <1>2, RecordStep DEF Verified
  <2>2. writer[r].stage = "rename"
    BY <1>2 DEF File!RenameTemp
  <2>3. writer[r].text = [request[r].account EXCEPT !.enabled = TRUE] /\ request[r].account \in Account
    BY <2>1, <2>2 DEF AuthInv, Working
  <2> QED BY <2>1, <2>3 DEF Verified, Account
<1> QED BY <1>1, <1>2

(* A setup that is through with the file stays so until it answers.        *)
LEMMA DoneStays ==
  ASSUME AuthInv, [Next]_vars, NEW o \in Requests, writer[o].stage = "done",
         request'[o] = request[o]
  PROVE  writer'[o].stage = "done"
<1>1. /\ request \in [Requests -> Request] /\ writer \in [Requests -> FP!Writer]
      /\ request[o].call \in {"setup", "verify"}
  BY DEF AuthInv, TypeOK, FP!FileInv, FP!FileTypeOK, Working
<1>2. ASSUME NEW r \in Requests, SetupAnswers(r) \/ VerifyAnswers(r)
      PROVE  writer'[o] = writer[o]
  BY <1>1, <1>2 DEF SetupAnswers, VerifyAnswers, NoCall, File!FinishWrite
<1>3. ASSUME NEW r \in Requests, SetupHashed(r) \/ VerifyAccepts(r) \/ WriteTempFile(r) \/ WriteFailed(r)
      PROVE  writer'[o] = writer[o]
  BY <1>1, <1>3 DEF SetupHashed, VerifyAccepts, WriteTempFile, WriteFailed, File!BeginWrite, File!OpenTemp,
     File!WriteTemp, File!RenameTemp, File!FailWrite, File!IdleWriter
<1>4. ASSUME NEW r \in Requests,
             \/ \E u \in Users : SetupStarts(r, u)
             \/ AgainStarts(r) \/ VerifyStarts(r) \/ LoginStarts(r)
             \/ AgainAnswers(r) \/ LoginAnswers(r) \/ Refused(r)
      PROVE  writer' = writer
  BY <1>4 DEF SetupStarts, AgainStarts, VerifyStarts, LoginStarts, Begin, AgainAnswers, LoginAnswers, Refused, fileVars
<1>5. ASSUME (\E u \in Users : SessionEnds(u)) \/ UNCHANGED vars
      PROVE  writer' = writer
  BY <1>5 DEF SessionEnds, vars, fileVars
<1>6. ASSUME Restart
      PROVE  FALSE
  BY <1>1, <1>6 DEF Restart, NoCall
<1> QED BY <1>2, <1>3, <1>4, <1>5, <1>6 DEF Next

(* Two setups past the existence check together are noticed.               *)
LEMMA OneSetupStep ==
  ASSUME AuthInv, OneSetup, [Next]_vars, ~twoSetups'
  PROVE  OneSetup'
<1>1. request \in [Requests -> Request]
  BY DEF AuthInv, TypeOK
<1>2. ASSUME NEW r \in Requests, NEW u \in Users, SetupStarts(r, u)
      PROVE  OneSetup'
  <2>1. /\ \A o \in Requests : request[o].call # "setup"
        /\ \A o \in Requests \ {r} : request'[o] = request[o]
    BY <1>1, <1>2 DEF SetupStarts, Begin
  <2> QED BY <2>1 DEF OneSetup
<1>3. CASE \A r \in Requests, u \in Users : ~SetupStarts(r, u)
  <2>1. \A r \in Requests : request'[r].call = "setup" => request[r].call = "setup"
    BY <1>3, RequestStep DEF NoCall
  <2> QED BY <2>1 DEF OneSetup
<1> QED BY <1>2, <1>3

LEMMA BeforeFileStep ==
  ASSUME AuthInv, SetupInv, [Next]_vars, Apart'
  PROVE  BeforeFile'
<1> SUFFICES ASSUME main' = NoInode
             PROVE  /\ shown' = {} /\ sessions' = {}
                    /\ \A r \in Requests : /\ request'[r].call \in {"none", "setup"}
                                         /\ writer'[r].stage # "done"
  BY DEF BeforeFile
<1>1. main = NoInode /\ BeforeFile
  BY FileFacts DEF SetupInv
<1>2. shown' = {} /\ sessions' = {}
  BY <1>1, AnswerStep DEF BeforeFile
<1>3. ASSUME NEW r \in Requests
      PROVE  request'[r].call \in {"none", "setup"} /\ writer'[r].stage # "done"
  <2>1. request'[r].call \in {"none", "setup"}
    BY <1>1, RequestStep DEF BeforeFile, Readable, NoCall
  <2>2. ~File!RenameTemp(r)
    BY DEF File!RenameTemp
  <2>3. writer'[r].stage # "done"
    BY <1>1, <2>2, BusyStep DEF BeforeFile
  <2> QED BY <2>1, <2>3
<1> QED BY <1>2, <1>3

LEMMA AfterFileStep ==
  ASSUME AuthInv, SetupInv, [Next]_vars, Apart'
  PROVE  AfterFile'
<1>1. Apart /\ OneSetup /\ BeforeFile /\ AfterFile
  BY FileFacts DEF SetupInv
<1>2. ASSUME NEW r \in Requests, main' # NoInode, request'[r].call = "setup"
      PROVE  writer'[r].stage = "done"
  <2>1. CASE main # NoInode
    <3>1. request'[r] = request[r]
      BY <1>2, <2>1, RequestStep DEF NoCall
    <3> QED BY <1>1, <1>2, <2>1, <3>1, DoneStays DEF AfterFile
  <2>2. CASE main = NoInode
    <3>1. PICK o \in Requests : File!RenameTemp(o) /\ request[o].call = "setup"
      BY <1>2, <2>2, RecordStep
    <3>2. request'[r] = request[r]
      BY <1>2, <2>2, RequestStep DEF NoCall, fileVars
    <3>3. r = o
      BY <1>1, <1>2, <3>1, <3>2 DEF OneSetup
    <3> QED BY <3>1, <3>3 DEF File!RenameTemp, AuthInv, FP!FileInv, FP!FileTypeOK, FP!Writer
  <2> QED BY <2>1, <2>2
<1>3. ASSUME NEW r \in Requests, request'[r].call = "verify", writer'[r].stage = "done"
      PROVE  Verified'
  <2>1. request'[r] = request[r]
    BY <1>3, BusyStep
  <2>2. CASE writer[r].stage = "done"
    BY <1>1, <1>3, <2>1, <2>2, VerifiedStays DEF AfterFile
  <2>3. CASE File!RenameTemp(r)
    <3>1. main' # NoInode /\ content'[main'].text = writer[r].text /\ writer[r].stage = "rename"
      BY <2>3, RecordStep DEF File!RenameTemp
    <3>2. writer[r].text = [request[r].account EXCEPT !.enabled = TRUE] /\ request[r].account \in Account
      BY <1>3, <2>1, <3>1 DEF AuthInv, Working
    <3> QED BY <3>1, <3>2 DEF Verified, Account
  <2> QED BY <1>3, <2>2, <2>3, BusyStep
<1>4. ASSUME NEW r \in Requests, request'[r].call = "login"
      PROVE  Verified'
  <2>1. CASE request'[r] = request[r]
    BY <1>1, <1>4, <2>1, VerifiedStays DEF AfterFile
  <2>2. CASE request'[r] # request[r]
    <3>1. Readable /\ OnDisk.enabled
      BY <1>4, <2>2, RequestStep DEF NoCall
    <3>2. Verified
      BY <3>1, OnDiskType DEF Verified, AuthInv
    <3> QED BY <3>2, VerifiedStays
  <2> QED BY <2>1, <2>2
<1>5. ASSUME sessions' # {}
      PROVE  Verified'
  <2>1. Verified
    BY <1>1, <1>5, AnswerStep DEF AfterFile
  <2> QED BY <2>1, VerifiedStays
<1> QED BY <1>2, <1>3, <1>4, <1>5 DEF AfterFile

(* Once there is a file, its user and its secret spread to all that        *)
(* follows.                                                                *)
LEMMA OneAccountStep ==
  ASSUME AuthInv, [Next]_vars, main # NoInode, NEW k \in Users \X Secrets, OneAccount(k)
  PROVE  OneAccount(k)'
<1>1. FP!FileInv /\ [FP!FileNext]_(FP!fileVars) /\ main \in Inodes /\ temp \in Inodes \cup {NoInode}
  BY FileFacts DEF FP!FileInv, FP!FileTypeOK
<1>2. \A r \in Requests : writer[r].stage # "idle" => Qr(writer[r].text) = k
  BY DEF AuthInv, Working, OneAccount, Qr, Account
<1>3. \A i \in Inodes : Of(content[i], k) => Of(content'[i], k)
  BY <1>1, <1>2, AuthFile, FP!ContentStep DEF Of, FP!Empty
<1>4. main' # NoInode => Of(content'[main'], k)
  BY <1>1, <1>3, AuthFile, FP!ContentStep DEF OneAccount
<1>5. temp' # NoInode => Of(content'[temp'], k)
  BY <1>1, <1>3, AuthFile, FP!ContentStep DEF OneAccount, Of, FP!Empty
<1>6. ASSUME NEW o \in Requests, request'[o].call # "none"
      PROVE  Qr(request'[o].account) = k
  <2>1. Readable => Qr(OnDisk) = k
    BY OnDiskType, SetupAssumption DEF AuthInv, OneAccount, Of, Account
  <2>2. \/ request'[o] = request[o] /\ request[o].call # "none"
        \/ Readable /\ request'[o].account = OnDisk
    BY <1>6, RequestStep DEF NoCall
  <2> QED BY <2>1, <2>2 DEF OneAccount
<1>7. shown' \subseteq {k}
  BY AnswerStep DEF OneAccount
<1>8. sessions' \subseteq {k[1]}
  <2>1. \A r \in Requests : request[r].call # "none" => request[r].account.user = k[1]
    BY DEF OneAccount, Qr
  <2> QED BY <2>1, AnswerStep DEF OneAccount
<1> QED BY <1>4, <1>5, <1>6, <1>7, <1>8 DEF OneAccount, Of, Qr

(* The rename that makes the file is of the one setup's own record.        *)
LEMMA FirstRename ==
  ASSUME AuthInv, SetupInv, [Next]_vars, Apart', main = NoInode, main' # NoInode
  PROVE  \E k \in Users \X Secrets : OneAccount(k)'
<1>1. PICK r \in Requests :
        /\ File!RenameTemp(r) /\ content'[main'].text = writer[r].text /\ request[r].call = "setup"
  BY RecordStep
<1>2. Apart /\ OneSetup /\ BeforeFile
  BY FileFacts DEF SetupInv
<1>3. temp' = NoInode /\ writer[r].stage = "rename"
  BY <1>1 DEF File!RenameTemp
<1>4. writer[r].text = request[r].account /\ request[r].account \in Account
  BY <1>1, <1>3 DEF AuthInv, Working
<1>5. PICK k \in Users \X Secrets : k = Qr(request[r].account)
  BY <1>4 DEF Account, Qr
<1>6. \A o \in Requests : request'[o].call # "none" => o = r /\ request'[o] = request[o]
  BY <1>1, <1>2, RequestStep DEF OneSetup, BeforeFile, Readable, NoCall, fileVars
<1>7. shown' = {} /\ sessions' = {}
  BY <1>2, <1>3, AnswerStep DEF BeforeFile
<1>8. OneAccount(k)'
  BY <1>1, <1>3, <1>4, <1>5, <1>6, <1>7 DEF OneAccount, Of, Qr
<1> QED BY <1>8

LEMMA SetupInvariant == Spec => []SetupInv
<1>1. Init => SetupInv
  <2> SUFFICES ASSUME Init PROVE SetupInv
    OBVIOUS
  <2>1. /\ main = NoInode /\ shown = {} /\ sessions = {}
        /\ \A r \in Requests : request[r].call = "none" /\ writer[r].stage = "idle"
    BY DEF Init, File!FileInit, File!IdleWriter, NoCall
  <2> QED BY <2>1 DEF SetupInv, OneSetup, BeforeFile, AfterFile
<1>2. AuthInv /\ SetupInv /\ [Next]_vars => SetupInv'
  <2> SUFFICES ASSUME AuthInv, SetupInv, [Next]_vars, Apart'
               PROVE  /\ OneSetup' /\ BeforeFile' /\ AfterFile'
                      /\ main' # NoInode => \E k \in Users \X Secrets : OneAccount(k)'
    BY DEF SetupInv
  <2>1. OneSetup'
    BY FileFacts, OneSetupStep DEF SetupInv, Apart
  <2>2. main' # NoInode => \E k \in Users \X Secrets : OneAccount(k)'
    BY FileFacts, FirstRename, OneAccountStep DEF SetupInv
  <2> QED BY <2>1, <2>2, BeforeFileStep, AfterFileStep
<1> QED BY <1>1, <1>2, AuthInvariant, PTL DEF Spec
-----------------------------------------------------------------------------
(* The QR a client was sent is that of the account on disk, through any    *)
(* setups, verifies, failed writes and crashes, unless two setups or two   *)
(* writers overlapped.                                                     *)
THEOREM AuthShownIsStored == Spec => []ShownIsStored
<1>1. AuthInv /\ SetupInv => ShownIsStored
  <2> SUFFICES ASSUME AuthInv, SetupInv, Apart, NEW q \in shown
               PROVE  Readable /\ Qr(OnDisk) = q
    BY DEF ShownIsStored
  <2>1. main # NoInode
    BY DEF SetupInv, BeforeFile
  <2>2. Readable
    BY <2>1, AuthFile, FP!FileReadable DEF AuthInv, Apart, Readable, FP!Intact, File!Intact
  <2>3. PICK k \in Users \X Secrets : OneAccount(k)
    BY <2>1 DEF SetupInv
  <2>4. OnDisk = content[main].text /\ OnDisk # NoAccount
    BY <2>2, OnDiskType, SetupAssumption DEF AuthInv, Account
  <2> QED BY <2>1, <2>2, <2>3, <2>4 DEF OneAccount, Of
<1> QED BY <1>1, AuthInvariant, SetupInvariant, PTL

(* Whoever is signed in is the user of the account on disk, and that       *)
(* account's code was verified, under the same condition.                  *)
THEOREM AuthSessionsEnrolled == Spec => []SessionsEnrolled
<1>1. AuthInv /\ SetupInv => SessionsEnrolled
  <2> SUFFICES ASSUME AuthInv, SetupInv, Apart, NEW u \in sessions
               PROVE  Enrolled(OnDisk) /\ OnDisk.user = u
    BY DEF SessionsEnrolled
  <2>1. main # NoInode /\ content[main].text.enabled
    BY DEF SetupInv, AfterFile, Verified
  <2>2. Readable
    BY <2>1, AuthFile, FP!FileReadable DEF AuthInv, Apart, Readable, FP!Intact, File!Intact
  <2>3. PICK k \in Users \X Secrets : OneAccount(k)
    BY <2>1 DEF SetupInv
  <2>4. OnDisk = content[main].text /\ OnDisk # NoAccount
    BY <2>2, OnDiskType, SetupAssumption DEF AuthInv, Account
  <2>5. Qr(OnDisk) = k /\ u = k[1]
    BY <2>1, <2>3, <2>4 DEF OneAccount, Of
  <2> QED BY <2>1, <2>4, <2>5 DEF Enrolled, Qr
<1> QED BY <1>1, AuthInvariant, SetupInvariant, PTL

(* An account whose code was verified is there for good: whatever is       *)
(* written over it is the same record.                                     *)
THEOREM AuthEnrolledStays == Spec => EnrolledStays
<1>1. AuthInv /\ AuthInv' /\ SetupInv /\ [Next]_vars => [Apart' /\ Enrolled(OnDisk) => OnDisk' = OnDisk]_vars
  <2> SUFFICES ASSUME AuthInv, AuthInv', SetupInv, [Next]_vars, Apart', Enrolled(OnDisk)
               PROVE  OnDisk' = OnDisk
    OBVIOUS
  <2>1. main # NoInode /\ OnDisk = content[main].text /\ OnDisk \in Account /\ OnDisk.enabled
    BY OnDiskType DEF Enrolled, OnDisk, Readable, AuthInv
  <2>2. main' # NoInode /\ OnDisk' = content'[main'].text
    <3>1. main' # NoInode
      BY <2>1, FileFacts
    <3>2. FP!Intact(content'[main'])
      BY <3>1 DEF AuthInv, FP!FileInv, FP!Exclusive, Apart, FP!Intact
    <3> QED BY <3>1, <3>2 DEF OnDisk, Readable, FP!Intact, File!Intact
  <2>3. CASE \A r \in Requests : ~File!RenameTemp(r)
    BY <2>1, <2>2, <2>3, RecordStep
  <2>4. ASSUME NEW r \in Requests, File!RenameTemp(r)
        PROVE  OnDisk' = OnDisk
    <3>1. OnDisk' = writer[r].text /\ request[r].call = "verify" /\ writer[r].stage = "rename"
      BY <2>1, <2>2, <2>4, RecordStep DEF File!RenameTemp
    <3>2. writer[r].text = [request[r].account EXCEPT !.enabled = TRUE] /\ request[r].account \in Account
      BY <3>1 DEF AuthInv, Working
    <3>3. PICK k \in Users \X Secrets : OneAccount(k)
      BY <2>1, FileFacts DEF SetupInv
    <3>4. Qr(OnDisk) = k /\ Qr(request[r].account) = k
      <4>1. OnDisk # NoAccount
        BY <2>1, SetupAssumption DEF Account
      <4> QED BY <2>1, <3>1, <3>3, <4>1 DEF OneAccount, Of
    <3>5. OnDisk.user = request[r].account.user /\ OnDisk.secret = request[r].account.secret
      BY <3>4 DEF Qr
    <3>6. /\ writer[r].text \in Account /\ writer[r].text.enabled
          /\ writer[r].text.user = request[r].account.user
          /\ writer[r].text.secret = request[r].account.secret
      BY <3>2 DEF Account
    <3>7. \A a, b \in Account : a.user = b.user /\ a.secret = b.secret /\ a.enabled /\ b.enabled => a = b
      BY DEF Account
    <3> QED BY <2>1, <3>1, <3>5, <3>6, <3>7
  <2> QED BY <2>3, <2>4
<1> QED BY <1>1, AuthInvariant, SetupInvariant, PTL DEF Spec, EnrolledStays
=============================================================================
