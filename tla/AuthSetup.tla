----------------------------- MODULE AuthSetup ------------------------------
(***************************************************************************)
(* How the one account of an installation comes to be: auth/routes.ts      *)
(* (setup, totp/verify, login, logout) over auth/store.ts (auth.json) and  *)
(* the sessions in memory.  Every handler reads auth.json first, awaits    *)
(* argon2, and then acts on the record it read, whatever the file holds by *)
(* then.  A user stands for a name with its password; who knows a secret   *)
(* and has the right password is who an answer showed its QR to.           *)
(***************************************************************************)
EXTENDS Naturals, FiniteSets

CONSTANTS
  Requests,     \* requests that may be in flight
  Users, Secrets,
  NoAccount,    \* readAuthRecord() = null, nothing read
  Inodes, NoInode

ASSUME SetupAssumption ==
  /\ IsFiniteSet(Requests)
  /\ NoAccount \notin [user : Users, secret : Secrets, enabled : BOOLEAN]
  /\ NoInode \notin Inodes

VARIABLES
  request,      \* what each request is doing, and the record it goes by
  sessions,     \* users with a live session
  shown,        \* history: accounts whose QR a client has been sent
  twoSetups,    \* history: two setups have been past the existence check together
  main, temp, content, writer, overlapped   \* auth.json, see ReplaceFile

Account == [user : Users, secret : Secrets, enabled : BOOLEAN]

\* "true" is one character shorter than "false".
AccountSize == [a \in Account |-> IF a.enabled THEN 1 ELSE 2]

File == INSTANCE ReplaceFile WITH
          Writers <- Requests, Payloads <- Account, Size <- AccountSize, NoPayload <- NoAccount

fileVars == <<main, temp, content, writer, overlapped>>
authVars == <<request, sessions, shown, twoSetups>>
vars     == <<authVars, fileVars>>

Calls   == {"none", "setup", "again", "verify", "login"}
Request == [call : Calls, account : Account \cup {NoAccount}]
NoCall  == [call |-> "none", account |-> NoAccount]

TypeOK ==
  /\ request \in [Requests -> Request]
  /\ sessions \subseteq Users
  /\ shown \subseteq Users \X Secrets
  /\ twoSetups \in BOOLEAN
  /\ File!FileTypeOK

Readable == main # NoInode /\ File!Intact(content[main])
OnDisk   == IF Readable THEN content[main].text ELSE NoAccount

Enrolled(a) == a # NoAccount /\ a.enabled

Qr(a) == <<a.user, a.secret>>

\* createTotpSecret never draws a secret again.
FreshSecrets ==
  {s \in Secrets : /\ Readable => OnDisk.secret # s
                   /\ \A u \in Users : <<u, s>> \notin shown
                   /\ \A r \in Requests : request[r] # NoCall => request[r].account.secret # s}

Init ==
  /\ request = [r \in Requests |-> NoCall]
  /\ sessions = {}
  /\ shown = {}
  /\ twoSetups = FALSE
  /\ File!FileInit

-----------------------------------------------------------------------------
(* Every handler starts with readAuthRecord.  A record that does not       *)
(* parse, or one the handler has no use for, is an answer that changes     *)
(* nothing.                                                                *)

Begin(r, call, account) ==
  /\ request[r] = NoCall
  /\ request' = [request EXCEPT ![r] = [call |-> call, account |-> account]]
  /\ UNCHANGED <<sessions, shown, fileVars>>

\* Mutant: no look at auth.json.
SetupUnchecked(r, u) ==
  \E s \in FreshSecrets :
    /\ Begin(r, "setup", [user |-> u, secret |-> s, enabled |-> FALSE])
    /\ twoSetups' = (twoSetups \/ \E o \in Requests : request[o].call = "setup")

\* POST /api/auth/setup with no auth.json: a secret, and then argon2.hash.
SetupStarts(r, u) ==
  /\ main = NoInode
  /\ \E s \in FreshSecrets :
       /\ Begin(r, "setup", [user |-> u, secret |-> s, enabled |-> FALSE])
       /\ twoSetups' = (twoSetups \/ \E o \in Requests : request[o].call = "setup")

\* POST /api/auth/setup again, before the code was verified.
AgainStarts(r) ==
  /\ Readable
  /\ ~OnDisk.enabled
  /\ Begin(r, "again", OnDisk)
  /\ UNCHANGED twoSetups

\* POST /api/auth/totp/verify
VerifyStarts(r) ==
  /\ Readable
  /\ ~OnDisk.enabled
  /\ Begin(r, "verify", OnDisk)
  /\ UNCHANGED twoSetups

\* POST /api/auth/login; its limiter is AttemptLimiter's business.
LoginStarts(r) ==
  /\ Enrolled(OnDisk)
  /\ Begin(r, "login", OnDisk)
  /\ UNCHANGED twoSetups

-----------------------------------------------------------------------------
(* What follows argon2.                                                    *)

\* Mutant: the QR is sent before the record is written.
SetupShowsFirst(r) ==
  /\ request[r].call = "setup"
  /\ File!BeginWrite(r, request[r].account)
  /\ shown' = shown \cup {Qr(request[r].account)}
  /\ UNCHANGED <<request, sessions, twoSetups>>

SetupHashed(r) ==
  /\ request[r].call = "setup"
  /\ File!BeginWrite(r, request[r].account)
  /\ UNCHANGED authVars

SetupAnswers(r) ==
  /\ request[r].call = "setup"
  /\ File!FinishWrite(r)
  /\ shown' = shown \cup {Qr(request[r].account)}
  /\ request' = [request EXCEPT ![r] = NoCall]
  /\ UNCHANGED <<sessions, twoSetups>>

\* The name and the password are right: the same QR once more.
AgainAnswers(r) ==
  /\ request[r].call = "again"
  /\ shown' = shown \cup {Qr(request[r].account)}
  /\ request' = [request EXCEPT ![r] = NoCall]
  /\ UNCHANGED <<sessions, twoSetups, fileVars>>

\* Mutant: the record is written without what was read.
VerifyPartial(r) ==
  /\ request[r].call = "verify"
  /\ Qr(request[r].account) \in shown
  /\ File!BeginWrite(r, [enabled |-> TRUE])
  /\ UNCHANGED authVars

\* Mutant: the session is created before the record is written.
VerifyOpensFirst(r) ==
  /\ request[r].call = "verify"
  /\ Qr(request[r].account) \in shown
  /\ sessions' = sessions \cup {request[r].account.user}
  /\ UNCHANGED <<request, shown, twoSetups, fileVars>>

\* The name, the password and the code are right: the record that was read
\* is written back enabled.
VerifyAccepts(r) ==
  /\ request[r].call = "verify"
  /\ Qr(request[r].account) \in shown
  /\ File!BeginWrite(r, [request[r].account EXCEPT !.enabled = TRUE])
  /\ UNCHANGED authVars

VerifyAnswers(r) ==
  /\ request[r].call = "verify"
  /\ File!FinishWrite(r)
  /\ sessions' = sessions \cup {request[r].account.user}
  /\ request' = [request EXCEPT ![r] = NoCall]
  /\ UNCHANGED <<shown, twoSetups>>

LoginAnswers(r) ==
  /\ request[r].call = "login"
  /\ Qr(request[r].account) \in shown
  /\ sessions' = sessions \cup {request[r].account.user}
  /\ request' = [request EXCEPT ![r] = NoCall]
  /\ UNCHANGED <<shown, twoSetups, fileVars>>

\* A name, a password or a code is wrong.
Refused(r) ==
  /\ request[r].call \in {"again", "verify", "login"}
  /\ writer[r] = File!IdleWriter
  /\ request' = [request EXCEPT ![r] = NoCall]
  /\ UNCHANGED <<sessions, shown, twoSetups, fileVars>>

\* Logout, or the end of the session's time.
SessionEnds(u) ==
  /\ u \in sessions
  /\ sessions' = sessions \ {u}
  /\ UNCHANGED <<request, shown, twoSetups, fileVars>>

-----------------------------------------------------------------------------
(* writeAuthRecord *)

WriteTempFile(r) ==
  /\ File!OpenTemp(r) \/ File!WriteTemp(r) \/ File!RenameTemp(r)
  /\ UNCHANGED authVars

\* The answer is a 500.
WriteFailed(r) ==
  /\ File!FailWrite(r)
  /\ request' = [request EXCEPT ![r] = NoCall]
  /\ UNCHANGED <<sessions, shown, twoSetups>>

\* Sessions live in memory only.
Restart ==
  /\ request' = [r \in Requests |-> NoCall]
  /\ sessions' = {}
  /\ File!CrashWriters
  /\ UNCHANGED <<shown, twoSetups>>

Next ==
  \/ \E r \in Requests :
       \/ \E u \in Users : SetupStarts(r, u)
       \/ AgainStarts(r) \/ VerifyStarts(r) \/ LoginStarts(r)
       \/ SetupHashed(r) \/ SetupAnswers(r) \/ AgainAnswers(r)
       \/ VerifyAccepts(r) \/ VerifyAnswers(r) \/ LoginAnswers(r) \/ Refused(r)
       \/ WriteTempFile(r) \/ WriteFailed(r)
  \/ \E u \in Users : SessionEnds(u)
  \/ Restart

Spec == Init /\ [][Next]_vars

-----------------------------------------------------------------------------
(* Two ways for the account to go wrong are known: two setups past the     *)
(* existence check together, and two writers with auth.json.tmp open       *)
(* together.  The properties say there is no third.                        *)
Apart == ~twoSetups /\ ~overlapped

(* An account whose code was verified is never taken back or replaced, by  *)
(* no setup, verify, failure or crash in any order.                        *)
EnrolledStays ==
  [][Apart' /\ Enrolled(OnDisk) => OnDisk' = OnDisk]_vars

(* The QR a client has been sent is the QR of the account on disk: nobody  *)
(* scans a secret that the server will not ask for.                        *)
ShownIsStored ==
  Apart => \A q \in shown : Readable /\ Qr(OnDisk) = q

(* A session belongs to the account on disk, and that one is enrolled: no  *)
(* crash or failed write leaves somebody signed in on a code that the next *)
(* login would not know.                                                   *)
SessionsEnrolled ==
  Apart => \A u \in sessions : Enrolled(OnDisk) /\ OnDisk.user = u
=============================================================================
