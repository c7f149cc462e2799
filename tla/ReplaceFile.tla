----------------------------- MODULE ReplaceFile -----------------------------
(***************************************************************************)
(* How Atlas replaces a file it must not lose: write the new text to       *)
(* "<file>.tmp", then rename that over the file.  writeVaultEnvelope       *)
(* (wallets.enc) and writeAuthRecord (auth.json) are both this procedure.  *)
(* Each await in it is a point where another request may run, and every    *)
(* caller uses the same temporary path, so the file system is modelled at  *)
(* the level of inodes: a rename moves the inode, and a writer that still  *)
(* holds it open keeps writing to the file under its new name.             *)
(***************************************************************************)
EXTENDS Naturals, FiniteSets

CONSTANTS
  Writers,     \* requests that may be replacing the file
  Payloads,    \* texts the file may hold
  Size,        \* the length of each text
  Inodes,      \* inode numbers
  NoInode,     \* a path that does not exist, a writer without a descriptor
  NoPayload    \* nothing written

ASSUME FileAssumption ==
  /\ Size \in [Payloads -> Nat \ {0}]
  /\ NoInode \notin Inodes
  /\ NoPayload \notin Payloads

VARIABLES
  main,        \* the inode the file's path names, or NoInode
  temp,        \* the inode the .tmp path names, or NoInode
  content,     \* what each inode holds
  writer,      \* what each request is doing in the procedure
  overlapped   \* history: a writer has opened .tmp while another was using it

fileVars == <<main, temp, content, writer, overlapped>>

Stages == {"idle", "open", "write", "rename", "done"}

Content == [text : Payloads \cup {NoPayload}, length : Nat]
Writer  == [stage : Stages,
            text  : Payloads \cup {NoPayload},
            fd    : Inodes \cup {NoInode}]

Empty      == [text |-> NoPayload, length |-> 0]
IdleWriter == [stage |-> "idle", text |-> NoPayload, fd |-> NoInode]

FileTypeOK ==
  /\ main \in Inodes \cup {NoInode}
  /\ temp \in Inodes \cup {NoInode}
  /\ content \in [Inodes -> Content]
  /\ writer \in [Writers -> Writer]
  /\ overlapped \in BOOLEAN

FileInit ==
  /\ main = NoInode
  /\ temp = NoInode
  /\ content = [i \in Inodes |-> Empty]
  /\ writer = [w \in Writers |-> IdleWriter]
  /\ overlapped = FALSE

-----------------------------------------------------------------------------
(* What a reader of the file gets.                                         *)

\* The text is there and nothing follows it: JSON.parse accepts it.
Intact(c) == c.text # NoPayload /\ c.length = Size[c.text]

\* write(2) at offset 0 over what the inode holds: a shorter text leaves
\* the tail of a longer one behind it.
Overlay(c, t) ==
  [text |-> t, length |-> IF c.length > Size[t] THEN c.length ELSE Size[t]]

\* The writers between the open and the rename, which is where they share .tmp.
Using(w) == writer[w].stage \in {"write", "rename"}

FreeInodes == Inodes \ ({main, temp} \cup {writer[w].fd : w \in Writers})

-----------------------------------------------------------------------------
(* The steps of one replacement.                                           *)

\* The call; the mkdir before the open finds the directory or makes it.
BeginWrite(w, t) ==
  /\ writer[w] = IdleWriter
  /\ writer' = [writer EXCEPT ![w] = [stage |-> "open", text |-> t, fd |-> NoInode]]
  /\ UNCHANGED <<main, temp, content, overlapped>>

\* Mutant: opened with "r+", so what a crash left in .tmp is not truncated.
OpenTempKeeping(w) ==
  /\ writer[w].stage = "open"
  /\ \E i \in IF temp = NoInode THEN FreeInodes ELSE {temp} :
       /\ temp' = i
       /\ writer' = [writer EXCEPT ![w].stage = "write", ![w].fd = i]
  /\ overlapped' = (overlapped \/ \E o \in Writers \ {w} : Using(o))
  /\ UNCHANGED <<main, content>>

\* Mutant: writeFile on the file itself.
OpenInPlace(w) ==
  /\ writer[w].stage = "open"
  /\ \E i \in IF main = NoInode THEN FreeInodes ELSE {main} :
       /\ main' = i
       /\ content' = [content EXCEPT ![i] = Empty]
       /\ writer' = [writer EXCEPT ![w].stage = "write", ![w].fd = i]
  /\ overlapped' = (overlapped \/ \E o \in Writers \ {w} : Using(o))
  /\ UNCHANGED temp

\* writeFile opens with "w": truncate what the path names, or create it with
\* any inode in no use.  (Inodes bounds the model, not the code.)
OpenTemp(w) ==
  /\ writer[w].stage = "open"
  /\ \E i \in IF temp = NoInode THEN FreeInodes ELSE {temp} :
       /\ temp' = i
       /\ content' = [content EXCEPT ![i] = Empty]
       /\ writer' = [writer EXCEPT ![w].stage = "write", ![w].fd = i]
  /\ overlapped' = (overlapped \/ \E o \in Writers \ {w} : Using(o))
  /\ UNCHANGED main

WriteTemp(w) ==
  /\ writer[w].stage = "write"
  /\ content' = [content EXCEPT ![writer[w].fd] = Overlay(@, writer[w].text)]
  /\ writer' = [writer EXCEPT ![w].stage = "rename"]
  /\ UNCHANGED <<main, temp, overlapped>>

\* Mutant: the old file is unlinked before the rename.
RenameAfterUnlink(w) ==
  /\ writer[w].stage = "rename"
  /\ main' = IF main = NoInode THEN temp ELSE NoInode
  /\ temp' = IF main = NoInode THEN NoInode ELSE temp
  /\ writer' = IF main = NoInode THEN [writer EXCEPT ![w].stage = "done", ![w].fd = NoInode]
                ELSE writer
  /\ UNCHANGED <<content, overlapped>>

\* rename moves whatever inode .tmp names now, whoever wrote it; what the
\* file held before has no name left and is never read again.
RenameTemp(w) ==
  /\ writer[w].stage = "rename"
  /\ temp # NoInode
  /\ main' = temp
  /\ temp' = NoInode
  /\ content' = [i \in Inodes |-> IF i = main THEN Empty ELSE content[i]]
  /\ writer' = [writer EXCEPT ![w].stage = "done", ![w].fd = NoInode]
  /\ UNCHANGED overlapped

\* The call returns to its caller.
FinishWrite(w) ==
  /\ writer[w].stage = "done"
  /\ writer' = [writer EXCEPT ![w] = IdleWriter]
  /\ UNCHANGED <<main, temp, content, overlapped>>

\* Mutant: a failed call takes .tmp away with it.
FailCleaning(w) ==
  /\ writer[w].stage \in {"open", "write", "rename"}
  /\ temp' = NoInode
  /\ writer' = [writer EXCEPT ![w] = IdleWriter]
  /\ UNCHANGED <<main, content, overlapped>>

\* Mutant: an error that is swallowed, and a call that never returns.
FailStuck(w) ==
  /\ writer[w].stage \in {"open", "write", "rename"}
  /\ writer' = [writer EXCEPT ![w].stage = "stuck"]
  /\ UNCHANGED <<main, temp, content, overlapped>>

\* The call throws: the disk refuses the open, the write or the rename, or
\* .tmp is gone (another writer renamed it) and the rename gets ENOENT.
FailWrite(w) ==
  /\ writer[w].stage \in {"open", "write", "rename"}
  /\ writer' = [writer EXCEPT ![w] = IdleWriter]
  /\ UNCHANGED <<main, temp, content, overlapped>>

\* The process dies: its descriptors are closed, the files stay, and the
\* next process has no other writer to share .tmp with.
CrashWriters ==
  /\ writer' = [w \in Writers |-> IdleWriter]
  /\ UNCHANGED <<main, temp, content, overlapped>>

FileNext ==
  \/ \E w \in Writers :
       \/ \E t \in Payloads : BeginWrite(w, t)
       \/ OpenTemp(w)
       \/ WriteTemp(w)
       \/ RenameTemp(w)
       \/ FinishWrite(w)
       \/ FailWrite(w)
  \/ CrashWriters

FileSpec == FileInit /\ [][FileNext]_fileVars

-----------------------------------------------------------------------------
(* Unless two writers have shared .tmp, the file is always a whole text:   *)
(* at no step, whatever fails and whenever the process dies, can a reader  *)
(* find it truncated, half written or followed by another text's tail.     *)
IntactUnlessOverlapped ==
  ~overlapped /\ main # NoInode => Intact(content[main])

(* Unless two writers have shared .tmp, a writer that reaches its rename   *)
(* finds at .tmp the very inode it wrote: the rename is not refused with   *)
(* ENOENT and moves nobody else's text, so only a failing disk makes the   *)
(* call throw.                                                             *)
RenameNeverMissing ==
  ~overlapped => \A w \in Writers : writer[w].stage = "rename" => temp = writer[w].fd

(* The file, once there, is never without a name again: replacing it and   *)
(* crashing anywhere in the replacement both leave the path in place.      *)
NeverUnlinked == [][main # NoInode => main' # NoInode]_fileVars

(* A replacement changes what a reader sees in one step: with no shared    *)
(* .tmp the file goes from one whole text to another whole text that some  *)
(* writer asked for, never in between and never backwards by itself.       *)
ReplacedAtomically ==
  [][~overlapped' /\ main' # NoInode /\ (main' # main \/ content'[main'] # content[main'])
       => \E w \in Writers : /\ writer[w].stage = "rename"
                             /\ writer'[w].stage = "done"
                             /\ content'[main'].text = writer[w].text]_fileVars
=============================================================================
