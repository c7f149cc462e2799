-------------------------- MODULE ReplaceFileProofs --------------------------
(***************************************************************************)
(* Proofs about ReplaceFile for any number of writers, texts and inodes.   *)
(* The argument: as long as no writer has opened .tmp while another was    *)
(* using it, at most one writer is between its open and its rename, it     *)
(* holds the inode .tmp names, and that inode is not the file's own.       *)
(***************************************************************************)
EXTENDS ReplaceFile, TLAPS

\* The text a busy writer carries is one of the texts.
Carries ==
  \A w \in Writers : writer[w].stage # "idle" => writer[w].text \in Payloads

\* The file and its replacement never share an inode.
Apart == main # NoInode => main # temp

\* What a writer between its open and its rename has in its hands.
Holds(w) ==
  /\ writer[w].fd = temp
  /\ temp # NoInode
  /\ writer[w].stage = "write" => content[temp] = Empty
  /\ writer[w].stage = "rename" =>
       content[temp] = [text |-> writer[w].text, length |-> Size[writer[w].text]]

Exclusive ==
  ~overlapped =>
    /\ \A v, w \in Writers : Using(v) /\ Using(w) => v = w
    /\ \A w \in Writers : Using(w) => Holds(w)
    /\ main # NoInode => Intact(content[main])

FileInv == FileTypeOK /\ Carries /\ Apart /\ Exclusive

-----------------------------------------------------------------------------
(* An overlay on an emptied inode is exactly the text.                     *)
LEMMA OverlayEmpty ==
  ASSUME NEW t \in Payloads
  PROVE  Overlay(Empty, t) = [text |-> t, length |-> Size[t]]
  BY FileAssumption DEF Overlay, Empty

(* The texts and their overlays are contents.                              *)
LEMMA OverlayType ==
  ASSUME NEW c \in Content, NEW t \in Payloads
  PROVE  Overlay(c, t) \in Content
  BY FileAssumption DEF Overlay, Content

LEMMA FileInitInv == FileInit => FileInv
<1> SUFFICES ASSUME FileInit PROVE FileInv
  OBVIOUS
<1>1. Empty \in Content /\ IdleWriter \in Writer
  BY DEF Empty, Content, IdleWriter, Writer, Stages
<1>2. FileTypeOK
  BY <1>1 DEF FileInit, FileTypeOK
<1>3. \A w \in Writers : writer[w].stage = "idle"
  BY DEF FileInit, IdleWriter
<1>4. Carries /\ Apart /\ Exclusive
  BY <1>3 DEF FileInit, Carries, Apart, Exclusive, Using
<1> QED BY <1>2, <1>4 DEF FileInv

LEMMA BeginWriteInv ==
  ASSUME FileInv, NEW w \in Writers, NEW t \in Payloads, BeginWrite(w, t)
  PROVE  FileInv'
<1> USE DEF FileInv, BeginWrite
<1>1. writer' = [writer EXCEPT ![w] = [stage |-> "open", text |-> t, fd |-> NoInode]]
  OBVIOUS
<1>2. FileTypeOK'
  BY <1>1 DEF FileTypeOK, Writer, Stages
<1>3. Carries'
  BY <1>1 DEF Carries, FileTypeOK
<1>4. \A v \in Writers : Using(v)' => Using(v) /\ writer'[v] = writer[v]
  BY <1>1 DEF Using, FileTypeOK
<1>5. Apart' /\ Exclusive'
  BY <1>4 DEF Apart, Exclusive, Holds, Intact
<1> QED BY <1>2, <1>3, <1>5

LEMMA OpenTempInv ==
  ASSUME FileInv, NEW w \in Writers, OpenTemp(w)
  PROVE  FileInv'
<1> PICK i \in IF temp = NoInode THEN FreeInodes ELSE {temp} :
       /\ temp' = i
       /\ content' = [content EXCEPT ![i] = Empty]
       /\ writer' = [writer EXCEPT ![w].stage = "write", ![w].fd = i]
  BY DEF OpenTemp
<1>1. i \in Inodes /\ i # NoInode /\ (main # NoInode => i # main)
  BY FileAssumption DEF FreeInodes, FileInv, FileTypeOK, Apart
<1>2. /\ temp' = i
      /\ content' = [content EXCEPT ![i] = Empty]
      /\ writer' = [writer EXCEPT ![w].stage = "write", ![w].fd = i]
      /\ overlapped' = (overlapped \/ \E o \in Writers \ {w} : Using(o))
      /\ main' = main
  BY DEF OpenTemp
<1>3. /\ writer'[w] = [writer[w] EXCEPT !.stage = "write", !.fd = i]
      /\ \A v \in Writers \ {w} : writer'[v] = writer[v]
  BY <1>2 DEF FileInv, FileTypeOK
<1>4. Empty \in Content
  BY DEF Empty, Content
<1>5. FileTypeOK'
  <2>1. writer' \in [Writers -> Writer]
    BY <1>1, <1>2 DEF FileInv, FileTypeOK, Writer, Stages
  <2>2. content' \in [Inodes -> Content]
    BY <1>1, <1>2, <1>4 DEF FileInv, FileTypeOK
  <2>3. overlapped' \in BOOLEAN
    BY <1>2
  <2> QED BY <1>1, <1>2, <2>1, <2>2, <2>3 DEF FileInv, FileTypeOK
<1>6. Carries'
  <2>1. writer[w].stage = "open"
    BY DEF OpenTemp
  <2>2. writer'[w].text = writer[w].text
    BY <1>3 DEF FileInv, FileTypeOK, Writer
  <2> QED BY <1>3, <2>1, <2>2 DEF FileInv, Carries
<1>7. Apart'
  BY <1>1, <1>2 DEF Apart
<1>8. Exclusive'
  <2> SUFFICES ASSUME ~overlapped' PROVE
        /\ \A v, u \in Writers : Using(v)' /\ Using(u)' => v = u
        /\ \A u \in Writers : Using(u)' => Holds(u)'
        /\ main' # NoInode => Intact(content[main])'
    BY DEF Exclusive
  <2>1. ~overlapped /\ \A v \in Writers \ {w} : ~Using(v)'
    BY <1>2, <1>3 DEF Using
  <2>2. main' # NoInode => Intact(content[main])'
    BY <2>1, <1>1, <1>2 DEF FileInv, Exclusive, Intact, FileTypeOK
  <2>3. Holds(w)'
    <3>1. writer'[w].fd = i /\ writer'[w].stage = "write"
      BY <1>3 DEF FileInv, FileTypeOK, Writer
    <3>2. content'[i] = Empty
      BY <1>1, <1>2 DEF FileInv, FileTypeOK
    <3> QED BY <3>1, <3>2, <1>1, <1>2 DEF Holds
  <2> QED BY <2>1, <2>2, <2>3
<1> QED BY <1>5, <1>6, <1>7, <1>8 DEF FileInv

LEMMA WriteTempInv ==
  ASSUME FileInv, NEW w \in Writers, WriteTemp(w)
  PROVE  FileInv'
<1> DEFINE f == writer[w].fd
           t == writer[w].text
<1>1. /\ content' = [content EXCEPT ![f] = Overlay(content[f], t)]
      /\ writer' = [writer EXCEPT ![w].stage = "rename"]
      /\ main' = main /\ temp' = temp /\ overlapped' = overlapped
  BY DEF WriteTemp
<1>2. /\ writer'[w] = [writer[w] EXCEPT !.stage = "rename"]
      /\ \A v \in Writers \ {w} : writer'[v] = writer[v]
      /\ writer[w].stage = "write"
  BY <1>1 DEF FileInv, FileTypeOK, WriteTemp
<1>3. t \in Payloads
  BY <1>2 DEF FileInv, Carries
<1>4. FileTypeOK'
  <2>1. \A c \in Content : Overlay(c, t) \in Content
    BY <1>3, OverlayType
  <2>2. content' \in [Inodes -> Content]
    BY <1>1, <2>1 DEF FileInv, FileTypeOK
  <2>3. writer' \in [Writers -> Writer]
    BY <1>1 DEF FileInv, FileTypeOK, Writer, Stages
  <2> QED BY <1>1, <2>2, <2>3 DEF FileInv, FileTypeOK
<1>5. Carries'
  BY <1>2, <1>3 DEF FileInv, Carries, FileTypeOK, Writer
<1>6. Apart'
  BY <1>1 DEF FileInv, Apart
<1>7. Exclusive'
  <2> SUFFICES ASSUME ~overlapped' PROVE
        /\ \A v, u \in Writers : Using(v)' /\ Using(u)' => v = u
        /\ \A u \in Writers : Using(u)' => Holds(u)'
        /\ main' # NoInode => Intact(content[main])'
    BY DEF Exclusive
  <2>1. ~overlapped /\ Using(w) /\ Holds(w) /\ f = temp /\ temp # NoInode /\ content[f] = Empty
    BY <1>1, <1>2 DEF FileInv, Exclusive, Using, Holds
  <2>2. f \in Inodes
    BY <2>1 DEF FileInv, FileTypeOK
  <2>3. content'[f] = [text |-> t, length |-> Size[t]]
    BY <1>1, <1>3, <2>1, <2>2, OverlayEmpty DEF FileInv, FileTypeOK
  <2>4. \A v \in Writers : Using(v)' => v = w
    BY <1>2, <2>1 DEF FileInv, Exclusive, Using
  <2>5. Holds(w)'
    BY <1>1, <1>2, <2>1, <2>3 DEF Holds, FileInv, FileTypeOK, Writer
  <2>6. main' # NoInode => Intact(content[main])'
    BY <1>1, <2>1 DEF FileInv, Exclusive, Apart, Intact, FileTypeOK
  <2> QED BY <2>4, <2>5, <2>6
<1> QED BY <1>4, <1>5, <1>6, <1>7 DEF FileInv

LEMMA RenameTempInv ==
  ASSUME FileInv, NEW w \in Writers, RenameTemp(w)
  PROVE  FileInv'
<1>1. /\ writer'[w] = [writer[w] EXCEPT !.stage = "done", !.fd = NoInode]
      /\ \A v \in Writers \ {w} : writer'[v] = writer[v]
      /\ writer[w].stage = "rename" /\ temp # NoInode
      /\ main' = temp /\ temp' = NoInode
      /\ content' = [i \in Inodes |-> IF i = main THEN Empty ELSE content[i]]
      /\ overlapped' = overlapped
  BY DEF FileInv, FileTypeOK, RenameTemp
<1>2. writer'[w].text = writer[w].text /\ writer'[w].stage = "done"
  BY DEF FileInv, FileTypeOK, RenameTemp, Writer
<1>3. FileTypeOK'
  <2>1. writer' \in [Writers -> Writer]
    BY DEF FileInv, FileTypeOK, RenameTemp, Writer, Stages
  <2>2. content' \in [Inodes -> Content]
    BY <1>1 DEF FileInv, FileTypeOK, Empty, Content
  <2> QED BY <1>1, <2>1, <2>2 DEF FileInv, FileTypeOK
<1>4. Carries'
  BY <1>1, <1>2 DEF FileInv, Carries
<1>5. Apart'
  BY <1>1 DEF Apart
<1>6. Exclusive'
  <2> SUFFICES ASSUME ~overlapped' PROVE
        /\ \A v \in Writers : ~Using(v)'
        /\ main' # NoInode => Intact(content[main])'
    BY DEF Exclusive
  <2>1. ~overlapped /\ Using(w) /\ Holds(w)
    BY <1>1 DEF FileInv, Exclusive, Using
  <2>2. \A v \in Writers : ~Using(v)'
    BY <1>1, <1>2, <2>1 DEF FileInv, Exclusive, Using
  <2>3. Intact(content[main])'
    <3>1. writer[w].text \in Payloads
      BY <1>1 DEF FileInv, Carries
    <3>2. content'[main'] = [text |-> writer[w].text, length |-> Size[writer[w].text]]
      BY <1>1, <2>1 DEF Holds, FileInv, FileTypeOK, Apart
    <3> QED BY <3>1, <3>2, FileAssumption DEF Intact
  <2> QED BY <2>2, <2>3
<1> QED BY <1>3, <1>4, <1>5, <1>6 DEF FileInv

LEMMA LeaveInv ==
  ASSUME FileInv, NEW S \in SUBSET Writers,
         writer' = [v \in Writers |-> IF v \in S THEN IdleWriter ELSE writer[v]],
         UNCHANGED <<main, temp, content, overlapped>>
  PROVE  FileInv'
<1>1. FileTypeOK'
  BY DEF FileInv, FileTypeOK, Writer, Stages, IdleWriter
<1>2. Carries'
  BY DEF FileInv, Carries, IdleWriter
<1>3. Apart'
  BY DEF FileInv, Apart
<1>4. \A v \in Writers : Using(v)' => Using(v) /\ writer'[v] = writer[v]
  BY DEF Using, IdleWriter
<1>5. Exclusive'
  BY <1>4 DEF FileInv, Exclusive, Holds, Intact
<1> QED BY <1>1, <1>2, <1>3, <1>5 DEF FileInv

LEMMA FileNextInv == FileInv /\ [FileNext]_fileVars => FileInv'
<1> SUFFICES ASSUME FileInv, [FileNext]_fileVars PROVE FileInv'
  OBVIOUS
<1>1. ASSUME NEW w \in Writers, NEW t \in Payloads, BeginWrite(w, t) PROVE FileInv'
  BY <1>1, BeginWriteInv
<1>2. ASSUME NEW w \in Writers, OpenTemp(w) PROVE FileInv'
  BY <1>2, OpenTempInv
<1>3. ASSUME NEW w \in Writers, WriteTemp(w) PROVE FileInv'
  BY <1>3, WriteTempInv
<1>4. ASSUME NEW w \in Writers, RenameTemp(w) PROVE FileInv'
  BY <1>4, RenameTempInv
<1>5. ASSUME NEW w \in Writers, FinishWrite(w) \/ FailWrite(w) PROVE FileInv'
  <2>1. writer' = [v \in Writers |-> IF v \in {w} THEN IdleWriter ELSE writer[v]]
    BY <1>5 DEF FinishWrite, FailWrite, FileInv, FileTypeOK
  <2> QED BY <1>5, <2>1, LeaveInv DEF FinishWrite, FailWrite
<1>6. CASE CrashWriters
  <2>1. writer' = [v \in Writers |-> IF v \in Writers THEN IdleWriter ELSE writer[v]]
    BY <1>6 DEF CrashWriters
  <2> QED BY <1>6, <2>1, LeaveInv DEF CrashWriters
<1>7. CASE UNCHANGED fileVars
  BY <1>7 DEF fileVars, FileInv, FileTypeOK, Carries, Apart, Exclusive, Using, Holds, Intact
<1> QED BY <1>1, <1>2, <1>3, <1>4, <1>5, <1>6, <1>7 DEF FileNext

-----------------------------------------------------------------------------
(* What the callers of the procedure count on.                             *)

(* What a step of the procedure does to its writer.                        *)
LEMMA WriterStep ==
  ASSUME FileInv, NEW r \in Writers
  PROVE  /\ OpenTemp(r) \/ WriteTemp(r) \/ RenameTemp(r) =>
              /\ writer[r].stage # "idle" /\ writer'[r].stage # "idle"
              /\ writer'[r].text = writer[r].text
         /\ FinishWrite(r) => writer[r].stage = "done" /\ writer'[r].stage = "idle"
         /\ FailWrite(r) => writer[r].stage # "idle" /\ writer'[r].stage = "idle"
         /\ \/ OpenTemp(r) \/ WriteTemp(r) \/ RenameTemp(r)
            \/ FinishWrite(r) \/ FailWrite(r)
            => \A o \in Writers \ {r} : writer'[o] = writer[o]
  BY DEF OpenTemp, WriteTemp, RenameTemp, FinishWrite, FailWrite,
         IdleWriter, FileInv, FileTypeOK, Writer

(* Where the texts on disk come from: a step leaves an inode, empties it   *)
(* or writes the text of a writer; the file is the inode it was or the one *)
(* .tmp named, and what .tmp names otherwise is empty.                     *)
LEMMA ContentStep ==
  ASSUME FileInv, [FileNext]_fileVars
  PROVE  /\ main' \in {main, temp}
         /\ main # NoInode => main' # NoInode
         /\ temp' \in {temp, NoInode} \/ (temp' \in Inodes /\ content'[temp'] = Empty)
         /\ \A i \in Inodes :
              \/ content'[i] \in {content[i], Empty}
              \/ \E r \in Writers : writer[r].stage # "idle" /\ content'[i].text = writer[r].text
<1>1. CASE UNCHANGED fileVars
  BY <1>1 DEF fileVars
<1>2. ASSUME NEW r \in Writers, NEW e \in Payloads, BeginWrite(r, e)
      PROVE  UNCHANGED <<main, temp, content>>
  BY <1>2 DEF BeginWrite
<1>3. ASSUME NEW r \in Writers, FinishWrite(r) \/ FailWrite(r)
      PROVE  UNCHANGED <<main, temp, content>>
  BY <1>3 DEF FinishWrite, FailWrite
<1>4. ASSUME CrashWriters
      PROVE  UNCHANGED <<main, temp, content>>
  BY <1>4 DEF CrashWriters
<1>5. ASSUME NEW r \in Writers, OpenTemp(r)
      PROVE  /\ main' = main /\ temp' \in Inodes
             /\ content' = [content EXCEPT ![temp'] = Empty]
  BY <1>5 DEF OpenTemp, FreeInodes, FileInv, FileTypeOK
<1>6. ASSUME NEW r \in Writers, WriteTemp(r), NEW i \in Inodes
      PROVE  /\ UNCHANGED <<main, temp>>
             /\ content'[i] = content[i] \/ (writer[r].stage # "idle" /\ content'[i].text = writer[r].text)
  BY <1>6 DEF WriteTemp, Overlay, FileInv, FileTypeOK
<1>7. ASSUME NEW r \in Writers, RenameTemp(r)
      PROVE  /\ main' = temp /\ temp # NoInode /\ temp' = NoInode
             /\ \A i \in Inodes : content'[i] \in {content[i], Empty}
  BY <1>7 DEF RenameTemp
<1> HIDE DEF fileVars
<1>8. content \in [Inodes -> Content]
  BY DEF FileInv, FileTypeOK
<1>9. ASSUME NEW r \in Writers, WriteTemp(r)
      PROVE  UNCHANGED <<main, temp>>
  BY <1>9 DEF WriteTemp
<1> QED BY <1>1, <1>2, <1>3, <1>4, <1>5, <1>6, <1>7, <1>8, <1>9 DEF FileNext

(* The file is not touched but by a rename.                                *)
LEMMA MainKept ==
  ASSUME [FileNext]_fileVars, \A r \in Writers : ~RenameTemp(r)
  PROVE  main' = main
  BY DEF fileVars, FileNext, BeginWrite, OpenTemp, WriteTemp, FinishWrite,
         FailWrite, CrashWriters

(* Nor is what a reader finds in it.                                       *)
LEMMA FileKept ==
  ASSUME FileInv, [FileNext]_fileVars, ~overlapped', main # NoInode,
         \A r \in Writers : ~RenameTemp(r)
  PROVE  ~overlapped /\ main' = main /\ content'[main] = content[main]
<1>1. CASE UNCHANGED fileVars
  BY <1>1 DEF fileVars
<1>2. ASSUME NEW r \in Writers, (\E e \in Payloads : BeginWrite(r, e)) \/ FinishWrite(r) \/ FailWrite(r)
      PROVE  UNCHANGED <<overlapped, main, content>>
  BY <1>2 DEF BeginWrite, FinishWrite, FailWrite
<1>3. ASSUME CrashWriters
      PROVE  UNCHANGED <<overlapped, main, content>>
  BY <1>3 DEF CrashWriters
<1>4. ASSUME NEW r \in Writers, OpenTemp(r)
      PROVE  ~overlapped /\ main' = main /\ content'[main] = content[main]
  <2>1. PICK i \in Inodes : i # main /\ content' = [content EXCEPT ![i] = Empty]
    BY <1>4 DEF OpenTemp, FreeInodes, FileInv, FileTypeOK, Apart
  <2> QED BY <1>4, <2>1 DEF OpenTemp, FileInv, FileTypeOK
<1>5. ASSUME NEW r \in Writers, WriteTemp(r)
      PROVE  ~overlapped /\ main' = main /\ content'[main] = content[main]
  <2>1. main' = main /\ ~overlapped /\ Using(r)
    BY <1>5 DEF WriteTemp, Using
  <2>2. writer[r].fd # main
    BY <2>1 DEF FileInv, Exclusive, Holds, Apart
  <2> QED BY <1>5, <2>1, <2>2 DEF WriteTemp, FileInv, FileTypeOK
<1> QED BY <1>1, <1>2, <1>3, <1>4, <1>5 DEF FileNext

(* And a rename puts the text of its own writer there.                     *)
LEMMA FileReplaced ==
  ASSUME FileInv, ~overlapped, NEW r \in Writers, RenameTemp(r)
  PROVE  main' # NoInode /\ content'[main'].text = writer[r].text /\ writer[r].text \in Payloads
<1>1. /\ writer[r].stage = "rename" /\ temp # NoInode /\ main' = temp
      /\ content' = [i \in Inodes |-> IF i = main THEN Empty ELSE content[i]]
  BY DEF RenameTemp
<1>2. Holds(r) /\ temp \in Inodes /\ temp # main
  BY <1>1 DEF FileInv, FileTypeOK, Exclusive, Using, Apart
<1>3. content[temp].text = writer[r].text
  BY <1>1, <1>2 DEF Holds
<1>4. writer[r].text \in Payloads
  BY <1>1 DEF FileInv, Carries
<1> QED BY <1>1, <1>2, <1>3, <1>4

(* That two writers have shared .tmp is not forgotten.                     *)
LEMMA OverlapStays ==
  ASSUME [FileNext]_fileVars, overlapped
  PROVE  overlapped'
  BY DEF FileNext, fileVars, BeginWrite, OpenTemp, WriteTemp, RenameTemp, FinishWrite, FailWrite, CrashWriters

(* Unless they have, the file can be read whenever it is there.            *)
LEMMA FileReadable ==
  ASSUME FileInv, ~overlapped, main # NoInode
  PROVE  Intact(content[main])
  BY DEF FileInv, Exclusive

-----------------------------------------------------------------------------
(* The state of the procedure always has its type.                         *)
THEOREM FileTypeCorrect == FileSpec => []FileTypeOK
<1>1. FileInv => FileTypeOK
  BY DEF FileInv
<1> QED BY <1>1, FileInitInv, FileNextInv, PTL DEF FileSpec

(* writeVaultEnvelope and writeAuthRecord never expose a broken file, for  *)
(* any number of callers, unless two of them have had .tmp open together.  *)
THEOREM FileIntact == FileSpec => []IntactUnlessOverlapped
<1>1. FileInv => IntactUnlessOverlapped
  BY DEF FileInv, Exclusive, IntactUnlessOverlapped
<1> QED BY <1>1, FileInitInv, FileNextInv, PTL DEF FileSpec

(* Under the same condition a writer's rename finds its own text at .tmp.  *)
THEOREM FileRenameFinds == FileSpec => []RenameNeverMissing
<1>1. FileInv => RenameNeverMissing
  BY DEF FileInv, Exclusive, RenameNeverMissing, Holds, Using
<1> QED BY <1>1, FileInitInv, FileNextInv, PTL DEF FileSpec

(* The file's path, once it exists, exists forever after.                  *)
THEOREM FileNeverUnlinked == FileSpec => NeverUnlinked
<1>1. FileInv /\ [FileNext]_fileVars => [main # NoInode => main' # NoInode]_fileVars
  BY DEF FileNext, fileVars, BeginWrite, OpenTemp, WriteTemp, RenameTemp, FinishWrite,
         FailWrite, CrashWriters
<1> QED BY <1>1, FileInitInv, FileNextInv, PTL DEF FileSpec, NeverUnlinked

\* What a reader of the file sees changes in this step.
Replaced == main' # main \/ content'[main'] # content[main']

(* Only a rename changes what a reader sees, and what it then sees is the  *)
(* text its own caller asked for.                                          *)
LEMMA OnlyRenames ==
  ASSUME FileInv, FileNext, ~overlapped', main' # NoInode, Replaced
  PROVE  \E w \in Writers : /\ writer[w].stage = "rename"
                            /\ writer'[w].stage = "done"
                            /\ content'[main'].text = writer[w].text
<1>1. PICK w \in Writers : RenameTemp(w)
  BY MainKept, FileKept DEF Replaced
<1>2. ~overlapped /\ writer[w].stage = "rename" /\ writer'[w].stage = "done"
  BY <1>1 DEF RenameTemp, FileInv, FileTypeOK, Writer
<1> QED BY <1>1, <1>2, FileReplaced

(* A replacement is one step for every reader, and puts in place the text  *)
(* of the writer that takes it.                                            *)
THEOREM FileReplacedAtomically == FileSpec => ReplacedAtomically
<1>1. FileInv /\ [FileNext]_fileVars =>
        [~overlapped' /\ main' # NoInode /\ (main' # main \/ content'[main'] # content[main'])
           => \E w \in Writers : /\ writer[w].stage = "rename"
                                 /\ writer'[w].stage = "done"
                                 /\ content'[main'].text = writer[w].text]_fileVars
  BY OnlyRenames DEF Replaced
<1> QED BY <1>1, FileInitInv, FileNextInv, PTL DEF FileSpec, ReplacedAtomically
=============================================================================
