---------------------------- MODULE BbqrCollector ----------------------------
(***************************************************************************)
(* The frames of an animated BBQr code (vault/bbqr.ts, and the same code   *)
(* again in the web's bbqr.ts): whatever order they are scanned in, how    *)
(* often, and between which other codes.                                   *)
(***************************************************************************)
EXTENDS Integers

CONSTANT Decoded  \* the texts that the data of all frames, in order, may decode to

\* parseBbqrFrame: a line that begins as a frame does, and is one.
ValidFrame(f) == /\ f.header.total >= 1 /\ f.index \in 0..(f.header.total - 1)
                 /\ f.header.encoding \in {"H", "2", "Z"}

NoHeader == [encoding |-> "", fileType |-> "", total |-> 0]
NoFrames == [header |-> NoHeader, data |-> [i \in {} |-> ""]]

\* The encoding, the file type and the total of the first frame hold for the set.
OfThisSet(c, f) == c.header \in {NoHeader, f.header}
Conflicts(c, f) == f.index \in DOMAIN c.data /\ c.data[f.index] # f.data

\* The frames, with this one in its place
Captured(c, f) == [i \in {f.index} \cup DOMAIN c.data |-> IF i = f.index THEN f.data ELSE c.data[i]]

\* Mutant: a frame that was captured with other data is replaced.
AddReplacing(c, f) ==
  IF OfThisSet(c, f) THEN [header |-> f.header, data |-> Captured(c, f)] ELSE c

\* addBbqrFrame: one of another set, or with other data, leaves what there is.
Add(c, f) ==
  IF OfThisSet(c, f) /\ ~Conflicts(c, f)
  THEN [header |-> f.header, data |-> Captured(c, f)] ELSE c

\* What the frames say: no error; the collector is complete.
Accepts(c, f) == OfThisSet(c, f) /\ ~Conflicts(c, f)
Complete(c)   == c.header # NoHeader /\ DOMAIN c.data = 0..(c.header.total - 1)

\* assembleBbqrPayload: JSON or text that is not compressed, and no other
\* payload than {...}; else it throws.
Assembles(c) ==
  /\ Complete(c)
  /\ c.header.fileType \in {"J", "U"} /\ c.header.encoding # "Z"
  /\ c.data \in DOMAIN Decoded
=============================================================================
