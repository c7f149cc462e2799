CONSTANTS
  w1 = w1
  w2 = w2
  w3 = w3
  short = short
  long = long
  Writers = {w1, w2, w3}
  Payloads = {short, long}
  Size <- MCSize
  Inodes = {i1, i2, i3, i4}
  i1 = i1
  i2 = i2
  i3 = i3
  i4 = i4
  NoInode = NoInode
  NoPayload = NoPayload
SYMMETRY FileSymmetry
SPECIFICATION FileSpec
INVARIANTS
  FileTypeOK
  IntactUnlessOverlapped
  RenameNeverMissing
PROPERTIES
  NeverUnlinked
  ReplacedAtomically
