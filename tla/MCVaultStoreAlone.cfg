CONSTANTS
  r1 = r1
  old = old
  new1 = new1
  new2 = new2
  Requests = {r1}
  Passwords = {p1, p2}
  p1 = p1
  p2 = p2
  Wallets = {w1, w2}
  w1 = w1
  w2 = w2
  Records = {old, new1, new2}
  Current = {new1, new2}
  Normal <- MCNormal
  NoRecord = NoRecord
  NoVault = NoVault
  Inodes = {i1, i2, i3}
  i1 = i1
  i2 = i2
  i3 = i3
  NoInode = NoInode
SYMMETRY StoreSymmetry
SPECIFICATION Spec
INVARIANTS
  WalletsEncPersists
PROPERTIES
  ImplementsDurable
