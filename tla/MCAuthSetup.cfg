CONSTANTS
  r1 = r1
  r2 = r2
  Requests = {r1, r2}
  u1 = u1
  u2 = u2
  Users = {u1, u2}
  s1 = s1
  s2 = s2
  s3 = s3
  Secrets = {s1, s2, s3}
  NoAccount = NoAccount
  i1 = i1
  i2 = i2
  i3 = i3
  Inodes = {i1, i2, i3}
  NoInode = NoInode
SYMMETRY SetupSymmetry
SPECIFICATION Spec
INVARIANTS
  TypeOK
  ShownIsStored
  SessionsEnrolled
PROPERTIES
  EnrolledStays
