SPECIFICATION Spec
CONSTANTS
  Apps = {a1}
  Devices = {d1, d2}
  Users = {u1, u2}
  None = None
  MaxVer = 1
  MaxUnread = 1
  MaxGone = 1
INVARIANTS
  TypeOK
  NoDangling
  Isolation
  OneOwner
