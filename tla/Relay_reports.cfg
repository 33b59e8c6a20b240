SPECIFICATION FairSpec
CONSTANTS
  Apps = {a1}
  Devices = {d1}
  Users = {u1}
  None = None
  MaxVer = 2
  MaxUnread = 2
  MaxGone = 2
INVARIANTS
  Coherent
PROPERTIES
  DeviceRegisters
  AppAttaches
