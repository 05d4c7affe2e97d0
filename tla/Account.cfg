CONSTANTS
  None = None
  c1 = c1
  c2 = c2
  d1 = d1
  d2 = d2
  Devices = {d1, d2}
  Items = {i1}
  Values = {v1, v2}
  Calls = {c1, c2}
  DeviceOf <- OneCallEach
  Overlap = FALSE
  MaxEdits = 3
  MaxVersion = 6
  AbortAt = {"asking", "fetching", "merging", "uploading", "confirming"}
  MaxAborts = 1
  Passwords = {p1, p2}
  MaxSalts = 2
  ReadsFail = FALSE
  Users = {u1, u2}
  MaxAccountCalls = 3
CHECK_DEADLOCK FALSE
SPECIFICATION WholeSpec
INVARIANT WholeTypeOK
INVARIANT SettledDevicesHoldTheBlob
INVARIANT UsedKeysAreRecoverable
PROPERTY OnlyUsersDelete
PROPERTY DevicesConverge
