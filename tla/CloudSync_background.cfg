CONSTANTS
  None = None
  c1 = c1
  c2 = c2
  d1 = d1
  Devices = {d1}
  Items = {i1, i2}
  Values = {v1}
  Calls = {c1, c2}
  DeviceOf <- TwoCallsOnOne
  Overlap = TRUE
  MaxEdits = 2
  MaxVersion = 4
  AbortAt = {}
  MaxAborts = 0
CHECK_DEADLOCK FALSE
SPECIFICATION Spec
PROPERTY OnlyUsersDelete
