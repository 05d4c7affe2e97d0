CONSTANTS
  None = None
  a1 = a1
  a2 = a2
  k1 = k1
  h1 = h1
  j1 = j1
  Attempts <- MCAttempts
  Jumping = {a2}
  Keys = {k1}
  KeyOf <- MCKeyOf
  Hosts = {h1, j1}
  HostOf <- MCHostOf
  Prints = {f1}
CHECK_DEADLOCK FALSE
SPECIFICATION FairConnectingSpec
INVARIANT ConnectingTypeOK
INVARIANT CanceledDialsYieldNoSession
INVARIANT SessionsWereTrusted
 
