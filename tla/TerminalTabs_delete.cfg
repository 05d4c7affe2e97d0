CONSTANTS
  None = None
  Sessions = {s1}
  LocalSessions = {}
  Tunnels = {}
  Ports = {}
  c1 = c1
  Connections = {c1}
  ConnectionOf <- AllOfC1
SPECIFICATION FairTabsSpec
CHECK_DEADLOCK FALSE
PROPERTY TabsOutliveTheirSessions
