CONSTANTS
  None = None
  Sessions = {s1, l1}
  LocalSessions = {l1}
  Tunnels = {t1}
  Ports = {p1, p2}
SPECIFICATION Spec
INVARIANT TypeOK
INVARIANT AnnouncedSessionsAreReleased
INVARIANT ReturnedSessionsAreTracked
INVARIANT MapsMatchListeners
PROPERTY PortsChangeHandsOnlyWhenFreed
