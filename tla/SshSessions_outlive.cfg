CONSTANTS
  None = None
  Sessions = {s1}
  LocalSessions = {}
  Tunnels = {t1}
  Ports = {p1}
SPECIFICATION Spec
INVARIANT NoForwardOutlivesItsSession
