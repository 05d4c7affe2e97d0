CONSTANTS
  None = None
  Sessions = {s1, s2}
  LocalSessions = {}
  Tunnels = {}
  Ports = {}
  c1 = c1
  Connections = {c1, c2}
  ConnectionOf <- AllOfC1
  VncIds = {w1}
  Viewers = {v1, v2}
  RdpIds = {r1}
  MaxPaints = 3
  k1 = k1
  k2 = k2
  u1 = u1
  sc1 = sc1
  Keys = {k1, k2}
  Inputs = {u1, sc1}
  InputsOf <- TwoKeys
  MaxQueued = 2
SPECIFICATION DesktopSpec
CHECK_DEADLOCK FALSE
INVARIANT DesktopTypeOK
INVARIANT BridgedViewersAreAlone
INVARIANT NoKeySticks
PROPERTY ClosedTabsWereReleased
PROPERTY VncSessionsAreReleased
PROPERTY RdpEndsAreAnnounced
PROPERTY DesktopNeverGoesBack
PROPERTY LastPaintIsShown
