CONSTANTS
  Machines = {m1, m2}
  MaxMachineCalls = 2
  Ages = {119, 5399, 171000, 63070199, 63070200}
  MaxLog = 4
  MaxShown = 4
  TailLines = 2
  Tunnels = {t1, t2}
  MaxPort = 2
  PanelTunnels = {t1}
  Endpoints = {e1, e2}
  Nowhere = Nowhere
  Overlap = FALSE
  MaxTunnelCalls = 2
  Transfers = {u1, u2}
  FileNames = {n1, n2}
  Nobody = Nobody
  MaxChunks = 1
SYMMETRY TransferSymmetry
CHECK_DEADLOCK FALSE
SPECIFICATION WorkspaceSpec
INVARIANT WorkspaceTypeOK
INVARIANT LockedRowsHaveActions
INVARIANT AgesOrderContainers
INVARIANT ListingsDoNotReshuffle
INVARIANT WindowsSkipOldLinesOnly
INVARIANT TestedMarksAreCurrent
INVARIANT DraftPortsAreDistinct
INVARIANT ForwardsFollowTheirRow
INVARIANT RowsTellTheTruth
PROPERTY DestinationsStayWhole
