CONSTANTS
  None = None
  Hosts = {h1, h2}
  MaxQuestions = 4
  Sub = sub
  File = file
  MaxTreeCalls = 2
  Files = {f1}
  MaxEdits = 2
  MaxFileCalls = 2
  Tabs = {"transfers", "docker", "virtualbox", "ports"}
  MaxListCalls = 2
  Rows = {r1, r2}
  MaxRowCalls = 2
  Things = {i1, v1}
  Containers = {c1}
  Stack = {c1}
CHECK_DEADLOCK FALSE
SPECIFICATION InterfaceSpec
INVARIANT InterfaceTypeOK
INVARIANT RememberedPathsWereListed
INVARIANT CleanEditorsWereSaved
PROPERTY ViewsShowLatestAnswers
INVARIANT DeletionsFollowTheList
PROPERTY MachinesSettle
PROPERTY RowsSettle
PROPERTY LocksEnd
