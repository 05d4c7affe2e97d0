CONSTANTS
  Users = {u1}
  MaxAccountCalls = 2
SPECIFICATION FairAccountSpec
PROPERTY TokensKeepBeingRefreshed
