SPECIFICATION FairSpec
CONSTANTS
  Requests = {p1}
  QNames <- MCLongQNames
  Cuts <- MCLongCuts
  OwnerLists <- MCLongOwnerLists
  Pools = {root, k1, k2, k3}
  RootPool = root
  MaxQueriesPerRequest = 4
  FaultSets = {{}, {"soa", "server", "lame", "create", "nested", "owner", "stray"}, {"expiry", "soa", "server", "lame", "create", "nested", "owner", "stray"}}
INVARIANTS PanicHasCause QuietAnswers
PROPERTIES ExchangeEnds
