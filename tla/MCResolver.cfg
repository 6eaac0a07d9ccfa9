SPECIFICATION Spec
CONSTANTS
  Requests = {p1, p2}
  QNames <- MCQNames
  Cuts <- MCCuts
  OwnerLists <- MCOwnerLists
  Pools = {root, k1, k2, k3, k4}
  RootPool = root
  MaxQueriesPerRequest = 4
  FaultSets = {{"expiry", "soa", "owner", "stray"}}
SYMMETRY MCPoolSymmetry
INVARIANTS StoreSound CursorFollowsZone OneInputPerZone NeverUnresolved
