SPECIFICATION Spec
CONSTANTS
  Requests = {p1}
  QNames <- MCLongQNames
  Cuts <- MCLongCuts
  OwnerLists <- MCLongOwnerLists
  Pools = {root, k1, k2, k3}
  RootPool = root
  MaxQueriesPerRequest = 4
  FaultSets = {{"expiry", "soa"}, {"owner"}}
SYMMETRY MCPoolSymmetry
INVARIANTS CloneBelow
