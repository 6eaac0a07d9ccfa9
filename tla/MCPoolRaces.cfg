SPECIFICATION Spec
CONSTANTS
  Requests = {r1, r2}
  Delegations <- MCRaceDelegations
  AddressSets <- MCRaceAddressSets
  RootSizes <- MCRootSizes
  MaxAllowedTTL = 2
  DesireNumberOfNameserversPerZone = 3
  MaxTime = 2
SYMMETRY MCRequestSymmetry
INVARIANTS IndexInBounds NoNilResponse
