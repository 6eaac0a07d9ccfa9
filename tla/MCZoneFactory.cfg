SPECIFICATION FairFactorySpec
CONSTANTS
  Requests = {r1}
  Delegations <- MCDelegations
  AddressSets <- MCAddressSets
  RootSizes = {}
  MaxAllowedTTL = 2
  DesireNumberOfNameserversPerZone = 2
  MaxTime = 2
  LazyEnrichment = FALSE
INVARIANTS CreatedZoneUsable RetryTriesAnother
PROPERTIES CreateZoneReturns WorkerEndsOrIsAbandoned ExchangeReturns
