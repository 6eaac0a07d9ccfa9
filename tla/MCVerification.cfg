SPECIFICATION VerificationSpec
CONSTANTS
  Zone = "zone"
  Year68 <- MCYear68
  MaxAllowedTTL = 3
  MaxTime = 2
  Responses <- MCResponses
  Names <- MCNames
  Zones <- MCZones
  Hashes <- MCHashes
  QNames <- MCQNames
  QTypes = {"A", "DS"}
INVARIANTS
  SignedAsRequired
  KeysVouched
  TTLIsEarned
  OneGoodIsEnough
  DeniedIsAbsent
  EncloserIsClosest
  WildcardApplies
  UnsignedHasNoDS
  GenuineIsSecure
CHECK_DEADLOCK FALSE
