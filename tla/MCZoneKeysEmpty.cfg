SPECIFICATION KeysSpec
CONSTANTS
  Callers = {p1, p2}
  TTLs <- MCTTLs
  Replies = {"keys", "empty", "error"}
  MaxAllowedTTL = 2
  EmptyTTL = 2
  MaxTime = 5
INVARIANTS EmptyIsCached
