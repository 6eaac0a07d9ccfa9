SPECIFICATION ZoneSpec
CONSTANTS
  k1 = k1
  k2 = k2
  Keys = {k1, k2}
  Callers = {c1, c2}
  Messages <- MCMessages
  Clients <- MCClients
  Poolless = {c2}
  Workers = {w1, w2}
  ShardSize = 1
  MaxTime = 2
  None = None
  Failed = Failed
INVARIANTS EntriesAreWhole CompleteAnswerWins
PROPERTIES ImplementsStore
