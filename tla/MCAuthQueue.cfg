SPECIFICATION FairSpec
CONSTANTS
  Links <- MCLinks
  Responses <- MCResponses
  Capacity = 2
INVARIANTS NoSendAfterClose ResultIsComplete
PROPERTIES AuthReturns ConsumerEnds
CHECK_DEADLOCK FALSE
