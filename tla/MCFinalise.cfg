SPECIFICATION FairSpec
CONSTANTS
  a = a
  b = b
  c = c
  Names = {a, b, c}
  Questions <- MCQuestions
  Replies <- MCReplies
  Verdicts <- MCVerdicts
  MaxQueriesPerRequest = 3
  SuppressBogusResponseSections = TRUE
  RemoveAuthoritySectionForPositiveAnswers = TRUE
  RemoveAdditionalSectionForPositiveAnswers = TRUE
  None = None
INVARIANTS ADMeansAllSecure BogusIsWithheld NoPartHidden AliasesFollowed
PROPERTIES RequestEnds
CHECK_DEADLOCK FALSE
