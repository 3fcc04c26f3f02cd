\* A reply to get_model that is not parsed stays in the channel.
CONSTANTS
  Ops <- BothOps
  MayDie = FALSE
  OuterTimer = FALSE
  MaxQueries = 4
SPECIFICATION Spec
INVARIANTS AnswerIsForQuery
\* The program really ends: by SIGPIPE, or when the client has no more queries.
CHECK_DEADLOCK FALSE
