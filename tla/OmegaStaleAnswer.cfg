\* hull leaves an unanswered query in the pipe; is_sat reads its answer.
CONSTANTS
  Ops <- SatAndHull
  Interval <- NeverRestart
  DisTimeout = FALSE
  OcWarning = FALSE
  MayDie = FALSE
  OuterTimer = FALSE
  BatchMode = TRUE
  MaxQueries = 4
  MaxStarts = 1
SPECIFICATION Spec
INVARIANTS CheckAnswerIsForQuery
\* The program really ends: by SIGPIPE, or when the client has no more queries.
CHECK_DEADLOCK FALSE
