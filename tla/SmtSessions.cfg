\* Checks and models, whatever happens to Z3 and the timers.
CONSTANTS
  Ops <- BothOps
  MayDie = TRUE
  OuterTimer = TRUE
  MaxQueries = 4
SPECIFICATION Spec
INVARIANTS TypeOK
PROPERTIES AnswersInStep ChecksEnd
\* The program really ends: by SIGPIPE, or when the client has no more queries.
CHECK_DEADLOCK FALSE
