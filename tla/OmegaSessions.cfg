\* The operations that handle their exceptions; the calculator may die, hang or
\* be missing, and the client guards its own work with the same timer.  No
\* exception gets out, so the session implements the oracle.  The setting with
\* every operation is in the module.
CONSTANTS
  Ops <- RecoveringOps
  Interval = 2
  DisTimeout = FALSE
  OcWarning = TRUE
  MayDie = TRUE
  OuterTimer = TRUE
  BatchMode = FALSE
  MaxQueries = 3
  MaxStarts = 2
SPECIFICATION MCSpec
INVARIANTS TypeOK AnswerIsForQuery EveryOpKeepsProcesses
PROPERTIES ImplementsOracle
\* The program really ends: by SIGPIPE, or when the client has no more queries.
CHECK_DEADLOCK FALSE
