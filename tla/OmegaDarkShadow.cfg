\* Bounds whose coefficients have a common factor.
CONSTANTS
  Problems <- SharedFactor
  Ops <- Callers
  MaxWildcards = 18
  Values <- MCValues
SPECIFICATION Spec
INVARIANTS AffirmRight
