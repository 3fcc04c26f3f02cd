\* Every way to ask, over the six families.
CONSTANTS
  Problems <- MCProblems
  Ops <- Callers
  MaxWildcards = 18
  Values <- MCValues
SPECIFICATION Spec
INVARIANTS AffirmRight DenialRight EqualitiesImplied
PROPERTIES SolveEnds
