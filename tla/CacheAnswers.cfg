\* Every query and every failure, with the cache on.
CONSTANTS
  omega = omega
  z3 = z3
  ab = ab
  cd = cd
  sat = sat
  Generic = generic
  NoGoal = nogoal
  Provers <- TwoProvers
  Goals <- ThreeGoals
  KindOf <- ThreeKinds
  Keys <- OneKey
  KeyOf <- ThreeKeys
  Proved <- TwoValid
  NoCache = FALSE
  MaxProofs = 4
  MaxWraps = 2
SYMMETRY Alike
SPECIFICATION Spec
INVARIANTS TypeOK StrongIsTrue NeverWeakens LogTellsRuns NoSecondRun
PROPERTIES ProverKept
\* The bound on the log stops the program.
CHECK_DEADLOCK FALSE
