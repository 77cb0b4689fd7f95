CONSTANTS
  s1 = s1
  s2 = s2
  s3 = s3
  s4 = s4
  Attempts = {s1, s2, s3, s4}
  Op <- OneOp
  Task <- OneTask
  Ids = {r1, r2}
  Cancellers = {c1}
  DirtyTrees = {TRUE, FALSE}
  Overlap = TRUE
  Collisions = FALSE
  MaxWork = 1
  MaxMishaps = 1
SPECIFICATION Spec
SYMMETRY Symmetry
INVARIANTS
  OneRunUnlessWithdrawn
  ReportedRunIsWhole
  AnswerHoldsTheKey
PROPERTIES
  RepeatKeepsTheRun
CHECK_DEADLOCK FALSE
