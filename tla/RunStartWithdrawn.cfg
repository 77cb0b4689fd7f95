CONSTANTS
  s1 = s1
  s2 = s2
  s3 = s3
  s4 = s4
  Attempts = {s1, s2, s3}
  Op <- OneOp
  Task <- Retries
  Ids = {r1, r2}
  Cancellers = {}
  DirtyTrees = {FALSE}
  Overlap = TRUE
  Collisions = FALSE
  MaxWork = 0
  MaxMishaps = 1
SPECIFICATION Spec
SYMMETRY RetrySymmetry
INVARIANT OneRunPerOpId
CHECK_DEADLOCK FALSE
