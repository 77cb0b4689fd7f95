CONSTANTS
  s1 = s1
  s2 = s2
  s3 = s3
  s4 = s4
  Attempts = {s1, s2, s3}
  Op <- OneOp
  Task <- Retries
  Ids = {r1, r2, r3}
  Cancellers = {c1}
  DirtyTrees = {TRUE, FALSE}
  Overlap = FALSE
  Collisions = FALSE
  MaxWork = 1
  MaxMishaps = 2
SPECIFICATION Spec
SYMMETRY RetrySymmetry
INVARIANT OneRunPerOpId
CHECK_DEADLOCK FALSE
