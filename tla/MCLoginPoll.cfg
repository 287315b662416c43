\* Four polls over two attempts, two consecutive failures allowed, and a
\* deadline that passes.
CONSTANTS
  Attempts = {x1, x2}
  Polls = {p1, p2, p3, p4}
  MaxErrors = 2
  MaxPollTime = 0
  MaxTime = 1
  None = None
SYMMETRY Symmetry
SPECIFICATION Spec
\* A host that has made its polls may never come back.
CHECK_DEADLOCK FALSE
INVARIANTS
  NoAttemptLost
PROPERTIES
  ThreeStrikes
  EndedIsOver
