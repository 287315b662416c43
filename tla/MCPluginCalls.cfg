\* The host stops when it has made its calls.
SPECIFICATION Spec
CHECK_DEADLOCK FALSE
CONSTANTS
  Calls = {c1, c2, c3}
  Versions = {"v1"}
  MaxAttempts = 2
  MaxTokens = 2
SYMMETRY CallSymmetry
INVARIANT OverrideIsLive
INVARIANT TokenWasGood
INVARIANT StreamIsTold
INVARIANT NoCallIsStuck
