SPECIFICATION Spec
CONSTANTS
  Base = 4
  Messages <- MCMessages
  BufSize = 6
  MaxSent = 3
CHECK_DEADLOCK FALSE
INVARIANT BytesAreKept
PROPERTY ImplementsChannel
