\* Termination, the end of both goroutines, and the refinement of the
\* sequential exchange, with two server messages.
CONSTANTS
  Kinds = {"text", "turnEnded", "kvGet", "mcp", "checkpoint", "garbled"}
  Blobs = {"b1"}
  MaxMessages = 2
  MaxTicks = 1
SPECIFICATION Spec
PROPERTIES
  CallReturns
  NoGoroutineLeak
  KeepsPromise
