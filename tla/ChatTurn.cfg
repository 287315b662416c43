\* Three attempts of up to three messages each.
CONSTANTS
  Kinds = {"text", "toolCall", "badToolCall", "bookkeeping", "turnEnded", "mcp", "native", "nativeUnmapped", "checkpoint", "endOk", "endErr", "endErrQuoting"}
  Blobs = {"b1"}
  MaxMessages = 3
  MaxAttempts = 3
SPECIFICATION Spec
INVARIANTS
  RetryLosesNothing
  NoSilentTruncation
  SurfacesAgree
PROPERTIES
  TurnIsAnswered
