\* Three server messages of every branch that matters to the order of the
\* handshake; no temporal property, so that the state space may be larger.
CONSTANTS
  Kinds = {"text", "turnEnded", "kvGet", "kvSet", "mcpUnnamed", "checkpoint", "endErr"}
  Blobs = {"b1"}
  MaxMessages = 3
  MaxTicks = 1
SPECIFICATION Spec
INVARIANTS
  RepliesInOrder
  NoQuestionSkipped
  SuccessIsACompleteTurn
  ResultIsFoldOfHandled
  StoredBlobIsFound
  NothingWritesAfterReturn
