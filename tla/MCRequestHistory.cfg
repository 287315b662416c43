SPECIFICATION ChatSpec
CONSTANTS
  NoText = NoText
  Instruction = Instruction
  Shapes <- MCShapes
  MaxMessages = 5
INVARIANT ModelReadsTheChat
INVARIANT ResultFollowsItsCall
INVARIANT TurnsAreExchanges
