SPECIFICATION Spec
CONSTANTS
  ClientTools <- MCClientTools
  MaxTools = 2
  Natives <- MCNatives
  Completed <- MCCompleted
  MaxRequests = 2
INVARIANT CallsAreDispatchable
INVARIANT EachRequestIsOneCall
INVARIANT EveryAskIsAnswered
INVARIANT RebuiltAsOffered
