\* Three turns, each free to be of any of three conversations, in a cache of
\* two entries; the clock passes the TTL twice.
CONSTANTS
  Convs = {c1, c2, c3}
  Turns = {t1, t2, t3}
  MaxEntries = 2
  TTL = 1
  MaxTime = 3
  None = None
SYMMETRY Symmetry
SPECIFICATION Spec
INVARIANTS
  SizeBounded
  BuildsOnProgress
  ConversationsDoNotMix
PROPERTIES
  EvictionIsEarned
