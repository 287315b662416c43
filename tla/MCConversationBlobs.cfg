\* Two turns of one conversation and one of another in a cache of one entry.
CONSTANTS
  Convs = {c1, c2}
  Turns = {t1, t2, t3}
  MaxEntries = 1
  TTL = 3
  MaxTime = 0
  None = None
SYMMETRY Symmetry
SPECIFICATION Spec
INVARIANTS
  BaseBlobsAvailable
