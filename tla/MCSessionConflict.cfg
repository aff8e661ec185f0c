CONSTANTS
  NoId = NoId
  p1 = p1
  p2 = p2
  m1 = m1
  k1 = k1
  Places = {p1}
  Modifies = {m1}
  Cancels = {}
  Contents = {c1, c2}
  Target <- MCTarget
  Terms <- MCTerms
  MaxCrashes = 0
  MaxDisconnects = 1
  MaxHealthLosses = 0
SPECIFICATION FairSpec
PROPERTIES
    ConflictBlocksForever
    ShutdownEnds
