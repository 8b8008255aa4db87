SPECIFICATION FairSpec
CONSTANTS
  Threads = {t1, t2}
  MaxRings = 2
  Handles = {h1}
  NoHandle = NoHandle
  FirstRules <- NoBytes
PROPERTIES StartsUnlessShort
CHECK_DEADLOCK FALSE
