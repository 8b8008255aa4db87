SPECIFICATION FairSpec
CONSTANTS
  Threads = {t1, t2}
  MaxRings = 2
  Handles = {h1}
  NoHandle = NoHandle
  FirstRules <- NoRules
INVARIANTS NoUseAfterFree TeardownOwnsFields OpenWhileRegistered NothingLeaks
PROPERTIES TeardownEnds
CHECK_DEADLOCK FALSE
