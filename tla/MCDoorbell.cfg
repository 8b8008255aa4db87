SPECIFICATION DoorbellSpec
CONSTANTS
  p1 = p1
  p2 = p2
  Producers = {p1, p2}
  MaxFrames = 4
INVARIANT NoLostWakeup
PROPERTY EveryFrameTaken
