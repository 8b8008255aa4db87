SPECIFICATION FairSpec
CONSTANTS
  QueueCap = 2
  MaxFrames = 2
  MaxWire = 3
  MaxConns = 3
INVARIANTS NoDesync InOrderOnce DrainedOnExit
PROPERTIES LinkRecovers
