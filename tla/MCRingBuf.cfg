SPECIFICATION FairSpec
CONSTANTS
  p1 = p1
  p2 = p2
  Producers = {p1, p2}
  DataSize = 5
  Sizes = {2, 3}
  Contents = 2
  MaxHead = 7
CHECK_DEADLOCK FALSE
INVARIANTS ReservationsTile SlotsHoldTheirClaims NeverTorn
PROPERTIES ImplementsQueue EveryClaimTaken
