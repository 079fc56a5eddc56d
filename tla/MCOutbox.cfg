CONSTANTS
  h1 = h1
  h2 = h2
  Handlers = {h1, h2}
  Relays = {r1, r2}
  MaxEvents = 2
  MaxLimit = 2
  IdOrder <- Interleaved
SPECIFICATION FairSpec
INVARIANTS
  IInv
  EventIffCommitted
  NeverTwiceToOneRelay
  NotOvertaken
PROPERTIES
  EveryEventPublished
