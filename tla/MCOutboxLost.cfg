CONSTANTS
  h1 = h1
  h2 = h2
  Handlers = {h1, h2}
  Relays = {r1}
  MaxEvents = 2
  MaxLimit = 2
  IdOrder <- Interleaved
SPECIFICATION FairSpec
PROPERTIES
  EveryEventDelivered
