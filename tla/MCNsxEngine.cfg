SPECIFICATION FairSpec
CONSTANTS
  Pingers = {p1, p2}
  Controllers = {c1}
  Nobody = Nobody
  MaxSlots = 2
  Probes = 1
  QueueCap = 1
  MaxClock = 1
  MaxStarts = 2
INVARIANTS RegisteredIsLive SpuriousExplained
PROPERTIES NothingQueuedClosed PingReturns
