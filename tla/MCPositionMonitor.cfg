CONSTANTS
  MaxTrades = 3
  MaxRows = 3
  Faults = {"crash", "stale", "read", "write"}
SPECIFICATION FairSpec
INVARIANTS MemoryMatchesFile RecordedThenAnnouncedOnce
PROPERTY LatestTradeJournaled
