\* One setup, partial fills; reads and cancellations fail, listings lag.
CONSTANTS
  Ids = {s1}
  Volume = 2
  TTL = 1
  MaxCandle = 2
  MaxEvents = 6
  Faults = {"read", "refuse"}
  CandlesLag = TRUE
SPECIFICATION FairRuntime
INVARIANTS
  TradesFreshCandlesOnly
PROPERTIES
  EveryCandleProcessed EventsAreDelivered ExpiredEntryEnds PartialFillEnds
