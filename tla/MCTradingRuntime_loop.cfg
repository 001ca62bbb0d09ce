\* Two setups, and everything on the way from the candle to the placed order
\* may fail.
CONSTANTS
  Ids = {s1, s2}
  Volume = 1
  TTL = 2
  MaxCandle = 3
  MaxEvents = 6
  Faults = {"crash", "read", "unknown", "save", "retry"}
  CandlesLag = FALSE
SPECIFICATION RuntimeSpec
SYMMETRY Symmetry
INVARIANTS
  PlacedOncePerProcess CandlesCountedOnce AgedBeforeProcessing
