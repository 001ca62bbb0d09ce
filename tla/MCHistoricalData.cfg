\* A start that is not a candle's opening time, a gap in the candles, and a
\* range that ends while its last candle is forming.
CONSTANTS
  Runs = {r1, r2}
  Start = 1
  End = 9
  Interval = 2
  Opens = {0, 2, 6, 8}
  PageLimit = 3
  MaxTime = 9
  Faults = {"request", "range", "write", "damage", "crash"}
SPECIFICATION FairSpec
INVARIANTS
  HistoryIsExact CacheIsWhole FormingCandlesNeverConflict
PROPERTY DownloadEnds
