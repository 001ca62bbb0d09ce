CONSTANTS
  MaxTrades = 2
  MaxRows = 3
  Faults = {"crash", "sync"}
SPECIFICATION Spec
INVARIANT JournalLoadable
CHECK_DEADLOCK FALSE
