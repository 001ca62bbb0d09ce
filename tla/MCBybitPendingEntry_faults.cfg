CONSTANTS
  Ids = {s1}
  Volume = 2
  TTL = 2
  MaxCandle = 2
  MaxEvents = 1
  Faults = {"crash", "unknown", "lag", "save", "clear", "read", "position", "foreign"}
SPECIFICATION Spec
INVARIANTS
  DurableMatchesSlot ExpiryIsDurable NeverAheadOfExchange
  TerminalEventsAreTrue EveryEndIsReported RecordsLoad BlockedSlotRecovers NeverExpiresEarly
PROPERTIES
  EndIsTheLastWord ImplementsLedger
