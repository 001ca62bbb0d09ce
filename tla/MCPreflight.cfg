\* Two setups: unknown outcomes, malformed replies, lagging queries, foreign
\* orders, and positions that open and close, and a preflight
\* that reads while all of this goes on.
CONSTANTS
  Ids = {s1, s2}
  Volume = 1
  TTL = 1
  MaxCandle = 0
  MaxEvents = 1
  Faults = {"crash", "reply", "unknown", "lag", "foreign", "position", "manual"}
SPECIFICATION PreflightSpec
SYMMETRY Symmetry
INVARIANTS
  AtMostOneActiveOrder ActiveOrderAccounted NoEntryBesidePosition
  ReadyMeansStartable
