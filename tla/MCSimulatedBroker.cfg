CONSTANTS
  Ids = {"long", "short"}
  Requests <- MCRequests
  Prices = {0, 1, 2, 3, 4}
  TTL = 2
  MaxCandle = 2
  MaxTicket = 1
SPECIFICATION SimSpec
INVARIANTS LivesItsCandles
PROPERTIES FillsWhenReached NeverOptimistic
