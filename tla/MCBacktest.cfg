CONSTANTS
  Ids = {"long", "again", "short", "wrong"}
  Requests <- MCRequests
  Prices = {1, 2, 3, 4}
  TTL = 2
  MaxCandle = 4
  MaxTicket = 3
SPECIFICATION BacktestSpec
INVARIANTS ResultIsComplete BrokerNeverRefuses
CHECK_DEADLOCK FALSE
