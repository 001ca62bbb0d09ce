CONSTANTS
  Left = 1
  Right = 1
  Shapes <- Flat4
  Depths = {6}
  RiskReward = 2
  MaxCandle = 8
SPECIFICATION Spec
INVARIANT NewestEventDecides
CHECK_DEADLOCK FALSE
