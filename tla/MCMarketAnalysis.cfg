\* Windows of six or seven candles, which slide over the last two of eight and
\* may be shorter for a candle than for the one before it.
CONSTANTS
  Left = 1
  Right = 1
  Shapes <- Flat4
  Depths = {6, 7}
  RiskReward = 2
  MaxCandle = 8
SPECIFICATION Spec
INVARIANT SetupsAreTradable
PROPERTIES
  StructuresArePermanent BreaksInOrder
CHECK_DEADLOCK FALSE
