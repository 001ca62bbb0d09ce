CONSTANTS
  Temporary = {"transport"}
  Other = {"value"}
  Durations = {3, 7}
  MaxFailures = 5
  MaxExponent = 1023
SPECIFICATION Spec
PROPERTIES AlertsThrottled FailuresAreHeard
CHECK_DEADLOCK FALSE
