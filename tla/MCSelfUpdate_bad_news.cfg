SPECIFICATION Spec
CONSTANTS
  Absent = Absent
  Torn = Torn
  Patient = TRUE
  MaxTries = 1
  MaxVersion = 3
  MaxRuns = 5
  MaxMishaps = 0
INVARIANT NewsAlwaysOnce
CHECK_DEADLOCK FALSE
