SPECIFICATION Spec
CONSTANTS
  Absent = Absent
  Torn = Torn
  Patient = FALSE
  MaxTries = 1
  MaxVersion = 2
  MaxRuns = 4
  MaxMishaps = 0
INVARIANT
  InstalledIsVerified
CHECK_DEADLOCK FALSE
