SPECIFICATION Spec
CONSTANTS
  Absent = Absent
  Torn = Torn
  Patient = TRUE
  MaxTries = 1
  MaxVersion = 3
  MaxRuns = 4
  MaxMishaps = 1
INVARIANTS
  InstalledIsVerified
  SomethingToRun
  NewsOnce
PROPERTIES
  PreviousKept
  UpdateEnds
CHECK_DEADLOCK FALSE
