SPECIFICATION Spec
CONSTANTS
  FirstDay <- MCFirstDay
  LastSerial = 65380
  Years = {1, 3, 5}
INVARIANTS
  CivilDates
  PeriodsTile
PROPERTIES
  PeriodsHandOver
CHECK_DEADLOCK FALSE
