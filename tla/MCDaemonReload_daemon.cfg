SPECIFICATION Spec
CONSTANTS
  R1 = R1  R2 = R2
  Requests = {R1, R2}
  Gone = Gone  Void = Void  Nothing = Nothing
  Rights = {TRUE, FALSE}
  MaxSaves = 3
  MaxAsked = 4
INVARIANTS
  PointsToLiving
  UndisturbedRatesAreOwn
  SkipsNothingNew
PROPERTIES
  NewestServed
  RequestsEnd
CHECK_DEADLOCK FALSE
