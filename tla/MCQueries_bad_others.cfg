CONSTANTS
  A = A  B = B  C = C  HUF = HUF  EUR = EUR  USD = USD
  Topics = {1, 2, 3, 4, 5, 6}
  Currencies = {HUF, EUR, USD}
  Default = HUF
  Transactions <- Six
  PeriodOf <- Dates
  Rate <- Rates
  Sides <- BySign
  Filters <- Everything
  Share = 3
  Word = 128
  MaxRun = 6
SPECIFICATION Spec
INVARIANTS
  OthersIsNotTheBiggest
CHECK_DEADLOCK FALSE
