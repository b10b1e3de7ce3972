CONSTANTS
  A = A  B = B  C = C  HUF = HUF  EUR = EUR  USD = USD
  Topics = {A, B, C}
  Currencies = {HUF, EUR, USD}
  Default = HUF
  Transactions <- Book
  PeriodOf <- Dates
  Rate <- Rates
  Sides <- Modes
  Filters <- Asked
  Share = 20
  Word = 128
  MaxRun = 5
SPECIFICATION Spec
INVARIANTS
  SumsAreExact
  TablesAgree
  ChartsBalance
  ShapesAgree
  OthersIsTheTail
CHECK_DEADLOCK FALSE
