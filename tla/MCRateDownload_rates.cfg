SPECIFICATION Spec
CONSTANTS
  Home = Home  Travel = Travel  HUF = HUF  EUR = EUR
  Accounts = {Home, Travel}
  CurrencyOf <- MCCurrencyOf
  Foreign = {EUR}
  Default = Default  Free = Free
  Days = {6, 7, 9}
  Published <- MCPublished
  Silences <- MCSilences
  MaxTxns = 2
INVARIANTS
  ClosedOnce
  NothingLeftOpen
PROPERTIES
  RatesKept
  SettledIsExact
  DialogEnds
