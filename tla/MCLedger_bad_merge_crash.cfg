SPECIFICATION Spec
CONSTANTS
  Rent = Rent  Shop = Shop  SHOP = SHOP  Misc = Misc  Wire = Wire
  Bank1 = Bank1  Bank2 = Bank2  Acc1 = Acc1  Acc2 = Acc2
  A = A  B = B  Blank = Blank  Text = Text
  NoFile = NoFile  NoMem = NoMem
  DefaultName = Misc  NoNote = Blank
  FoldCase <- MCFoldCase  Captures <- MCCaptures
  Topics = {"CLIENT"}
  Defaulted = {"CLIENT"}
  Names <- MCTwoNames
  Words = {Wire}
  Whats = {A, B}
  Notes = {Blank}
  KeepsTies = TRUE
  Numbers = {Acc1, Acc2}
  Banks = {Bank1}
  InitFiles <- MCOneDay
  Exports <- MCNoExports
  Ops = {"Edit", "Merge", "Crash"}
  MaxRows = 2
  MaxTxns = 3
  MaxKids = 3
PROPERTIES
  ReplayNeverFails
CHECK_DEADLOCK FALSE
