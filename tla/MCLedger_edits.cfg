SPECIFICATION Spec
CONSTANTS
  Rent = Rent  Shop = Shop  SHOP = SHOP  Misc = Misc  Wire = Wire
  Bank1 = Bank1  Bank2 = Bank2  Acc1 = Acc1  Acc2 = Acc2
  A = A  B = B  Blank = Blank  Text = Text
  NoFile = NoFile  NoMem = NoMem
  DefaultName = Misc  NoNote = Blank
  FoldCase <- MCFoldCase  Captures <- MCCaptures
  Topics = {"CLIENT"}
  Defaulted = {"CLIENT"}
  Names <- MCThreeNames
  Words = {Wire}
  Whats = {A, B}
  Notes = {Blank, Text}
  KeepsTies = TRUE
  Numbers = {Acc1, Acc2}
  Banks = {Bank1}
  InitFiles <- MCMaybe
  Exports <- MCEndOrNew
  Ops = {"Create", "Keyword", "Rename", "Edit", "Import", "Crash"}
  MaxRows = 3
  MaxTxns = 3
  MaxKids = 3
INVARIANTS
  TypeOK
  ReplayOnTrack
  NamesUnique
PROPERTIES
  ReplayEndsWell
CHECK_DEADLOCK FALSE
