SPECIFICATION Spec
CONSTANTS
  S1 = S1  S2 = S2  Home = Home  Away = Away
  Sessions = {S1}
  Machines = {Home}
  MachineOf <- MCOneMachine
  Network = FALSE
  Nobody = Nobody  NoFile = NoFile
  Ops = {"WriteFails"}
  CrashIn <- MCNoPlain
  MaxChanges = 2
INVARIANTS
  SavedIsKept
