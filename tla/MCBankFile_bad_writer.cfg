SPECIFICATION Spec
CONSTANTS
  S1 = S1  S2 = S2  Home = Home  Away = Away
  Sessions = {S1, S2}
  Machines = {Home, Away}
  MachineOf <- MCTwoMachines
  Network = TRUE
  Nobody = Nobody  NoFile = NoFile
  Ops = {"Discard", "Unreachable"}
  CrashIn <- MCNoPlain
  MaxChanges = 2
INVARIANTS
  OneWriter
