SPECIFICATION Spec
CONSTANTS
  S1 = S1  S2 = S2  Home = Home  Away = Away
  Sessions = {S1, S2}
  Machines = {Home, Away}
  MachineOf <- MCTwoMachines
  Network = TRUE
  Nobody = Nobody  NoFile = NoFile
  Ops = {}
  CrashIn <- MCAlmostAnywhere
  MaxChanges = 2
INVARIANTS
  NoLostUpdate
