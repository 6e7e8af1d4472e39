\* The deepest interleavings are those of threads that compile.
CONSTANTS
  Sites = {"a", "b", "c", "e"}
  Seeds = {"a", "e"}
  Devices = {"d1", "d2", "d3", "d4"}
  Threads = {"m1", "p1", "p2"}
  Process <- Process1
  SeedRow <- Rows1
  Number <- Numbers1
  FirstId = 2
  LastId = 5
  TakenIds = {4}
  MaxEpoch = 4
  Scenarios <- Scenarios1
SPECIFICATION Spec
INVARIANTS
  InventoryInv
  CompilationRepairs
  OwnersAgree
