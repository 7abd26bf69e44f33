SPECIFICATION ServiceSpec
CONSTANTS
  i1 = i1
  i2 = i2
  Instances = {i1, i2}
  Free = Free
  SpawnMayFail = TRUE
  InstancesOf <- OneOrTwo
  HintPolls = 1
  MaxCommands = 2
INVARIANTS ServiceTypeOK StoppedUsesNoDriver
PROPERTIES ShutdownReturnsUnlessStuck ServiceStops
CHECK_DEADLOCK FALSE
