SPECIFICATION Spec
CONSTANTS
  i1 = i1  i2 = i2  i3 = i3  nA = nA  nB = nB  mA = mA  mB = mB
  NULL = NULL
  Instances = {i1, i2, i3}
  Names = {nA, nB}
  LoopNames = {nB}
  Modules = {mA, mB}
  ModuleOf <- TwoModules
  Drivers = {d1, d2}
  Readers = {r1, r2}
  Prio <- PrioMixed
  DisableUnload = FALSE
  ReopenMayFail = FALSE
SYMMETRY DriverReaderSymmetry
INVARIANTS TypeOK NoDangling ReceiversExact ReaderOnOpenDriver OpenIsOpen ExclusiveLock WaitersHaveHolder OneObjectPerModule
PROPERTIES LockHonoured NoPreemption
