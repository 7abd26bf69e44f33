SPECIFICATION Spec
CONSTANTS
  i1 = i1  i2 = i2  i3 = i3  i4 = i4  nA = nA  mA = mA
  NULL = NULL
  Instances = {i1, i2, i3, i4}
  Names = {nA}
  LoopNames = {}
  Modules = {mA}
  ModuleOf <- OneModule
  Drivers = {d1}
  Readers = {r1}
  Prio <- PrioAllTop
  DisableUnload = TRUE
  ReopenMayFail = FALSE
PROPERTY ImplementsPriv
