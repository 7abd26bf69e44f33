SPECIFICATION Spec
CONSTANTS
  i1 = i1  i2 = i2  i3 = i3  nA = nA  nB = nB  mA = mA  mB = mB
  NULL = NULL
  Instances = {i1, i2}
  Names = {nA}
  LoopNames = {}
  Modules = {mA}
  ModuleOf <- OneModule
  Drivers = {d1}
  Readers = {r1}
  Prio <- PrioAllTop
  DisableUnload = FALSE
  ReopenMayFail = FALSE
INVARIANT TunerClosedWhenUnused
