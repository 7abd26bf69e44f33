SPECIFICATION Spec
CONSTANTS
  Instances = {i1, i2}
  Free = Free
  SpawnMayFail = FALSE
INVARIANT NoSelectDuringCleanUp
