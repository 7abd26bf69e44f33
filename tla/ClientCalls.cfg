SPECIFICATION Spec
CONSTANTS
  t1 = t1  t2 = t2
  Threads = {t1, t2}
  Commands = {"setChannel", "purge"}
  CommandOf <- OneEach
  MaxCalls = 2
  SpawnMayFail = TRUE
INVARIANTS TypeOK OwnAnswer NoThreadOutlivesObject
PROPERTY CallsReturn
CHECK_DEADLOCK FALSE
