SPECIFICATION Spec
CONSTANTS
  Services = {1, 2, 3}
  First = {1}
  None = None
  TransportOf <- TransportOfThree
  PmtPidOf <- PmtPidOfThree
  EsOf <- EsOfThree
  PartsOf <- PartsOfThree
  EmmOf <- EmmOfTwo
  CiMod = 2
  BufSize = 2
  MaxSets = 2
  MaxLost = 1
INVARIANTS TypeOK MapIsOwn
PROPERTY MapInTheEnd
