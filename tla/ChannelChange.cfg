SPECIFICATION Spec
CONSTANTS
  c1 = c1  c2 = c2
  Clients = {c1, c2}
  BufSize = 2
  ChunkSizes = {1, 3}
  FifoSize = 1
  TsFifoSize = 1
  MaxUnits = 2
  MaxTunes = 2
  MaxCalls <- ThreeAndOne
INVARIANTS TypeOK FreshAfterSetChannel StreamInOrder
PROPERTY PurgeSparesOthers
VIEW ButWaitCNR
