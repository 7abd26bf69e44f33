SPECIFICATION Spec
CONSTANTS
  cA1 = cA1  cA2 = cA2  cB1 = cB1
  Channels = {cA1, cA2, cB1}
  None = None
  BonNoOf <- BonNoOfThree
  TargetOf <- TargetOfThree
  ServiceOf <- ServiceOfThree
  BufSize = 2
  ChunkSizes = {1, 3}
  FifoSize = 1
  MaxSets = 2
  MaxOpens = 2
  MaxUnits = 4
INVARIANTS TypeOK ReaderOnLiveTuner FreshAndInOrder SettingsAgree PlaysWhatWasPromised
PROPERTY CallsReturn
