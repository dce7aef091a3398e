CONSTANTS
  v1 = v1
  v2 = v2
  n1 = n1
  n2 = n2
  Volume = {v1}
  HDVolume = {v1}
  Name = {n1}
  File <- OneFile
  MaxBootNum = 2
  BootIndexes = {0, 5}
  InitContent <- TwoContents
  MaxInitOrder = 3
  MaxFaults = 2
SPECIFICATION FairSpec
INVARIANTS
  TypeOK
  IndexInBuffer
  HealthyWithoutFaults
  DamageBounded
PROPERTIES
  AddKeepsRelativeOrder
  OperationReturns
