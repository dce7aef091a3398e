CONSTANTS
  v1 = v1
  v2 = v2
  n1 = n1
  n2 = n2
  Volume = {v1, v2}
  HDVolume = {v1}
  Name = {n1, n2}
  File <- OneFile
  MaxBootNum = 1
  BootIndexes = {0}
  InitContent <- TwoContents
  MaxInitOrder = 2
  MaxFaults = 1
SPECIFICATION Spec
PROPERTIES
  DeletedIsUnlisted
