CONSTANTS
  v1 = v1
  v2 = v2
  n1 = n1
  n2 = n2
  Volume = {v1, v2}
  HDVolume = {v1}
  Name = {n1, n2}
  File <- FourFiles
  MaxBootNum = 2
  BootIndexes = {0}
  InitContent <- ManyContents
  MaxInitOrder = 3
  MaxFaults = 0
SPECIFICATION Spec
PROPERTIES
  DeleteForFileExact
  DeleteContainingExact
