CONSTANTS
  k1 = k1
  k2 = k2
  k3 = k3
  d1 = d1
  Key = {k1, k2, k3}
  Data = {d1}
  AttributeSets <- Masks
  HwErrKey = {}
  DellKey = {}
  VarSize <- Sizes
  MaxVariableSize = 1
  MaxHwErrSize = 1
  HwErrStorageSize = 1
  HeaderSize = 1
  StoreSize = 4
SYMMETRY Names
VIEW WithoutStatus
SPECIFICATION WalkSpec
INVARIANT WalkPosition
PROPERTIES WalkComplete
