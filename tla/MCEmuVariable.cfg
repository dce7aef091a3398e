CONSTANTS
  k1 = k1
  k2 = k2
  k3 = k3
  d1 = d1
  d2 = d2
  Key = {k1, k2, k3}
  Data = {d1, d2}
  AttributeSets <- Masks
  HwErrKey = {k2}
  DellKey = {k3}
  VarSize <- Sizes
  MaxVariableSize = 2
  MaxHwErrSize = 1
  HwErrStorageSize = 1
  HeaderSize = 1
  StoreSize = 3
VIEW WithoutStatus
SPECIFICATION EmuSpec
INVARIANTS EmuTypeOK OneVisible LogsFit QueryAgreesWithCounters
PROPERTIES LogOnlyGrows ImplementsStore
