CONSTANTS
  esp = esp
  mac = mac
  preboot = preboot
  sata = sata
  nvme = nvme
  Volume = {esp, mac, preboot, sata, nvme}
  Node <- Nodes
  VolumePath <- Paths
  WholeDisk <- Disks
  KeyOrder <- Keys
  Deletable <- AppleKeys
  Capacity = 3
  Entries <- MenuEntries
  VolumeOrder <- Volumes
  Removable = {mac}
  Settings <- SomeSettings
  Plists <- NvramPlists
  FirstNvram <- Nvrams
  OSWrites <- MacWrites
SPECIFICATION MainLoopSpec
INVARIANT MacSeesEmulation
