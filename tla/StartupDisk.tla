----------------------------- MODULE StartupDisk ------------------------------
(***************************************************************************)
(* The startup disk of Platform/Nvram.cpp: what SetStartupDiskVolume puts  *)
(* into efi-boot-device-data, what GetEfiBootDeviceFromNvram makes of it   *)
(* and which entry of the main menu FindStartupDiskVolume finds for it.    *)
(*                                                                         *)
(* A device path is the sequence of its nodes, without the END node.  A    *)
(* node keeps its type and what the comparisons tell apart; a file node    *)
(* holds a loader path << guid, name >>, where guid is the APFS volume it  *)
(* names, if any, and upper and lower case are the same.                   *)
(***************************************************************************)
EXTENDS Integers, Sequences

CONSTANTS Volume,       \* partitions, and whole disks
          Node,         \* nodes of device paths
          VolumePath,   \* Volume->DevicePath
          WholeDisk     \* the volume whose BlockIO is Volume->WholeDiskBlockIO

\* NULL; no path and no loader path is empty.
None == << >>

ASSUME VolumeAssumption == None \notin Volume

\* The path of a volume leads to a device, not to a file on it or into memory.
ASSUME VolumePathAssumption ==
  \A v \in Volume :
    /\ VolumePath[v] \in Seq(Node)
    /\ VolumePath[v] # << >>
    /\ VolumePath[v][1].type \notin {"invalid", "memmap"}
    /\ \A i \in 1 .. Len(VolumePath[v]) : VolumePath[v][i].type # "file"


MediaTypes == {"hd", "vendor", "file"}

-------------------------------------------------------------------------------
(* Comparing device paths *)

\* The nodes BootVolumeDevicePathEqual takes for equal without looking at them:
\* macOS writes Sata where the firmware has VenHw or NVMe, PciRoot for PcieRoot.
ForceEqualNodes(m, n) ==
  \/ m.type = "sata" /\ n.type \in {"venhw", "nvme"}
  \/ n.type = "sata" /\ m.type \in {"venhw", "nvme"}
  \/ m.type = "acpi" /\ n.type = "acpi"

\* A port multiplier is ignored.
NodesEqual(m, n) ==
  \/ ForceEqualNodes(m, n)
  \/ m.type = "sata" /\ n.type = "sata" /\ m.port = n.port /\ m.lun = n.lun
  \/ m.type # "sata" /\ m = n

BootVolumeDevicePathEqual(p, q) ==
  /\ Len(p) = Len(q)
  /\ \A i \in 1 .. Len(p) : NodesEqual(p[i], q[i])

\* Clover_FindDevicePathNodeWithType: the index of the first node, or 0.
FirstIndex(S) ==
  IF S = {} THEN 0 ELSE CHOOSE i \in S : \A j \in S : i <= j
NodeWithType(p, types) == FirstIndex({i \in 1 .. Len(p) : p[i].type \in types})

BootVolumeMediaDevicePathNodesEqual(p, q) ==
  LET i == NodeWithType(p, MediaTypes)
      j == NodeWithType(q, MediaTypes)
  IN  i # 0 /\ j # 0 /\ p[i] = q[j]

-------------------------------------------------------------------------------
(* efi-boot-device-data *)

\* SetStartupDiskVolume: the path of the volume, and of the loader if there is one.
StartupDiskPath(v, loader) ==
  IF loader = None THEN VolumePath[v]
  ELSE Append(VolumePath[v], [type |-> "file", data |-> loader])

\* FindGPTPartitionGuidInDevicePath finds a partition GUID: the hard drive nodes of
\* the model are partitions of a GPT.
HasPartitionGuid(v) == NodeWithType(VolumePath[v], {"hd"}) # 0

\* The path up to its file node, and the loader path of that node.
VolumePart(p) ==
  LET i == NodeWithType(p, {"file"}) IN IF i = 0 THEN p ELSE SubSeq(p, 1, i - 1)
LoaderPart(p) ==
  LET i == NodeWithType(p, {"file"}) IN IF i = 0 THEN None ELSE p[i].data

IsDevicePathValid(p) == p # None /\ p[1].type # "invalid"

\* gEfiBootDeviceData, gEfiBootVolume and gEfiBootLoaderPath.
NoBootDevice == [data |-> None, volume |-> None, loader |-> None]

\* What is read; value[k] is the data of variable k, or None.
BootDeviceData(value) ==
  LET kept == IF value["aptiofixflag"] = None THEN value["efi-boot-device-data"]
              ELSE value["specialbootdevice"]
  IN  IF IsDevicePathValid(value["efi-boot-next-data"]) THEN value["efi-boot-next-data"]
      ELSE IF IsDevicePathValid(kept) THEN kept ELSE None

\* The variables are read once, and parsed; with a path into memory, macOS has
\* put that of the Windows disk into BootCampHD.
GetEfiBootDeviceFromNvram(boot, value) ==
  LET data == BootDeviceData(value)
      parsed(p) == [data |-> data, volume |-> VolumePart(p), loader |-> LoaderPart(p)]
  IN  IF boot.data # None \/ data = None THEN boot
      ELSE IF data[1].type # "memmap" THEN parsed(data)
      ELSE IF IsDevicePathValid(value["BootCampHD"]) THEN parsed(value["BootCampHD"])
      ELSE [boot EXCEPT !.data = data]

-------------------------------------------------------------------------------
(* FindStartupDiskVolume *)

\* Every search ends at the first entry that is not in the first row.
Row0(entries) == {i \in 1 .. Len(entries) : \A j \in 1 .. i : entries[j].row = 0}

HasVolume(e) == e.kind \in {"loader", "legacy"} /\ e.volume # None

\* A faulty variant: the name of the loader is not compared.
AnyLoader(boot, e) ==
  /\ e.kind = "loader" /\ e.volume # None
  /\ BootVolumeDevicePathEqual(boot.volume, VolumePath[e.volume])

\* 1. the partition and the loader; or, for APFS, the volume the loader path names
SameLoader(boot, e) ==
  /\ e.kind = "loader" /\ e.volume # None
  /\ BootVolumeDevicePathEqual(boot.volume, VolumePath[e.volume])
  /\ e.loader = boot.loader
NamedByLoader(boot, e) ==
  /\ e.kind = "loader" /\ e.volume # None
  /\ LET i == NodeWithType(VolumePath[e.volume], {"vendor"})
     IN  i # 0 /\ VolumePath[e.volume][i].data = boot.loader[1]

\* 2. a partition
SamePartition(boot, e) ==
  HasVolume(e) /\ BootVolumeDevicePathEqual(boot.volume, VolumePath[e.volume])
SameMedia(boot, e) ==
  HasVolume(e) /\ BootVolumeMediaDevicePathNodesEqual(boot.volume, VolumePath[e.volume])

\* 3. a disk: the first volume with that path, then Windows on it, then anything
DiskVolume(boot, volumes) ==
  LET i == FirstIndex({j \in 1 .. Len(volumes) :
                         BootVolumeDevicePathEqual(boot.volume, VolumePath[volumes[j]])})
  IN  IF i = 0 THEN None ELSE volumes[i]
OnDisk(disk, e) == HasVolume(e) /\ disk # None /\ WholeDisk[e.volume] = disk
WindowsOnDisk(disk, e) ==
  OnDisk(disk, e) /\ e.type = (IF e.kind = "legacy" THEN "WIN" ELSE "WINEFI")

\* The first entry the first successful search accepts, or 0 (-1 in the code).
FindStartupDiskVolume(boot, entries, volumes) ==
  LET row == Row0(entries)
      byLoader == {i \in row : SameLoader(boot, entries[i])}
      byName == {i \in row : NamedByLoader(boot, entries[i])}
      byPartition == {i \in row : SamePartition(boot, entries[i])}
      byMedia == {i \in row : SameMedia(boot, entries[i])}
      disk == DiskVolume(boot, volumes)
      windows == {i \in row : WindowsOnDisk(disk, entries[i])}
      onDisk == {i \in row : OnDisk(disk, entries[i])}
  IN  IF boot.volume = None THEN 0
      ELSE IF boot.loader # None /\ byLoader # {} THEN FirstIndex(byLoader)
      ELSE IF boot.loader # None /\ byName # {} THEN FirstIndex(byName)
      ELSE IF NodeWithType(boot.volume, MediaTypes) # 0
        THEN IF byPartition # {} THEN FirstIndex(byPartition) ELSE FirstIndex(byMedia)
      ELSE IF windows # {} THEN FirstIndex(windows) ELSE FirstIndex(onDisk)
===============================================================================
