-------------------------- MODULE StartupDisk_proofs --------------------------
(* Proofs about the startup disk: what is recorded is found again. *)
EXTENDS StartupDisk, Least_proofs, TLAPS

-------------------------------------------------------------------------------
(* Helpers *)

\* The first index is in the set, and nothing in the set is before it.
LEMMA FirstIndexFacts ==
  ASSUME NEW S, S \subseteq Nat \ {0}, S # {}
  PROVE  /\ FirstIndex(S) \in S /\ FirstIndex(S) # 0
         /\ \A j \in S : FirstIndex(S) <= j
<1>1. \E i \in S : \A j \in S : i <= j
  BY LeastNatural
<1>. QED
  BY <1>1 DEF FirstIndex

\* A node is equal to itself, and so is a path.
LEMMA PathEqualReflexive ==
  ASSUME NEW p
  PROVE  BootVolumeDevicePathEqual(p, p)
BY DEF BootVolumeDevicePathEqual, NodesEqual

\* The first row is a set of positions of the menu.
LEMMA Row0Facts ==
  ASSUME NEW E, NEW entries \in Seq(E)
  PROVE  Row0(entries) \subseteq Nat \ {0} /\ Row0(entries) \subseteq 1 .. Len(entries)
BY DEF Row0

\* A path that is recorded is not empty, it starts like that of its volume and is
\* taken apart again as it was put together.
LEMMA RecordedPath ==
  ASSUME NEW v \in Volume, NEW loader
  PROVE  /\ StartupDiskPath(v, loader) # << >>
         /\ StartupDiskPath(v, loader)[1].type \notin {"invalid", "memmap"}
         /\ VolumePart(StartupDiskPath(v, loader)) = VolumePath[v]
         /\ LoaderPart(StartupDiskPath(v, loader)) = loader
<1>. DEFINE p == VolumePath[v]
            f == [type |-> "file", data |-> loader]
            q == StartupDiskPath(v, loader)
<1>1. /\ p \in Seq(Node) /\ p # << >> /\ Len(p) \in Nat \ {0}
      /\ p[1].type \notin {"invalid", "memmap"}
      /\ \A i \in 1 .. Len(p) : p[i].type # "file"
  BY VolumePathAssumption
<1>2. CASE loader = None
  <2>1. q = p
    BY <1>2 DEF StartupDiskPath
  <2>2. NodeWithType(p, {"file"}) = 0
    BY <1>1 DEF NodeWithType, FirstIndex
  <2>. QED
    BY <1>1, <1>2, <2>1, <2>2 DEF VolumePart, LoaderPart
<1>3. CASE loader # None
  <2>1. q = Append(p, f)
    BY <1>3 DEF StartupDiskPath
  <2>2. /\ Len(q) = Len(p) + 1 /\ q[Len(p) + 1] = f /\ q # << >>
        /\ \A i \in 1 .. Len(p) : q[i] = p[i]
    BY <1>1, <2>1
  <2>3. {i \in 1 .. Len(q) : q[i].type \in {"file"}} = {Len(p) + 1}
    BY <1>1, <2>2
  <2>4. NodeWithType(q, {"file"}) = Len(p) + 1
    <3>1. FirstIndex({Len(p) + 1}) = Len(p) + 1
      <4>1. {Len(p) + 1} \subseteq Nat \ {0} /\ {Len(p) + 1} # {}
        BY <1>1
      <4>. QED
        BY <4>1, FirstIndexFacts
    <3>2. NodeWithType(q, {"file"}) = FirstIndex({i \in 1 .. Len(q) : q[i].type \in {"file"}})
      BY Zenon DEF NodeWithType
    <3>. QED
      BY <2>3, <3>1, <3>2, Zenon
  <2>5. SubSeq(q, 1, Len(p)) = p
    BY <1>1, <2>1
  <2>6. VolumePart(q) = p /\ LoaderPart(q) = loader
    <3>. DEFINE i == NodeWithType(q, {"file"})
    <3>1. /\ VolumePart(q) = IF i = 0 THEN q ELSE SubSeq(q, 1, i - 1)
          /\ LoaderPart(q) = IF i = 0 THEN None ELSE q[i].data
      BY Zenon DEF VolumePart, LoaderPart
    <3>2. i # 0 /\ i - 1 = Len(p) /\ q[i].data = loader
      BY <1>1, <2>2, <2>4
    <3>. QED
      BY <2>5, <3>1, <3>2, Zenon
  <2>7. q[1].type \notin {"invalid", "memmap"}
    BY <1>1, <2>2
  <2>. QED
    BY <2>2, <2>6, <2>7
<1>. QED
  BY <1>2, <1>3

\* Without a request for the next boot and without the mark of a sleep,
\* GetEfiBootDeviceFromNvram finds what SetStartupDiskVolume has recorded.
LEMMA RecordedIsRead ==
  ASSUME NEW v \in Volume, NEW loader, NEW value,
         value["efi-boot-next-data"] = None, value["aptiofixflag"] = None,
         value["efi-boot-device-data"] = StartupDiskPath(v, loader)
  PROVE  /\ GetEfiBootDeviceFromNvram(NoBootDevice, value).volume = VolumePath[v]
         /\ GetEfiBootDeviceFromNvram(NoBootDevice, value).loader = loader
<1>. DEFINE q == StartupDiskPath(v, loader)
<1>1. /\ q # None /\ q[1].type \notin {"invalid", "memmap"}
      /\ VolumePart(q) = VolumePath[v] /\ LoaderPart(q) = loader
  BY RecordedPath DEF None
<1>2. BootDeviceData(value) = q
  <2>. HIDE DEF q
  <2>. QED
    BY <1>1 DEF BootDeviceData, IsDevicePathValid, q
<1>. HIDE DEF q
<1>. QED
  BY <1>1, <1>2 DEF GetEfiBootDeviceFromNvram, NoBootDevice

-------------------------------------------------------------------------------
(* What is recorded is found *)

\* When Clover or macOS has recorded a volume and a loader, and the entry is
\* still in the first row of the menu, FindStartupDiskVolume finds an entry with
\* that loader on a volume with an equal path, and none that is after the
\* recorded one: no other search is reached.
THEOREM RecordedLoaderIsFound ==
  ASSUME NEW E, NEW entries \in Seq(E), NEW volumes, NEW value, NEW i \in Row0(entries),
         entries[i].kind = "loader", entries[i].volume \in Volume, entries[i].loader # None,
         value["efi-boot-next-data"] = None, value["aptiofixflag"] = None,
         value["efi-boot-device-data"] = StartupDiskPath(entries[i].volume, entries[i].loader)
  PROVE  \E j \in Row0(entries) :
           /\ FindStartupDiskVolume(GetEfiBootDeviceFromNvram(NoBootDevice, value),
                                    entries, volumes) = j
           /\ j <= i
           /\ entries[j].kind = "loader" /\ entries[j].loader = entries[i].loader
           /\ BootVolumeDevicePathEqual(VolumePath[entries[i].volume],
                                        VolumePath[entries[j].volume])
<1>. DEFINE boot == GetEfiBootDeviceFromNvram(NoBootDevice, value)
            byLoader == {k \in Row0(entries) : SameLoader(boot, entries[k])}
            j == FirstIndex(byLoader)
<1>1. boot.volume = VolumePath[entries[i].volume] /\ boot.loader = entries[i].loader
  BY RecordedIsRead
<1>2. boot.volume # None /\ boot.loader # None
  BY <1>1, VolumePathAssumption DEF None
<1>. HIDE DEF boot
<1>3. i \in byLoader
  BY <1>1, PathEqualReflexive, VolumeAssumption DEF SameLoader
<1>4. j \in byLoader /\ j <= i
  <2>1. byLoader \subseteq Nat \ {0} /\ byLoader # {}
    BY <1>3, Row0Facts
  <2>. QED
    BY <1>3, <2>1, FirstIndexFacts
<1>5. FindStartupDiskVolume(boot, entries, volumes) = j
  BY <1>2, <1>3, Zenon DEF FindStartupDiskVolume
<1>6. /\ j \in Row0(entries)
      /\ entries[j].kind = "loader" /\ entries[j].loader = entries[i].loader
      /\ BootVolumeDevicePathEqual(VolumePath[entries[i].volume], VolumePath[entries[j].volume])
  BY <1>1, <1>4 DEF SameLoader
<1>. QED
  BY <1>4, <1>5, <1>6 DEF boot

\* When only the volume was recorded, as for macOS and for legacy systems, and it
\* is a partition, the default is on a volume with an equal path, again not after
\* the recorded entry.
THEOREM RecordedVolumeIsFound ==
  ASSUME NEW E, NEW entries \in Seq(E), NEW volumes, NEW value, NEW i \in Row0(entries),
         HasVolume(entries[i]), entries[i].volume \in Volume,
         NodeWithType(VolumePath[entries[i].volume], MediaTypes) # 0,
         value["efi-boot-next-data"] = None, value["aptiofixflag"] = None,
         value["efi-boot-device-data"] = StartupDiskPath(entries[i].volume, None)
  PROVE  \E j \in Row0(entries) :
           /\ FindStartupDiskVolume(GetEfiBootDeviceFromNvram(NoBootDevice, value),
                                    entries, volumes) = j
           /\ j <= i
           /\ HasVolume(entries[j])
           /\ BootVolumeDevicePathEqual(VolumePath[entries[i].volume],
                                        VolumePath[entries[j].volume])
<1>. DEFINE boot == GetEfiBootDeviceFromNvram(NoBootDevice, value)
            byPartition == {k \in Row0(entries) : SamePartition(boot, entries[k])}
            j == FirstIndex(byPartition)
<1>1. boot.volume = VolumePath[entries[i].volume] /\ boot.loader = None
  BY RecordedIsRead
<1>2. boot.volume # None /\ NodeWithType(boot.volume, MediaTypes) # 0
  BY <1>1, VolumePathAssumption DEF None
<1>. HIDE DEF boot
<1>3. i \in byPartition
  BY <1>1, PathEqualReflexive DEF SamePartition
<1>4. j \in byPartition /\ j <= i
  <2>1. byPartition \subseteq Nat \ {0} /\ byPartition # {}
    BY <1>3, Row0Facts
  <2>. QED
    BY <1>3, <2>1, FirstIndexFacts
<1>5. FindStartupDiskVolume(boot, entries, volumes) = j
  BY <1>1, <1>2, <1>3, Zenon DEF FindStartupDiskVolume
<1>6. /\ j \in Row0(entries) /\ HasVolume(entries[j])
      /\ BootVolumeDevicePathEqual(VolumePath[entries[i].volume], VolumePath[entries[j].volume])
  BY <1>1, <1>4 DEF SamePartition
<1>. QED
  BY <1>4, <1>5, <1>6 DEF boot
===============================================================================
