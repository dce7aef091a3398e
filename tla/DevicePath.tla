------------------------------ MODULE DevicePath ------------------------------
(***************************************************************************)
(* EFI device paths as rEFIt_UEFI/Platform/BootOptions.cpp builds and      *)
(* compares them.  A path is the sequence of its nodes; the END node that  *)
(* closes every path is left implicit, so a walk that reaches it is a walk *)
(* past the last element.  A node keeps what the comparison tells apart:   *)
(* its type, its payload and, for a file path node, the spelling of the    *)
(* name: with or without a leading backslash (case never matters).         *)
(***************************************************************************)
EXTENDS Naturals, Sequences

CONSTANTS Volume,      \* file system volumes (the device handles callers pass)
          Name,        \* file names up to case and leading backslash
          HDVolume     \* the volumes whose path has a HARDDRIVE media node

ASSUME HDVolumeAssumption == HDVolume \subseteq Volume

\* A file name as it is spelled in a FILEPATH node or by a caller.
Spelling == [name : Name, slash : BOOLEAN]

HwNode(v)   == [type |-> "hw",   data |-> v]
HdNode(v)   == [type |-> "hd",   data |-> v]
FileNode(s) == [type |-> "file", data |-> s]

\* The node type the code looks for with (MEDIA_DEVICE_PATH, MEDIA_HARDDRIVE_DP)
\* and (MEDIA_DEVICE_PATH, MEDIA_FILEPATH_DP).
HasNode(path, type) == \E i \in 1 .. Len(path) : path[i].type = type

\* Clover_FindDevicePathNodeWithType: the tail of the path that starts at the
\* first node of the type.  The code returns NULL when HasNode is false.
FindDevicePathNodeWithType(path, type) ==
  LET first == CHOOSE i \in 1 .. Len(path) :
                 /\ path[i].type = type
                 /\ \A j \in 1 .. i - 1 : path[j].type # type
  IN  SubSeq(path, first, Len(path))

\* FileDevicePath of the device path library: the path of the volume's handle,
\* followed by one file path node.
FileDevicePath(v, s) ==
  IF v \in HDVolume THEN << HwNode(v), HdNode(v), FileNode(s) >>
                    ELSE << HwNode(v), FileNode(s) >>

\* The short form starts at the hard drive node; a volume that has none keeps
\* the full form.
CreateBootOptionDevicePath(v, s, useShortForm) ==
  LET full == FileDevicePath(v, s)
  IN  IF useShortForm /\ HasNode(full, "hd")
      THEN FindDevicePathNodeWithType(full, "hd")
      ELSE full

\* One round of DevicePathEqual's loop: type and length must agree, a file
\* name is compared without case and without its leading backslash, any other
\* node byte by byte.  Case does not change the length of a file node, a leading
\* backslash does, so names that differ by it fail the test of the length.
SameNodeLength(n1, n2) == n1.type = "file" => n1.data.slash = n2.data.slash

NodeEqual(n1, n2) ==
  /\ n1.type = n2.type
  /\ SameNodeLength(n1, n2)
  /\ IF n1.type = "file" THEN n1.data.name = n2.data.name
                         ELSE n1.data = n2.data

DevicePathEqual(p1, p2) ==
  /\ Len(p1) = Len(p2)
  /\ \A i \in 1 .. Len(p1) : NodeEqual(p1[i], p2[i])
===============================================================================
