------------------------------ MODULE MCMainLoop ------------------------------
(* An instance of MainLoop for TLC. *)
EXTENDS MainLoop

CONSTANTS esp, mac, preboot, sata, nvme   \* the EFI partition, two of macOS, and their disks

Step(t, x) == [type |-> t, data |-> x]
Sata(pm) == [type |-> "sata", port |-> 0, pm |-> pm, lun |-> 0]

Paths ==
  [v \in Volume |->
     CASE v = nvme -> << Step("acpi", 0), Step("nvme", 0) >>
       [] v = esp -> << Step("acpi", 0), Step("nvme", 0), Step("hd", 0) >>
       [] v = sata -> << Step("acpi", 0), Sata(0) >>
       [] v = mac -> << Step("acpi", 0), Sata(0), Step("hd", 1) >>
       [] v = preboot -> << Step("acpi", 0), Sata(0), Step("hd", 2), Step("vendor", "preboot") >>]
Nodes == UNION {{Paths[v][i] : i \in 1 .. Len(Paths[v])} : v \in Volume}
Disks == [v \in Volume |-> IF v \in {nvme, esp} THEN nvme ELSE sata]
Volumes == << sata, mac, preboot, nvme, esp >>

Item(kind, v, type, loader) ==
  [kind |-> kind, volume |-> v, type |-> type, loader |-> loader, target |-> FALSE,
   row |-> 0, hidden |-> FALSE, hibernated |-> FALSE]

MenuEntries ==
  << [Item("loader", preboot, "OSX", << "system", "boot" >>) EXCEPT !.target = TRUE, !.hibernated = TRUE],
     Item("loader", mac, "OSX", << "", "boot" >>),
     Item("loader", esp, "OTHER", << "", "shell" >>),
     Item("loader", esp, "WINEFI", << "", "bootmgfw" >>),
     [Item("loader", esp, "LINEFI", << "", "grub" >>) EXCEPT !.hidden = TRUE],
     Item("legacy", mac, "WIN", None),
     [Item("tool", None, "", None) EXCEPT !.row = 1] >>

ASSUME PathsTellVolumes /\ StartedFromPartitions

Keys == << "Boot0000", "efi-boot-next-data", "efi-boot-device-data", "efi-boot-device",
           "aptiofixflag", "specialbootdevice", "BootCampHD", "EmuVariableUefiPresent" >>
AppleKeys == {Keys[i] : i \in 2 .. 8}

With(f, k, x) == [f EXCEPT ![k] = Variable(TRUE, x)]
Blank == With([k \in Key |-> None], "Boot0000", Paths[esp])

\* Nothing; macOS about to wake, with another startup disk; Windows by Boot Camp.
Nvrams ==
  {Blank,
   With(With(With(Blank, "aptiofixflag", Paths[mac]), "specialbootdevice", Paths[mac]),
        "efi-boot-device-data", << Step("invalid", 0) >>),
   With(With(Blank, "efi-boot-device-data", << Step("memmap", 0) >>), "BootCampHD", Paths[sata])}

\* F11 deletes it.
NvramPlists == {[[k \in Key |-> None] EXCEPT !["efi-boot-device-data"] = Paths[mac]]}

\* The startup disk as macOS spells it, and one for the next boot.
MacWrites ==
  {<< "efi-boot-device-data", << Step("acpi", 1), Sata(1), Step("hd", 0) >> >>,
   << "efi-boot-next-data", Paths[mac] >>}

Plain ==
  [emu |-> FALSE, timeout |-> 5, last |-> TRUE, defaultVolume |-> FALSE, volumes |-> {},
   loaders |-> {}, first |-> FALSE, fast |-> FALSE, hibernated |-> FALSE, tools |-> TRUE]
ToDefault ==
  [Plain EXCEPT !.last = FALSE, !.defaultVolume = TRUE, !.volumes = {esp},
                !.loaders = {<< "", "bootmgfw" >>}]

SomeSettings ==
  {Plain,
   [Plain EXCEPT !.timeout = 0, !.fast = TRUE, !.hibernated = TRUE],
   ToDefault,
   [Plain EXCEPT !.emu = TRUE],
   [ToDefault EXCEPT !.emu = TRUE, !.first = TRUE, !.tools = FALSE, !.timeout = 0],
   [ToDefault EXCEPT !.emu = TRUE, !.timeout = -1]}
===============================================================================
