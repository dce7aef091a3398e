------------------------------- MODULE MainLoop -------------------------------
(***************************************************************************)
(* The life of Clover's main program (refit/main.cpp): it starts, scans    *)
(* for entries, finds the default one, runs the main menu and starts what  *)
(* the timeout, a fast boot or the user chooses, until it is left or the   *)
(* machine is reset, over several boots.  The variables are those of       *)
(* Nvram, the menu itself is the one GenericMenu and MenuScroll describe.  *)
(*                                                                         *)
(* Power may be lost at every step.  A write that records the startup disk *)
(* is a step, and may be refused, and so is each deletion of a reset of    *)
(* NVRAM; the emulation is loaded and nvram.plist is put in one step that  *)
(* no write of it interrupts.  Disks come and go.  Entries the scanners    *)
(* find are given by the disks that are there; BootCurrent and what the    *)
(* settings menu changes are left out.                                     *)
(***************************************************************************)
EXTENDS Nvram

CONSTANTS Entries,        \* all entries of the main menu, in the order they are added
          VolumeOrder,    \* Volumes[]
          Removable,      \* volumes that can be plugged in and ejected
          Settings,       \* the settings that are looked at
          Plists,         \* contents of nvram.plist, or None
          FirstNvram,     \* the firmware's variables at the first start
          OSWrites        \* << key, data >> macOS sets, or deletes with data None

Entry == {Entries[i] : i \in 1 .. Len(Entries)}

\* What a loader or a legacy system is started from is a volume.
ASSUME EntriesAssumption ==
  /\ Entries \in Seq(Entry)
  /\ \A e \in Entry : e.kind \in {"loader", "legacy"} => e.volume \in Volume
  /\ None \notin Entry
ASSUME RemovableAssumption == Removable \subseteq Volume
ASSUME SettingsAssumption == \A s \in Settings : s.timeout \in Int
ASSUME FirstNvramAssumption == \A n \in FirstNvram : DOMAIN n = Key

\* A setting is a record:
\*   emu            the EmuVariable driver is loaded (gEmuVariableControl # NULL)
\*   timeout        Boot.Timeout
\*   last           Boot.LastBootedVolume
\*   defaultVolume  Boot.DefaultVolume is not empty; it names the volumes volumes
\*   loaders        the loader paths Boot.DefaultLoader accepts
\*   first          Boot.BootFirstAvailable
\*   fast           Boot.FastBoot
\*   hibernated     Boot.SkipHibernateTimeout
\*   tools          the scan for tools finds Clover itself

VARIABLES
  config,    \* the settings
  rt,        \* the runtime services
  plist,     \* nvram.plist on the EFI partition, or None
  disks,     \* the volumes that are there
  clover,    \* the globals and locals of the program
  past       \* for the properties: what was recorded and started

loopVars == << config, rt, plist, disks, clover, past >>

\* clover.pc         the step that is next; "off" when Clover does not run
\* clover.timeout    Boot.Timeout, clover.seconds MainMenu.TimeoutSeconds
\* clover.fast       Boot.FastBoot, clover.special SpecialBootMode
\* clover.afterTool  AfterTool
\* clover.menu       MainMenu.Entries with the hidden ones, clover.volumes Volumes[]
\* clover.hidden     MainMenu.Entries.includeHidden
\* clover.index      DefaultIndex + 1, clover.default DefaultEntry or None
\* clover.boot       the parsed startup disk
\* clover.dict       gNvramDict
\* clover.entry      the entry that is started, clover.from why
\* clover.todo       the writes that are left
\* clover.name       where ResetNativeNvram's enumeration is
\* clover.rescanned  the menu has been built before
Off ==
  [pc |-> "off", timeout |-> 0, seconds |-> 0, fast |-> FALSE, special |-> FALSE,
   afterTool |-> FALSE, menu |-> << >>, volumes |-> << >>, hidden |-> FALSE,
   index |-> 0, default |-> None, boot |-> NoBootDevice, dict |-> None,
   entry |-> None, from |-> "", todo |-> << >>, name |-> NoName, rescanned |-> FALSE]

\* past.recorded  the entry whose volume was last recorded, or None
\* past.starts    entries started by Clover itself since it began or was last used
Touched == [past EXCEPT !.starts = 0]
Forgotten == [past EXCEPT !.recorded = None]

MainLoopInit ==
  /\ config \in Settings
  /\ rt \in {PoweredOn(n) : n \in FirstNvram}
  /\ plist \in Plists
  /\ disks = Volume
  /\ clover = Off
  /\ past = [recorded |-> None, starts |-> 0]

\* gEmuVariableControl # NULL
Installed(r) == IF config.emu THEN InstallEmulation(r) ELSE r
Uninstalled(r) == IF config.emu THEN UninstallEmulation(r) ELSE r

-------------------------------------------------------------------------------
(* RefitMainMain up to the loop *)

\* Only without emulation, default volume and timeout, and if no key was pressed,
\* the startup disk is read before the scan.
ReadsEarly == ~ config.emu /\ ~ config.defaultVolume /\ config.timeout = 0

RefitMain ==
  /\ clover.pc = "off"
  /\ rt' = Installed(rt)
  /\ \E early \in {FALSE, ReadsEarly} :
       clover' = [Off EXCEPT
         !.pc = "scan",
         !.timeout = config.timeout,
         !.seconds = IF config.timeout >= 0 THEN config.timeout ELSE 0,
         !.fast = config.fast,
         !.special = Vars(rt)["aptiofixflag"] # None,
         !.boot = IF early THEN GetEfiBootDeviceFromNvram(NoBootDevice, Values(rt'))
                  ELSE NoBootDevice]
  /\ past' = Touched
  /\ UNCHANGED << config, plist, disks >>

IsFastBoot == clover.special \/ clover.fast

-------------------------------------------------------------------------------
(* Building the menu *)

There(e) == e.volume = None \/ e.volume \in disks

\* The members of T in s, in the order of s.
Only(s, T) ==
  LET upTo[i \in 0 .. Len(s)] ==
        IF i = 0 THEN << >>
        ELSE IF s[i] \in T THEN Append(upTo[i - 1], s[i]) ELSE upTo[i - 1]
  IN  upTo[Len(s)]

\* A fast boot scans for loaders only.
Scanned == Only(Entries, {e \in Entry : There(e) /\ (IsFastBoot => e.kind = "loader")})

LoadedDict == IF clover.dict # None THEN clover.dict ELSE plist

\* ScanVolumes, the plist, and the scanners; AddCloverEntry ends the emulation.
Scan ==
  LET put == config.emu /\ ~ clover.afterTool
      r == IF put THEN PutNvramPlistToRtVars(rt, LoadedDict) ELSE rt
  IN
  /\ clover.pc = "scan"
  /\ rt' = IF config.tools /\ ~ IsFastBoot THEN Uninstalled(r) ELSE r
  /\ clover' = [clover EXCEPT
       !.pc = "find",
       !.menu = Scanned,
       !.volumes = Only(VolumeOrder, disks),
       !.dict = IF put THEN LoadedDict ELSE @]
  /\ UNCHANGED << config, plist, disks, past >>

\* MainMenu.Entries as its operators show them.
Shown(c) == IF c.hidden THEN c.menu ELSE Only(c.menu, {e \in Entry : ~ e.hidden})

\* The search for DefaultVolume stops at the first entry that is no loader.
DefaultVolumeEntry ==
  LET shown == Shown(clover)
      loaders == {i \in Row0(shown) : \A j \in 1 .. i : shown[j].kind = "loader"}
  IN  FirstIndex({i \in loaders : /\ config.defaultVolume
                                  /\ shown[i].volume \in config.volumes
                                  /\ shown[i].loader \in config.loaders})

BootDevice == GetEfiBootDeviceFromNvram(clover.boot, Values(Installed(rt)))

\* FindDefaultEntry: the index, or 0; the emulation is on for the search only.
DefaultIndex ==
  LET found == FindStartupDiskVolume(BootDevice, Shown(clover), clover.volumes)
  IN  IF config.first THEN 1 ELSE IF found # 0 THEN found ELSE DefaultVolumeEntry

Startable(e) == e.kind \in {"loader", "legacy"}

\* The default is started without a menu.
StartsAtOnce(e) ==
  /\ e # None
  /\ \/ IsFastBoot
     \/ config.hibernated /\ e.kind = "loader" /\ e.hibernated

\* Where the loop of the menu begins.
EnterMenu(c) == [c EXCEPT !.pc = "menu", !.afterTool = FALSE]

Starting(c, e, from) == [c EXCEPT !.pc = "load", !.entry = e, !.from = from]

FindDefaultEntry ==
  LET shown == Shown(clover)
      e == IF DefaultIndex \in 1 .. Len(shown) THEN shown[DefaultIndex] ELSE None
      c == [clover EXCEPT !.index = DefaultIndex, !.default = e,
                          !.boot = IF config.first THEN @ ELSE BootDevice]
  IN
  /\ clover.pc = "find"
  /\ rt' = IF config.first THEN rt ELSE Uninstalled(Installed(rt))
  /\ \/ /\ StartsAtOnce(e) /\ Startable(e)
        /\ clover' = Starting(c, e, "fast")
        /\ past' = [past EXCEPT !.starts = @ + 1]
     \/ /\ StartsAtOnce(e) /\ ~ Startable(e)
        /\ clover' = EnterMenu([c EXCEPT !.fast = FALSE])
        /\ UNCHANGED past
     \/ /\ ~ StartsAtOnce(e)
        /\ clover' = EnterMenu(c)
        /\ UNCHANGED past
  /\ UNCHANGED << config, plist, disks >>

-------------------------------------------------------------------------------
(* The loop of the menu *)

\* A faulty variant: the timeout stays.
KeptTimeout(c) == c

\* The timeout has sense only in the first run.
NoMoreTimeout(c) == [c EXCEPT !.timeout = -1]

\* RunMainMenu has returned.
MenuRan(c) == NoMoreTimeout([c EXCEPT !.seconds = 0])

\* The loop is left, and the menu is built again.
Rescan(c, afterTool) ==
  [c EXCEPT !.pc = "scan", !.afterTool = afterTool, !.rescanned = TRUE]

\* Timeout 0 without a key, or the countdown of the menu.
TimedOut ==
  \/ clover.timeout = 0
  \/ clover.index # 0 /\ clover.seconds > 0

StartDefault ==
  LET c == IF clover.timeout = 0 THEN NoMoreTimeout(clover) ELSE MenuRan(clover) IN
  /\ clover.pc = "menu"
  /\ clover.default # None
  /\ TimedOut
  /\ clover' = IF Startable(clover.default) THEN Starting(c, clover.default, "timeout")
               ELSE Rescan(c, FALSE)
  /\ past' = [past EXCEPT !.starts = @ + 1]
  /\ UNCHANGED << config, rt, plist, disks >>

\* ESC, or the event of a file system that has come.
Refresh ==
  /\ clover.pc = "menu"
  /\ clover' = Rescan(MenuRan(clover), FALSE)
  /\ past' = Touched
  /\ UNCHANGED << config, rt, plist, disks >>

\* The options, Help, About, a tool or the entry of Clover: the menu is shown
\* again, after a change of the options or a tool it is built again.  What the
\* entry of Clover does to boot options is in BootOptions.
OptionsAndTools ==
  /\ clover.pc = "menu"
  /\ \/ clover' = MenuRan(clover)
     \/ \E afterTool \in BOOLEAN : clover' = Rescan(MenuRan(clover), afterTool)
  /\ past' = Touched
  /\ UNCHANGED << config, rt, plist, disks >>

HideToggle ==
  /\ clover.pc = "menu"
  /\ clover' = [MenuRan(clover) EXCEPT !.hidden = ~ @]
  /\ past' = Touched
  /\ UNCHANGED << config, rt, plist, disks >>

\* A volume that cannot be ejected leaves the menu as it is.
EjectVolume ==
  /\ clover.pc = "menu"
  /\ \E i \in 1 .. Len(Shown(clover)) :
       LET e == Shown(clover)[i] IN
       /\ HasVolume(e)
       /\ e.volume \in Removable \cap disks
       /\ disks' = disks \ {e.volume}
  /\ clover' = Rescan(MenuRan(clover), FALSE)
  /\ past' = Touched
  /\ UNCHANGED << config, rt, plist >>

Choose ==
  /\ clover.pc = "menu"
  /\ \E i \in 1 .. Len(Shown(clover)) :
       LET e == Shown(clover)[i] IN
       /\ Startable(e)
       /\ clover' = Starting(MenuRan(clover), e, IF e.kind = "legacy" THEN "menu" ELSE "last")
  /\ past' = Touched
  /\ UNCHANGED << config, rt, plist, disks >>

\* Exit, and the legacy entries of one firmware.
Exit ==
  /\ clover.pc = "menu"
  /\ clover' = [MenuRan(clover) EXCEPT !.pc = "exit"]
  /\ past' = Touched
  /\ UNCHANGED << config, rt, plist, disks >>

\* RefitMainMain returns to the firmware, which may start Clover again.
Leave ==
  /\ clover.pc = "exit"
  /\ rt' = Uninstalled(rt)
  /\ clover' = Off
  /\ UNCHANGED << config, plist, disks, past >>

-------------------------------------------------------------------------------
(* F11: ResetNvram *)

ResetNvram ==
  /\ clover.pc = "menu"
  /\ rt' = Installed(rt)
  /\ clover' = [MenuRan(clover) EXCEPT !.pc = "reset", !.name = NoName]
  /\ past' = Touched
  /\ UNCHANGED << config, plist, disks >>

\* One round of ResetNativeNvram.
ResetRound ==
  LET k == GetNextVariableName(rt, clover.name) IN
  /\ clover.pc = "reset"
  /\ k # NoName
  /\ \/ /\ k \in Deletable
        /\ rt' = SetVariable(rt, k, None)
        /\ clover' = [clover EXCEPT !.name = Restart(k)]
        /\ past' = Forgotten
     \/ /\ k \notin Deletable
        /\ clover' = [clover EXCEPT !.name = k]
        /\ UNCHANGED << rt, past >>
  /\ UNCHANGED << config, plist, disks >>

\* What follows the enumeration; nvram.plist is deleted if its
\* volume has EFI in its name.
ResetDone ==
  /\ rt' = Uninstalled(rt)
  /\ plist' \in IF config.emu THEN {plist, None} ELSE {plist}
  /\ clover' = [Rescan(clover, FALSE) EXCEPT !.name = NoName]
  /\ UNCHANGED << config, disks, past >>

ResetEnds ==
  /\ clover.pc = "reset"
  /\ GetNextVariableName(rt, clover.name) = NoName
  /\ ResetDone

\* A variable the firmware does not delete ends it as well.
ResetRefused ==
  /\ clover.pc = "reset"
  /\ ~ rt.installed
  /\ GetNextVariableName(rt, clover.name) \in Deletable
  /\ ResetDone

-------------------------------------------------------------------------------
(* StartLoader and StartLegacy *)

IsOSX(e) == e.kind = "loader" /\ e.type \in {"OSX", "VAR", "RECOVERY", "OSX_INSTALLER"}
IsWindows(e) == e.kind = "loader" /\ e.type \in {"WIN", "WINEFI", "EFI", "VAR"}
IsLinux(e) == e.kind = "loader" /\ e.type \in {"LIN", "EFI", "VAR", "LINEFI"}

\* A faulty variant: the emulation is ended for Windows only.
EndsForWindows(e) == e.kind = "legacy" \/ IsWindows(e)

\* The systems that are started without the emulation.
EndsEmulation(e) == e.kind = "legacy" \/ (~ IsOSX(e) /\ (IsWindows(e) \/ IsLinux(e)))

\* What is recorded of the loader.
RecordedLoader(e) ==
  IF e.kind = "legacy" \/ (e.type = "OSX" /\ ~ e.target) THEN None ELSE e.loader

\* A write: whether SetNvramVariable has looked at the old value is checked.
Set(k, data) == [key |-> k, data |-> data, checked |-> FALSE]

Writes(e) ==
  IF config.last
  THEN << Set("efi-boot-device-data", StartupDiskPath(e.volume, RecordedLoader(e))) >>
       \o (IF HasPartitionGuid(e.volume)
           THEN << Set("efi-boot-device", StartupDiskPath(e.volume, None)) >> ELSE << >>)
  ELSE IF config.defaultVolume
    THEN << Set("efi-boot-device", None), Set("efi-boot-device-data", None),
            Set("BootCampHD", None) >>
  ELSE << >>

\* An image that cannot be loaded leaves no trace.
LoadFails ==
  /\ clover.pc = "load"
  /\ clover.entry.kind = "loader"
  /\ clover' = [clover EXCEPT !.pc = "return"]
  /\ UNCHANGED << config, rt, plist, disks, past >>

Prepare ==
  LET e == clover.entry IN
  /\ clover.pc = "load"
  /\ rt' = IF EndsEmulation(e) THEN Uninstalled(rt) ELSE rt
  /\ clover' = [clover EXCEPT !.pc = "record", !.todo = Writes(e)]
  /\ UNCHANGED << config, plist, disks, past >>

\* Without emulation what is recorded is kept.
Kept(data) == IF data = None THEN None ELSE Variable(~ config.emu, data)

Written(w) ==
  IF w.key # "efi-boot-device-data" THEN past
  ELSE IF w.data = None THEN Forgotten ELSE [past EXCEPT !.recorded = clover.entry]

\* A variable with the same attributes and data is not written, one with other
\* attributes is deleted first.  A write that failed ends SetStartupDiskVolume.
Record ==
  LET w == Head(clover.todo)
      old == Vars(rt)[w.key]
      new == Kept(w.data)
  IN
  /\ clover.pc = "record"
  /\ clover.todo # << >>
  /\ \/ /\ Conflict(old, new) /\ ~ w.checked
        /\ rt' = SetVariable(rt, w.key, None) \/ (~ rt.installed /\ rt' = rt)
        /\ clover' = [clover EXCEPT !.todo[1].checked = TRUE]
        /\ past' = IF w.key = "efi-boot-device-data" THEN Forgotten ELSE past
     \/ /\ ~ Conflict(old, new)
        /\ rt' = IF old = new THEN rt ELSE SetVariable(rt, w.key, new)
        /\ clover' = [clover EXCEPT
             !.todo = IF new # None /\ Vars(rt')[w.key] = None THEN << >> ELSE Tail(@)]
        /\ past' = Written(w)
  /\ UNCHANGED << config, plist, disks >>

\* The firmware refuses a write; one that deletes is not missed.
RecordFails ==
  LET w == Head(clover.todo) IN
  /\ clover.pc = "record"
  /\ clover.todo # << >>
  /\ ~ rt.installed
  /\ clover' = [clover EXCEPT !.todo = IF w.data = None THEN Tail(@) ELSE << >>]
  /\ past' = IF w.key = "efi-boot-device-data" THEN Forgotten ELSE past
  /\ UNCHANGED << config, rt, plist, disks >>

Start ==
  /\ clover.pc = "record"
  /\ clover.todo = << >>
  /\ clover' = [clover EXCEPT !.pc = "running"]
  /\ UNCHANGED << config, rt, plist, disks, past >>

\* macOS sets variables (the startup disk, a next boot, hibernation).
OSSetVariable ==
  /\ clover.pc = "running"
  /\ IsOSX(clover.entry)
  /\ \E w \in OSWrites :
       rt' = SetVariable(rt, w[1], IF w[2] = None THEN None ELSE Variable(TRUE, w[2]))
  /\ past' = Forgotten
  /\ UNCHANGED << config, plist, disks, clover >>

\* The system was not started, or has given the control back.
StartReturns ==
  /\ clover.pc = "running"
  /\ clover' = [clover EXCEPT !.pc = "return"]
  /\ UNCHANGED << config, rt, plist, disks, past >>

\* What the main loop does then.
Return ==
  LET c == [clover EXCEPT !.entry = None, !.from = ""] IN
  /\ clover.pc = "return"
  /\ \/ /\ clover.from = "fast"
        /\ clover' = EnterMenu([c EXCEPT !.fast = FALSE])
     \/ /\ clover.from = "timeout"
        /\ clover' = Rescan(c, FALSE)
     \/ /\ clover.from = "menu"
        /\ clover' = [c EXCEPT !.pc = "menu"]
     \/ /\ clover.from = "last"
        /\ clover' = [c EXCEPT !.pc = "exit"]
  /\ UNCHANGED << config, rt, plist, disks, past >>

-------------------------------------------------------------------------------
(* The machine *)

\* A disk is plugged in; OnSimpleFileSystem then makes the menu return, which it
\* may do at any time.  It is pulled out when the machine is off.
PlugIn ==
  /\ \/ \E v \in Removable \ disks : disks' = disks \cup {v}
     \/ /\ clover.pc = "off"
        /\ \E v \in Removable \cap disks : disks' = disks \ {v}
  /\ past' = Touched
  /\ UNCHANGED << config, rt, plist, clover >>

Reset ==
  /\ clover.pc # "off"
  /\ rt' = PoweredOn(Persistent(rt.native))
  /\ clover' = Off
  /\ UNCHANGED << config, plist, disks, past >>

MainLoopNext ==
  \/ RefitMain \/ Scan \/ FindDefaultEntry
  \/ StartDefault \/ Refresh \/ OptionsAndTools \/ HideToggle \/ EjectVolume
  \/ Choose \/ Exit \/ Leave
  \/ ResetNvram \/ ResetRound \/ ResetEnds \/ ResetRefused
  \/ LoadFails \/ Prepare \/ Record \/ RecordFails \/ Start
  \/ OSSetVariable \/ StartReturns \/ Return
  \/ PlugIn \/ Reset

MainLoopSpec == MainLoopInit /\ [][MainLoopNext]_loopVars

-------------------------------------------------------------------------------
(* Properties *)

PC == {"off", "scan", "find", "menu", "reset", "load", "record", "running", "return", "exit"}

\* The type invariant of the main loop.
LoopTypeOK ==
  /\ config \in Settings
  /\ DOMAIN rt.native = Key /\ DOMAIN rt.emu.value = Key
  /\ \A nv \in BOOLEAN : rt.emu.used[nv] \in 0 .. Capacity
  /\ rt.installed \in BOOLEAN /\ rt.events \in Nat
  /\ disks \subseteq Volume
  /\ clover.pc \in PC
  /\ clover.index \in 0 .. Len(Entries) \/ clover.index = 1
  /\ clover.default \in Entry \cup {None} /\ clover.entry \in Entry \cup {None}
  /\ past.recorded \in Entry \cup {None}

\* Whatever was installed, ended, loaded, refused or left in between, Windows,
\* Linux and legacy systems run with the firmware's own variable services, and so
\* does the firmware once Clover has returned to it.
OthersBootNative ==
  \/ clover.pc = "off"
  \/ /\ clover.pc = "running"
     /\ clover.entry.kind = "legacy" \/ clover.entry.type \in {"WIN", "WINEFI", "LIN", "LINEFI", "EFI"}
  => ~ rt.installed

\* InstallEmulation and UninstallEmulation are called in every order, and one of
\* them more often than the other: while the emulation is installed there is one
\* event that will convert its pointers, and otherwise there is none.
OneAddressChangeEvent == rt.events = IF rt.installed THEN 1 ELSE 0

\* A machine nobody touches does not start entries for ever: after the third one
\* that comes back the main menu waits.
NoBootLoop == past.starts <= 3

\* What the search for the startup disk takes for granted: of the volumes systems
\* are started from no two have paths it takes for equal, and all are partitions.
PathsTellVolumes ==
  \A d, e \in Entry :
    /\ Startable(d) /\ Startable(e)
    /\ BootVolumeDevicePathEqual(VolumePath[d.volume], VolumePath[e.volume])
    => d.volume = e.volume
StartedFromPartitions ==
  \A e \in Entry : Startable(e) => NodeWithType(VolumePath[e.volume], MediaTypes) # 0

\* Power may be lost after every write and writes may be refused: when Clover
\* starts on the firmware's own variables and has recorded an entry that is
\* still in the menu, it is on that entry's volume that FindDefaultEntry finds
\* the default, and with the same loader if the loader was recorded.
DefaultIsLastStarted ==
  [][LET e == past.recorded IN
     /\ clover.pc = "find" /\ clover'.pc \notin {"find", "off"}
     /\ ~ clover.rescanned /\ ~ config.emu /\ ~ config.first
     /\ e # None /\ e \in {Shown(clover)[i] : i \in Row0(Shown(clover))}
     /\ rt.native["efi-boot-next-data"] = None /\ rt.native["aptiofixflag"] = None
     => /\ clover'.default # None
        /\ clover'.default.volume = e.volume
        /\ RecordedLoader(e) # None => clover'.default.loader = e.loader]_loopVars

\* F11 deletes one variable at a time from the store it enumerates: when it comes
\* to the end nothing that may be deleted is left, and no step of it touches
\* anything else.
ResetClears ==
  [][clover.pc = "reset" /\ clover'.pc # "off" =>
       /\ \A k \in Key \ Deletable : /\ rt'.native[k] = rt.native[k]
                                     /\ rt'.emu.value[k] = rt.emu.value[k]
       /\ clover'.pc = "scan" /\ GetNextVariableName(rt, clover.name) = NoName =>
            \A k \in Deletable : Vars(rt)[k] = None]_loopVars

\* The driver marks its presence for macOS (InitVariable.c: "to allow /ect/rc*
\* scripts to detect that this driver is used"): when the driver is loaded, macOS
\* finds EmuVariableUefiPresent.
MacSeesEmulation ==
  config.emu /\ clover.pc = "running" /\ IsOSX(clover.entry)
    => Vars(rt)["EmuVariableUefiPresent"] # None
===============================================================================
