---------------------------- MODULE MainLoop_proofs ---------------------------
(***************************************************************************)
(* Proofs about the main loop.  Records change by EXCEPT only, so the      *)
(* proofs keep which fields they have.                                     *)
(***************************************************************************)
EXTENDS MainLoop, StartupDisk_proofs

CloverShape(c) == DOMAIN c = DOMAIN Off
PastShape(p) == DOMAIN p = {"recorded", "starts"}
RtShape(r) ==
  /\ DOMAIN r = {"native", "emu", "installed", "events"}
  /\ DOMAIN r.native = Key
  /\ DOMAIN r.emu = {"value", "used"} /\ DOMAIN r.emu.value = Key
  /\ r.installed \in BOOLEAN
  /\ r.events = IF r.installed THEN 1 ELSE 0

-------------------------------------------------------------------------------
(* The runtime services *)

LEMMA EmuSetShape ==
  ASSUME NEW emu, DOMAIN emu = {"value", "used"}, DOMAIN emu.value = Key, NEW k, NEW var
  PROVE  DOMAIN EmuSet(emu, k, var) = {"value", "used"} /\ DOMAIN EmuSet(emu, k, var).value = Key
BY DEF EmuSet

LEMMA EmuSetAllShape ==
  ASSUME NEW emu, NEW new
  PROVE  DOMAIN EmuSetAll(emu, new) = {"value", "used"} /\ DOMAIN EmuSetAll(emu, new).value = Key
BY DEF EmuSetAll

\* No write installs or ends the emulation.
LEMMA SetVariableShape ==
  ASSUME NEW r, RtShape(r), NEW k, NEW var
  PROVE  RtShape(SetVariable(r, k, var)) /\ SetVariable(r, k, var).installed = r.installed
<1>1. CASE r.installed
  BY <1>1, EmuSetShape DEF SetVariable, RtShape
<1>2. CASE ~ r.installed
  BY <1>2 DEF SetVariable, RtShape
<1>. QED
  BY <1>1, <1>2

LEMMA PutPlistShape ==
  ASSUME NEW r, RtShape(r), NEW dict
  PROVE  /\ RtShape(PutNvramPlistToRtVars(r, dict))
         /\ PutNvramPlistToRtVars(r, dict).installed = r.installed
<1>1. CASE r.installed
  BY <1>1, EmuSetAllShape DEF PutNvramPlistToRtVars, PutDictToNvram, PutToEmulated, RtShape
<1>2. CASE ~ r.installed
  BY <1>2 DEF PutNvramPlistToRtVars, PutDictToNvram, PutToNative, RtShape
<1>. QED
  BY <1>1, <1>2

LEMMA PoweredOnShape ==
  ASSUME NEW n, DOMAIN n = Key
  PROVE  RtShape(PoweredOn(n)) /\ ~ PoweredOn(n).installed
BY DEF PoweredOn, RtShape, NoEmulation, NoVariables

\* Installing twice is installing once.
LEMMA InstalledShape ==
  ASSUME NEW r, RtShape(r), ~ config.emu => ~ r.installed
  PROVE  RtShape(Installed(r)) /\ (~ config.emu => ~ Installed(r).installed)
<1>1. CASE config.emu /\ ~ r.installed
  <2>. DEFINE c == CopyRTVariables(r.native, r.emu)
              s == EmuSet(c, "EmuVariableUefiPresent", Present)
  <2>1. DOMAIN c = {"value", "used"} /\ DOMAIN c.value = Key
    BY EmuSetAllShape DEF CopyRTVariables
  <2>2. DOMAIN s = {"value", "used"} /\ DOMAIN s.value = Key
    BY <2>1, EmuSetShape
  <2>3. Installed(r) = [native |-> r.native, emu |-> s, installed |-> TRUE, events |-> r.events + 1]
    BY <1>1 DEF Installed, InstallEmulation, Started
  <2>. HIDE DEF s
  <2>. QED
    BY <1>1, <2>2, <2>3 DEF RtShape
<1>2. CASE ~ config.emu \/ r.installed
  BY <1>2 DEF Installed, InstallEmulation, Started
<1>. QED
  BY <1>1, <1>2 DEF RtShape

\* Afterwards it is not installed, whether it was or not, and the stores are kept.
LEMMA UninstalledShape ==
  ASSUME NEW r, RtShape(r), ~ config.emu => ~ r.installed
  PROVE  /\ RtShape(Uninstalled(r)) /\ ~ Uninstalled(r).installed
         /\ Uninstalled(r).native = r.native /\ Uninstalled(r).emu = r.emu
<1>1. CASE config.emu
  <2>. DEFINE u == UninstallEmulation(r)
  <2>1. DOMAIN u = DOMAIN r /\ u.native = r.native /\ u.emu = r.emu /\ u.installed = FALSE
    BY DEF UninstallEmulation, RtShape
  <2>2. u.events = 0
    BY DEF UninstallEmulation, RtShape
  <2>3. Uninstalled(r) = u
    BY <1>1 DEF Uninstalled
  <2>. QED
    BY <2>1, <2>2, <2>3 DEF RtShape
<1>2. CASE ~ config.emu
  BY <1>2 DEF Uninstalled
<1>. QED
  BY <1>1, <1>2

-------------------------------------------------------------------------------
(* The emulation *)

\* The systems of OthersBootNative are those Prepare ends the emulation for.
EmulationInv ==
  /\ RtShape(rt) /\ CloverShape(clover)
  /\ ~ config.emu => ~ rt.installed
  /\ clover.pc = "off" => ~ rt.installed
  /\ clover.pc \in {"load", "record", "running"} => Startable(clover.entry)
  /\ clover.pc \in {"record", "running"} /\ EndsEmulation(clover.entry) => ~ rt.installed

\* What a step leaves that only moves within the menu or back to it.
Harmless(c) ==
  CloverShape(c) /\ c.pc \in {"scan", "find", "menu", "reset", "return", "exit"}

LEMMA MenuMoves ==
  ASSUME NEW c, CloverShape(c), NEW a
  PROVE  /\ CloverShape(MenuRan(c)) /\ MenuRan(c).pc = c.pc
         /\ CloverShape(NoMoreTimeout(c)) /\ NoMoreTimeout(c).pc = c.pc
         /\ Harmless(Rescan(c, a)) /\ Harmless(EnterMenu(c))
BY DEF CloverShape, MenuRan, NoMoreTimeout, Rescan, EnterMenu, Off, Harmless

LEMMA StartMoves ==
  ASSUME NEW c, CloverShape(c), NEW e, NEW from
  PROVE  /\ CloverShape(Starting(c, e, from)) /\ Starting(c, e, from).pc = "load"
         /\ Starting(c, e, from).entry = e
BY DEF CloverShape, Starting, Off

LEMMA HarmlessKeeps ==
  ASSUME EmulationInv, UNCHANGED config, RtShape(rt'), ~ config.emu => ~ rt'.installed,
         Harmless(clover')
  PROVE  EmulationInv'
BY DEF EmulationInv, Harmless

LEMMA EmulationInit ==
  ASSUME MainLoopInit
  PROVE  EmulationInv
<1>1. PICK n \in FirstNvram : rt = PoweredOn(n)
  BY DEF MainLoopInit
<1>2. RtShape(rt) /\ ~ rt.installed
  BY <1>1, PoweredOnShape, FirstNvramAssumption
<1>3. CloverShape(clover) /\ clover.pc = "off"
  BY DEF MainLoopInit, CloverShape, Off
<1>. QED
  BY <1>2, <1>3 DEF EmulationInv

LEMMA EmulationStep ==
  ASSUME EmulationInv, MainLoopNext
  PROVE  EmulationInv'
<1>. DEFINE e == clover.entry
<1>0. /\ RtShape(rt) /\ CloverShape(clover)
      /\ ~ config.emu => ~ rt.installed
  BY DEF EmulationInv
<1>i. PICK inst : inst = Installed(rt)
  OBVIOUS
<1>i1. RtShape(inst) /\ (~ config.emu => ~ inst.installed)
  BY <1>0, <1>i, InstalledShape
<1>1. CASE RefitMain
  <2>1. rt' = inst /\ UNCHANGED config
    BY <1>1, <1>i DEF RefitMain
  <2>2. Harmless(clover')
    BY <1>1 DEF RefitMain, Harmless, CloverShape, Off
  <2>. QED
    BY <1>i1, <2>1, <2>2, HarmlessKeeps
<1>2. CASE Scan
  <2>. DEFINE r == IF config.emu /\ ~ clover.afterTool THEN PutNvramPlistToRtVars(rt, LoadedDict) ELSE rt
  <2>1. PICK s : s = r
    OBVIOUS
  <2>2. RtShape(s) /\ (~ config.emu => ~ s.installed)
    BY <1>0, <2>1, PutPlistShape
  <2>3. rt' = s \/ rt' = Uninstalled(s)
    BY <1>2, <2>1 DEF Scan
  <2>4. RtShape(rt') /\ (~ config.emu => ~ rt'.installed)
    BY <2>2, <2>3, UninstalledShape
  <2>5. Harmless(clover') /\ UNCHANGED config
    BY <1>0, <1>2 DEF Scan, Harmless, CloverShape, Off
  <2>. QED
    BY <2>4, <2>5, HarmlessKeeps
<1>3. CASE FindDefaultEntry
  <2>1. rt' = rt \/ rt' = Uninstalled(inst)
    BY <1>3, <1>i DEF FindDefaultEntry
  <2>2. RtShape(rt') /\ (~ config.emu => ~ rt'.installed) /\ UNCHANGED config
    BY <1>0, <1>3, <1>i1, <2>1, UninstalledShape DEF FindDefaultEntry
  <2>3. PICK c, d : /\ CloverShape(c)
                    /\ \/ Startable(d) /\ clover' = Starting(c, d, "fast")
                       \/ clover' = EnterMenu(c)
    <3>. DEFINE f == IF DefaultIndex \in 1 .. Len(Shown(clover)) THEN Shown(clover)[DefaultIndex] ELSE None
                c == [clover EXCEPT !.index = DefaultIndex, !.default = f,
                                    !.boot = IF config.first THEN @ ELSE BootDevice]
    <3>1. CloverShape(c) /\ CloverShape([c EXCEPT !.fast = FALSE])
      BY <1>0 DEF CloverShape
    <3>2. \/ Startable(f) /\ clover' = Starting(c, f, "fast")
          \/ clover' = EnterMenu([c EXCEPT !.fast = FALSE])
          \/ clover' = EnterMenu(c)
      BY <1>3, Zenon DEF FindDefaultEntry
    <3>. QED
      BY <3>1, <3>2, Zenon
  <2>4. CASE Startable(d) /\ clover' = Starting(c, d, "fast")
    BY <2>2, <2>3, <2>4, StartMoves DEF EmulationInv
  <2>5. CASE clover' = EnterMenu(c)
    BY <2>2, <2>3, <2>5, MenuMoves, HarmlessKeeps
  <2>. QED
    BY <2>3, <2>4, <2>5
<1>4. CASE StartDefault
  <2>1. PICK c : /\ CloverShape(c)
                 /\ \/ /\ Startable(clover.default)
                       /\ clover' = Starting(c, clover.default, "timeout")
                    \/ clover' = Rescan(c, FALSE)
    BY <1>0, <1>4, MenuMoves DEF StartDefault
  <2>2. UNCHANGED << rt, config >>
    BY <1>4 DEF StartDefault
  <2>3. CASE Startable(clover.default) /\ clover' = Starting(c, clover.default, "timeout")
    BY <1>0, <2>1, <2>2, <2>3, StartMoves DEF EmulationInv
  <2>4. CASE clover' = Rescan(c, FALSE)
    BY <1>0, <2>1, <2>2, <2>4, MenuMoves, HarmlessKeeps
  <2>. QED
    BY <2>1, <2>3, <2>4
<1>5. CASE Refresh \/ OptionsAndTools \/ HideToggle \/ EjectVolume \/ Exit
  <2>1. CloverShape(MenuRan(clover)) /\ MenuRan(clover).pc = "menu"
    BY <1>0, <1>5, MenuMoves DEF Refresh, OptionsAndTools, HideToggle, EjectVolume, Exit
  <2>2. PICK m : m = MenuRan(clover)
    OBVIOUS
  <2>3. \/ clover' = m
        \/ \E a \in BOOLEAN : clover' = Rescan(m, a)
        \/ clover' = [m EXCEPT !.hidden = ~ @]
        \/ clover' = [m EXCEPT !.pc = "exit"]
    BY <1>5, <2>2 DEF Refresh, OptionsAndTools, HideToggle, EjectVolume, Exit
  <2>4. Harmless(clover')
    BY <2>1, <2>2, <2>3, MenuMoves DEF Harmless, CloverShape, Off
  <2>. QED
    BY <1>0, <1>5, <2>4, HarmlessKeeps
       DEF Refresh, OptionsAndTools, HideToggle, EjectVolume, Exit
<1>6. CASE Choose
  <2>1. PICK d, from : Startable(d) /\ clover' = Starting(MenuRan(clover), d, from)
    BY <1>6 DEF Choose
  <2>2. PICK m : m = MenuRan(clover) /\ CloverShape(m)
    BY <1>0, MenuMoves
  <2>3. UNCHANGED << rt, config >>
    BY <1>6 DEF Choose
  <2>. QED
    BY <1>0, <2>1, <2>2, <2>3, StartMoves DEF EmulationInv
<1>7. CASE Leave
  <2>1. rt' = Uninstalled(rt) /\ clover' = Off /\ UNCHANGED config
    BY <1>7 DEF Leave
  <2>2. RtShape(rt') /\ ~ rt'.installed
    BY <1>0, <2>1, UninstalledShape
  <2>3. CloverShape(Off) /\ Off.pc = "off"
    BY DEF CloverShape, Off
  <2>. QED
    BY <2>1, <2>2, <2>3 DEF EmulationInv
<1>8. CASE ResetNvram
  <2>1. rt' = inst /\ UNCHANGED config
    BY <1>8, <1>i DEF ResetNvram
  <2>2. PICK m : m = MenuRan(clover) /\ CloverShape(m)
    BY <1>0, MenuMoves
  <2>3. clover' = [m EXCEPT !.pc = "reset", !.name = NoName]
    BY <1>8, <2>2 DEF ResetNvram
  <2>4. Harmless(clover')
    BY <2>2, <2>3 DEF Harmless, CloverShape, Off
  <2>. QED
    BY <1>i1, <2>1, <2>4, HarmlessKeeps
<1>9. CASE ResetRound
  <2>1. PICK k : rt' = SetVariable(rt, k, None) \/ rt' = rt
    BY <1>9 DEF ResetRound
  <2>2. RtShape(rt') /\ rt'.installed = rt.installed
    BY <1>0, <2>1, SetVariableShape
  <2>3. \E name : clover' = [clover EXCEPT !.name = name]
    BY <1>9 DEF ResetRound
  <2>4. Harmless(clover') /\ UNCHANGED config
    BY <1>0, <1>9, <2>3 DEF ResetRound, Harmless, CloverShape, Off
  <2>. QED
    BY <1>0, <2>2, <2>4, HarmlessKeeps
<1>10. CASE ResetEnds \/ ResetRefused
  <2>1. /\ rt' = Uninstalled(rt) /\ UNCHANGED config
        /\ clover' = [Rescan(clover, FALSE) EXCEPT !.name = NoName]
    BY <1>10 DEF ResetEnds, ResetRefused, ResetDone
  <2>2. RtShape(rt') /\ ~ rt'.installed
    BY <1>0, <2>1, UninstalledShape
  <2>3. PICK c : c = Rescan(clover, FALSE) /\ Harmless(c)
    BY <1>0, MenuMoves
  <2>4. Harmless(clover')
    BY <2>1, <2>3 DEF Harmless, CloverShape, Off
  <2>. QED
    BY <2>1, <2>2, <2>4, HarmlessKeeps
<1>11. CASE LoadFails \/ StartReturns
  <2>1. clover' = [clover EXCEPT !.pc = "return"] /\ UNCHANGED << rt, config >>
    BY <1>11 DEF LoadFails, StartReturns
  <2>2. Harmless(clover')
    BY <1>0, <2>1 DEF Harmless, CloverShape, Off
  <2>. QED
    BY <1>0, <2>1, <2>2, HarmlessKeeps
<1>12. CASE Prepare
  <2>1. /\ clover.pc = "load" /\ UNCHANGED config
        /\ rt' = IF EndsEmulation(e) THEN Uninstalled(rt) ELSE rt
        /\ clover' = [clover EXCEPT !.pc = "record", !.todo = Writes(e)]
    BY <1>12 DEF Prepare
  <2>2. /\ RtShape(rt') /\ (EndsEmulation(e) => ~ rt'.installed)
        /\ ~ config.emu => ~ rt'.installed
    BY <1>0, <2>1, UninstalledShape
  <2>3. CloverShape(clover') /\ clover'.pc = "record" /\ clover'.entry = e
    BY <1>0, <2>1 DEF CloverShape, Off
  <2>. QED
    BY <2>1, <2>2, <2>3 DEF EmulationInv
<1>13. CASE Record \/ RecordFails
  <2>1. PICK k, v : rt' = SetVariable(rt, k, v) \/ rt' = rt
    BY <1>13 DEF Record, RecordFails
  <2>2. RtShape(rt') /\ rt'.installed = rt.installed
    BY <1>0, <2>1, SetVariableShape
  <2>3. CloverShape(clover') /\ clover'.pc = clover.pc /\ clover'.entry = e
    BY <1>0, <1>13 DEF Record, RecordFails, CloverShape, Off
  <2>4. clover.pc = "record" /\ UNCHANGED config
    BY <1>13 DEF Record, RecordFails
  <2>. QED
    BY <2>2, <2>3, <2>4 DEF EmulationInv
<1>14. CASE Start
  <2>1. /\ clover' = [clover EXCEPT !.pc = "running"] /\ UNCHANGED << rt, config >>
        /\ clover.pc = "record"
    BY <1>14 DEF Start
  <2>2. CloverShape(clover') /\ clover'.pc = "running" /\ clover'.entry = e
    BY <1>0, <2>1 DEF CloverShape, Off
  <2>. QED
    BY <2>1, <2>2 DEF EmulationInv
<1>15. CASE OSSetVariable
  <2>1. PICK k, v : rt' = SetVariable(rt, k, v)
    BY <1>15 DEF OSSetVariable
  <2>2. RtShape(rt') /\ rt'.installed = rt.installed
    BY <1>0, <2>1, SetVariableShape
  <2>. QED
    BY <1>15, <2>2 DEF OSSetVariable, EmulationInv
<1>16. CASE Return
  <2>. DEFINE c == [clover EXCEPT !.entry = None, !.from = ""]
              d == [c EXCEPT !.fast = FALSE]
  <2>1. CloverShape(c) /\ CloverShape(d)
    BY <1>0 DEF CloverShape
  <2>2. \/ clover' = EnterMenu(d) \/ clover' = Rescan(c, FALSE)
        \/ clover' = [c EXCEPT !.pc = "menu"] \/ clover' = [c EXCEPT !.pc = "exit"]
    BY <1>16, Zenon DEF Return
  <2>3. Harmless(EnterMenu(d)) /\ Harmless(Rescan(c, FALSE))
    BY <2>1, MenuMoves
  <2>4. ASSUME NEW x \in {"menu", "exit"}, NEW m, CloverShape(m) PROVE Harmless([m EXCEPT !.pc = x])
    BY <2>4 DEF Harmless, CloverShape, Off
  <2>5. Harmless(clover')
    BY <2>1, <2>2, <2>3, <2>4, Zenon
  <2>. QED
    BY <1>0, <1>16, <2>5, HarmlessKeeps DEF Return
<1>17. CASE PlugIn
  BY <1>17 DEF PlugIn, EmulationInv
<1>18. CASE Reset
  <2>1. rt' = PoweredOn(Persistent(rt.native)) /\ clover' = Off /\ UNCHANGED config
    BY <1>18 DEF Reset
  <2>2. DOMAIN Persistent(rt.native) = Key
    BY DEF Persistent
  <2>3. RtShape(rt') /\ ~ rt'.installed
    BY <2>1, <2>2, PoweredOnShape
  <2>4. CloverShape(Off) /\ Off.pc = "off"
    BY DEF CloverShape, Off
  <2>. QED
    BY <2>1, <2>3, <2>4 DEF EmulationInv
<1>. QED
  BY <1>1, <1>2, <1>3, <1>4, <1>5, <1>6, <1>7, <1>8, <1>9, <1>10, <1>11, <1>12, <1>13,
     <1>14, <1>15, <1>16, <1>17, <1>18 DEF MainLoopNext

LEMMA EmulationInvariance == MainLoopSpec => []EmulationInv
<1>1. EmulationInv /\ UNCHANGED loopVars => EmulationInv'
  BY DEF loopVars, EmulationInv, RtShape, CloverShape
<1>. QED
  BY <1>1, EmulationInit, EmulationStep, PTL DEF MainLoopSpec

\* Whatever the order in which the emulation is installed and ended, at most one
\* of its address change events is open, and exactly when it is installed.
THEOREM OneAddressChangeEventHolds == MainLoopSpec => []OneAddressChangeEvent
<1>1. EmulationInv => OneAddressChangeEvent
  BY DEF EmulationInv, RtShape, OneAddressChangeEvent
<1>. QED
  BY <1>1, EmulationInvariance, PTL

\* Windows, Linux and legacy systems, and the firmware Clover returns to, run with
\* the firmware's own variable services, for every menu and every setting.
THEOREM OthersBootNativeHolds == MainLoopSpec => []OthersBootNative
<1>1. EmulationInv => OthersBootNative
  BY DEF EmulationInv, OthersBootNative, Startable, EndsEmulation, IsOSX, IsWindows, IsLinux
<1>. QED
  BY <1>1, EmulationInvariance, PTL

-------------------------------------------------------------------------------
(* Starts without a user *)

\* Neither the timeout 0 nor the countdown of the menu can start anything.
Waits(c) == c.timeout # 0 /\ ~ (c.seconds > 0)

Timer(c) ==
  /\ CloverShape(c)
  /\ c.timeout \in Int /\ c.seconds \in Nat
  /\ c.timeout = 0 => c.seconds = 0

\* How many starts the program can have behind it at each place: one of a fast
\* boot, one of the timeout, and, as the flags of hibernation and of a special
\* boot stay, one more of a fast boot.
StartsInv ==
  /\ config \in Settings
  /\ Timer(clover)
  /\ PastShape(past) /\ past.starts \in 0 .. 3
  /\ clover.pc \in {"scan", "find"} =>
       IF Waits(clover) THEN past.starts <= 2 ELSE past.starts = 0
  /\ clover.pc = "menu" => Waits(clover) \/ past.starts <= 1
  /\ clover.pc = "reset" => Waits(clover) /\ past.starts <= 2
  /\ clover.pc \in {"load", "record", "running", "return"} =>
       \/ clover.from = "fast" /\ (Waits(clover) \/ past.starts <= 1)
       \/ clover.from = "timeout" /\ Waits(clover) /\ past.starts <= 2
       \/ clover.from \in {"menu", "last"} /\ Waits(clover)

SameTimer(c, d) == CloverShape(d) /\ d.timeout = c.timeout /\ d.seconds = c.seconds

LEMMA SameTimerWaits ==
  ASSUME NEW c, NEW d, Timer(c), SameTimer(c, d)
  PROVE  Timer(d) /\ (Waits(d) <=> Waits(c))
BY DEF Timer, SameTimer, Waits

LEMMA TimerMoves ==
  ASSUME NEW c, Timer(c)
  PROVE  /\ Timer(MenuRan(c)) /\ Waits(MenuRan(c)) /\ MenuRan(c).pc = c.pc
         /\ c.timeout = 0 => Timer(NoMoreTimeout(c)) /\ Waits(NoMoreTimeout(c))
BY DEF Timer, CloverShape, Waits, MenuRan, NoMoreTimeout, Off

LEMMA RescanMoves ==
  ASSUME NEW c, CloverShape(c), NEW a
  PROVE  SameTimer(c, Rescan(c, a)) /\ Rescan(c, a).pc = "scan"
BY DEF SameTimer, CloverShape, Rescan, Off

LEMMA EnterMoves ==
  ASSUME NEW c, CloverShape(c)
  PROVE  SameTimer(c, EnterMenu(c)) /\ EnterMenu(c).pc = "menu"
BY DEF SameTimer, CloverShape, EnterMenu, Off

LEMMA StartingMoves ==
  ASSUME NEW c, CloverShape(c), NEW e, NEW from
  PROVE  /\ SameTimer(c, Starting(c, e, from))
         /\ Starting(c, e, from).pc = "load" /\ Starting(c, e, from).from = from
BY DEF SameTimer, CloverShape, Starting, Off

LEMMA FieldMoves ==
  ASSUME NEW c, CloverShape(c), NEW x
  PROVE  /\ SameTimer(c, [c EXCEPT !.pc = x]) /\ [c EXCEPT !.pc = x].pc = x
         /\ SameTimer(c, [c EXCEPT !.name = x]) /\ [c EXCEPT !.name = x].pc = c.pc
         /\ SameTimer(c, [c EXCEPT !.hidden = x]) /\ [c EXCEPT !.hidden = x].pc = c.pc
         /\ SameTimer(c, [c EXCEPT !.fast = x])
BY DEF SameTimer, CloverShape, Off

LEMMA PastMoves ==
  ASSUME PastShape(past), past.starts \in 0 .. 3
  PROVE  /\ PastShape(Touched) /\ Touched.starts = 0
         /\ PastShape(Forgotten) /\ Forgotten.starts = past.starts
         /\ PastShape([past EXCEPT !.starts = @ + 1])
         /\ [past EXCEPT !.starts = @ + 1].starts = past.starts + 1
         /\ \A x : /\ PastShape([past EXCEPT !.recorded = x])
                   /\ [past EXCEPT !.recorded = x].starts = past.starts
BY DEF PastShape, Touched, Forgotten

\* A step of the user: nothing was started by itself, and the timeout is over.
LEMMA UserStep ==
  ASSUME StartsInv, UNCHANGED config, past' = Touched, Timer(clover'), Waits(clover'),
         \/ clover'.pc \in {"menu", "scan", "exit", "reset"}
         \/ clover'.pc = "load" /\ clover'.from \in {"menu", "last"}
  PROVE  StartsInv'
<1>1. PastShape(past') /\ past'.starts = 0
  BY PastMoves DEF StartsInv
<1>. QED
  BY <1>1 DEF StartsInv

LEMMA StartsInit ==
  ASSUME MainLoopInit
  PROVE  StartsInv
<1>1. config \in Settings /\ clover = Off /\ past = [recorded |-> None, starts |-> 0]
  BY DEF MainLoopInit
<1>2. Timer(Off) /\ Off.pc = "off"
  BY DEF Timer, CloverShape, Off
<1>3. PastShape(past) /\ past.starts = 0
  BY <1>1 DEF PastShape
<1>. QED
  BY <1>1, <1>2, <1>3 DEF StartsInv

LEMMA StartsStep ==
  ASSUME StartsInv, MainLoopNext
  PROVE  StartsInv'
<1>0. /\ Timer(clover) /\ CloverShape(clover) /\ PastShape(past) /\ past.starts \in 0 .. 3
      /\ config \in Settings
  BY DEF StartsInv, Timer
<1>m. PICK m : m = MenuRan(clover)
  OBVIOUS
<1>m1. Timer(m) /\ Waits(m) /\ CloverShape(m) /\ m.pc = clover.pc
  BY <1>0, <1>m, TimerMoves DEF Timer
<1>1. CASE RefitMain
  <2>1. /\ clover'.pc = "scan" /\ CloverShape(clover')
        /\ clover'.timeout = config.timeout
        /\ clover'.seconds = IF config.timeout >= 0 THEN config.timeout ELSE 0
    BY <1>1 DEF RefitMain, CloverShape, Off
  <2>2. Timer(clover')
    BY <1>0, <2>1, SettingsAssumption DEF Timer
  <2>3. past' = Touched /\ UNCHANGED config
    BY <1>1 DEF RefitMain
  <2>4. PastShape(past') /\ past'.starts = 0
    BY <1>0, <2>3, PastMoves
  <2>. QED
    BY <1>0, <2>1, <2>2, <2>3, <2>4 DEF StartsInv
<1>2. CASE Scan
  <2>1. SameTimer(clover, clover') /\ clover.pc = "scan" /\ clover'.pc = "find"
    BY <1>0, <1>2 DEF Scan, SameTimer, CloverShape, Off
  <2>. QED
    BY <1>0, <1>2, <2>1, SameTimerWaits DEF Scan, StartsInv
<1>3. CASE FindDefaultEntry
  <2>. DEFINE f == IF DefaultIndex \in 1 .. Len(Shown(clover)) THEN Shown(clover)[DefaultIndex] ELSE None
              b == [clover EXCEPT !.index = DefaultIndex, !.default = f,
                                  !.boot = IF config.first THEN @ ELSE BootDevice]
  <2>1. PICK c : c = b
    OBVIOUS
  <2>2. SameTimer(clover, c) /\ CloverShape(c)
    BY <1>0, <2>1 DEF SameTimer, CloverShape, Off
  <2>3. PICK d : d = [c EXCEPT !.fast = FALSE] /\ SameTimer(c, d) /\ CloverShape(d)
    BY <2>2, FieldMoves DEF SameTimer
  <2>4. /\ clover.pc = "find" /\ UNCHANGED config
        /\ \/ clover' = Starting(c, f, "fast") /\ past' = [past EXCEPT !.starts = @ + 1]
           \/ clover' = EnterMenu(d) /\ UNCHANGED past
           \/ clover' = EnterMenu(c) /\ UNCHANGED past
    BY <1>3, <2>1, <2>3, Zenon DEF FindDefaultEntry
  <2>5. CASE clover' = Starting(c, f, "fast") /\ past' = [past EXCEPT !.starts = @ + 1]
    <3>1. SameTimer(c, clover') /\ clover'.pc = "load" /\ clover'.from = "fast"
      BY <2>2, <2>5, StartingMoves
    <3>2. Timer(clover') /\ (Waits(clover') <=> Waits(clover))
      BY <1>0, <2>2, <3>1, SameTimerWaits
    <3>3. PastShape(past') /\ past'.starts = past.starts + 1
      BY <1>0, <2>5, PastMoves
    <3>. QED
      BY <1>0, <2>4, <3>1, <3>2, <3>3 DEF StartsInv
  <2>6. CASE (clover' = EnterMenu(d) \/ clover' = EnterMenu(c)) /\ UNCHANGED past
    <3>1. clover'.pc = "menu" /\ (SameTimer(d, clover') \/ SameTimer(c, clover'))
      BY <2>2, <2>3, <2>6, EnterMoves
    <3>2. Timer(clover') /\ (Waits(clover') <=> Waits(clover))
      BY <1>0, <2>2, <2>3, <3>1, SameTimerWaits
    <3>. QED
      BY <1>0, <2>4, <2>6, <3>1, <3>2 DEF StartsInv
  <2>. QED
    BY <2>4, <2>5, <2>6
<1>4. CASE StartDefault
  <2>1. PICK c : c = IF clover.timeout = 0 THEN NoMoreTimeout(clover) ELSE MenuRan(clover)
    OBVIOUS
  <2>2. Timer(c) /\ Waits(c) /\ CloverShape(c)
    BY <1>0, <2>1, TimerMoves DEF Timer
  <2>3. past.starts <= 1
    BY <1>0, <1>4 DEF StartDefault, TimedOut, StartsInv, Waits, Timer
  <2>4. /\ past' = [past EXCEPT !.starts = @ + 1] /\ UNCHANGED config
        /\ clover' = Starting(c, clover.default, "timeout") \/ clover' = Rescan(c, FALSE)
    BY <1>4, <2>1 DEF StartDefault
  <2>5. /\ SameTimer(c, clover')
        /\ \/ clover'.pc = "load" /\ clover'.from = "timeout"
           \/ clover'.pc = "scan"
    <3>1. CASE clover' = Starting(c, clover.default, "timeout")
      BY <2>2, <3>1, StartingMoves
    <3>2. CASE clover' = Rescan(c, FALSE)
      BY <2>2, <3>2, RescanMoves
    <3>. QED
      BY <2>4, <3>1, <3>2
  <2>6. Timer(clover') /\ Waits(clover')
    BY <2>2, <2>5, SameTimerWaits
  <2>7. PastShape(past') /\ past'.starts = past.starts + 1
    BY <1>0, <2>4, PastMoves
  <2>. QED
    BY <1>0, <2>3, <2>4, <2>5, <2>6, <2>7 DEF StartsInv
<1>5. CASE Refresh \/ OptionsAndTools \/ HideToggle \/ EjectVolume \/ Exit
  <2>1. /\ \/ clover' = m
           \/ \E a \in BOOLEAN : clover' = Rescan(m, a)
           \/ \E a : clover' = [m EXCEPT !.hidden = a]
           \/ clover' = [m EXCEPT !.pc = "exit"]
        /\ clover.pc = "menu" /\ past' = Touched /\ UNCHANGED config
    BY <1>5, <1>m DEF Refresh, OptionsAndTools, HideToggle, EjectVolume, Exit
  <2>2. SameTimer(m, clover') /\ clover'.pc \in {"menu", "scan", "exit"}
    <3>1. CASE clover' = m
      BY <1>m1, <2>1, <3>1 DEF SameTimer
    <3>2. ASSUME NEW a, clover' = Rescan(m, a) PROVE SameTimer(m, clover') /\ clover'.pc = "scan"
      BY <1>m1, <3>2, RescanMoves
    <3>3. ASSUME NEW a, clover' = [m EXCEPT !.hidden = a]
          PROVE  SameTimer(m, clover') /\ clover'.pc = "menu"
      BY <1>m1, <2>1, <3>3 DEF SameTimer, CloverShape, Off
    <3>4. CASE clover' = [m EXCEPT !.pc = "exit"]
      BY <1>m1, <3>4 DEF SameTimer, CloverShape, Off
    <3>. QED
      BY <2>1, <3>1, <3>2, <3>3, <3>4
  <2>3. Timer(clover') /\ Waits(clover')
    BY <1>m1, <2>2, SameTimerWaits
  <2>. QED
    BY <2>1, <2>2, <2>3, UserStep
<1>6. CASE Choose
  <2>1. PICK d, from : from \in {"menu", "last"} /\ clover' = Starting(m, d, from)
    BY <1>6, <1>m DEF Choose
  <2>2. SameTimer(m, clover') /\ clover'.pc = "load" /\ clover'.from \in {"menu", "last"}
    BY <1>m1, <2>1, StartingMoves
  <2>3. Timer(clover') /\ Waits(clover')
    BY <1>m1, <2>2, SameTimerWaits
  <2>. QED
    BY <1>6, <2>2, <2>3, UserStep DEF Choose
<1>7. CASE Leave \/ Reset
  <2>1. clover' = Off /\ UNCHANGED << config, past >>
    BY <1>7 DEF Leave, Reset
  <2>2. Timer(Off) /\ Off.pc = "off"
    BY DEF Timer, CloverShape, Off
  <2>. QED
    BY <1>0, <2>1, <2>2 DEF StartsInv
<1>8. CASE ResetNvram
  <2>1. clover' = [m EXCEPT !.pc = "reset", !.name = NoName]
    BY <1>8, <1>m DEF ResetNvram
  <2>2. SameTimer(m, clover') /\ clover'.pc = "reset"
    BY <1>m1, <2>1 DEF SameTimer, CloverShape, Off
  <2>3. Timer(clover') /\ Waits(clover')
    BY <1>m1, <2>2, SameTimerWaits
  <2>. QED
    BY <1>8, <2>2, <2>3, UserStep DEF ResetNvram
<1>9. CASE ResetRound
  <2>1. PICK k : clover' = [clover EXCEPT !.name = k]
    BY <1>9 DEF ResetRound
  <2>2. SameTimer(clover, clover') /\ clover'.pc = clover.pc /\ clover.pc = "reset"
    BY <1>0, <1>9, <2>1, FieldMoves DEF ResetRound
  <2>3. PastShape(past') /\ past'.starts = past.starts
    BY <1>0, <1>9, PastMoves DEF ResetRound
  <2>. QED
    BY <1>0, <1>9, <2>2, <2>3, SameTimerWaits DEF ResetRound, StartsInv
<1>10. CASE ResetEnds \/ ResetRefused
  <2>1. PICK c : c = Rescan(clover, FALSE) /\ SameTimer(clover, c) /\ CloverShape(c) /\ c.pc = "scan"
    BY <1>0, RescanMoves DEF SameTimer
  <2>2. /\ clover.pc = "reset" /\ UNCHANGED << config, past >>
        /\ clover' = [c EXCEPT !.name = NoName]
    BY <1>10, <2>1 DEF ResetEnds, ResetRefused, ResetDone
  <2>3. SameTimer(c, clover') /\ clover'.pc = "scan"
    BY <2>1, <2>2 DEF SameTimer, CloverShape, Off
  <2>4. Timer(clover') /\ (Waits(clover') <=> Waits(clover))
    BY <1>0, <2>1, <2>3, SameTimerWaits
  <2>. QED
    BY <1>0, <2>2, <2>3, <2>4 DEF StartsInv
<1>11. CASE LoadFails \/ Prepare \/ Record \/ RecordFails \/ Start \/ StartReturns
  <2>1. /\ CloverShape(clover') /\ SameTimer(clover, clover') /\ clover'.from = clover.from
        /\ clover'.pc \in {"record", "running", "return"}
    BY <1>0, <1>11 DEF LoadFails, Prepare, Record, RecordFails, Start, StartReturns,
                       SameTimer, CloverShape, Off
  <2>2. clover.pc \in {"load", "record", "running"} /\ UNCHANGED config
    BY <1>11 DEF LoadFails, Prepare, Record, RecordFails, Start, StartReturns
  <2>3. PastShape(past') /\ past'.starts = past.starts
    BY <1>0, <1>11, PastMoves
       DEF LoadFails, Prepare, Record, RecordFails, Start, StartReturns, Written
  <2>. QED
    BY <1>0, <2>1, <2>2, <2>3, SameTimerWaits DEF StartsInv
<1>12. CASE OSSetVariable
  <2>1. PastShape(past') /\ past'.starts = past.starts
    BY <1>0, <1>12, PastMoves DEF OSSetVariable
  <2>. QED
    BY <1>12, <2>1 DEF OSSetVariable, StartsInv
<1>13. CASE Return
  <2>. DEFINE b == [clover EXCEPT !.entry = None, !.from = ""]
  <2>1. PICK c : c = b
    OBVIOUS
  <2>2. SameTimer(clover, c) /\ CloverShape(c)
    BY <1>0, <2>1 DEF SameTimer, CloverShape, Off
  <2>3. PICK d : d = [c EXCEPT !.fast = FALSE] /\ SameTimer(c, d) /\ CloverShape(d)
    BY <2>2, FieldMoves DEF SameTimer
  <2>4. /\ clover.pc = "return" /\ UNCHANGED << config, past >>
        /\ \/ clover.from = "fast" /\ clover' = EnterMenu(d)
           \/ clover.from = "timeout" /\ clover' = Rescan(c, FALSE)
           \/ clover.from = "menu" /\ clover' = [c EXCEPT !.pc = "menu"]
           \/ clover' = [c EXCEPT !.pc = "exit"]
    BY <1>13, <2>1, <2>3, Zenon DEF Return
  <2>5. /\ SameTimer(d, clover') \/ SameTimer(c, clover')
        /\ \/ clover.from \in {"fast", "menu"} /\ clover'.pc = "menu"
           \/ clover.from = "timeout" /\ clover'.pc = "scan"
           \/ clover'.pc = "exit"
    <3>1. CASE clover.from = "fast" /\ clover' = EnterMenu(d)
      BY <2>3, <3>1, EnterMoves
    <3>2. CASE clover.from = "timeout" /\ clover' = Rescan(c, FALSE)
      BY <2>2, <3>2, RescanMoves
    <3>3. CASE clover.from = "menu" /\ clover' = [c EXCEPT !.pc = "menu"]
      BY <2>2, <3>3, FieldMoves
    <3>4. CASE clover' = [c EXCEPT !.pc = "exit"]
      BY <2>2, <3>4, FieldMoves
    <3>. QED
      BY <2>4, <3>1, <3>2, <3>3, <3>4
  <2>6. Timer(clover') /\ (Waits(clover') <=> Waits(clover))
    BY <1>0, <2>2, <2>3, <2>5, SameTimerWaits
  <2>. QED
    BY <1>0, <2>4, <2>5, <2>6 DEF StartsInv
<1>14. CASE PlugIn
  <2>1. past' = Touched /\ UNCHANGED << config, clover >>
    BY <1>14 DEF PlugIn
  <2>2. PastShape(past') /\ past'.starts = 0
    BY <1>0, <2>1, PastMoves
  <2>. QED
    BY <1>0, <2>1, <2>2 DEF StartsInv
<1>. QED
  BY <1>1, <1>2, <1>3, <1>4, <1>5, <1>6, <1>7, <1>8, <1>9, <1>10, <1>11, <1>12, <1>13, <1>14
     DEF MainLoopNext

\* However often an entry comes back, fails to load or is found again after a
\* rescan, Clover starts at most three by itself and then waits in the menu.
THEOREM NoBootLoopHolds == MainLoopSpec => []NoBootLoop
<1>1. StartsInv /\ UNCHANGED loopVars => StartsInv'
  BY DEF loopVars, StartsInv, Timer, CloverShape, PastShape, Waits
<1>2. StartsInv => NoBootLoop
  BY DEF StartsInv, NoBootLoop
<1>. QED
  BY <1>1, <1>2, StartsInit, StartsStep, PTL DEF MainLoopSpec

-------------------------------------------------------------------------------
(* F11 *)

\* The place of an enumeration: before the first variable, or on one that is there.
AtPlace(r, name, at) ==
  \/ at = 0 /\ name = NoName
  \/ /\ at \in 1 .. Len(KeyOrder) /\ name = KeyOrder[at]
     /\ Vars(r)[KeyOrder[at]] # None

\* No variable that may be deleted is left up to a place.
ClearedTo(r, n) ==
  \A j \in 1 .. n : KeyOrder[j] \in Deletable => Vars(r)[KeyOrder[j]] = None

\* The enumeration goes on with the next variable that is there.
LEMMA NextName ==
  ASSUME NEW r, NEW name, NEW at \in 0 .. Len(KeyOrder), AtPlace(r, name, at)
  PROVE  \/ /\ GetNextVariableName(r, name) = NoName
            /\ \A j \in at + 1 .. Len(KeyOrder) : Vars(r)[KeyOrder[j]] = None
         \/ \E n \in at + 1 .. Len(KeyOrder) :
              /\ GetNextVariableName(r, name) = KeyOrder[n] /\ KeyOrder[n] # NoName
              /\ Vars(r)[KeyOrder[n]] # None
              /\ \A j \in at + 1 .. n - 1 : Vars(r)[KeyOrder[j]] = None
<1>. DEFINE S == {i \in at + 1 .. Len(KeyOrder) : Vars(r)[KeyOrder[i]] # None}
            from == IF name = NoName THEN 0 ELSE Position(name)
            next == FirstIndex(S)
<1>1. from = at
  <2>1. CASE at = 0
    BY <2>1 DEF AtPlace
  <2>2. CASE at \in 1 .. Len(KeyOrder) /\ name = KeyOrder[at]
    <3>1. name # NoName
      BY <2>2, KeyAssumption DEF Key
    <3>2. Position(name) = at
      BY <2>2, KeyAssumption DEF Position
    <3>. QED
      BY <3>1, <3>2
  <2>. QED
    BY <2>1, <2>2 DEF AtPlace
<1>2. GetNextVariableName(r, name) =
        IF next = 0 \/ (name # NoName /\ Vars(r)[name] = None) THEN NoName ELSE KeyOrder[next]
  <2>1. GetNextVariableName(r, name) =
          LET nx == FirstIndex({i \in from + 1 .. Len(KeyOrder) : Vars(r)[KeyOrder[i]] # None})
          IN  IF nx = 0 \/ (name # NoName /\ Vars(r)[name] = None) THEN NoName ELSE KeyOrder[nx]
    BY Zenon DEF GetNextVariableName
  <2>. QED
    BY <1>1, <2>1, Zenon
<1>3. ~ (name # NoName /\ Vars(r)[name] = None)
  BY DEF AtPlace
<1>4. CASE S = {}
  <2>1. next = 0
    BY <1>4 DEF FirstIndex
  <2>. QED
    BY <1>2, <1>4, <2>1
<1>5. CASE S # {}
  <2>1. S \subseteq Nat \ {0}
    BY KeyAssumption
  <2>2. next \in S /\ next # 0 /\ \A j \in S : next <= j
    BY <1>5, <2>1, FirstIndexFacts
  <2>3. GetNextVariableName(r, name) = KeyOrder[next]
    BY <1>2, <1>3, <2>2
  <2>4. KeyOrder[next] # NoName
    BY <2>1, <2>2, KeyAssumption DEF Key
  <2>5. \A j \in at + 1 .. next - 1 : Vars(r)[KeyOrder[j]] = None
    BY <2>1, <2>2, KeyAssumption
  <2>. HIDE DEF next
  <2>. QED
    BY <2>2, <2>3, <2>4, <2>5
<1>. QED
  BY <1>4, <1>5

ResetInv ==
  clover.pc = "reset" =>
    \E at \in 0 .. Len(KeyOrder) : AtPlace(rt, clover.name, at) /\ ClearedTo(rt, at)

\* The steps that can be in a reset before or after.
LEMMA ResetSteps ==
  ASSUME CloverShape(clover), MainLoopNext
  PROVE  /\ clover.pc = "reset" /\ clover'.pc # "off" =>
              ResetRound \/ ResetEnds \/ ResetRefused \/ PlugIn
         /\ clover'.pc = "reset" => ResetNvram \/ ResetRound \/ PlugIn
<1>1. CASE ResetNvram \/ ResetRound \/ PlugIn
  BY <1>1 DEF ResetNvram
<1>2. CASE ResetEnds \/ ResetRefused
  <2>1. clover'.pc = "scan"
    BY <1>2 DEF ResetEnds, ResetRefused, ResetDone, Rescan, CloverShape, Off
  <2>. QED
    BY <1>2, <2>1
<1>3. CASE Reset \/ Leave
  <2>1. clover' = Off
    BY <1>3 DEF Reset, Leave
  <2>2. Off.pc = "off"
    BY DEF Off
  <2>. QED
    BY <2>1, <2>2
<1>4. CASE RefitMain \/ Scan
  <2>1. clover.pc \in {"off", "scan"}
    BY <1>4 DEF RefitMain, Scan
  <2>2. clover'.pc \in {"scan", "find"}
    <3>1. CASE RefitMain
      BY <3>1 DEF RefitMain, Off
    <3>2. CASE Scan
      BY <3>2 DEF Scan, CloverShape, Off
    <3>. QED
      BY <1>4, <3>1, <3>2
  <2>. QED
    BY <2>1, <2>2
<1>5. CASE FindDefaultEntry
  <2>1. clover.pc = "find"
    BY <1>5 DEF FindDefaultEntry
  <2>2. clover'.pc \in {"load", "menu"}
    <3>1. PICK c, e : CloverShape(c) /\ (clover' = Starting(c, e, "fast") \/ clover' = EnterMenu(c))
      <4>. DEFINE f == IF DefaultIndex \in 1 .. Len(Shown(clover)) THEN Shown(clover)[DefaultIndex] ELSE None
                  c == [clover EXCEPT !.index = DefaultIndex, !.default = f,
                                      !.boot = IF config.first THEN @ ELSE BootDevice]
      <4>1. CloverShape(c) /\ CloverShape([c EXCEPT !.fast = FALSE])
        BY DEF CloverShape
      <4>2. \/ clover' = Starting(c, f, "fast")
            \/ clover' = EnterMenu([c EXCEPT !.fast = FALSE])
            \/ clover' = EnterMenu(c)
        BY <1>5, Zenon DEF FindDefaultEntry
      <4>. QED
        BY <4>1, <4>2, Zenon
    <3>. QED
      BY <3>1, StartingMoves, EnterMoves
  <2>. QED
    BY <2>1, <2>2
<1>6. CASE StartDefault \/ Refresh \/ OptionsAndTools \/ HideToggle \/ EjectVolume \/ Choose \/ Exit
  <2>1. clover.pc = "menu"
    BY <1>6 DEF StartDefault, Refresh, OptionsAndTools, HideToggle, EjectVolume, Choose, Exit
  <2>2. clover'.pc # "reset"
    BY <1>6, <2>1 DEF StartDefault, Refresh, OptionsAndTools, HideToggle, EjectVolume, Choose,
                 Exit, MenuRan, NoMoreTimeout, Rescan, Starting, CloverShape, Off
  <2>. QED
    BY <2>1, <2>2
<1>7. CASE LoadFails \/ Prepare \/ Record \/ RecordFails \/ Start \/ OSSetVariable \/ StartReturns
  <2>1. clover.pc \in {"load", "record", "running"}
    BY <1>7 DEF LoadFails, Prepare, Record, RecordFails, Start, OSSetVariable, StartReturns
  <2>2. clover'.pc # "reset"
    BY <1>7, <2>1 DEF LoadFails, Prepare, Record, RecordFails, Start, OSSetVariable,
                      StartReturns, CloverShape, Off
  <2>. QED
    BY <2>1, <2>2
<1>8. CASE Return
  <2>1. clover.pc = "return"
    BY <1>8 DEF Return
  <2>2. clover'.pc # "reset"
    BY <1>8 DEF Return, EnterMenu, Rescan, CloverShape, Off
  <2>. QED
    BY <2>1, <2>2
<1>. QED
  BY <1>1, <1>2, <1>3, <1>4, <1>5, <1>6, <1>7, <1>8 DEF MainLoopNext

\* A deletion changes one variable of the store that is in use.
LEMMA DeleteOne ==
  ASSUME NEW r, RtShape(r), NEW k \in Key, NEW j \in Key, j # k
  PROVE  /\ SetVariable(r, k, None).native[j] = r.native[j]
         /\ SetVariable(r, k, None).emu.value[j] = r.emu.value[j]
<1>1. CASE r.installed
  BY <1>1 DEF SetVariable, EmuSet, RtShape
<1>2. CASE ~ r.installed
  BY <1>2 DEF SetVariable, RtShape
<1>. QED
  BY <1>1, <1>2

LEMMA ResetStep ==
  ASSUME EmulationInv, ResetInv, MainLoopNext
  PROVE  ResetInv'
<1>0. CloverShape(clover)
  BY DEF EmulationInv
<1>1. CASE ResetNvram
  <2>1. PICK m : m = MenuRan(clover) /\ CloverShape(m)
    BY <1>0, MenuMoves
  <2>2. clover' = [m EXCEPT !.pc = "reset", !.name = NoName]
    BY <1>1, <2>1 DEF ResetNvram
  <2>3. clover'.name = NoName
    BY <2>1, <2>2 DEF CloverShape, Off
  <2>. QED
    BY <2>3, KeyAssumption DEF ResetInv, AtPlace, ClearedTo
<1>2. CASE ResetRound
  <2>1. PICK at \in 0 .. Len(KeyOrder) : AtPlace(rt, clover.name, at) /\ ClearedTo(rt, at)
    BY <1>2 DEF ResetRound, ResetInv
  <2>2. PICK k : k = GetNextVariableName(rt, clover.name)
    OBVIOUS
  <2>3. CASE clover' = [clover EXCEPT !.name = NoName]
    <3>1. clover'.name = NoName
      BY <1>0, <2>3 DEF CloverShape, Off
    <3>. QED
      BY <3>1, KeyAssumption DEF ResetInv, AtPlace, ClearedTo
  <2>4. CASE /\ k # NoName /\ k \notin Deletable /\ UNCHANGED rt
             /\ clover' = [clover EXCEPT !.name = k]
    <3>1. PICK n \in at + 1 .. Len(KeyOrder) :
            /\ k = KeyOrder[n] /\ Vars(rt)[KeyOrder[n]] # None
            /\ \A j \in at + 1 .. n - 1 : Vars(rt)[KeyOrder[j]] = None
      BY <2>1, <2>2, <2>4, NextName
    <3>2. clover'.name = k
      BY <1>0, <2>4 DEF CloverShape, Off
    <3>3. n \in 1 .. Len(KeyOrder) /\ n \in 0 .. Len(KeyOrder)
      BY <3>1, KeyAssumption
    <3>4. ClearedTo(rt, n)
      BY <2>1, <2>4, <3>1, <3>3, KeyAssumption DEF ClearedTo
    <3>5. AtPlace(rt, k, n)
      BY <3>1, <3>3 DEF AtPlace
    <3>6. AtPlace(rt, k, n)' /\ ClearedTo(rt, n)' /\ clover'.name = k
      BY <2>4, <3>2, <3>4, <3>5 DEF AtPlace, ClearedTo, Vars
    <3>. QED
      BY <3>3, <3>6 DEF ResetInv
  <2>. QED
    BY <1>2, <2>2, <2>3, <2>4 DEF ResetRound, Restart
<1>3. CASE PlugIn
  BY <1>3 DEF PlugIn, ResetInv, AtPlace, ClearedTo, Vars
<1>4. CASE clover'.pc # "reset"
  BY <1>4 DEF ResetInv
<1>. QED
  BY <1>0, <1>1, <1>2, <1>3, <1>4, ResetSteps

\* When F11 comes to the end of the variables every one that may be deleted is
\* gone from the store, and what may not be deleted is never touched.
THEOREM ResetClearsHolds == MainLoopSpec => ResetClears
<1>. DEFINE Clears ==
       clover.pc = "reset" /\ clover'.pc # "off" =>
         /\ \A k \in Key \ Deletable : /\ rt'.native[k] = rt.native[k]
                                       /\ rt'.emu.value[k] = rt.emu.value[k]
         /\ clover'.pc = "scan" /\ GetNextVariableName(rt, clover.name) = NoName =>
              \A k \in Deletable : Vars(rt)[k] = None
<1>1. MainLoopInit => ResetInv
  <2>1. Off.pc = "off"
    BY DEF Off
  <2>. QED
    BY <2>1 DEF MainLoopInit, ResetInv
<1>2. ResetInv /\ UNCHANGED loopVars => ResetInv'
  BY DEF loopVars, ResetInv, AtPlace, ClearedTo, Vars
<1>3. ASSUME EmulationInv, ResetInv, MainLoopNext PROVE Clears
  <2>. SUFFICES ASSUME clover.pc = "reset", clover'.pc # "off"
                PROVE  /\ \A k \in Key \ Deletable : /\ rt'.native[k] = rt.native[k]
                                                     /\ rt'.emu.value[k] = rt.emu.value[k]
                       /\ GetNextVariableName(rt, clover.name) = NoName =>
                            \A k \in Deletable : Vars(rt)[k] = None
    OBVIOUS
  <2>0. RtShape(rt) /\ CloverShape(clover) /\ (~ config.emu => ~ rt.installed)
    BY <1>3 DEF EmulationInv
  <2>1. ResetRound \/ ResetEnds \/ ResetRefused \/ PlugIn
    BY <1>3, <2>0, ResetSteps
  <2>2. ASSUME NEW k \in Key \ Deletable
        PROVE  rt'.native[k] = rt.native[k] /\ rt'.emu.value[k] = rt.emu.value[k]
    <3>1. CASE ResetRound
      <4>1. PICK d : \/ d \in Deletable /\ rt' = SetVariable(rt, d, None)
                     \/ rt' = rt
        BY <3>1 DEF ResetRound
      <4>. QED
        BY <2>0, <4>1, DeleteOne, KeyAssumption
    <3>2. CASE ResetEnds \/ ResetRefused
      <4>1. rt' = Uninstalled(rt)
        BY <3>2 DEF ResetEnds, ResetRefused, ResetDone
      <4>. QED
        BY <2>0, <4>1, UninstalledShape
    <3>3. CASE PlugIn
      BY <3>3 DEF PlugIn
    <3>. QED
      BY <2>1, <3>1, <3>2, <3>3
  <2>3. ASSUME GetNextVariableName(rt, clover.name) = NoName, NEW k \in Deletable
        PROVE  Vars(rt)[k] = None
    <3>1. PICK at \in 0 .. Len(KeyOrder) : AtPlace(rt, clover.name, at) /\ ClearedTo(rt, at)
      BY <1>3 DEF ResetInv
    <3>2. \A j \in at + 1 .. Len(KeyOrder) : Vars(rt)[KeyOrder[j]] = None
      BY <2>3, <3>1, NextName
    <3>3. PICK i \in 1 .. Len(KeyOrder) : k = KeyOrder[i]
      BY KeyAssumption DEF Key
    <3>. QED
      BY <3>1, <3>2, <3>3, KeyAssumption DEF ClearedTo
  <2>. QED
    BY <2>2, <2>3
<1>4. UNCHANGED loopVars => [Clears]_loopVars
  OBVIOUS
<1>. QED
  BY <1>1, <1>2, <1>3, <1>4, ResetStep, EmulationInvariance, PTL DEF MainLoopSpec, ResetClears
-------------------------------------------------------------------------------
(* What Only leaves *)

\* One more element of s has been looked at.
Longer(q, x, T) == IF x \in T THEN Append(q, x) ELSE q

\* f[i] is what is left of the first i elements of s, up to the place l.
IsOnly(f, s, T, l) ==
  /\ DOMAIN f = 0 .. l /\ f = [i \in 0 .. l |-> f[i]]
  /\ f[0] = << >>
  /\ \A i \in 1 .. l : f[i] = Longer(f[i - 1], s[i], T)

\* The function Only is defined by exists.
LEMMA OnlyExists ==
  ASSUME NEW s, NEW T, NEW L \in Nat
  PROVE  \E f : IsOnly(f, s, T, L)
<1>. DEFINE Bad == {l \in 0 .. L : ~ \E f : IsOnly(f, s, T, l)}
<1>1. ASSUME Bad # {} PROVE FALSE
  <2>1. PICK l \in Bad : \A k \in Bad : l <= k
    <3>1. Bad \subseteq Nat
      OBVIOUS
    <3>. QED
      BY <1>1, <3>1, LeastNatural
  <2>2. l \in 0 .. L /\ ~ \E f : IsOnly(f, s, T, l)
    BY <2>1
  <2>3. l # 0
    <3>. DEFINE g == [i \in 0 .. 0 |-> << >>]
    <3>1. DOMAIN g = 0 .. 0 /\ g = [i \in 0 .. 0 |-> g[i]] /\ g[0] = << >>
      OBVIOUS
    <3>2. IsOnly(g, s, T, 0)
      <4>. HIDE DEF g
      <4>. QED
        BY <3>1 DEF IsOnly
    <3>. QED
      BY <2>2, <3>2
  <2>4. l - 1 \in 0 .. L /\ l - 1 \notin Bad
    BY <2>1, <2>2, <2>3
  <2>5. PICK f : IsOnly(f, s, T, l - 1)
    BY <2>4
  <2>6. PICK new : new = Longer(f[l - 1], s[l], T)
    OBVIOUS
  <2>. DEFINE g == [i \in 0 .. l |-> IF i = l THEN new ELSE f[i]]
  <2>7. DOMAIN g = 0 .. l /\ g = [i \in 0 .. l |-> g[i]] /\ g[0] = << >>
    BY <2>2, <2>3, <2>5 DEF IsOnly
  <2>8. ASSUME NEW i \in 1 .. l PROVE g[i] = Longer(g[i - 1], s[i], T)
    <3>1. i \in 0 .. l /\ i - 1 \in 0 .. l /\ i - 1 # l
      BY <2>2
    <3>2. g[i - 1] = f[i - 1]
      BY <3>1
    <3>3. CASE i = l
      BY <2>6, <3>1, <3>2, <3>3
    <3>4. CASE i # l
      <4>1. i \in 1 .. l - 1
        BY <2>2, <3>4
      <4>. QED
        BY <2>5, <3>1, <3>2, <3>4, <4>1 DEF IsOnly
    <3>. QED
      BY <3>3, <3>4
  <2>9. IsOnly(g, s, T, l)
    <3>. HIDE DEF g
    <3>. QED
      BY <2>7, <2>8 DEF IsOnly
  <2>. QED
    BY <2>2, <2>9
<1>2. Bad = {}
  <2>. HIDE DEF Bad
  <2>. QED
    BY <1>1, Zenon
<1>3. L \in 0 .. L
  OBVIOUS
<1>. QED
  BY <1>2, <1>3

\* What is left are elements of the sequence, and not more than there were.
LEMMA OnlyFacts ==
  ASSUME NEW S, NEW s \in Seq(S), NEW T
  PROVE  Only(s, T) \in Seq(S) /\ Len(Only(s, T)) <= Len(s)
<1>. DEFINE L == Len(s)
            P(f) == f = [i \in 0 .. L |-> IF i = 0 THEN << >>
                                          ELSE IF s[i] \in T THEN Append(f[i - 1], s[i]) ELSE f[i - 1]]
            u == CHOOSE f : P(f)
<1>1. L \in Nat /\ L \in 0 .. L
  OBVIOUS
<1>2. PICK f : IsOnly(f, s, T, L)
  <2>. HIDE DEF L
  <2>. QED
    BY <1>1, OnlyExists, Zenon
<1>3. P(f)
  <2>1. \A i \in 0 .. L : f[i] = IF i = 0 THEN << >>
                                 ELSE IF s[i] \in T THEN Append(f[i - 1], s[i]) ELSE f[i - 1]
    <3>1. \A i \in 0 .. L : i = 0 \/ i \in 1 .. L
      BY <1>1
    <3>. HIDE DEF L
    <3>. QED
      BY <1>2, <3>1, Zenon DEF IsOnly, Longer
  <2>2. PICK d : d = 0 .. L
    OBVIOUS
  <2>3. /\ f = [i \in d |-> f[i]]
        /\ \A i \in d : f[i] = IF i = 0 THEN << >>
                               ELSE IF s[i] \in T THEN Append(f[i - 1], s[i]) ELSE f[i - 1]
    BY <1>2, <2>1, <2>2 DEF IsOnly
  <2>4. f = [i \in d |-> IF i = 0 THEN << >>
                         ELSE IF s[i] \in T THEN Append(f[i - 1], s[i]) ELSE f[i - 1]]
    BY <2>3, Zenon
  <2>. QED
    BY <2>2, <2>4
<1>4. P(u)
  BY <1>3, Zenon
<1>5. Only(s, T) = u[L]
  BY Zenon DEF Only
<1>. HIDE DEF u
<1>6. u[0] = << >> /\ \A i \in 1 .. L : u[i] = IF s[i] \in T THEN Append(u[i - 1], s[i]) ELSE u[i - 1]
  <2>1. PICK d : d = 0 .. L
    OBVIOUS
  <2>2. u = [i \in d |-> IF i = 0 THEN << >>
                         ELSE IF s[i] \in T THEN Append(u[i - 1], s[i]) ELSE u[i - 1]]
    BY <1>4, <2>1
  <2>3. \A i \in d : u[i] = IF i = 0 THEN << >>
                            ELSE IF s[i] \in T THEN Append(u[i - 1], s[i]) ELSE u[i - 1]
    BY <2>2, Zenon
  <2>4. 0 \in d /\ \A i \in 1 .. L : i \in d /\ i # 0
    BY <1>1, <2>1
  <2>. QED
    BY <2>3, <2>4, Zenon
<1>. DEFINE Bad == {i \in 0 .. L : ~ (u[i] \in Seq(S) /\ Len(u[i]) <= i)}
<1>7. ASSUME Bad # {} PROVE FALSE
  <2>1. Bad \subseteq Nat
    OBVIOUS
  <2>2. PICK i \in Bad : \A k \in Bad : i <= k
    BY <1>7, <2>1, LeastNatural
  <2>3. i \in 0 .. L /\ ~ (u[i] \in Seq(S) /\ Len(u[i]) <= i)
    BY <2>2
  <2>4. CASE i = 0
    <3>1. << >> \in Seq(S) /\ Len(<< >>) = 0
      OBVIOUS
    <3>2. PICK e : e = << >>
      OBVIOUS
    <3>3. e \in Seq(S) /\ Len(e) = 0 /\ u[i] = e
      BY <1>6, <2>4, <3>1, <3>2, Zenon
    <3>. QED
      BY <2>3, <2>4, <3>3
  <2>5. CASE i # 0
    <3>1. i \in 1 .. L /\ i - 1 \in 0 .. L /\ i - 1 \notin Bad
      BY <2>2, <2>3, <2>5
    <3>2. PICK q : q = u[i - 1]
      OBVIOUS
    <3>3. q \in Seq(S) /\ Len(q) <= i - 1
      BY <3>1, <3>2
    <3>4. PICK x \in S : x = s[i]
      BY <3>1
    <3>5. u[i] = IF x \in T THEN Append(q, x) ELSE q
      <4>. HIDE DEF L, Bad
      <4>. QED
        BY <1>6, <3>1, <3>2, <3>4, Zenon
    <3>6. CASE x \in T
      <4>1. Append(q, x) \in Seq(S) /\ Len(Append(q, x)) = Len(q) + 1 /\ Len(q) \in Nat
        BY <3>3, <3>6
      <4>. QED
        BY <2>3, <3>1, <3>3, <3>5, <3>6, <4>1
    <3>7. CASE x \notin T
      <4>1. Len(q) \in Nat
        BY <3>3
      <4>. QED
        BY <2>3, <3>1, <3>3, <3>5, <3>7, <4>1
    <3>. QED
      BY <3>6, <3>7
  <2>. QED
    BY <2>4, <2>5
<1>8. L \notin Bad
  BY <1>7, Zenon
<1>. QED
  BY <1>1, <1>5, <1>8

-------------------------------------------------------------------------------
(* The logs of the emulated store *)

\* Of the places of a set only those are counted that have at most c before them
\* and at them: they are not more than c.
LEMMA CountedFit ==
  ASSUME NEW L \in Nat, NEW W, W \subseteq 1 .. L, NEW c \in Nat
  PROVE  Cardinality({i \in W : Cardinality({j \in W : j <= i}) <= c}) \in 0 .. c
<1>. DEFINE F == {i \in W : Cardinality({j \in W : j <= i}) <= c}
            T == {L - i : i \in F}
<1>1. IsFiniteSet(1 .. L)
  BY FS_Interval
<1>2. ASSUME NEW X, X \subseteq W
      PROVE  IsFiniteSet(X) /\ Cardinality(X) \in Nat
  <2>1. X \subseteq 1 .. L
    BY <1>2
  <2>. QED
    BY <1>1, <2>1, FS_Subset, FS_CardinalityType
<1>3. CASE F = {}
  <2>1. Cardinality(F) = 0
    BY <1>3, FS_EmptySet
  <2>. QED
    BY <2>1
<1>4. CASE F # {}
  <2>0. F \subseteq 1 .. L
    OBVIOUS
  <2>1. T \subseteq Nat /\ T # {}
    <3>. HIDE DEF F
    <3>1. \A i \in F : L - i \in Nat
      BY <2>0
    <3>. QED
      BY <1>4, <3>1
  <2>2. PICK t \in T : \A y \in T : t <= y
    BY <2>1, LeastNatural
  <2>3. PICK m \in F : t = L - m
    BY <2>2
  <2>4. \A i \in F : i <= m
    <3>. HIDE DEF F
    <3>1. \A i \in F : i \in 1 .. L /\ L - i \in T
      BY <2>0
    <3>. HIDE DEF T
    <3>. QED
      BY <2>2, <2>3, <3>1
  <2>. DEFINE M == {j \in W : j <= m}
  <2>5. F \subseteq M
    BY <2>4
  <2>6. M \subseteq W /\ F \subseteq W
    OBVIOUS
  <2>7. Cardinality(M) <= c
    BY <2>3
  <2>. HIDE DEF M, F
  <2>8. IsFiniteSet(M) /\ Cardinality(M) \in Nat /\ Cardinality(F) \in Nat
    BY <1>2, <2>6
  <2>9. Cardinality(F) <= Cardinality(M)
    BY <2>5, <2>8, FS_Subset
  <2>10. Cardinality(F) \in 0 .. c
    BY <2>7, <2>8, <2>9
  <2>. QED
    BY <2>10 DEF F
<1>. QED
  BY <1>3, <1>4

\* Neither log of the emulated store is longer than it may be.
LogsHold(emu) ==
  DOMAIN emu.used = BOOLEAN /\ \A nv \in BOOLEAN : emu.used[nv] \in 0 .. Capacity

LEMMA EmuSetHolds ==
  ASSUME NEW emu, DOMAIN emu = {"value", "used"}, LogsHold(emu), NEW k, NEW var
  PROVE  LogsHold(EmuSet(emu, k, var))
<1>. DEFINE s == EmuSet(emu, k, var)
<1>1. CASE s.used = emu.used
  BY <1>1 DEF LogsHold
<1>2. CASE s = [emu EXCEPT !.value[k] = var, !.used[var.nv] = @ + 1] /\ HasRoom(emu, var.nv, 1)
  <2>1. PICK nv : nv = var.nv
    OBVIOUS
  <2>2. s.used = [emu.used EXCEPT ![nv] = @ + 1]
    BY <1>2, <2>1
  <2>3. nv \in BOOLEAN => emu.used[nv] + 1 \in 0 .. Capacity
    BY <1>2, <2>1, KeyAssumption DEF HasRoom, LogsHold
  <2>. QED
    BY <2>2, <2>3 DEF LogsHold
<1>. QED
  BY <1>1, <1>2 DEF EmuSet

LEMMA EmuSetAllHolds ==
  ASSUME NEW emu, LogsHold(emu), NEW new
  PROVE  LogsHold(EmuSetAll(emu, new))
<1>. DEFINE L == Len(KeyOrder)
            written(nv, last) == {i \in 1 .. last : new[KeyOrder[i]] # None /\ new[KeyOrder[i]].nv = nv}
            fits(nv, last) == HasRoom(emu, nv, Cardinality(written(nv, last)))
            counted(nv) == {i \in written(nv, L) : fits(nv, i)}
            s == EmuSetAll(emu, new)
<1>0. L \in Nat /\ Capacity \in Nat
  BY KeyAssumption
<1>1. s.used = [nv \in BOOLEAN |-> emu.used[nv] + Cardinality(counted(nv))]
  BY DEF EmuSetAll
<1>2. ASSUME NEW nv \in BOOLEAN PROVE emu.used[nv] + Cardinality(counted(nv)) \in 0 .. Capacity
  <2>1. PICK W : W = written(nv, L)
    OBVIOUS
  <2>2. W \subseteq 1 .. L
    BY <2>1
  <2>3. PICK c \in Nat : c = Capacity - emu.used[nv]
    BY <1>0 DEF LogsHold
  <2>4. ASSUME NEW i \in W
        PROVE  fits(nv, i) <=> Cardinality({j \in W : j <= i}) <= c
    <3>1. written(nv, i) = {j \in W : j <= i}
      BY <1>0, <2>1, <2>2
    <3>2. PICK n : n = Cardinality(written(nv, i)) /\ n \in Nat
      <4>1. IsFiniteSet(1 .. i)
        BY <2>2, FS_Interval
      <4>2. written(nv, i) \subseteq 1 .. i
        OBVIOUS
      <4>. QED
        BY <4>1, <4>2, FS_Subset, FS_CardinalityType
    <3>3. HasRoom(emu, nv, n) <=> n <= c
      BY <1>0, <2>3, <3>2 DEF HasRoom, LogsHold
    <3>. QED
      BY <3>1, <3>2, <3>3
  <2>5. counted(nv) = {i \in W : Cardinality({j \in W : j <= i}) <= c}
    BY <2>1, <2>4
  <2>6. PICK n : n = Cardinality(counted(nv)) /\ n \in 0 .. c
    <3>. HIDE DEF counted, L
    <3>. QED
      BY <1>0, <2>2, <2>5, CountedFit
  <2>. QED
    BY <1>0, <2>3, <2>6 DEF LogsHold
<1>. HIDE DEF s
<1>3. \A nv \in BOOLEAN : s.used[nv] \in 0 .. Capacity
  BY <1>1, <1>2, Zenon
<1>4. DOMAIN s.used = BOOLEAN
  BY <1>1, Zenon
<1>. QED
  BY <1>3, <1>4 DEF LogsHold, s

-------------------------------------------------------------------------------
(* The type invariant *)

TypedClover(c) ==
  /\ CloverShape(c)
  /\ c.pc \in PC
  /\ c.index \in 0 .. Len(Entries) \/ c.index = 1
  /\ c.default \in Entry \cup {None} /\ c.entry \in Entry \cup {None}
  /\ c.menu \in Seq(Entry) /\ Len(c.menu) <= Len(Entries)

TypedPast(p) == PastShape(p) /\ p.recorded \in Entry \cup {None}

\* The menu has to be one of entries for the default to be one, and the logs of
\* the emulated store, which nothing compacts, have to stay in their bounds.
TypeInv ==
  /\ config \in Settings
  /\ LogsHold(rt.emu)
  /\ disks \subseteq Volume
  /\ TypedClover(clover)
  /\ TypedPast(past)

LEMMA EntriesFacts == Len(Entries) \in Nat /\ Entries \in Seq(Entry)
BY EntriesAssumption

LEMMA SetVariableHolds ==
  ASSUME NEW r, RtShape(r), LogsHold(r.emu), NEW k, NEW var
  PROVE  LogsHold(SetVariable(r, k, var).emu)
<1>1. CASE r.installed
  <2>1. SetVariable(r, k, var).emu = EmuSet(r.emu, k, var)
    BY <1>1 DEF SetVariable, RtShape
  <2>. QED
    BY <2>1, EmuSetHolds DEF RtShape
<1>2. CASE ~ r.installed
  BY <1>2 DEF SetVariable, RtShape
<1>. QED
  BY <1>1, <1>2

LEMMA PutPlistHolds ==
  ASSUME NEW r, RtShape(r), LogsHold(r.emu), NEW dict
  PROVE  LogsHold(PutNvramPlistToRtVars(r, dict).emu)
<1>1. CASE dict = None
  BY <1>1 DEF PutNvramPlistToRtVars
<1>2. CASE dict # None /\ r.installed
  <2>1. PutNvramPlistToRtVars(r, dict).emu = PutToEmulated(r.emu, dict)
    BY <1>2 DEF PutNvramPlistToRtVars, PutDictToNvram, RtShape
  <2>. QED
    BY <2>1, EmuSetAllHolds DEF PutToEmulated
<1>3. CASE dict # None /\ ~ r.installed
  BY <1>3 DEF PutNvramPlistToRtVars, PutDictToNvram, RtShape
<1>. QED
  BY <1>1, <1>2, <1>3

LEMMA InstalledHolds ==
  ASSUME NEW r, RtShape(r), LogsHold(r.emu)
  PROVE  LogsHold(Installed(r).emu)
<1>1. CASE config.emu /\ ~ r.installed
  <2>1. PICK c : c = CopyRTVariables(r.native, r.emu)
    OBVIOUS
  <2>2. DOMAIN c = {"value", "used"} /\ LogsHold(c)
    BY <2>1, EmuSetAllShape, EmuSetAllHolds DEF CopyRTVariables
  <2>3. Installed(r).emu = EmuSet(c, "EmuVariableUefiPresent", Present)
    BY <1>1, <2>1 DEF Installed, InstallEmulation, Started
  <2>. QED
    BY <2>2, <2>3, EmuSetHolds
<1>2. CASE ~ config.emu \/ r.installed
  BY <1>2 DEF Installed, InstallEmulation, Started
<1>. QED
  BY <1>1, <1>2

LEMMA PoweredOnHolds ==
  ASSUME NEW n
  PROVE  LogsHold(PoweredOn(n).emu)
BY KeyAssumption DEF PoweredOn, NoEmulation, LogsHold

LEMMA OffTyped == TypedClover(Off)
<1>1. CloverShape(Off) /\ Off.pc = "off" /\ Off.index = 0 /\ Off.default = None
      /\ Off.entry = None /\ Off.menu = << >>
  BY DEF Off, CloverShape
<1>2. Off.menu \in Seq(Entry) /\ Len(Off.menu) = 0
  <2>1. << >> \in Seq(Entry) /\ Len(<< >>) = 0
    OBVIOUS
  <2>. QED
    BY <1>1, <2>1, Zenon
<1>3. 0 \in 0 .. Len(Entries) /\ 0 <= Len(Entries)
  BY EntriesFacts
<1>. QED
  BY <1>1, <1>2, <1>3 DEF TypedClover, PC

\* The steps that change neither the menu nor what was found in it.
LEMMA TypedMoves ==
  ASSUME NEW c, TypedClover(c), NEW x
  PROVE  /\ TypedClover(MenuRan(c)) /\ TypedClover(NoMoreTimeout(c))
         /\ TypedClover(Rescan(c, x)) /\ TypedClover(EnterMenu(c))
         /\ TypedClover([c EXCEPT !.hidden = x]) /\ TypedClover([c EXCEPT !.name = x])
         /\ TypedClover([c EXCEPT !.fast = x])
         /\ x \in PC => TypedClover([c EXCEPT !.pc = x])
<1>1. ASSUME NEW d, DOMAIN d = DOMAIN c, d.pc \in PC, d.index = c.index, d.default = c.default,
             d.entry = c.entry, d.menu = c.menu
      PROVE  TypedClover(d)
  BY <1>1 DEF TypedClover, CloverShape
<1>2. /\ TypedClover(MenuRan(c)) /\ TypedClover(NoMoreTimeout(c))
      /\ TypedClover(Rescan(c, x)) /\ TypedClover(EnterMenu(c))
  <2>1. {"scan", "menu"} \subseteq PC
    BY DEF PC
  <2>. QED
    BY <1>1, <2>1 DEF MenuRan, NoMoreTimeout, Rescan, EnterMenu, TypedClover, CloverShape, Off
<1>3. /\ TypedClover([c EXCEPT !.hidden = x]) /\ TypedClover([c EXCEPT !.name = x])
      /\ TypedClover([c EXCEPT !.fast = x])
      /\ x \in PC => TypedClover([c EXCEPT !.pc = x])
  BY <1>1 DEF TypedClover, CloverShape, Off
<1>. QED
  BY <1>2, <1>3

LEMMA TypedStarting ==
  ASSUME NEW c, TypedClover(c), NEW e \in Entry \cup {None}, NEW from
  PROVE  TypedClover(Starting(c, e, from))
BY DEF TypedClover, CloverShape, Starting, Off, PC

LEMMA TypedPasts ==
  ASSUME TypedPast(past), NEW e \in Entry \cup {None}
  PROVE  /\ TypedPast(Touched) /\ TypedPast(Forgotten)
         /\ TypedPast([past EXCEPT !.starts = @ + 1]) /\ TypedPast([past EXCEPT !.recorded = e])
BY DEF TypedPast, PastShape, Touched, Forgotten

\* The menu as it is shown is one of entries.
LEMMA ShownTyped ==
  ASSUME NEW c, TypedClover(c)
  PROVE  Shown(c) \in Seq(Entry) /\ Len(Shown(c)) \in 0 .. Len(Entries)
<1>. DEFINE T == {e \in Entry : ~ e.hidden}
<1>1. c.menu \in Seq(Entry) /\ Len(c.menu) <= Len(Entries) /\ Len(c.menu) \in Nat
  BY DEF TypedClover
<1>2. PICK o : /\ o = Only(c.menu, T)
               /\ o \in Seq(Entry) /\ Len(o) <= Len(c.menu)
  BY <1>1, OnlyFacts
<1>3. Len(o) \in Nat
  BY <1>2
<1>4. Shown(c) = IF c.hidden THEN c.menu ELSE o
  BY <1>2 DEF Shown
<1>. QED
  BY <1>1, <1>2, <1>3, <1>4, EntriesFacts

LEMMA FirstIndexRange ==
  ASSUME NEW n \in Nat, NEW S, S \subseteq 1 .. n
  PROVE  FirstIndex(S) \in 0 .. n
<1>1. CASE S = {}
  BY <1>1 DEF FirstIndex
<1>2. CASE S # {}
  <2>1. S \subseteq Nat \ {0}
    OBVIOUS
  <2>2. PICK i \in S : i = FirstIndex(S)
    BY <1>2, <2>1, FirstIndexFacts
  <2>3. i \in 0 .. n
    OBVIOUS
  <2>. QED
    BY <2>2, <2>3
<1>. QED
  BY <1>1, <1>2

\* Every search finds a place of the menu, or none.
LEMMA FindRange ==
  ASSUME NEW E, NEW entries \in Seq(E), NEW boot, NEW volumes
  PROVE  FindStartupDiskVolume(boot, entries, volumes) \in 0 .. Len(entries)
<1>. DEFINE row == Row0(entries)
            n == Len(entries)
<1>1. n \in Nat /\ row \subseteq 1 .. n
  BY Row0Facts
<1>2. ASSUME NEW S, S \subseteq row PROVE FirstIndex(S) \in 0 .. n
  <2>1. S \subseteq 1 .. n
    BY <1>1, <1>2
  <2>. HIDE DEF n
  <2>. QED
    BY <1>1, <2>1, FirstIndexRange
<1>3. PICK S : S \subseteq row /\ (\/ FindStartupDiskVolume(boot, entries, volumes) = 0
                                   \/ FindStartupDiskVolume(boot, entries, volumes) = FirstIndex(S))
  <2>. DEFINE byLoader == {i \in row : SameLoader(boot, entries[i])}
              byName == {i \in row : NamedByLoader(boot, entries[i])}
              byPartition == {i \in row : SamePartition(boot, entries[i])}
              byMedia == {i \in row : SameMedia(boot, entries[i])}
              disk == DiskVolume(boot, volumes)
              windows == {i \in row : WindowsOnDisk(disk, entries[i])}
              onDisk == {i \in row : OnDisk(disk, entries[i])}
  <2>1. FindStartupDiskVolume(boot, entries, volumes) \in
          {0, FirstIndex(byLoader), FirstIndex(byName), FirstIndex(byPartition),
           FirstIndex(byMedia), FirstIndex(windows), FirstIndex(onDisk)}
    BY Zenon DEF FindStartupDiskVolume
  <2>2. /\ byLoader \subseteq row /\ byName \subseteq row /\ byPartition \subseteq row
        /\ byMedia \subseteq row /\ windows \subseteq row /\ onDisk \subseteq row
    OBVIOUS
  <2>. HIDE DEF row, byLoader, byName, byPartition, byMedia, windows, onDisk
  <2>. QED
    BY <2>1, <2>2
<1>4. 0 \in 0 .. n
  BY <1>1
<1>. QED
  BY <1>2, <1>3, <1>4

LEMMA DefaultIndexRange ==
  ASSUME TypedClover(clover)
  PROVE  DefaultIndex \in 0 .. Len(Entries) \/ DefaultIndex = 1
<1>1. PICK s : s = Shown(clover) /\ s \in Seq(Entry) /\ Len(s) \in 0 .. Len(Entries)
  BY ShownTyped
<1>2. DefaultVolumeEntry \in 0 .. Len(s)
  <2>. DEFINE loaders == {i \in Row0(s) : \A j \in 1 .. i : s[j].kind = "loader"}
              S == {i \in loaders : /\ config.defaultVolume
                                    /\ s[i].volume \in config.volumes
                                    /\ s[i].loader \in config.loaders}
  <2>1. S \subseteq 1 .. Len(s) /\ Len(s) \in Nat
    BY <1>1, Row0Facts
  <2>2. DefaultVolumeEntry = FirstIndex(S)
    BY <1>1, Zenon DEF DefaultVolumeEntry
  <2>. HIDE DEF S
  <2>. QED
    BY <2>1, <2>2, FirstIndexRange
<1>3. FindStartupDiskVolume(BootDevice, s, clover.volumes) \in 0 .. Len(s)
  BY <1>1, FindRange
<1>4. PICK f : f = FindStartupDiskVolume(BootDevice, s, clover.volumes)
  OBVIOUS
<1>5. DefaultIndex \in {1, f, DefaultVolumeEntry}
  BY <1>1, <1>4 DEF DefaultIndex
<1>. QED
  BY <1>1, <1>2, <1>3, <1>4, <1>5, EntriesFacts

LEMMA TypeKept ==
  ASSUME TypeInv, UNCHANGED config, LogsHold(rt'.emu), disks' \subseteq Volume,
         TypedClover(clover'), TypedPast(past')
  PROVE  TypeInv'
BY DEF TypeInv

LEMMA TypeInit ==
  ASSUME MainLoopInit
  PROVE  TypeInv
<1>1. PICK n : rt = PoweredOn(n)
  BY DEF MainLoopInit
<1>2. LogsHold(rt.emu)
  BY <1>1, PoweredOnHolds
<1>3. TypedPast(past)
  BY DEF MainLoopInit, TypedPast, PastShape
<1>. QED
  BY <1>2, <1>3, OffTyped DEF MainLoopInit, TypeInv

LEMMA TypeStep ==
  ASSUME EmulationInv, TypeInv, MainLoopNext
  PROVE  TypeInv'
<1>0. /\ RtShape(rt) /\ (~ config.emu => ~ rt.installed) /\ LogsHold(rt.emu)
      /\ disks \subseteq Volume /\ TypedClover(clover) /\ CloverShape(clover) /\ TypedPast(past)
  BY DEF EmulationInv, TypeInv
<1>p. TypedPast(Touched) /\ TypedPast(Forgotten) /\ TypedPast([past EXCEPT !.starts = @ + 1])
  BY <1>0, TypedPasts
<1>i. PICK inst : inst = Installed(rt) /\ LogsHold(inst.emu) /\ RtShape(inst)
                  /\ (~ config.emu => ~ inst.installed)
  BY <1>0, InstalledHolds, InstalledShape
<1>u. ASSUME NEW r, RtShape(r), ~ config.emu => ~ r.installed, LogsHold(r.emu)
      PROVE  LogsHold(Uninstalled(r).emu)
  BY <1>u, UninstalledShape
<1>s. PICK shown : shown = Shown(clover) /\ \A i \in 1 .. Len(shown) : shown[i] \in Entry
  BY <1>0, ShownTyped
<1>m. PICK m : m = MenuRan(clover) /\ TypedClover(m)
  BY <1>0, TypedMoves
<1>pc. PC = {"off", "scan", "find", "menu", "reset", "load", "record", "running", "return", "exit"}
  BY DEF PC
<1>1. CASE RefitMain
  <2>1. rt' = inst /\ UNCHANGED << config, disks >> /\ past' = Touched
    BY <1>1, <1>i DEF RefitMain
  <2>2. /\ CloverShape(clover') /\ clover'.pc = "scan" /\ clover'.index = Off.index
        /\ clover'.default = Off.default /\ clover'.entry = Off.entry /\ clover'.menu = Off.menu
    BY <1>1 DEF RefitMain, CloverShape, Off
  <2>3. TypedClover(clover')
    BY <2>2, OffTyped, <1>pc DEF TypedClover
  <2>. QED
    BY <1>0, <1>i, <1>p, <2>1, <2>3, TypeKept
<1>2. CASE Scan
  <2>1. PICK r : /\ r = IF config.emu /\ ~ clover.afterTool THEN PutNvramPlistToRtVars(rt, LoadedDict) ELSE rt
                 /\ RtShape(r) /\ (~ config.emu => ~ r.installed) /\ LogsHold(r.emu)
    BY <1>0, PutPlistShape, PutPlistHolds
  <2>2. rt' = r \/ rt' = Uninstalled(r)
    BY <1>2, <2>1 DEF Scan
  <2>3. PICK new : new = Scanned /\ new \in Seq(Entry) /\ Len(new) <= Len(Entries)
    BY EntriesFacts, OnlyFacts DEF Scanned
  <2>4. PICK v, d : clover' = [clover EXCEPT !.pc = "find", !.menu = new, !.volumes = v, !.dict = d]
    BY <1>2, <2>3 DEF Scan
  <2>5. TypedClover(clover')
    BY <1>0, <2>3, <2>4, <1>pc DEF TypedClover, CloverShape, Off
  <2>6. UNCHANGED << config, disks, past >>
    BY <1>2 DEF Scan
  <2>. QED
    BY <1>0, <1>u, <2>1, <2>2, <2>5, <2>6, TypeKept
<1>3. CASE FindDefaultEntry
  <2>1. rt' = rt \/ rt' = Uninstalled(inst)
    BY <1>3, <1>i DEF FindDefaultEntry
  <2>2. LogsHold(rt'.emu)
    BY <1>0, <1>i, <1>u, <2>1
  <2>. DEFINE e == IF DefaultIndex \in 1 .. Len(Shown(clover)) THEN Shown(clover)[DefaultIndex] ELSE None
  <2>3. e \in Entry \cup {None}
    BY <1>s
  <2>4. PICK i, d, b, c : /\ d \in Entry \cup {None}
                          /\ i \in 0 .. Len(Entries) \/ i = 1
                          /\ c = [clover EXCEPT !.index = i, !.default = d, !.boot = b]
                          /\ \/ clover' = Starting(c, d, "fast")
                             \/ clover' = EnterMenu([c EXCEPT !.fast = FALSE])
                             \/ clover' = EnterMenu(c)
    <3>. DEFINE c == [clover EXCEPT !.index = DefaultIndex, !.default = e,
                                    !.boot = IF config.first THEN clover.boot ELSE BootDevice]
    <3>1. \/ clover' = Starting(c, e, "fast")
          \/ clover' = EnterMenu([c EXCEPT !.fast = FALSE])
          \/ clover' = EnterMenu(c)
      BY <1>3, Zenon DEF FindDefaultEntry
    <3>2. DefaultIndex \in 0 .. Len(Entries) \/ DefaultIndex = 1
      BY <1>0, DefaultIndexRange
    <3>. HIDE DEF e
    <3>. QED
      BY <2>3, <3>1, <3>2, Zenon
  <2>5. TypedClover(c)
    BY <1>0, <2>4 DEF TypedClover, CloverShape, Off
  <2>6. TypedClover(clover')
    <3>1. PICK f : f = [c EXCEPT !.fast = FALSE] /\ TypedClover(f)
      BY <2>5, TypedMoves, Zenon
    <3>2. TypedClover(EnterMenu(f)) /\ TypedClover(EnterMenu(c))
      BY <2>5, <3>1, TypedMoves
    <3>3. TypedClover(Starting(c, d, "fast"))
      BY <2>4, <2>5, TypedStarting
    <3>. QED
      BY <2>4, <3>1, <3>2, <3>3, Zenon
  <2>7. UNCHANGED << config, disks >> /\ TypedPast(past')
    BY <1>0, <1>3, <1>p DEF FindDefaultEntry
  <2>. QED
    BY <1>0, <2>2, <2>6, <2>7, TypeKept
<1>4. CASE StartDefault
  <2>1. PICK c : /\ TypedClover(c)
                 /\ \/ clover' = Starting(c, clover.default, "timeout")
                    \/ clover' = Rescan(c, FALSE)
    BY <1>0, <1>4, TypedMoves DEF StartDefault
  <2>2. clover.default \in Entry \cup {None}
    BY <1>0 DEF TypedClover
  <2>3. TypedClover(clover')
    <3>1. TypedClover(Starting(c, clover.default, "timeout"))
      BY <2>1, <2>2, TypedStarting
    <3>2. TypedClover(Rescan(c, FALSE))
      BY <2>1, TypedMoves, Zenon
    <3>. QED
      BY <2>1, <3>1, <3>2, Zenon
  <2>. QED
    BY <1>0, <1>4, <1>p, <2>3, TypeKept DEF StartDefault
<1>5. CASE Refresh \/ OptionsAndTools \/ HideToggle \/ EjectVolume \/ Exit
  <2>1. \/ clover' = m
        \/ \E a : clover' = Rescan(m, a)
        \/ \E h : clover' = [m EXCEPT !.hidden = h]
        \/ clover' = [m EXCEPT !.pc = "exit"]
    BY <1>5, <1>m DEF Refresh, OptionsAndTools, HideToggle, EjectVolume, Exit
  <2>2. TypedClover(clover')
    <3>1. \A x : /\ TypedClover(Rescan(m, x)) /\ TypedClover([m EXCEPT !.hidden = x])
                 /\ x \in PC => TypedClover([m EXCEPT !.pc = x])
      BY <1>m, TypedMoves, Zenon
    <3>2. "exit" \in PC
      BY <1>pc
    <3>. QED
      BY <1>m, <2>1, <3>1, <3>2, Zenon
  <2>3. disks' \subseteq disks /\ UNCHANGED << config, rt >> /\ past' = Touched
    BY <1>5 DEF Refresh, OptionsAndTools, HideToggle, EjectVolume, Exit
  <2>. QED
    BY <1>0, <1>p, <2>2, <2>3, TypeKept
<1>6. CASE Choose
  <2>1. PICK i \in 1 .. Len(shown) : \E from : clover' = Starting(m, shown[i], from)
    BY <1>6, <1>m, <1>s DEF Choose
  <2>2. TypedClover(clover')
    BY <1>m, <1>s, <2>1, TypedStarting
  <2>. QED
    BY <1>0, <1>6, <1>p, <2>2, TypeKept DEF Choose
<1>7. CASE Leave
  BY <1>0, <1>7, <1>u, OffTyped, TypeKept DEF Leave
<1>8. CASE ResetNvram
  <2>1. rt' = inst /\ clover' = [m EXCEPT !.pc = "reset", !.name = NoName]
    BY <1>8, <1>i, <1>m DEF ResetNvram
  <2>2. TypedClover(clover')
    BY <1>m, <2>1, <1>pc DEF TypedClover, CloverShape, Off
  <2>. QED
    BY <1>0, <1>8, <1>i, <1>p, <2>1, <2>2, TypeKept DEF ResetNvram
<1>9. CASE ResetRound
  <2>1. PICK k, name : /\ rt' = SetVariable(rt, k, None) \/ rt' = rt
                       /\ clover' = [clover EXCEPT !.name = name]
    BY <1>9 DEF ResetRound
  <2>2. LogsHold(rt'.emu) /\ TypedClover(clover')
    BY <1>0, <2>1, SetVariableHolds, TypedMoves
  <2>3. UNCHANGED << config, disks >> /\ TypedPast(past')
    BY <1>0, <1>9, <1>p DEF ResetRound
  <2>. QED
    BY <1>0, <2>2, <2>3, TypeKept
<1>10. CASE ResetEnds \/ ResetRefused
  <2>1. /\ rt' = Uninstalled(rt) /\ UNCHANGED << config, disks, past >>
        /\ clover' = [Rescan(clover, FALSE) EXCEPT !.name = NoName]
    BY <1>10 DEF ResetEnds, ResetRefused, ResetDone
  <2>2. PICK c : c = Rescan(clover, FALSE) /\ TypedClover(c)
    BY <1>0, TypedMoves
  <2>3. TypedClover(clover')
    BY <2>1, <2>2, TypedMoves
  <2>. QED
    BY <1>0, <1>u, <2>1, <2>3, TypeKept
<1>11. CASE LoadFails \/ Start \/ StartReturns
  <2>1. PICK x \in {"return", "running"} : clover' = [clover EXCEPT !.pc = x]
    BY <1>11 DEF LoadFails, Start, StartReturns
  <2>2. TypedClover(clover')
    BY <1>0, <1>pc, <2>1, TypedMoves
  <2>. QED
    BY <1>0, <1>11, <2>2, TypeKept DEF LoadFails, Start, StartReturns
<1>12. CASE Prepare
  <2>1. /\ rt' = Uninstalled(rt) \/ rt' = rt
        /\ clover' = [clover EXCEPT !.pc = "record", !.todo = Writes(clover.entry)]
    BY <1>12 DEF Prepare
  <2>2. TypedClover(clover')
    BY <1>0, <2>1, <1>pc DEF TypedClover, CloverShape, Off
  <2>. QED
    BY <1>0, <1>12, <1>u, <2>1, <2>2, TypeKept DEF Prepare
<1>13. CASE Record \/ RecordFails
  <2>1. PICK k, v : rt' = SetVariable(rt, k, v) \/ rt' = rt
    BY <1>13 DEF Record, RecordFails
  <2>2. \E t : clover' = [clover EXCEPT !.todo = t]
    BY <1>0, <1>13 DEF Record, RecordFails, CloverShape, Off
  <2>3. LogsHold(rt'.emu) /\ TypedClover(clover')
    <3>1. LogsHold(rt'.emu)
      BY <1>0, <2>1, SetVariableHolds
    <3>2. TypedClover(clover')
      BY <1>0, <2>2 DEF TypedClover, CloverShape, Off
    <3>. QED
      BY <3>1, <3>2
  <2>4. clover.entry \in Entry \cup {None}
    BY <1>0 DEF TypedClover
  <2>5. TypedPast(past')
    <3>1. past' \in {past, Forgotten, [past EXCEPT !.recorded = clover.entry]}
      BY <1>13 DEF Record, RecordFails, Written
    <3>. QED
      BY <1>0, <1>p, <2>4, <3>1, TypedPasts
  <2>6. UNCHANGED << config, disks >>
    BY <1>13 DEF Record, RecordFails
  <2>. QED
    BY <1>0, <2>3, <2>5, <2>6, TypeKept
<1>14. CASE OSSetVariable
  <2>1. PICK k, v : rt' = SetVariable(rt, k, v)
    BY <1>14 DEF OSSetVariable
  <2>2. LogsHold(rt'.emu)
    BY <1>0, <2>1, SetVariableHolds
  <2>. QED
    BY <1>0, <1>14, <1>p, <2>2, TypeKept DEF OSSetVariable
<1>15. CASE Return
  <2>1. PICK c : c = [clover EXCEPT !.entry = None, !.from = ""]
    OBVIOUS
  <2>c. TypedClover(c)
    BY <1>0, <2>1 DEF TypedClover, CloverShape, Off
  <2>2. \/ clover' = EnterMenu([c EXCEPT !.fast = FALSE]) \/ clover' = Rescan(c, FALSE)
        \/ clover' = [c EXCEPT !.pc = "menu"] \/ clover' = [c EXCEPT !.pc = "exit"]
    BY <1>15, <2>1, Zenon DEF Return
  <2>3. TypedClover([c EXCEPT !.fast = FALSE])
    BY <2>c, TypedMoves
  <2>4. TypedClover(EnterMenu([c EXCEPT !.fast = FALSE])) /\ TypedClover(Rescan(c, FALSE))
    BY <2>c, <2>3, TypedMoves, Zenon
  <2>5. TypedClover([c EXCEPT !.pc = "menu"]) /\ TypedClover([c EXCEPT !.pc = "exit"])
    BY <1>pc, <2>c, TypedMoves
  <2>. QED
    BY <1>0, <1>15, <2>2, <2>4, <2>5, TypeKept DEF Return
<1>16. CASE PlugIn
  <2>1. disks' \subseteq Volume
    BY <1>0, <1>16, RemovableAssumption DEF PlugIn
  <2>. QED
    BY <1>0, <1>16, <1>p, <2>1, TypeKept DEF PlugIn
<1>17. CASE Reset
  BY <1>0, <1>17, PoweredOnHolds, OffTyped, TypeKept DEF Reset
<1>. QED
  BY <1>1, <1>2, <1>3, <1>4, <1>5, <1>6, <1>7, <1>8, <1>9, <1>10, <1>11, <1>12, <1>13,
     <1>14, <1>15, <1>16, <1>17 DEF MainLoopNext

LEMMA TypeInvariance == MainLoopSpec => []TypeInv
<1>1. TypeInv /\ UNCHANGED loopVars => TypeInv'
  BY DEF loopVars, TypeInv, TypedClover, CloverShape, TypedPast, PastShape, LogsHold
<1>. QED
  BY <1>1, TypeInit, TypeStep, EmulationInvariance, PTL DEF MainLoopSpec

\* Whatever menu the scanners build and however often the emulation is installed
\* over a store that is nearly full, the default is an entry of the menu or none
\* and the logs of the emulated store keep within their capacity.
THEOREM LoopTypeCorrect == MainLoopSpec => []LoopTypeOK
<1>1. EmulationInv /\ TypeInv => LoopTypeOK
  BY DEF EmulationInv, TypeInv, RtShape, LogsHold, TypedClover, TypedPast, LoopTypeOK
<1>. QED
  BY <1>1, EmulationInvariance, TypeInvariance, PTL

-------------------------------------------------------------------------------
(* The default is what was started last *)

\* What SetStartupDiskVolume leaves in efi-boot-device-data for an entry.
RecordOf(e) == Variable(TRUE, StartupDiskPath(e.volume, RecordedLoader(e)))

\* The writes that record an entry, or forget the one before.
WritesFor(e) ==
  [key : {"efi-boot-device-data"}, checked : BOOLEAN,
   data : {None, StartupDiskPath(e.volume, RecordedLoader(e))}]
  \cup [key : {"efi-boot-device", "BootCampHD"}, checked : BOOLEAN,
        data : {None, StartupDiskPath(e.volume, None)}]

\* On the firmware's own variables: what was recorded is in the variable and
\* outlives a reset, what is going to be recorded is of the entry that is
\* started, and what was read before the first menu is what still can be read.
RecordInv ==
  /\ past.recorded # None => Startable(past.recorded)
  /\ ~ config.emu =>
       /\ past.recorded # None =>
            rt.native["efi-boot-device-data"] = RecordOf(past.recorded)
       /\ clover.pc = "record" => clover.todo \in Seq(WritesFor(clover.entry))
       /\ clover.pc \in {"scan", "find"} /\ ~ clover.rescanned =>
            \/ clover.boot = NoBootDevice
            \/ clover.boot = GetEfiBootDeviceFromNvram(NoBootDevice, Values(rt))

\* A variable is not an absent one.
LEMMA VariableThere ==
  ASSUME NEW nv, NEW data
  PROVE  Variable(nv, data) # None /\ Variable(nv, data).data = data /\ Variable(nv, data).nv = nv
<1>1. DOMAIN Variable(nv, data) = {"nv", "data"}
  BY DEF Variable
<1>2. DOMAIN None = {}
  BY DEF None
<1>. QED
  BY <1>1, <1>2 DEF Variable

LEMMA NativeOnly ==
  ASSUME ~ config.emu, NEW r
  PROVE  Installed(r) = r /\ Uninstalled(r) = r
BY DEF Installed, Uninstalled

\* Where the writes that are left, and what was read early, can come from.
LEMMA RecordSteps ==
  ASSUME CloverShape(clover), MainLoopNext
  PROVE  /\ clover'.pc = "record" => Prepare \/ Record \/ RecordFails \/ PlugIn
         /\ clover'.pc \in {"scan", "find"} /\ ~ clover'.rescanned => RefitMain \/ Scan \/ PlugIn
<1>. DEFINE Elsewhere(c) == c.pc # "record" /\ (c.pc \notin {"scan", "find"} \/ c.rescanned)
<1>1. CASE RefitMain
  <2>1. clover'.pc = "scan"
    BY <1>1 DEF RefitMain, Off
  <2>. QED
    BY <1>1, <2>1
<1>2. CASE Scan
  <2>1. clover'.pc = "find"
    BY <1>2 DEF Scan, CloverShape, Off
  <2>. QED
    BY <1>2, <2>1
<1>3. CASE Prepare \/ Record \/ RecordFails
  <2>1. clover'.pc = "record"
    BY <1>3 DEF Prepare, Record, RecordFails, CloverShape, Off
  <2>. QED
    BY <1>3, <2>1
<1>4. CASE PlugIn
  BY <1>4
<1>r. ASSUME NEW c, CloverShape(c), NEW x
      PROVE  /\ Elsewhere(Rescan(c, x)) /\ Elsewhere(EnterMenu(c))
             /\ CloverShape(Rescan(c, x)) /\ CloverShape(EnterMenu(c))
  BY <1>r DEF Rescan, EnterMenu, CloverShape, Off
<1>l. ASSUME NEW c, CloverShape(c), NEW e, NEW from
      PROVE  Elsewhere(Starting(c, e, from))
  BY <1>l DEF Starting, CloverShape, Off
<1>5. CASE FindDefaultEntry
  <2>. DEFINE e == IF DefaultIndex \in 1 .. Len(Shown(clover)) THEN Shown(clover)[DefaultIndex] ELSE None
              c == [clover EXCEPT !.index = DefaultIndex, !.default = e,
                                  !.boot = IF config.first THEN @ ELSE BootDevice]
              d == [c EXCEPT !.fast = FALSE]
  <2>1. CloverShape(c) /\ CloverShape(d)
    BY DEF CloverShape
  <2>2. \/ clover' = Starting(c, e, "fast")
        \/ clover' = EnterMenu(d)
        \/ clover' = EnterMenu(c)
    BY <1>5, Zenon DEF FindDefaultEntry
  <2>. HIDE DEF c, d, e
  <2>3. Elsewhere(Starting(c, e, "fast")) /\ Elsewhere(EnterMenu(d)) /\ Elsewhere(EnterMenu(c))
    BY <1>r, <1>l, <2>1
  <2>4. Elsewhere(clover')
    BY <2>2, <2>3
  <2>. QED
    BY <2>4
<1>6. CASE StartDefault
  <2>1. PICK c : /\ CloverShape(c)
                 /\ \/ clover' = Starting(c, clover.default, "timeout")
                    \/ clover' = Rescan(c, FALSE)
    BY <1>6, MenuMoves DEF StartDefault
  <2>2. Elsewhere(Starting(c, clover.default, "timeout"))
    BY <1>l, <2>1
  <2>3. Elsewhere(Rescan(c, FALSE))
    BY <1>r, <2>1, Zenon
  <2>4. Elsewhere(clover')
    BY <2>1, <2>2, <2>3, Zenon
  <2>. QED
    BY <2>4
<1>7. CASE Refresh \/ OptionsAndTools \/ HideToggle \/ EjectVolume \/ Exit \/ Choose \/ ResetNvram
  <2>1. PICK m : m = MenuRan(clover) /\ CloverShape(m) /\ m.pc = "menu"
    BY <1>7, MenuMoves
       DEF Refresh, OptionsAndTools, HideToggle, EjectVolume, Exit, Choose, ResetNvram
  <2>2. \/ clover' = m
        \/ \E a : clover' = Rescan(m, a)
        \/ \E h : clover' = [m EXCEPT !.hidden = h]
        \/ clover' = [m EXCEPT !.pc = "exit"]
        \/ clover' = [m EXCEPT !.pc = "reset", !.name = NoName]
        \/ \E e, from : clover' = Starting(m, e, from)
    BY <1>7, <2>1
       DEF Refresh, OptionsAndTools, HideToggle, EjectVolume, Exit, Choose, ResetNvram
  <2>3. CASE \E a : clover' = Rescan(m, a)
    BY <1>r, <2>1, <2>3
  <2>4. CASE \E e, from : clover' = Starting(m, e, from)
    BY <1>l, <2>1, <2>4
  <2>5. CASE clover' = m \/ \E h : clover' = [m EXCEPT !.hidden = h]
    BY <2>1, <2>5 DEF CloverShape, Off
  <2>6. CASE \/ clover' = [m EXCEPT !.pc = "exit"]
             \/ clover' = [m EXCEPT !.pc = "reset", !.name = NoName]
    BY <2>1, <2>6 DEF CloverShape, Off
  <2>. QED
    BY <2>2, <2>3, <2>4, <2>5, <2>6
<1>8. CASE Leave \/ Reset
  <2>1. clover' = Off /\ Off.pc = "off"
    BY <1>8 DEF Leave, Reset, Off
  <2>. QED
    BY <2>1
<1>9. CASE ResetRound \/ OSSetVariable
  <2>1. clover'.pc \in {"reset", "running"}
    BY <1>9 DEF ResetRound, OSSetVariable, CloverShape, Off
  <2>. QED
    BY <2>1
<1>10. CASE ResetEnds \/ ResetRefused
  <2>1. clover' = [Rescan(clover, FALSE) EXCEPT !.name = NoName]
    BY <1>10 DEF ResetEnds, ResetRefused, ResetDone
  <2>2. clover'.pc = "scan" /\ clover'.rescanned = TRUE
    BY <2>1 DEF Rescan, CloverShape, Off
  <2>. QED
    BY <2>2
<1>11. CASE LoadFails \/ Start \/ StartReturns
  <2>1. clover'.pc \in {"return", "running"}
    BY <1>11 DEF LoadFails, Start, StartReturns, CloverShape, Off
  <2>. QED
    BY <2>1
<1>12. CASE Return
  <2>1. PICK c : c = [clover EXCEPT !.entry = None, !.from = ""]
    OBVIOUS
  <2>2. CloverShape(c) /\ CloverShape([c EXCEPT !.fast = FALSE])
    BY <2>1 DEF CloverShape
  <2>3. PICK d : d = [c EXCEPT !.fast = FALSE]
    OBVIOUS
  <2>4. \/ clover' = EnterMenu(d) \/ clover' = Rescan(c, FALSE)
        \/ clover' = [c EXCEPT !.pc = "menu"] \/ clover' = [c EXCEPT !.pc = "exit"]
    BY <1>12, <2>1, <2>3, Zenon DEF Return
  <2>5. Elsewhere(EnterMenu(d))
    BY <1>r, <2>2, <2>3
  <2>6. Elsewhere(Rescan(c, FALSE))
    BY <1>r, <2>2, Zenon
  <2>7. Elsewhere([c EXCEPT !.pc = "menu"]) /\ Elsewhere([c EXCEPT !.pc = "exit"])
    BY <2>2 DEF CloverShape, Off
  <2>8. Elsewhere(clover')
    BY <2>4, <2>5, <2>6, <2>7, Zenon
  <2>. QED
    BY <2>8
<1>. QED
  BY <1>1, <1>2, <1>3, <1>4, <1>5, <1>6, <1>7, <1>8, <1>9, <1>10, <1>11, <1>12 DEF MainLoopNext

\* The writes of an entry record that entry.
LEMMA WritesDue ==
  ASSUME NEW e
  PROVE  Writes(e) \in Seq(WritesFor(e))
<1>. DEFINE data == Set("efi-boot-device-data", StartupDiskPath(e.volume, RecordedLoader(e)))
            disk == Set("efi-boot-device", StartupDiskPath(e.volume, None))
            gone(k) == Set(k, None)
<1>1. data \in WritesFor(e) /\ disk \in WritesFor(e)
  BY DEF WritesFor, Set
<1>2. /\ gone("efi-boot-device") \in WritesFor(e) /\ gone("efi-boot-device-data") \in WritesFor(e)
      /\ gone("BootCampHD") \in WritesFor(e)
  BY DEF WritesFor, Set
<1>3. \/ Writes(e) = << data >> \o << disk >>
      \/ Writes(e) = << data >> \o << >>
      \/ Writes(e) = << gone("efi-boot-device"), gone("efi-boot-device-data"), gone("BootCampHD") >>
      \/ Writes(e) = << >>
  BY Zenon DEF Writes
<1>. HIDE DEF data, disk, gone
<1>4. PICK W : W = WritesFor(e)
  OBVIOUS
<1>5. << data >> \in Seq(W) /\ << disk >> \in Seq(W) /\ << >> \in Seq(W)
  BY <1>1, <1>4
<1>6. << gone("efi-boot-device"), gone("efi-boot-device-data"), gone("BootCampHD") >> \in Seq(W)
  BY <1>2, <1>4
<1>7. << data >> \o << disk >> \in Seq(W) /\ << data >> \o << >> \in Seq(W)
  BY <1>5
<1>. QED
  BY <1>3, <1>4, <1>5, <1>6, <1>7, Zenon

LEMMA RecordInit ==
  ASSUME MainLoopInit
  PROVE  RecordInv
<1>1. past.recorded = None
  BY DEF MainLoopInit
<1>2. clover.pc = "off"
  BY DEF MainLoopInit, Off
<1>. QED
  BY <1>1, <1>2 DEF RecordInv

\* A step that leaves the variables and the program's other state keeps what was
\* recorded, or forgets it.
LEMMA PastRecorded ==
  ASSUME TypedPast(past), NEW x
  PROVE  /\ Touched.recorded = past.recorded /\ Forgotten.recorded = None
         /\ [past EXCEPT !.starts = @ + 1].recorded = past.recorded
         /\ [past EXCEPT !.recorded = x].recorded = x
BY DEF TypedPast, PastShape, Touched, Forgotten

\* A write to the firmware's variables is one to a single variable.
LEMMA NativeSet ==
  ASSUME NEW r, RtShape(r), ~ r.installed, NEW k, NEW var
  PROVE  /\ k \in Key => SetVariable(r, k, var).native[k] = var
         /\ \A j : j # k => SetVariable(r, k, var).native[j] = r.native[j]
BY DEF SetVariable, RtShape

LEMMA TailTyped ==
  ASSUME NEW W, NEW q \in Seq(W), q # << >>
  PROVE  Tail(q) \in Seq(W)
OBVIOUS

\* What Record does to the startup disk when there is no emulation.
LEMMA RecordKeeps ==
  ASSUME EmulationInv, TypeInv, RecordInv, Record, ~ config.emu
  PROVE  /\ past'.recorded # None =>
              /\ rt'.native["efi-boot-device-data"] = RecordOf(past'.recorded)
              /\ Startable(past'.recorded)
         /\ clover'.todo \in Seq(WritesFor(clover.entry))
<1>. DEFINE K == "efi-boot-device-data"
            e == clover.entry
<1>0. /\ clover.pc = "record" /\ clover.todo # << >> /\ ~ rt.installed /\ RtShape(rt)
      /\ CloverShape(clover) /\ TypedPast(past) /\ Startable(e)
      /\ clover.todo \in Seq(WritesFor(e))
      /\ past.recorded # None => rt.native[K] = RecordOf(past.recorded) /\ Startable(past.recorded)
  BY DEF Record, EmulationInv, TypeInv, RecordInv
<1>1. PICK W : W = WritesFor(e)
  OBVIOUS
<1>2. PICK w \in W : w = Head(clover.todo)
  BY <1>0, <1>1
<1>3. w = clover.todo[1]
  BY <1>0, <1>1, <1>2
<1>w. /\ w = [key |-> w.key, checked |-> w.checked, data |-> w.data]
      /\ w.key \in {K, "efi-boot-device", "BootCampHD"}
      /\ w.key = K /\ w.data # None => w.data = StartupDiskPath(e.volume, RecordedLoader(e))
      /\ [w EXCEPT !.checked = TRUE] \in W
  BY <1>1 DEF WritesFor
<1>4. PICK old, new : old = Vars(rt)[w.key] /\ new = Kept(w.data)
  OBVIOUS
<1>5. K \in Key
  BY KeyAssumption
<1>6. CASE /\ rt' = SetVariable(rt, w.key, None) \/ rt' = rt
           /\ clover' = [clover EXCEPT !.todo[1].checked = TRUE]
           /\ past' = IF w.key = K THEN Forgotten ELSE past
  <2>1. clover'.todo = [clover.todo EXCEPT ![1].checked = TRUE]
    BY <1>0, <1>6 DEF CloverShape, Off
  <2>2. PICK x \in W : x = [w EXCEPT !.checked = TRUE]
    BY <1>w
  <2>3. clover'.todo = [clover.todo EXCEPT ![1] = x]
    BY <1>3, <2>1, <2>2
  <2>4. clover'.todo \in Seq(W)
    BY <1>0, <1>1, <2>3
  <2>5. CASE w.key = K
    BY <1>0, <1>1, <1>6, <2>4, <2>5, PastRecorded
  <2>6. CASE w.key # K
    <3>1. past' = past
      BY <1>6, <2>6
    <3>2. rt'.native[K] = rt.native[K]
      BY <1>0, <1>6, <2>6, NativeSet
    <3>. QED
      BY <1>0, <1>1, <2>4, <3>1, <3>2
  <2>. QED
    BY <2>5, <2>6
<1>7. CASE /\ rt' = IF old = new THEN rt ELSE SetVariable(rt, w.key, new)
           /\ clover'.todo = << >> \/ clover'.todo = Tail(clover.todo)
           /\ past' = Written(w)
  <2>1. clover'.todo \in Seq(W)
    <3>1. << >> \in Seq(W)
      OBVIOUS
    <3>2. Tail(clover.todo) \in Seq(W)
      BY <1>0, <1>1, TailTyped
    <3>. QED
      BY <1>7, <3>1, <3>2, Zenon
  <2>2. CASE w.key # K
    <3>1. past' = past
      BY <1>7, <2>2 DEF Written
    <3>2. rt'.native[K] = rt.native[K]
      BY <1>0, <1>7, <2>2 DEF SetVariable, RtShape
    <3>. QED
      BY <1>0, <1>1, <2>1, <3>1, <3>2
  <2>3. CASE w.key = K /\ w.data = None
    <3>1. past'.recorded = None
      BY <1>0, <1>7, <2>3, PastRecorded DEF Written
    <3>. QED
      BY <1>1, <2>1, <3>1
  <2>4. CASE w.key = K /\ w.data # None
    <3>1. past'.recorded = e
      BY <1>0, <1>7, <2>4, PastRecorded DEF Written
    <3>2. new = RecordOf(e)
      <4>1. (~ config.emu) = TRUE
        OBVIOUS
      <4>2. Kept(w.data) = Variable(TRUE, w.data)
        BY <2>4, <4>1, Zenon DEF Kept
      <4>. QED
        BY <1>4, <1>w, <2>4, <4>2, Zenon DEF RecordOf
    <3>3. rt'.native[K] = new
      <4>1. old = rt.native[K]
        BY <1>0, <1>4, <2>4 DEF Vars
      <4>2. CASE old = new
        BY <1>7, <4>1, <4>2
      <4>3. CASE old # new
        BY <1>0, <1>5, <1>7, <2>4, <4>3 DEF SetVariable, RtShape
      <4>. QED
        BY <4>2, <4>3
    <3>. QED
      BY <1>0, <1>1, <2>1, <3>1, <3>2, <3>3
  <2>. QED
    BY <2>2, <2>3, <2>4
<1>. QED
  <2>1. \/ /\ rt' = SetVariable(rt, w.key, None) \/ rt' = rt
           /\ clover' = [clover EXCEPT !.todo[1].checked = TRUE]
           /\ past' = IF w.key = K THEN Forgotten ELSE past
        \/ /\ rt' = IF old = new THEN rt ELSE SetVariable(rt, w.key, new)
           /\ clover' = [clover EXCEPT !.todo = IF new # None /\ Vars(rt')[w.key] = None
                                                THEN << >> ELSE Tail(@)]
           /\ past' = Written(w)
    BY <1>2, <1>4, Zenon DEF Record
  <2>2. \A x : [clover EXCEPT !.todo = x].todo = x
    BY <1>0 DEF CloverShape, Off
  <2>. QED
    BY <1>6, <1>7, <2>1, <2>2

LEMMA RecordStep ==
  ASSUME EmulationInv, TypeInv, RecordInv, MainLoopNext
  PROVE  RecordInv'
<1>. DEFINE K == "efi-boot-device-data"
<1>0. /\ RtShape(rt) /\ CloverShape(clover) /\ TypedPast(past)
      /\ ~ config.emu => ~ rt.installed
      /\ past.recorded # None => Startable(past.recorded)
      /\ ~ config.emu /\ past.recorded # None => rt.native[K] = RecordOf(past.recorded)
  BY DEF EmulationInv, TypeInv, RecordInv
<1>c. UNCHANGED config
  BY DEF MainLoopNext, RefitMain, Scan, FindDefaultEntry, StartDefault, Refresh, OptionsAndTools,
     HideToggle, EjectVolume, Choose, Exit, Leave, ResetNvram, ResetRound, ResetEnds, ResetRefused,
     ResetDone, LoadFails, Prepare, Record, RecordFails, Start, OSSetVariable, StartReturns,
     Return, PlugIn, Reset
<1>1. /\ past'.recorded # None => Startable(past'.recorded)
      /\ ~ config.emu /\ past'.recorded # None => rt'.native[K] = RecordOf(past'.recorded)
  <2>1. CASE RefitMain \/ Scan \/ FindDefaultEntry \/ Leave \/ ResetNvram \/ ResetEnds
             \/ ResetRefused \/ Prepare
    <3>1. past'.recorded = past.recorded
      BY <1>0, <2>1, PastRecorded
         DEF RefitMain, Scan, FindDefaultEntry, Leave, ResetNvram, ResetEnds, ResetRefused,
             ResetDone, Prepare
    <3>2. ~ config.emu => rt' = rt
      <4>. SUFFICES ASSUME ~ config.emu PROVE rt' = rt
        OBVIOUS
      <4>1. Installed(rt) = rt /\ Uninstalled(rt) = rt
        BY NativeOnly
      <4>2. CASE Scan
        BY <4>1, <4>2 DEF Scan
      <4>3. CASE FindDefaultEntry
        BY <4>1, <4>3, Zenon DEF FindDefaultEntry
      <4>. QED
        BY <2>1, <4>1, <4>2, <4>3
           DEF RefitMain, Leave, ResetNvram, ResetEnds, ResetRefused, ResetDone, Prepare
    <3>. QED
      BY <1>0, <3>1, <3>2
  <2>2. CASE StartDefault \/ Refresh \/ OptionsAndTools \/ HideToggle \/ EjectVolume \/ Choose
             \/ Exit \/ LoadFails \/ RecordFails \/ Start \/ StartReturns \/ Return \/ PlugIn
    <3>1. past'.recorded \in {past.recorded, None} /\ rt' = rt
      BY <1>0, <2>2, PastRecorded
         DEF StartDefault, Refresh, OptionsAndTools, HideToggle, EjectVolume, Choose, Exit,
             LoadFails, RecordFails, Start, StartReturns, Return, PlugIn
    <3>. QED
      BY <1>0, <3>1
  <2>3. CASE OSSetVariable \/ ResetRound
    <3>1. past' = Forgotten \/ UNCHANGED << rt, past >>
      BY <2>3 DEF OSSetVariable, ResetRound
    <3>. QED
      BY <1>0, <3>1, PastRecorded
  <2>4. CASE Record
    <3>1. CASE ~ config.emu
      BY <2>4, <3>1, RecordKeeps
    <3>2. CASE config.emu
      <4>1. past'.recorded \in {past.recorded, None, clover.entry} /\ clover.pc = "record"
        BY <1>0, <2>4, PastRecorded DEF Record, Written
      <4>2. Startable(clover.entry)
        BY <4>1 DEF EmulationInv
      <4>. QED
        BY <1>0, <3>2, <4>1, <4>2
    <3>. QED
      BY <3>1, <3>2
  <2>5. CASE Reset
    <3>1. past' = past /\ rt'.native = Persistent(rt.native)
      BY <2>5 DEF Reset, PoweredOn
    <3>2. ASSUME ~ config.emu, past.recorded # None PROVE rt'.native[K] = rt.native[K]
      <4>1. PICK v : v = rt.native[K]
        OBVIOUS
      <4>2. v # None /\ v.nv = TRUE
        BY <1>0, <3>2, <4>1, VariableThere DEF RecordOf
      <4>3. Persistent(rt.native)[K] = v
        <5>1. K \in Key
          BY KeyAssumption
        <5>. QED
          BY <4>1, <4>2, <5>1 DEF Persistent
      <4>. QED
        BY <3>1, <4>1, <4>3
    <3>. QED
      BY <1>0, <3>1, <3>2
  <2>. QED
    BY <2>1, <2>2, <2>3, <2>4, <2>5 DEF MainLoopNext
<1>2. ASSUME ~ config.emu, clover'.pc = "record"
      PROVE  clover'.todo \in Seq(WritesFor(clover'.entry))
  <2>0. clover.pc = "record" => clover.todo \in Seq(WritesFor(clover.entry))
    BY <1>2 DEF RecordInv
  <2>1. CASE Prepare
    <3>1. clover'.todo = Writes(clover.entry) /\ clover'.entry = clover.entry
      BY <1>0, <2>1 DEF Prepare, CloverShape, Off
    <3>. QED
      BY <3>1, WritesDue
  <2>2. CASE Record
    <3>1. clover'.entry = clover.entry
      BY <1>0, <2>2 DEF Record, CloverShape, Off
    <3>. QED
      BY <1>2, <2>2, <3>1, RecordKeeps
  <2>3. CASE RecordFails
    <3>1. /\ clover'.entry = clover.entry
          /\ clover'.todo = Tail(clover.todo) \/ clover'.todo = << >>
          /\ clover.pc = "record" /\ clover.todo # << >>
      BY <1>0, <2>3 DEF RecordFails, CloverShape, Off
    <3>2. PICK W : W = WritesFor(clover.entry)
      OBVIOUS
    <3>3. << >> \in Seq(W)
      OBVIOUS
    <3>4. Tail(clover.todo) \in Seq(W)
      BY <2>0, <3>1, <3>2, TailTyped
    <3>. QED
      BY <3>1, <3>2, <3>3, <3>4, Zenon
  <2>4. CASE PlugIn
    BY <1>2, <2>0, <2>4 DEF PlugIn
  <2>. QED
    BY <1>0, <1>2, <2>1, <2>2, <2>3, <2>4, RecordSteps
<1>3. ASSUME ~ config.emu, clover'.pc \in {"scan", "find"}, ~ clover'.rescanned
      PROVE  \/ clover'.boot = NoBootDevice
             \/ clover'.boot = GetEfiBootDeviceFromNvram(NoBootDevice, Values(rt)')
  <2>1. CASE RefitMain
    BY <2>1 DEF RefitMain, Off
  <2>2. CASE Scan
    <3>1. rt' = rt
      BY <1>3, <2>2, NativeOnly DEF Scan
    <3>2. clover'.boot = clover.boot /\ clover'.rescanned = clover.rescanned /\ clover.pc = "scan"
      BY <1>0, <2>2 DEF Scan, CloverShape, Off
    <3>3. Values(rt)' = Values(rt)
      BY <3>1 DEF Values, Vars
    <3>. QED
      BY <1>3, <3>2, <3>3 DEF RecordInv
  <2>3. CASE PlugIn
    <3>1. UNCHANGED << rt, clover >>
      BY <2>3 DEF PlugIn
    <3>2. Values(rt)' = Values(rt)
      BY <3>1 DEF Values, Vars
    <3>. QED
      BY <1>3, <3>1, <3>2 DEF RecordInv
  <2>. QED
    BY <1>0, <1>3, <2>1, <2>2, <2>3, RecordSteps
<1>. QED
  BY <1>c, <1>1, <1>2, <1>3 DEF RecordInv

LEMMA RecordInvariance == MainLoopSpec => []RecordInv
<1>1. RecordInv /\ UNCHANGED loopVars => RecordInv'
  BY DEF loopVars, RecordInv, Values, Vars
<1>. QED
  BY <1>1, RecordInit, RecordStep, EmulationInvariance, TypeInvariance, PTL DEF MainLoopSpec

\* Reading again what was read early changes nothing.
LEMMA ReadTwice ==
  ASSUME NEW value
  PROVE  GetEfiBootDeviceFromNvram(GetEfiBootDeviceFromNvram(NoBootDevice, value), value)
           = GetEfiBootDeviceFromNvram(NoBootDevice, value)
<1>. DEFINE boot == GetEfiBootDeviceFromNvram(NoBootDevice, value)
            data == BootDeviceData(value)
<1>1. boot = NoBootDevice \/ boot.data # None \/ data = None
  BY DEF GetEfiBootDeviceFromNvram, NoBootDevice
<1>2. boot.data # None \/ data = None
         => GetEfiBootDeviceFromNvram(boot, value) = boot
  <2>. HIDE DEF boot
  <2>. QED
    BY DEF GetEfiBootDeviceFromNvram
<1>. QED
  BY <1>1, <1>2

\* The search is about to begin, on the variables Record has written.
LEMMA DefaultFound ==
  ASSUME PathsTellVolumes, StartedFromPartitions, EmulationInv, TypeInv, RecordInv,
         FindDefaultEntry, ~ clover.rescanned, ~ config.emu, ~ config.first,
         past.recorded # None,
         past.recorded \in {Shown(clover)[i] : i \in Row0(Shown(clover))},
         rt.native["efi-boot-next-data"] = None, rt.native["aptiofixflag"] = None
  PROVE  /\ clover'.default # None
         /\ clover'.default.volume = past.recorded.volume
         /\ RecordedLoader(past.recorded) # None => clover'.default.loader = past.recorded.loader
<1>1. PICK shown : shown = Shown(clover) /\ shown \in Seq(Entry)
  BY ShownTyped DEF TypeInv
<1>2. PICK i \in Row0(shown) : past.recorded = shown[i]
  BY <1>1
<1>3. PICK e \in Entry : e = shown[i] /\ e = past.recorded
  BY <1>1, <1>2, Row0Facts
<1>4. Startable(e) /\ rt.native["efi-boot-device-data"] = RecordOf(e) /\ ~ rt.installed
  BY <1>3 DEF RecordInv, EmulationInv
<1>5. e.volume \in Volume /\ HasVolume(e) /\ NodeWithType(VolumePath[e.volume], MediaTypes) # 0
  BY <1>4, EntriesAssumption, VolumeAssumption DEF Startable, HasVolume, StartedFromPartitions
<1>6. PICK value : value = Values(rt)
  OBVIOUS
<1>7. /\ value["efi-boot-next-data"] = None /\ value["aptiofixflag"] = None
      /\ value["efi-boot-device-data"] = StartupDiskPath(e.volume, RecordedLoader(e))
  <2>1. {"efi-boot-next-data", "aptiofixflag", "efi-boot-device-data"} \subseteq Key
    BY KeyAssumption
  <2>2. Vars(rt) = rt.native
    BY <1>4 DEF Vars
  <2>3. RecordOf(e) # None /\ RecordOf(e).data = StartupDiskPath(e.volume, RecordedLoader(e))
    BY VariableThere DEF RecordOf
  <2>. QED
    BY <1>4, <1>6, <2>1, <2>2, <2>3 DEF Values
<1>8. BootDevice = GetEfiBootDeviceFromNvram(NoBootDevice, value)
  <2>1. \/ clover.boot = NoBootDevice
        \/ clover.boot = GetEfiBootDeviceFromNvram(NoBootDevice, value)
    BY <1>6 DEF RecordInv, FindDefaultEntry
  <2>2. BootDevice = GetEfiBootDeviceFromNvram(clover.boot, value)
    BY <1>6, NativeOnly DEF BootDevice
  <2>. QED
    BY <2>1, <2>2, ReadTwice
<1>9. PICK j \in Row0(shown) :
        /\ FindStartupDiskVolume(BootDevice, shown, clover.volumes) = j
        /\ BootVolumeDevicePathEqual(VolumePath[e.volume], VolumePath[shown[j].volume])
        /\ Startable(shown[j])
        /\ RecordedLoader(e) # None => shown[j].loader = e.loader
  <2>1. CASE RecordedLoader(e) # None
    <3>1. e.kind = "loader" /\ RecordedLoader(e) = e.loader
      BY <1>4, <2>1 DEF RecordedLoader, Startable
    <3>2. PICK j \in Row0(shown) :
            /\ FindStartupDiskVolume(GetEfiBootDeviceFromNvram(NoBootDevice, value),
                                     shown, clover.volumes) = j
            /\ shown[j].kind = "loader" /\ shown[j].loader = shown[i].loader
            /\ BootVolumeDevicePathEqual(VolumePath[shown[i].volume], VolumePath[shown[j].volume])
      <4>1. /\ shown[i].kind = "loader" /\ shown[i].volume \in Volume /\ shown[i].loader # None
            /\ value["efi-boot-device-data"] = StartupDiskPath(shown[i].volume, shown[i].loader)
        BY <1>3, <1>5, <1>7, <2>1, <3>1
      <4>2. shown \in Seq(Entry) /\ i \in Row0(shown)
        BY <1>1, <1>2
      <4>3. value["efi-boot-next-data"] = None /\ value["aptiofixflag"] = None
        BY <1>7
      <4>4. PICK vols : vols = clover.volumes
        OBVIOUS
      <4>5. \E j \in Row0(shown) :
              /\ FindStartupDiskVolume(GetEfiBootDeviceFromNvram(NoBootDevice, value), shown, vols) = j
              /\ j <= i
              /\ shown[j].kind = "loader" /\ shown[j].loader = shown[i].loader
              /\ BootVolumeDevicePathEqual(VolumePath[shown[i].volume], VolumePath[shown[j].volume])
        BY <4>1, <4>2, <4>3, RecordedLoaderIsFound
      <4>. QED
        BY <4>4, <4>5
    <3>. QED
      BY <1>3, <1>8, <3>2 DEF Startable
  <2>2. CASE RecordedLoader(e) = None
    <3>1. PICK j \in Row0(shown) :
            /\ FindStartupDiskVolume(GetEfiBootDeviceFromNvram(NoBootDevice, value),
                                     shown, clover.volumes) = j
            /\ HasVolume(shown[j])
            /\ BootVolumeDevicePathEqual(VolumePath[shown[i].volume], VolumePath[shown[j].volume])
      <4>1. /\ HasVolume(shown[i]) /\ shown[i].volume \in Volume
            /\ NodeWithType(VolumePath[shown[i].volume], MediaTypes) # 0
            /\ value["efi-boot-device-data"] = StartupDiskPath(shown[i].volume, None)
        BY <1>3, <1>5, <1>7, <2>2
      <4>2. shown \in Seq(Entry) /\ i \in Row0(shown)
        BY <1>1, <1>2
      <4>3. value["efi-boot-next-data"] = None /\ value["aptiofixflag"] = None
        BY <1>7
      <4>4. PICK vols : vols = clover.volumes
        OBVIOUS
      <4>5. \E j \in Row0(shown) :
              /\ FindStartupDiskVolume(GetEfiBootDeviceFromNvram(NoBootDevice, value), shown, vols) = j
              /\ j <= i
              /\ HasVolume(shown[j])
              /\ BootVolumeDevicePathEqual(VolumePath[shown[i].volume], VolumePath[shown[j].volume])
        BY <4>1, <4>2, <4>3, RecordedVolumeIsFound DEF HasVolume
      <4>. QED
        BY <4>4, <4>5
    <3>. QED
      BY <1>3, <1>8, <2>2, <3>1 DEF Startable, HasVolume
  <2>. QED
    BY <2>1, <2>2
<1>10. shown[j] \in Entry /\ j \in 1 .. Len(shown) /\ j # 0
  BY <1>1, <1>9, Row0Facts
<1>11. shown[j].volume = e.volume
  BY <1>4, <1>9, <1>10 DEF PathsTellVolumes
<1>12. DefaultIndex = j
  BY <1>1, <1>9, <1>10 DEF DefaultIndex
<1>13. clover'.default = shown[j]
  <2>. DEFINE c == [clover EXCEPT !.index = DefaultIndex, !.default = shown[j],
                                  !.boot = IF config.first THEN @ ELSE BootDevice]
  <2>1. (IF DefaultIndex \in 1 .. Len(Shown(clover)) THEN Shown(clover)[DefaultIndex] ELSE None) = shown[j]
    BY <1>1, <1>10, <1>12
  <2>2. \/ clover' = Starting(c, shown[j], "fast")
        \/ clover' = EnterMenu([c EXCEPT !.fast = FALSE])
        \/ clover' = EnterMenu(c)
    BY <2>1, Zenon DEF FindDefaultEntry
  <2>3. CloverShape(clover)
    BY DEF EmulationInv
  <2>4. CloverShape(c) /\ c.default = shown[j]
    BY <2>3 DEF CloverShape, Off
  <2>. HIDE DEF c
  <2>. QED
    BY <2>2, <2>4 DEF Starting, EnterMenu, CloverShape, Off
<1>. QED
  BY <1>3, <1>9, <1>10, <1>11, <1>13, EntriesAssumption

\* Whatever was refused, forgotten or lost with the power in between: if Clover
\* has recorded an entry, works with the firmware's own variables and builds its
\* first menu, the default is on the volume of that entry and has its loader if
\* the loader was recorded - provided the paths of the volumes systems are started
\* from tell them apart, and lead to partitions.
THEOREM DefaultIsLastStartedHolds ==
  ASSUME PathsTellVolumes, StartedFromPartitions
  PROVE  MainLoopSpec => DefaultIsLastStarted
<1>. DEFINE Found ==
       LET e == past.recorded IN
       /\ clover.pc = "find" /\ clover'.pc \notin {"find", "off"}
       /\ ~ clover.rescanned /\ ~ config.emu /\ ~ config.first
       /\ e # None /\ e \in {Shown(clover)[i] : i \in Row0(Shown(clover))}
       /\ rt.native["efi-boot-next-data"] = None /\ rt.native["aptiofixflag"] = None
       => /\ clover'.default # None
          /\ clover'.default.volume = e.volume
          /\ RecordedLoader(e) # None => clover'.default.loader = e.loader
<1>1. ASSUME EmulationInv, TypeInv, RecordInv, MainLoopNext PROVE Found
  <2>. SUFFICES ASSUME clover.pc = "find", clover'.pc \notin {"find", "off"},
                       ~ clover.rescanned, ~ config.emu, ~ config.first,
                       past.recorded # None,
                       past.recorded \in {Shown(clover)[i] : i \in Row0(Shown(clover))},
                       rt.native["efi-boot-next-data"] = None, rt.native["aptiofixflag"] = None
                PROVE  /\ clover'.default # None
                       /\ clover'.default.volume = past.recorded.volume
                       /\ RecordedLoader(past.recorded) # None =>
                            clover'.default.loader = past.recorded.loader
    OBVIOUS
  <2>1. FindDefaultEntry
    <3>1. ~ PlugIn
      BY DEF PlugIn
    <3>2. ~ Reset
      <4>1. Off.pc = "off"
        BY DEF Off
      <4>. QED
        BY <4>1 DEF Reset
    <3>. QED
      BY <1>1, <3>1, <3>2
         DEF MainLoopNext, RefitMain, Scan, StartDefault, Refresh, OptionsAndTools, HideToggle,
             EjectVolume, Choose, Exit, Leave, ResetNvram, ResetRound, ResetEnds, ResetRefused,
             LoadFails, Prepare, Record, RecordFails, Start, OSSetVariable, StartReturns, Return
  <2>. QED
    BY <1>1, <2>1, DefaultFound
<1>2. UNCHANGED loopVars => [Found]_loopVars
  OBVIOUS
<1>. QED
  BY <1>1, <1>2, EmulationInvariance, TypeInvariance, RecordInvariance, PTL
     DEF MainLoopSpec, DefaultIsLastStarted
===============================================================================
