# Clover: models and proofs

TLA+ models of the parts of the Clover boot loader whose correctness depends on
the order of things: the boot options and the startup disk it keeps in NVRAM, which
must survive failed writes and resets; the emulated variable store and when it is
switched on and off; the menu a user, a pointer, a timer and the firmware act on
at the same time; and the main loop that ties them together. `PROJECT.json` lists the runs, the source lines every definition
stands for, the hazards and the theorems.

## The system

Clover is a UEFI application. `RefitMain` (`rEFIt_UEFI/refit/main.cpp`) reads the
configuration, scans the volumes for loaders and tools, builds the main menu, lets
the user choose and starts the chosen entry, patching firmware tables and the kernel
on the way. There is one thread; concurrency comes from firmware callbacks, from
input and time, and from a machine that may stop between two NVRAM writes.

| Component | State | Operations | Hard behaviour | What makes it correct |
|---|---|---|---|---|
| Boot options, `Platform/BootOptions.cpp` | `Boot####` variables, `BootOrder` (NVRAM) | add, find, delete one, delete by file, delete by name | two writes per operation; failure or reset between them; copies of `BootOrder` that go stale | every entry of `BootOrder` has its variable and is listed once; deletion is exact; operations end |
| Menu screens, `gui/REFIT_MENU_SCREEN.cpp` | selection, window, paint flags, timeout, pending mouse action, text under edit | open, keys, clicks, wheel, drag, paint, timeout, edit | input racing the timeout; a callback setting `gEvent`; full and partial repaints mixed; signed and unsigned index arithmetic | selection and window stay in the menu; the screen shows the selection; a timeout boots the untouched default |
| Main loop, `refit/main.cpp`, `gui/REFIT_MAINMENU_SCREEN.cpp` | entries with hidden ones, default entry, timeouts, `AfterTool` | scan, find default, run menu, start entry, return, leave | starts that come back; events, ejected disks and toggles between scan and start; the emulation switched on one path and off on others | the default is the entry started last; an unattended machine does not loop; other systems get the firmware's own services |
| NVRAM and startup disk, `Platform/Nvram.cpp` | `efi-boot-device-data`, `efi-boot-device`, `efi-boot-next-data`, `BootCampHD`, `nvram.plist`, parsed copies of them | record, read, find volume, put plist, reset | two writes with a reset or a refusal between them; enumeration while deleting; values cached for the life of the program | the startup volume is the one that was set; a reset leaves nothing it should delete |
| Entry scanners, `entry_scan/` | entry arrays | scan loaders, tools, legacy, custom | duplicates, hidden entries | each bootable volume has its entry |
| Events, `Platform/Events.cpp` | `gEvent`, patch state | callbacks | asynchronous | an event is seen |
| Patchers, ACPI, SMBIOS, device injection | tables | patch | sizes | well-formed tables |
| Emulated NVRAM, `Protocols/EmuVariableUefi` | two logs of variables, last offsets and totals, `mAtRuntime`, the replaced services | set, get, enumerate, query, install, uninstall | logs that never shrink; entries hidden at runtime; enumeration by name with writes in between; unbalanced install and uninstall | a map from names to values, as UEFI specifies it |
| Memory and file system drivers | runtime driver state | memory map, overlay | runtime calls | service contracts |

The components interact by calls: the main loop runs the main menu and, for a tool
entry with the option `BO-ADD` or `BO-REMOVE` (`refit/main.cpp:4147`, `:4163`), calls the boot
options; `Hibernate.cpp:1032` deletes option 0x82. `OnSimpleFileSystem` tells the menu
of a new file system through the variable `gEvent`. The settings menu fills and
applies the text fields that the menu edits. The main loop switches the emulated store by
replacing the services in `gRT`, so every variable the other parts read or write is in one
store or the other depending on the path that led there.

## Modules

| Module | Models |
|---|---|
| `DevicePath` | device paths: building, searching, comparing (`BootOptions.cpp` 134–309) |
| `BootOptions` | the operations on boot options, one step per NVRAM access or loop round |
| `MenuScroll` | `InitScroll` and `UpdateScroll`: selection and window |
| `GenericMenu` | `RunGenericMenu`, `WaitForInputEventPoll`, `CheckMouseEvent`, painting, the event; extends `MenuScroll` |
| `InputDialog` | one text field, its editor, and the setting it is printed from and read into |
| `VariableStore` | what a variable store promises: an abstract map |
| `EmuVariable` | the emulated store, shown to implement `VariableStore` |
| `EmuVariableWalk` | a caller that enumerates it while others write; extends `EmuVariable` |
| `StartupDisk` | recording, parsing and finding the startup disk, as operators |
| `Nvram` | the firmware's variables, the emulated ones and the switch between them; extends `StartupDisk` |
| `MainLoop` | `RefitMain` over several boots; extends `Nvram` |
| `MC*` | the instances TLC checks |
| `*_proofs` | theorems |

**BootOptions.** `bootVar` and `bootOrder` are the NVRAM; an absent `BootOrder` is the
empty sequence. `pc` and `op` are the place and the locals of the running operation.
An operation starts from `idle`; every `SetVariable` is a step with a failing
counterpart (`SaveOption`/`SaveOptionFails`, and so on), and `Reset` ends the
operation anywhere with NVRAM as it is. Each round of the loop that shrinks
`BootOrder` (`ShrinkRound`), of the search (`FindBootOptionForFile`) and of the walk
(`Scan`) is a step. The content of an option is abstracted to whether it parses and
to its path; a file name to its identity and whether it has a leading backslash, since
that is what the comparison's length test tells apart. `op.var0`, `op.order0`, `op.at0` and
`op.faults0` remember the start of the operation and are read by properties only.

**MenuScroll.** `scroll` is `SCROLL_STATE`. Each movement of `UpdateScroll` is an
operator on that record and `UpdateScroll` adds what the code does before and after
the switch. `ScrollNext` allows every movement, every click that selects, every
paint and a reopened menu in any order, which is more than a menu does; the loop of
`GenericMenu` is shown to refine it.

**GenericMenu.** `pc` is the part of the loop's round that is next: paint, look at
`gEvent`, wait, apply the mouse action, read and apply a key, or a dialog. While
waiting, the next step is the user's (`KeyEvent`, `ClickEntry`, `Grab`, `Drag` ...) or
the clock's (`NoInput`). `OnSimpleFileSystem` may come at any step. `lit` is what the screen shows
as selected, changed by the two painting functions. A click may hit any entry,
because entries that have scrolled away keep their rectangles; two clicks are a double
click wherever the first was. `unpainted` records that a dialog which a double click
opened was left by ESC before it painted, which leaves the old entry lit. `strayed` records
that PAGE_DOWN, or a click on an entry that was scrolled away, has put the selection above the window
since the menu was opened. Both variables are read by properties only.
`ActionOptions` is left out, as no entry has it.

**InputDialog.** `value`, `shift`, `row` are the field, `pos` and `backup` the dialog's
locals; `row` is where the cursor is kept between dialogs. `setting` is the member of `gSettings`
that the field is about, in one of three kinds: the boot arguments (input item 0 of `refit/menu.cpp`), a decimal number
(item 7) and a plain text (items 1 and 2). `FillInputs` prints the setting, old or newly configured, into a
field that is not being edited (`Shown`, `Printed` for `%02d`). ENTER calls `ApplyInputs`, which reads the text
into the setting (`Applied`) and leaves the text: backslashes of the arguments become
underscores (`ReplaceAll`), a number is read up to its first other character and masked (`StrDecimalToUintn`).
`ChooseLoadOptions` is the details menu of a loader, which changes the arguments behind the
field. `copied`, `entered` and `refilled` are read by properties only. A digit is its number,
any other character a model value. Of the other number fields the base, the width and the mask differ; they are left out.

**EmuVariable.** `store` holds the two logs; an entry keeps its name, attributes, data and
state, and `VarSize` gives its aligned size. `lastOffset`, `commonTotal` and `hwErrTotal` are
the driver's counters. `EmuSetVariable` is one action with the branches of `UpdateVariable`: refused,
deleted, the same data, replaced, created. At boot time the call holds a lock and at runtime the
operating system serialises the calls, so a call is a step. Reading functions are
operators. The refinement mapping to `VariableStore` takes what `EmuGetVariable` returns for
each name; `VariableStore` says which names and answers a call may change, and that a replacement
for which there is no room may lose the old value (`Lose`), because the code marks the old entry first.

**EmuVariableWalk.** `walk` is a caller between two calls of `EmuGetNextVariableName`. Any call of `EmuVariable`
may come in between. `seen`, `stable` and `derailed` are read by properties only.

**StartupDisk.** A device path is the sequence of its nodes; a node keeps what the comparisons
look at; the hard drive nodes are partitions of a GPT, so that each has a GUID. The three searches of `FindStartupDiskVolume` are sets of entries tried in the code's order.

**Nvram.** The emulated store is used through what `EmuVariable` promises, with variables of
size one: a map and the length of each log, so that a log can fill up. `InstallEmulation`
deletes and writes every variable of the firmware again (`EmuSetAll`); so does the plist
(`PutDictToNvram`), in one step: a reset or a refused write in the midst of it is left out.

**MainLoop.** `clover.pc` is the part of the program that is next. `RefitMain`, `Scan` and
`FindDefaultEntry` follow the code; in the menu the next step is a timeout (`StartDefault`), the
user's (`Choose`, `OptionsAndTools`, `HideToggle`, `EjectVolume`, `ResetNvram`, `Exit`) or the
event's (`Refresh`). Starting an entry takes several steps: `Prepare` ends the emulation or
not, every write of `SetStartupDiskVolume` is a `Record`, which may be refused, and a running system may write
variables and may return. `Reset` may happen anywhere and keeps the non-volatile variables of the
firmware. `past` is read by properties only: the entry last recorded, and how many entries
were started since somebody touched the machine. What an action of the menu does
to its screen is in `GenericMenu`; what the Clover entry does to boot options, in `BootOptions`.

## Runs

Faults: a failed write or a reset. All passing runs explore the whole state space of
their instance; deadlock is checked in all of them.

| Run | Instance | Shows |
|---|---|---|
| `boot_options` | 3 slots, orders up to 3, index 0 and one beyond every order, 2 faults, healthy start | `TypeOK`, `IndexInBuffer`, `HealthyWithoutFaults`, `DamageBounded`, `AddKeepsRelativeOrder`, `OperationReturns` |
| `boot_options_files` | 3 slots, 4 files on a volume with and one without a hard drive node, long, short, network and unparsable options, no faults | `DeleteForFileExact`, `DeleteContainingExact` |
| `menu_scroll` | one and two rows of 1 to 9 entries, windows of 2, 3, 4 and all, defaults in, at the edge and outside | `ScrollTypeOK`, `WindowInRow`, `SelectionInMenu`, `WindowMovesArePainted`, `FollowShowsSelection` |
| `generic_menu` | a main menu (3 + 2 entries) and an options menu (4), window of 2, timeout 1, drags of 2 lines, 1 event, 1 event without a key | `MenuTypeOK`, `TimeoutBootsDefault`, `ScreenShowsSelection`, `PaintsInArray`, refinement of `ScrollSpec` |
| `menu_liveness` | 3 entries, window of 2 | `UntouchedMenuEnds`, `EventLeavesMenu` |
| `input_dialog` | three kinds of field, a backslash and the digit 9 typed, line of 2, texts up to 3, numbers of 2 and 3 digits, mask of 7 bits | `DialogTypeOK`, `ShiftInText`, `FieldMeetsSetting`, `ConfirmKeepsSetting` |
| `emu_variable` | 3 names (one of hardware errors, one of the vendor whose writes are dropped), 2 data, one of them larger, stores of size 3 with a header of 1 and 1 for hardware errors | `EmuTypeOK`, `OneVisible`, `LogsFit`, `QueryAgreesWithCounters`, `LogOnlyGrows`, `ImplementsStore` |
| `emu_walk` | 3 interchangeable names, room for 2 non-volatile and 3 volatile entries | `WalkPosition`, `WalkComplete` |
| `main_loop` | 5 volumes on 2 disks, one of them removable, 7 entries, 8 variables, logs of 3, 6 settings, 3 first NVRAMs, one plist | `LoopTypeOK`, `OthersBootNative`, `OneAddressChangeEvent`, `NoBootLoop`, `DefaultIsLastStarted`, `ResetClears` |

The bounds are chosen so that what matters happens: three slots are enough for an
option to be removed in the middle, its number to be used again, and an entry to be
listed twice; two faults, for damage to meet damage. The menus have entries above,
in and below the window and, with nine entries and a window of two, pages that overshoot
at both ends. The menu of `generic_menu` is too short for PAGE_DOWN to leave the selection above the window
(`menu_scroll` has that, with 8 entries and a window of 3); clicks put it there, and the theorem covers every size.
A line of two with texts of three shifts, and can be shortened while shifted; 99 is below the mask and 999
beyond it, as is the configured 200, and a backslash ends a number and is replaced in the arguments. That the reader of
decimals computes the number's remainder is evaluated for 0 to 999 with spaces before and text behind (`ReadsDecimals`).
The emulated stores fill up, so that a replacement is lost, and hold a deleted, a hidden and a visible
entry of one name; states that differ only in the status of the last call, which no action reads, are
taken as one (`VIEW`), and so are permutations of the names in `emu_walk`. In `main_loop` the settings cover both stores, a timeout of five, zero and none,
fast boot, hibernation, a configured and a recorded default, and `BootFirstAvailable`; the
NVRAMs have a machine about to wake and a Boot Camp disk; the entries, one of each
kind of system, a hidden one, a legacy one and two loaders of one partition; logs of three fill after one rescan.

**Fairness.** `boot_options` assumes that the processor goes on with a started operation
(`WF(Progress)`), and that writes do not fail for ever: the loop of
`DeleteBootOptionForFile` ignores the status of the deletion, so a firmware that
refuses every write keeps it going. `menu_liveness` assumes that the loop goes on
and that a second without input passes (`WF(NoInput)`): `WaitForInputEventPoll` is a
loop of 100 waits of 10 ms each. Events without a key are bounded by `MaxSpurious`;
no fairness is assumed of the user, so the two properties except a user who stays in a dialog.

**Where the code and its comments disagree.** Three runs expect a violation:

* `add_drops_entries`: the loop of `AddToBootOrder` that removes dead entries
  tests the option whose number is the *position* (`GetBootOption(Index, ...)`), so
  entries of existing options are dropped when adding.
* `delete_leaves_entry`: reset during a deletion, number used again and listed
  twice; a later deletion reports success and leaves one of the two.
* `emulation_for_macos`: the driver sets `EmuVariableUefiPresent` for scripts of macOS, but
  `FindDefaultEntry` ends the emulation on every way out and nothing installs it again, so
  that macOS runs with the firmware's services.

Found on the way and not given a run: names that differ by the leading backslash never
compare equal, because the lengths of the nodes are compared first
(`BootOptions.cpp:252`, against the comment at 277); on a screen with room for one entry
PAGE_DOWN from the first selects entry -1 (`REFIT_MENU_SCREEN.cpp:332`); clicks on the scroll
bar's background have no handler (913, against the comment at 2001); the repository's
`README.md:18` gives Page Up and Page Down a meaning that only F9 has; without
`BootOrder` an added option stays orphaned; PAGE_DOWN compares with the old end of the
window, moves it a second page and leaves the selection off the screen (343); without
loaders `MaxVisible` is -1, and page up, a click and a turn of the wheel select entry -1 (189);
END in a text that was shortened while shifted puts the cursor beyond its end (577);
with the selection above the window, after PAGE_DOWN or a click on a rectangle that an entry no longer has (2012),
LINE_DOWN repaints with a negative index (`REFIT_MAINMENU_SCREEN.cpp:499`).
ENTER in a settings field without an edit changes a configured number beyond the mask (200 becomes 72, `menu.cpp:539`)
and replaces configured backslashes (502); options chosen in a details menu become the boot arguments without being shown
in their field, where ENTER puts the old ones back (`REFIT_MAINMENU_SCREEN.cpp:816`).
Of the variables: `EmuQueryVariableInfo` does not count the newest entry
(`EmuVariable.c:1584`); every installation leaves one more `ExitBootServices` event
(`InitVariable.c:446`); with the emulation the startup disk is recorded as volatile in
the firmware, where it replaces a persistent one (`Nvram.cpp:1492`), a rescan puts the plist there
too (`main.cpp:3742`), and F11 clears the emulated copy only (`Nvram.cpp:1550`); the parsed
startup disk outlives a reset of NVRAM (`Nvram.cpp:795`); a file system that arrives between the scan
and `gEvent = 0` (`main.cpp:3889`) is not noticed.

## Proofs

All theorems hold for every value of the constants that satisfies the `ASSUME`s of the
modules, which state the types of the parameters. Where a theorem has a hypothesis beyond
them it is named here. `SpecAny` starts from any NVRAM of the right type, also one that an
interrupted or failing operation has damaged.

* `BootOptions_proofs`. `TypeCorrect` and `InsertInBounds` hold from any NVRAM; their
  invariant `TInv` adds `SlotFree`, that the slot to be written is still free.
  `HealthPreserved` needs to know what holds in the middle of an operation
  (`HealthyInside`): until the first fault, `BootOrder` is healthy but for the entry that a
  deletion has yet to remove, and the copy that an addition edits is healthy and does
  not hold the new number. Without the last part inserting could list a number twice.
  `DamageIsBounded` rests on `DamageInside`: while an addition edits its copy the new variable is
  written, and the copy wastes no more than the faults so far allow without it; what a
  deletion is about to unlist is gone. The damage is a
  cardinality, which the lemmas about `Waste` bound with the library's facts on finite sets.
  `AddKeepsOrder` (`SpecAny`) follows the copy through the shrinking loop (`AddInside`): `BootOrder` is not
  written before the end, and after every round what is left in the copy is in its order
  (`InOrder`), so that the result adds the new number and reorders nothing. `ForFileExact` and `ContainingExact`
  (`SpecAny`) are the exactness of the two deleting loops; their invariant `DeleteInside`
  relates the NVRAM that the call found to the one it has reached (`SoFar`): only options
  to be deleted are gone, and `BootOrder` has lost their entries but for the one whose
  variable was deleted in the step before. For the walk over the copy, `WalkInside` adds that nothing to
  be deleted lies behind it. `MatchesForFile` shows that the comparison of file paths is equality.
* `MenuScroll_proofs`, for menus whose scrolling row has an entry. `WindowStaysInRow`,
  `ScrollTypeCorrect` and `WindowMovesPainted` rest on `WindowInv`: the geometry that `InitScroll`
  establishes together with the window's place. Every movement returns one of
  the form `Result`, from which all three follow once. `SelectionStaysInMenu` and
  `FollowBringsIntoWindow` also need room for two entries; both hypotheses are necessary (see above).
* `GenericMenu_proofs`. `MenuScrolls` is the refinement: every step of a menu with its keys,
  timeout, dialogs and events is a step of `MenuScroll` or leaves the scroll state
  alone, so the theorems about scrolling hold of menus. `TimeoutIsUntouched` rests on
  `TimeoutInv`: as long as the countdown runs nobody has touched the menu and the selection is the default.
  `MenuTypeCorrect` and `ScreenIsTrue`, for menus whose scrolling row has an entry, rest on
  `ItemInv` (a mouse action that selects is on an entry), `InfoInv` (none enters a line of
  information) and `ScreenInv`, which says for each part of the loop whether the screen is
  true (`Good`) or which pending paint puts it right (`Mendable`, PAINT_ALL).
  `PartialPaintsInArray`, also for menus with an entry in the scrolling row, rests on `PaintInv`: until the menu has
  `strayed` the selection is never above the window, nor is the last one when a partial repaint is due. It needs a
  lemma per movement (`MovedNotAbove` in `MenuScroll_proofs`), for all but PAGE_DOWN.
* `InputDialog_proofs`. `ShiftStaysInText` and `DialogTypeCorrect` rest on
  `ShiftInv`, which adds the same fact about what ESC would restore;
  `FieldStaysWithSetting` on `BackupMeetsSetting`, that ESC would restore a text which goes with the setting.
  `ConfirmChangesNothing` rests on the round trip of `Printed` and `StrDecimalToUintn` for every number below the mask, and of `ReplaceAll`,
  which applied twice does what it does once. The reader is a recursive function; that it exists is `IterationExists` of
  `Least_proofs`.
* `EmuVariable_proofs`. `EmuInvariance` rests on `EmuInv`, the conjunction of `EmuTypeOK`,
  `OneVisible` and `LogsFit`: none of them is inductive alone, since what `FindVariable` finds
  decides what is marked, appended and counted. `ExitBootServices` only hides entries, and a name
  that is hidden may be created again without a second entry becoming visible. `EmuTypeCorrect` and
  `EmuLogsFit` are its parts. `QueryAgrees` rests on `CountersInv`: each counter is the sum of the sizes of
  the entries of its kind, whatever their state. A sum over a log is a recursive function;
  that it exists and that a log which only grew and was marked keeps its sums is proved
  by least counterexample, with the lemmas of `Least_proofs` (a non-empty set of
  numbers has a least one; sums of the same sizes agree).
  `EmuLogOnlyGrows` and `EmuSuccessIsStored` follow step by step; `EmuImplementsStore`
  shows what each branch of `UpdateVariable` does to the entry `FindVariable` finds for every name, and maps
  it to a step of `VariableStore`. For the enumeration (`EmuVariableWalk`), `WalkInv` is `EmuInv` with
  `WalkPosition`; a step of another caller moves no variable that it does not write, because logs
  only grow.
* `StartupDisk_proofs`. The round trip of recording, parsing and finding, for all paths and menus:
  `RecordedLoaderIsFound`, and `RecordedVolumeIsFound` where the path has a media node.
* `MainLoop_proofs`, for all menus, settings, NVRAMs and writes of the system.
  `OneAddressChangeEventHolds` and `OthersBootNativeHolds` rest on `EmulationInv`: the event
  goes with the services, and between `Prepare` and the return of a system that ends the emulation it is off.
  `NoBootLoopHolds` rests on `StartsInv`, which bounds the unattended starts at each place: one of a fast
  boot, one of the timeout and, as the flags of hibernation and of a special boot stay, one more
  of a fast boot. `ResetClearsHolds` rests on
  `ResetInv`: what is before the place of the enumeration cannot be deleted or is not there.
  `LoopTypeCorrect` needs that the logs of the emulated store stay within their bounds when the
  loop writes, ends the emulation or reads `nvram.plist` again. `DefaultIsLastStartedHolds` rests on
  `RecordInv`: on the firmware's variables, what was recorded last is in the variable and outlives a
  reset, and what is going to be recorded is of the entry that is started. It has two hypotheses about the machine,
  both evaluated by TLC for the checked instance: of the volumes systems are started from no two have paths
  that the search takes for equal (`PathsTellVolumes`), and all are partitions (`StartedFromPartitions`).

Only model-checked: the liveness properties `OperationReturns`, `UntouchedMenuEnds` and
`EventLeavesMenu`, since the prover has neither fairness nor `ENABLED`. Every other property of a
passing run is stated by a theorem. The three disagreements are
counterexamples and need no proof.

## Not modelled

Pixels, text layout, animation, sound, logging and the printing functions other than of a settings field; the byte
layout of a load option; allocation failures; the contents of settings. Entry
scanners, patchers, injectors and configuration are data transformations without a protocol;
`MainLoop` takes the entries they find as given by the disks that are there.
Of the emulated store: `AutoUpdateLangVariable`, a store handed over in a HOB, the conversion of pointers. Of NVRAM and the main
loop: running on the firmware CloverEFI (`gFirmwareClover`), `BootCurrent`, the variables
deleted just before macOS starts, the functions that make values of settings from
variables, sub menus, tools, and what the settings menu changes.
EDK2 is the platform and is represented by the results its services may return; OpenCore is an
empty submodule here.

## Plan

Done: the modules above, from the boot options to the main loop, and their proofs. Next, in
order of importance:

1. An abstract main menu (an exit, an entry, whether `gEvent` was consumed) that `GenericMenu` is
   shown to implement and `MainLoop` uses, with the events between scan and wait.
2. `LoadOption`: parsing and compiling a load option as pure functions on sizes, round trip
   over bounded inputs.
3. `EntryArray` and the scanners: visible and hidden entries, the index that skips hidden
   ones, duplicates.
4. `AutoUpdateLangVariable`, two variables kept in step, with failing writes.
5. Proofs: that the hypotheses of the scrolling theorems (an entry in the scrolling row, room for two)
   cannot be dropped; the main loop's use of the emulated store as a refinement of
   `VariableStore`; the theorems of the components above.
