-------------------------------- MODULE Nvram ---------------------------------
(***************************************************************************)
(* The variables of Platform/Nvram.cpp and the two stores they can be in:  *)
(* the firmware's own, and the one of the EmuVariableUefi driver, which    *)
(* Clover switches on and off by replacing the runtime services.  The      *)
(* emulated store is EmuVariable seen through what it promises, with every *)
(* variable of size one.                                                   *)
(***************************************************************************)
EXTENDS StartupDisk, FiniteSets

CONSTANTS KeyOrder,    \* the variables in the order the stores enumerate them
          Deletable,   \* those whose vendor IsDeletableVariable knows
          Capacity     \* of either log of the emulated store

Key == {KeyOrder[i] : i \in 1 .. Len(KeyOrder)}
Position(k) == CHOOSE i \in 1 .. Len(KeyOrder) : KeyOrder[i] = k

\* The empty name, which starts an enumeration and is the name of no variable.
NoName == ""

ASSUME KeyAssumption ==
  /\ Len(KeyOrder) \in Nat
  /\ \A i, j \in 1 .. Len(KeyOrder) : KeyOrder[i] = KeyOrder[j] => i = j
  /\ NoName \notin Key
  /\ {"efi-boot-next-data", "efi-boot-device-data", "efi-boot-device", "aptiofixflag",
      "specialbootdevice", "BootCampHD", "EmuVariableUefiPresent"} \subseteq Key
  /\ Deletable \subseteq Key
  /\ Capacity \in Nat

\* A variable is [nv |-> it is non-volatile, data |-> what it holds], or None.
NoVariables == [k \in Key |-> None]
NoEmulation == [value |-> NoVariables, used |-> [nv \in BOOLEAN |-> 0]]

\* rt.native     the firmware's variables
\* rt.emu        the emulated ones, and the length of the two logs
\* rt.installed  gRT points to the services of the emulation
\* rt.events     open address change events of the emulation
PoweredOn(native) ==
  [native |-> native, emu |-> NoEmulation, installed |-> FALSE, events |-> 0]

\* What GetVariable finds.
Vars(rt) == IF rt.installed THEN rt.emu.value ELSE rt.native
Values(rt) ==
  [k \in Key |-> IF Vars(rt)[k] = None THEN None ELSE Vars(rt)[k].data]

\* A reset or a loss of power.
Persistent(native) ==
  [k \in Key |-> IF native[k] = None \/ ~ native[k].nv THEN None ELSE native[k]]

-------------------------------------------------------------------------------
(* SetVariable *)

Variable(nv, data) == [nv |-> nv, data |-> data]

\* A faulty variant: one variable too many.
RoomAtEnd(emu, nv, n) == emu.used[nv] + n <= Capacity + 1

\* The log has room for n more variables.
HasRoom(emu, nv, n) == emu.used[nv] + n <= Capacity

\* RuntimeServiceSetVariable: when the log it goes to is full the old value is
\* lost as well.
EmuSet(emu, k, var) ==
  IF var = None THEN [emu EXCEPT !.value[k] = None]
  ELSE IF emu.value[k] # None /\ emu.value[k].data = var.data THEN emu
  ELSE IF HasRoom(emu, var.nv, 1)
    THEN [emu EXCEPT !.value[k] = var, !.used[var.nv] = @ + 1]
  ELSE [emu EXCEPT !.value[k] = None]

\* Every variable of new is deleted and written, in the order of the keys: one is
\* lost when those before it have filled its log.
EmuSetAll(emu, new) ==
  LET written(nv, last) == {i \in 1 .. last : /\ new[KeyOrder[i]] # None
                                              /\ new[KeyOrder[i]].nv = nv}
      fits(nv, last) == HasRoom(emu, nv, Cardinality(written(nv, last)))
  IN  [value |-> [k \in Key |->
                    IF new[k] = None THEN emu.value[k]
                    ELSE IF fits(new[k].nv, Position(k)) THEN new[k] ELSE None],
       used |-> [nv \in BOOLEAN |->
                    emu.used[nv] + Cardinality({i \in written(nv, Len(KeyOrder)) : fits(nv, i)})]]

\* gRT->SetVariable when it is carried out.
SetVariable(rt, k, var) ==
  IF rt.installed THEN [rt EXCEPT !.emu = EmuSet(@, k, var)]
  ELSE [rt EXCEPT !.native[k] = var]

\* A variable with other attributes is deleted before it is written.
Conflict(old, new) == old # None /\ new # None /\ old.nv # new.nv

-------------------------------------------------------------------------------
(* Switching the emulation *)

\* Every variable is deleted in the emulated store and written.
CopyRTVariables(native, emu) == EmuSetAll(emu, native)

Present == Variable(FALSE, << "Yes" >>)

\* A faulty variant: the emulation is installed over itself.
AlreadyStarted(rt) == FALSE

\* gRT->GetVariable == RuntimeServiceGetVariable
Started(rt) == rt.installed

InstallEmulation(rt) ==
  IF Started(rt) THEN rt
  ELSE [native |-> rt.native,
        emu |-> EmuSet(CopyRTVariables(rt.native, rt.emu), "EmuVariableUefiPresent", Present),
        installed |-> TRUE,
        events |-> rt.events + 1]

\* There is nothing to close when the emulation is not installed.
UninstallEmulation(rt) ==
  [rt EXCEPT !.installed = FALSE, !.events = IF @ = 0 THEN 0 ELSE @ - 1]

-------------------------------------------------------------------------------
(* nvram.plist *)

\* The variables PutDictToNvram leaves out.
Skipped == {"EmuVariableUefiPresent"}

\* PutDictToNvram: dict[k] is what the file holds for k, or None.  SetNvramVariable
\* does not write what is there already.
PutToEmulated(emu, dict) ==
  EmuSetAll(emu, [k \in Key |->
    IF dict[k] = None \/ k \in Skipped \/ emu.value[k] = Variable(FALSE, dict[k]) THEN None
    ELSE Variable(FALSE, dict[k])])
PutToNative(native, dict) ==
  [k \in Key |-> IF dict[k] = None \/ k \in Skipped THEN native[k]
                 ELSE Variable(FALSE, dict[k])]
PutDictToNvram(rt, dict) ==
  IF rt.installed THEN [rt EXCEPT !.emu = PutToEmulated(@, dict)]
  ELSE [rt EXCEPT !.native = PutToNative(@, dict)]

\* PutNvramPlistToRtVars; None is a plist that is not there.
PutNvramPlistToRtVars(rt, dict) == IF dict = None THEN rt ELSE PutDictToNvram(rt, dict)

-------------------------------------------------------------------------------
(* ResetNativeNvram *)

\* GetNextVariableName after name: NoName is the start and, as an answer,
\* EFI_NOT_FOUND, also when the name is not there any more.
GetNextVariableName(rt, name) ==
  LET at == IF name = NoName THEN 0 ELSE Position(name)
      next == FirstIndex({i \in at + 1 .. Len(KeyOrder) : Vars(rt)[KeyOrder[i]] # None})
  IN  IF next = 0 \/ (name # NoName /\ Vars(rt)[name] = None) THEN NoName
      ELSE KeyOrder[next]

\* A faulty variant: the enumeration goes on from the variable it deleted.
FromDeleted(k) == k

\* Where it goes on after k was deleted: from the start.
Restart(k) == NoName
===============================================================================
