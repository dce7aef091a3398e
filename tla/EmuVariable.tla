----------------------------- MODULE EmuVariable ------------------------------
(***************************************************************************)
(* The emulated variable store (Protocols/EmuVariableUefi): two logs, one  *)
(* of non-volatile and one of volatile variables, to which every write     *)
(* appends and from which nothing is ever reclaimed, both in memory.       *)
(*                                                                         *)
(* A call holds the VariableServicesLock at boot time and the operating system *)
(* runs the calls one by one at runtime, so a call is one step.  The keys  *)
(* are those AutoUpdateLangVariable ignores.                               *)
(***************************************************************************)
EXTENDS Integers, Sequences

CONSTANTS Key,               \* names with their vendor GUIDs
          Data,              \* what a variable may hold; never empty
          AttributeSets,     \* the attribute masks callers pass
          HwErrKey,          \* keys whose name begins with HwErrRec
          DellKey,           \* keys of the vendor DellEventGuid
          VarSize,           \* the aligned size of a variable with its header
          MaxVariableSize,   \* PcdMaxVariableSize
          MaxHwErrSize,      \* PcdMaxHardwareErrorVariableSize
          HwErrStorageSize,  \* PcdHwErrStorageSize
          HeaderSize,        \* sizeof (VARIABLE_STORE_HEADER)
          StoreSize          \* PcdVariableStoreSize

AttributeBit == {"NV", "BS", "RT", "HR", "AW"}

ASSUME KeyAssumption == HwErrKey \subseteq Key /\ DellKey \subseteq Key
ASSUME AttributeSetsAssumption == AttributeSets \subseteq SUBSET AttributeBit
ASSUME SizeAssumption ==
  /\ VarSize \in [Key \X Data -> Nat \ {0}]
  /\ MaxVariableSize \in Nat /\ MaxHwErrSize \in Nat
  /\ HwErrStorageSize \in Nat /\ HeaderSize \in Nat /\ StoreSize \in Nat
  /\ HeaderSize + HwErrStorageSize <= StoreSize

\* SetVariable with DataSize 0.
NoData == << >>
ASSUME DataAssumption == NoData \notin Data

VARIABLES
  store,        \* the two logs
  lastOffset,   \* NonVolatileLastVariableOffset and VolatileLastVariableOffset
  commonTotal,  \* CommonVariableTotalSize
  hwErrTotal,   \* HwErrVariableTotalSize
  mAtRuntime,   \* ExitBootServices has been called
  status        \* what the last call that sets or deletes returned

totals == << lastOffset, commonTotal, hwErrTotal >>
emuVars == << store, totals, mAtRuntime, status >>

\* The indices of the stores, as in FindVariable: 0 is non-volatile.
NonVolatile == 0
Volatile == 1

States == {"ADDED", "IN_DELETED_TRANSITION", "DELETED"}
Entry == [key : Key, attr : AttributeSets, data : Data, state : States]

-------------------------------------------------------------------------------
(* Looking a variable up *)

Slots == UNION {{i} \X (1 .. Len(store[i])) : i \in {NonVolatile, Volatile}}
At(s) == store[s[1]][s[2]]

\* A faulty variant: variables without runtime access stay visible.
VisibleAlways(s) == At(s).state = "ADDED"

\* The test FindVariable and EmuGetNextVariableName make of an entry.
Visible(s) ==
  /\ At(s).state = "ADDED"
  /\ mAtRuntime => "RT" \in At(s).attr

\* The order of a walk: the non-volatile log, then the volatile one.
Before(s, t) == s[1] < t[1] \/ (s[1] = t[1] /\ s[2] < t[2])
First(S) == CHOOSE s \in S : \A t \in S : s = t \/ Before(s, t)

NULL == << >>
Matches(k) == {s \in Slots : Visible(s) /\ At(s).key = k}
FindVariable(k) == LET m == Matches(k) IN IF m = {} THEN NULL ELSE First(m)

\* EmuGetVariable: the attributes and the data, or nothing.
EmuGetVariable(k) ==
  LET s == FindVariable(k) IN IF s = NULL THEN << >> ELSE << At(s).attr, At(s).data >>

-------------------------------------------------------------------------------
(* Space *)

StoreOf(a) == IF "NV" \in a THEN NonVolatile ELSE Volatile

\* A faulty variant: hardware error records are not told apart.
FitsOneRegion(a, size) == size + lastOffset[StoreOf(a)] <= StoreSize

\* Is there room for one more entry?
Fits(a, size) ==
  \/ /\ {"NV", "HR"} \subseteq a
     /\ size + hwErrTotal <= HwErrStorageSize
  \/ /\ "NV" \in a /\ "HR" \notin a
     /\ size + commonTotal <= StoreSize - HeaderSize - HwErrStorageSize
  \/ /\ "NV" \notin a
     /\ size + lastOffset[Volatile] <= StoreSize

\* A faulty variant: the counters are taken for the space that is left.
AccountDown(a, size) ==
  /\ lastOffset' = [lastOffset EXCEPT ![StoreOf(a)] = @ - size]
  /\ hwErrTotal' = hwErrTotal - (IF {"NV", "HR"} \subseteq a THEN size ELSE 0)
  /\ commonTotal' = commonTotal - (IF "NV" \in a /\ "HR" \notin a THEN size ELSE 0)

\* The offsets and totals after an entry was written.
Account(a, size) ==
  /\ lastOffset' = [lastOffset EXCEPT ![StoreOf(a)] = @ + size]
  /\ hwErrTotal' = hwErrTotal + (IF {"NV", "HR"} \subseteq a THEN size ELSE 0)
  /\ commonTotal' = commonTotal + (IF "NV" \in a /\ "HR" \notin a THEN size ELSE 0)

\* The state of an entry is changed in place.
Marked(e, state) == [e EXCEPT !.state = state]
Mark(logs, s, state) ==
  [logs EXCEPT ![s[1]] = [logs[s[1]] EXCEPT ![s[2]] = Marked(logs[s[1]][s[2]], state)]]

AppendTo(logs, k, a, d) ==
  [logs EXCEPT ![StoreOf(a)] =
     Append(@, [key |-> k, attr |-> a, data |-> d, state |-> "ADDED"])]

-------------------------------------------------------------------------------
(* EmuSetVariable *)

Answer(st) ==
  /\ status' = st
  /\ UNCHANGED << store, totals, mAtRuntime >>

\* The checks of EmuSetVariable.
BadParameters(k, a, d) ==
  \/ "AW" \in a
  \/ a \cap {"RT", "BS"} = {"RT"}
  \/ "HR" \in a /\ k \notin HwErrKey
  \/ d # NoData /\ VarSize[<< k, d >>] > (IF "HR" \in a THEN MaxHwErrSize ELSE MaxVariableSize)

\* No data or no access: the variable is to be deleted.
Deletes(a, d) == d = NoData \/ a \cap {"RT", "BS"} = {}

SetRefused(k, a, d) ==
  /\ k \notin DellKey
  /\ BadParameters(k, a, d)
  /\ Answer("INVALID_PARAMETER")

\* RuntimeServiceSetVariable drops the writes of one vendor.
SetDell(k) ==
  /\ k \in DellKey
  /\ Answer("SUCCESS")

\* A faulty variant: volatile variables can be written at runtime.
AnyWritable(s) == TRUE

\* At runtime a variable that exists must be in the non-volatile log.
WritableNow(s) == ~ mAtRuntime \/ (s[1] = NonVolatile /\ "NV" \in At(s).attr)

CreatableNow(a) == mAtRuntime => {"NV", "RT"} \subseteq a

\* The part of UpdateVariable that only returns.
UpdateRefused(k, a, d) ==
  LET s == FindVariable(k) IN
  \/ /\ s # NULL
     /\ ~ WritableNow(s)
     /\ Answer(IF s[1] = Volatile THEN "WRITE_PROTECTED" ELSE "INVALID_PARAMETER")
  \/ /\ s = NULL
     /\ Deletes(a, d)
     /\ Answer("NOT_FOUND")
  \/ /\ s = NULL
     /\ ~ Deletes(a, d)
     /\ ~ CreatableNow(a)
     /\ Answer("INVALID_PARAMETER")
  \/ /\ s = NULL
     /\ ~ Deletes(a, d)
     /\ CreatableNow(a)
     /\ ~ Fits(a, VarSize[<< k, d >>])
     /\ Answer("OUT_OF_RESOURCES")

DeleteExisting(k, a, d) ==
  LET s == FindVariable(k) IN
  /\ s # NULL
  /\ WritableNow(s)
  /\ Deletes(a, d)
  /\ store' = Mark(store, s, "DELETED")
  /\ status' = "SUCCESS"
  /\ UNCHANGED << totals, mAtRuntime >>

\* The same data returns at once, whatever the attributes.
SetSameData(k, a, d) ==
  LET s == FindVariable(k) IN
  /\ s # NULL
  /\ WritableNow(s)
  /\ ~ Deletes(a, d)
  /\ At(s).data = d
  /\ Answer("SUCCESS")

\* A faulty variant: the old entry is left alone.
KeepOld(logs, s, state) == logs

\* The old entry, once its successor is written.
Supersede(logs, s, state) == Mark(logs, s, state)

\* Other data: the old entry is marked, the new one is appended and the old one
\* is deleted.  Without room the old one stays marked, and is lost.
Replace(k, a, d) ==
  LET s == FindVariable(k)
      size == VarSize[<< k, d >>]
  IN
  /\ s # NULL
  /\ WritableNow(s)
  /\ ~ Deletes(a, d)
  /\ At(s).data # d
  /\ \/ /\ Fits(a, size)
        /\ store' = AppendTo(Supersede(store, s, "DELETED"), k, a, d)
        /\ Account(a, size)
        /\ status' = "SUCCESS"
     \/ /\ ~ Fits(a, size)
        /\ store' = Supersede(store, s, "IN_DELETED_TRANSITION")
        /\ status' = "OUT_OF_RESOURCES"
        /\ UNCHANGED totals
  /\ UNCHANGED mAtRuntime

Create(k, a, d) ==
  /\ FindVariable(k) = NULL
  /\ ~ Deletes(a, d)
  /\ CreatableNow(a)
  /\ Fits(a, VarSize[<< k, d >>])
  /\ store' = AppendTo(store, k, a, d)
  /\ Account(a, VarSize[<< k, d >>])
  /\ status' = "SUCCESS"
  /\ UNCHANGED mAtRuntime

UpdateVariable(k, a, d) ==
  \/ UpdateRefused(k, a, d)
  \/ DeleteExisting(k, a, d)
  \/ SetSameData(k, a, d)
  \/ Replace(k, a, d)
  \/ Create(k, a, d)

EmuSetVariable(k, a, d) ==
  \/ SetDell(k)
  \/ SetRefused(k, a, d)
  \/ k \notin DellKey /\ ~ BadParameters(k, a, d) /\ UpdateVariable(k, a, d)

\* VariableClassExitBootServicesEvent
ExitBootServices ==
  /\ ~ mAtRuntime
  /\ mAtRuntime' = TRUE
  /\ UNCHANGED << store, totals, status >>

-------------------------------------------------------------------------------
(* The specification *)

\* VariableCommonInitialize; no memory is reserved for the non-volatile store.
EmuInit ==
  /\ store = [i \in {NonVolatile, Volatile} |-> << >>]
  /\ lastOffset = [i \in {NonVolatile, Volatile} |-> HeaderSize]
  /\ commonTotal = 0 /\ hwErrTotal = 0
  /\ mAtRuntime = FALSE
  /\ status = "SUCCESS"

EmuNext ==
  \/ \E k \in Key, a \in AttributeSets, d \in Data \cup {NoData} : EmuSetVariable(k, a, d)
  \/ ExitBootServices

EmuSpec == EmuInit /\ [][EmuNext]_emuVars

-------------------------------------------------------------------------------
(* EmuQueryVariableInfo *)

\* What entry m of log i adds to the error records, or to the other entries.
EntrySize(i, hw, m) ==
  IF ("HR" \in store[i][m].attr) = hw
  THEN VarSize[<< store[i][m].key, store[i][m].data >>] ELSE 0

\* The size of the first n entries of log i that are, or are not, error records.
SizeOf(i, hw, n) ==
  LET f[m \in 0 .. Len(store[i])] == IF m = 0 THEN 0 ELSE f[m - 1] + EntrySize(i, hw, m)
  IN f[n]

MaximumStorage(i, hw) ==
  IF i = Volatile THEN StoreSize - HeaderSize
  ELSE IF hw THEN HwErrStorageSize ELSE StoreSize - HeaderSize - HwErrStorageSize

\* A faulty variant: only the entries that are in use count.
QueriedInUse(i, hw) ==
  IF store[i] = << >> \/ \E n \in 1 .. Len(store[i]) : store[i][n].state = "DELETED" THEN 0
  ELSE SizeOf(i, hw, Len(store[i]) - 1)

\* The walk ends where GetNextVariablePtr finds no further entry, before the
\* last entry has been added.
Queried(i, hw) == IF store[i] = << >> THEN 0 ELSE SizeOf(i, hw, Len(store[i]) - 1)

RemainingVariableStorageSize(i, hw) == MaximumStorage(i, hw) - Queried(i, hw)
-------------------------------------------------------------------------------
(* Properties *)

Statuses ==
  {"SUCCESS", "INVALID_PARAMETER", "WRITE_PROTECTED", "NOT_FOUND", "OUT_OF_RESOURCES"}

\* The type invariant of the two stores, their bookkeeping and the caller.
EmuTypeOK ==
  /\ store \in [{NonVolatile, Volatile} -> Seq(Entry)]
  /\ lastOffset \in [{NonVolatile, Volatile} -> Nat]
  /\ commonTotal \in Nat /\ hwErrTotal \in Nat
  /\ mAtRuntime \in BOOLEAN
  /\ status \in Statuses

\* Whatever was written, replaced, deleted or lost, FindVariable has at most one
\* entry to find for a name: the two logs never hold two values that a caller
\* could read, and the entries with NV are those of the non-volatile log.
OneVisible ==
  /\ \A s, t \in Slots : Visible(s) /\ Visible(t) /\ At(s).key = At(t).key => s = t
  /\ \A s \in Slots : s[1] = StoreOf(At(s).attr)

\* UpdateVariable checks one counter and moves another: together they keep both
\* logs inside their stores, and the common variables out of the space that is
\* reserved for hardware error records.
LogsFit ==
  /\ lastOffset[NonVolatile] = HeaderSize + commonTotal + hwErrTotal
  /\ commonTotal <= StoreSize - HeaderSize - HwErrStorageSize
  /\ hwErrTotal <= HwErrStorageSize
  /\ lastOffset[NonVolatile] <= StoreSize
  /\ lastOffset[Volatile] <= StoreSize

\* The space EmuQueryVariableInfo adds up by walking a log is the space the next
\* write of UpdateVariable has by its counters, but for the newest entry, which
\* that walk does not count.
QueryAgreesWithCounters ==
  LET newest(i, hw) ==
        SizeOf(i, hw, Len(store[i])) - (IF store[i] = << >> THEN 0
                                        ELSE SizeOf(i, hw, Len(store[i]) - 1))
  IN
  /\ RemainingVariableStorageSize(NonVolatile, FALSE) - newest(NonVolatile, FALSE)
       = StoreSize - HeaderSize - HwErrStorageSize - commonTotal
  /\ RemainingVariableStorageSize(NonVolatile, TRUE) - newest(NonVolatile, TRUE)
       = HwErrStorageSize - hwErrTotal
  /\ RemainingVariableStorageSize(Volatile, FALSE) - newest(Volatile, FALSE)
       - SizeOf(Volatile, TRUE, Len(store[Volatile])) = StoreSize - lastOffset[Volatile]

\* A log only grows: no call changes what an entry holds or revives it, and at
\* runtime no call touches an entry that has no runtime access or that is
\* volatile, so what the boot loader left there stays.
LogOnlyGrows ==
  [][\A s \in Slots :
       /\ s \in Slots'
       /\ \/ At(s)' = At(s)
          \/ /\ At(s).state = "ADDED"
             /\ \E st \in States \ {"ADDED"} : At(s)' = Marked(At(s), st)
       /\ mAtRuntime /\ (s[1] = Volatile \/ "RT" \notin At(s).attr) => At(s)' = At(s)]_emuVars

\* The emulated store is a variable store: every call, on whatever log, does to
\* the map of names to values what VariableStore allows, and answers truly.
Abstract == INSTANCE VariableStore WITH
              value <- [k \in Key |-> EmuGetVariable(k)],
              runtime <- mAtRuntime,
              answer <- status
ImplementsStore == Abstract!StoreSpec
===============================================================================
