----------------------------- MODULE BootOptions ------------------------------
(***************************************************************************)
(* The UEFI boot options that Clover adds and removes                      *)
(* (rEFIt_UEFI/Platform/BootOptions.cpp): the variables Boot0000, Boot0001 *)
(* ... and the variable BootOrder that lists them.                         *)
(*                                                                         *)
(* Clover runs one operation at a time, but an operation is a sequence of  *)
(* separate accesses to NVRAM.  Any SetVariable may fail, and the machine  *)
(* may be reset between two of them, so each access is a step of its own.  *)
(* So is each round of the loops that edit or walk a copy of BootOrder.    *)
(***************************************************************************)
EXTENDS DevicePath, Integers, FiniteSets

CONSTANTS File,          \* what callers name: << volume, spelling of a file name >>
          MaxBootNum,    \* last slot number; 0xFFFF in the code
          BootIndexes,   \* the BootIndex values callers ask for
          InitContent,   \* what the options found in NVRAM at the start hold
          MaxInitOrder,  \* length of the longest BootOrder found at the start
          MaxFaults      \* bound on failed writes and resets in a behaviour

ASSUME FileAssumption == File \subseteq Volume \X Spelling
ASSUME MaxBootNumAssumption == MaxBootNum \in Nat
ASSUME BootIndexesAssumption == BootIndexes \subseteq Nat
ASSUME MaxInitOrderAssumption == MaxInitOrder \in Nat
ASSUME MaxFaultsAssumption == MaxFaults \in Nat

BootNum == 0 .. MaxBootNum

\* The content of a Boot#### variable: the device path it holds, or bytes that
\* ParseBootOption refuses.  A path without a file node is a network option.
Unparsable == [parses |-> FALSE, path |-> << >>]
OptionOf(path) == [parses |-> TRUE, path |-> path]
Content ==
  {Unparsable}
    \cup {OptionOf(<< HwNode(v) >>) : v \in Volume}
    \cup {OptionOf(CreateBootOptionDevicePath(f[1], f[2], short)) :
            f \in File, short \in BOOLEAN}

ASSUME InitContentAssumption == InitContent \subseteq Content

VARIABLES
  bootVar,     \* the Boot#### variables that exist: slot number -> content
  bootOrder,   \* BootOrder; << >> stands for a variable that does not exist
  pc,          \* where the running operation is
  op,          \* the arguments and local variables of the running operation
  status,      \* the EFI_STATUS of the last operation that returned
  faults       \* failed writes and resets so far

nvram == << bootVar, bootOrder >>
vars == << bootVar, bootOrder, pc, op, status, faults >>

(***************************************************************************)
(* op.call     the operation a caller has started                          *)
(* op.num      BootNum, the option being added or deleted                  *)
(* op.option   the content AddBootOption writes                            *)
(* op.buf      the operation's own copy of BootOrder                       *)
(* op.index    the loop variable Index (0 based)                           *)
(* op.at       BootIndexNew (0 based)                                      *)
(* op.file     FileDeviceHandle and FileName                               *)
(* op.pattern  the names that contain the FileName that                    *)
(*             DeleteBootOptionsContainingFile is given                    *)
(* op.ret      its ReturnStatus                                            *)
(* op.var0, op.order0   NVRAM when the operation began,                    *)
(* op.faults0  the faults so far, and                                      *)
(* op.at0      the BootIndex asked for; for the properties only            *)
(***************************************************************************)
NoFile == << >>
Idle ==
  [call |-> "none", num |-> 0, option |-> Unparsable, buf |-> << >>, index |-> 0,
   at |-> 0, file |-> NoFile, pattern |-> {}, ret |-> "NOT_FOUND",
   var0 |-> [n \in {} |-> Unparsable], order0 |-> << >>, faults0 |-> 0, at0 |-> 0]

Exists(n) == n \in DOMAIN bootVar
Lists(order, n) == \E i \in 1 .. Len(order) : order[i] = n
Listed(n) == Lists(bootOrder, n)

\* A faulty variant: the element behind it is removed.
RemoveNextIndex(s, i) == SubSeq(s, 1, i + 1) \o SubSeq(s, i + 3, Len(s))

\* s without its element at the 0 based position i: CopyMem of the tail over
\* the element, and one element less.
RemoveIndex(s, i) == SubSeq(s, 1, i) \o SubSeq(s, i + 2, Len(s))

\* A faulty variant: the index is ignored.
InsertAtEnd(s, i, x) == Append(s, x)

\* s with x at the 0 based position i: the three copying loops of AddToBootOrder.
InsertIndex(s, i, x) == SubSeq(s, 1, i) \o << x >> \o SubSeq(s, i + 1, Len(s))

-------------------------------------------------------------------------------
(* Reading options *)

\* FindFreeBootNum: the slots that have no variable.  The code takes the first.
FreeBootNums == {n \in BootNum : ~ Exists(n)}
IsFreeBootNum(n) == n \in FreeBootNums /\ \A m \in FreeBootNums : n <= m

\* A faulty variant: only the short path is looked for.
ShortPathMatches(content, f) ==
  /\ content.parses
  /\ DevicePathEqual(CreateBootOptionDevicePath(f[1], f[2], TRUE), content.path)

\* The test FindBootOptionForFile makes of one option: it parses and its path
\* is the long or the short path of the file.
PathMatches(content, f) ==
  /\ content.parses
  /\ \E short \in BOOLEAN :
       DevicePathEqual(CreateBootOptionDevicePath(f[1], f[2], short), content.path)

\* A faulty variant: the option is the one read when the operation began.
PointedTo(n, f) == n \in DOMAIN op.var0 /\ PathMatches(op.var0[n], f)

\* An entry of BootOrder whose variable is missing is skipped.
PointsTo(n, f) == Exists(n) /\ PathMatches(bootVar[n], f)

\* The entry (0 based) FindBootOptionForFile returns: the first that matches.
FoundAt(f, i) ==
  /\ PointsTo(bootOrder[i + 1], f)
  /\ \A j \in 1 .. i : ~ PointsTo(bootOrder[j], f)

NotFound(f) == \A i \in 1 .. Len(bootOrder) : ~ PointsTo(bootOrder[i], f)

\* The test of DeleteBootOptionsContainingFile: the option parses and its first
\* file path node has the searched text in its name.
NameMatches(content, names) ==
  /\ content.parses
  /\ HasNode(content.path, "file")
  /\ FindDevicePathNodeWithType(content.path, "file")[1].data.name \in names

-------------------------------------------------------------------------------
(* Starting and ending an operation *)

Started(name) ==
  [Idle EXCEPT !.call = name, !.var0 = bootVar, !.order0 = bootOrder, !.faults0 = faults]

Return(st) ==
  /\ pc' = "idle"
  /\ op' = Idle
  /\ status' = st

\* An operation that returns before it has touched NVRAM.
Refuse(st) ==
  /\ pc = "idle"
  /\ Return(st)
  /\ UNCHANGED << nvram, faults >>

Fault ==
  /\ faults < MaxFaults
  /\ faults' = faults + 1

-------------------------------------------------------------------------------
(* AddBootOptionForFile *)

\* Build the path, take the first free slot, compile the option.
AddBootOptionForFile(f, useShortForm, bootIndex) ==
  /\ pc = "idle"
  /\ pc' = "saveOption"
  /\ \E n \in BootNum :
       /\ IsFreeBootNum(n)
       /\ op' = [Started("Add") EXCEPT
                   !.num = n,
                   !.option = OptionOf(CreateBootOptionDevicePath(f[1], f[2], useShortForm)),
                   !.at = bootIndex, !.at0 = bootIndex]
  /\ UNCHANGED << nvram, status, faults >>

\* FindFreeBootNum finds every slot occupied.
AddNoFreeSlot == FreeBootNums = {} /\ Refuse("NOT_FOUND")

\* CreateBootOptionDevicePath refuses a handle that is not a volume, and
\* CompileBootOption refuses optional data of size 0.
AddRefused == Refuse("INVALID_PARAMETER")

\* Faulty variants: an index beyond the end, and one that is always moved down.
UnclampedIndex(i, len) == i
AlwaysShifted(at, i) == at - 1

\* BootIndexNew is at most the length of the order it indexes.
ClampedIndex(i, len) == IF i > len THEN len ELSE i

\* BootIndexNew after the entry at position i has been removed.
ShiftedIndex(at, i) == IF at > i THEN at - 1 ELSE at

\* SetVariable of Boot####; AddToBootOrder then reads BootOrder and clamps the
\* index.  Without a BootOrder it fails, and the new variable stays.
SaveOption ==
  /\ pc = "saveOption"
  /\ bootVar' = [n \in DOMAIN bootVar \cup {op.num} |->
                   IF n = op.num THEN op.option ELSE bootVar[n]]
  /\ \/ /\ bootOrder = << >>
        /\ Return("NOT_FOUND")
     \/ /\ bootOrder # << >>
        /\ pc' = "shrink"
        /\ op' = [op EXCEPT
                    !.buf = bootOrder,
                    !.index = 0,
                    !.at = ClampedIndex(op.at, Len(bootOrder))]
        /\ UNCHANGED status
  /\ UNCHANGED << bootOrder, faults >>

SaveOptionFails ==
  /\ pc = "saveOption"
  /\ Fault
  /\ Return("DEVICE_ERROR")
  /\ UNCHANGED nvram

\* One round of AddToBootOrder's "shrink BootOrder array" loop.  It asks for
\* the option whose number is the loop variable itself, and after a removal it
\* goes on with the next index.
ShrinkRound ==
  /\ pc = "shrink"
  /\ op.index < Len(op.buf)
  /\ op' = IF Exists(op.index)
           THEN [op EXCEPT !.index = op.index + 1]
           ELSE [op EXCEPT !.index = op.index + 1,
                           !.buf = RemoveIndex(op.buf, op.index),
                           !.at = ShiftedIndex(op.at, op.index)]
  /\ UNCHANGED << nvram, pc, status, faults >>

\* The loop ends; the new order is built and saved.
SaveBootOrder ==
  /\ pc = "shrink"
  /\ op.index >= Len(op.buf)
  /\ bootOrder' = InsertIndex(op.buf, op.at, op.num)
  /\ Return("SUCCESS")
  /\ UNCHANGED << bootVar, faults >>

SaveBootOrderFails ==
  /\ pc = "shrink"
  /\ op.index >= Len(op.buf)
  /\ Fault
  /\ Return("DEVICE_ERROR")
  /\ UNCHANGED nvram

-------------------------------------------------------------------------------
(* DeleteBootOption, and the two operations that call it in a loop *)

\* DeleteBootOption ends with status st and control is back at its caller.
\* DeleteBootOptionForFile ignores st; DeleteBootOptionsContainingFile
\* remembers that one deletion succeeded.
DeleteReturns(st) ==
  \/ /\ op.call = "Delete"
     /\ Return(st)
  \/ /\ op.call = "DeleteForFile"
     /\ pc' = "find"
     /\ UNCHANGED << op, status >>
  \/ /\ op.call = "DeleteContaining"
     /\ pc' = "scan"
     /\ op' = [op EXCEPT !.index = op.index + 1,
                         !.ret = IF st = "SUCCESS" THEN st ELSE op.ret]
     /\ UNCHANGED status

DeleteBootOption(n) ==
  /\ pc = "idle"
  /\ pc' = "deleteOption"
  /\ op' = [Started("Delete") EXCEPT !.num = n]
  /\ UNCHANGED << nvram, status, faults >>

\* SetVariable with size 0 deletes Boot####.  On a slot that has no variable the
\* firmware answers EFI_NOT_FOUND, and BootOrder is not looked at.
DeleteOption ==
  /\ pc = "deleteOption"
  /\ \/ /\ Exists(op.num)
        /\ bootVar' = [n \in DOMAIN bootVar \ {op.num} |-> bootVar[n]]
        /\ pc' = "deleteFromOrder"
        /\ UNCHANGED << op, status >>
     \/ /\ ~ Exists(op.num)
        /\ DeleteReturns("NOT_FOUND")
        /\ UNCHANGED bootVar
  /\ UNCHANGED << bootOrder, faults >>

DeleteOptionFails ==
  /\ pc = "deleteOption"
  /\ Fault
  /\ DeleteReturns("DEVICE_ERROR")
  /\ UNCHANGED nvram

\* DeleteFromBootOrder: remove the first entry that is BootNum and save the
\* rest; saving an empty order deletes the variable.
DeleteFromBootOrder ==
  /\ pc = "deleteFromOrder"
  /\ \/ \E i \in 1 .. Len(bootOrder) :
          /\ bootOrder[i] = op.num
          /\ \A j \in 1 .. i - 1 : bootOrder[j] # op.num
          /\ bootOrder' = RemoveIndex(bootOrder, i - 1)
          /\ DeleteReturns("SUCCESS")
     \/ /\ ~ Listed(op.num)
        /\ DeleteReturns("NOT_FOUND")
        /\ UNCHANGED bootOrder
  /\ UNCHANGED << bootVar, faults >>

DeleteFromBootOrderFails ==
  /\ pc = "deleteFromOrder"
  /\ Listed(op.num)
  /\ Fault
  /\ DeleteReturns("DEVICE_ERROR")
  /\ UNCHANGED nvram

DeleteBootOptionForFile(f) ==
  /\ pc = "idle"
  /\ pc' = "find"
  /\ op' = [Started("DeleteForFile") EXCEPT !.file = f]
  /\ UNCHANGED << nvram, status, faults >>

\* One round of its do-while loop: delete what FindBootOptionForFile finds, or
\* return the error of the search.
FindBootOptionForFile ==
  /\ pc = "find"
  /\ \/ \E i \in 0 .. Len(bootOrder) - 1 :
          /\ FoundAt(op.file, i)
          /\ op' = [op EXCEPT !.num = bootOrder[i + 1]]
          /\ pc' = "deleteOption"
          /\ UNCHANGED status
     \/ /\ NotFound(op.file)
        /\ Return(IF bootOrder = << >> THEN "OUT_OF_RESOURCES" ELSE "NOT_FOUND")
  /\ UNCHANGED << nvram, faults >>

\* DeleteBootOptionsContainingFile reads BootOrder once and walks that copy.
DeleteBootOptionsContainingFile(names) ==
  /\ bootOrder # << >>
  /\ pc = "idle"
  /\ pc' = "scan"
  /\ op' = [Started("DeleteContaining") EXCEPT
              !.buf = bootOrder, !.pattern = names, !.ret = "NOT_FOUND"]
  /\ UNCHANGED << nvram, status, faults >>

\* FindBootOptionForFile answers so for a handle that is not a volume.
DeleteForFileRefused == Refuse("OUT_OF_RESOURCES")

DeleteContainingNoOrder == bootOrder = << >> /\ Refuse("NOT_FOUND")

\* A faulty variant: the loop walks BootOrder as it is now.
LiveOrder == bootOrder

\* The array the loop walks.
ScanOrder == op.buf

ScanMatches(n) == Exists(n) /\ NameMatches(bootVar[n], op.pattern)

Scan ==
  /\ pc = "scan"
  /\ \/ /\ op.index < Len(ScanOrder)
        /\ ScanMatches(ScanOrder[op.index + 1])
        /\ op' = [op EXCEPT !.num = ScanOrder[op.index + 1]]
        /\ pc' = "deleteOption"
        /\ UNCHANGED status
     \/ /\ op.index < Len(ScanOrder)
        /\ ~ ScanMatches(ScanOrder[op.index + 1])
        /\ op' = [op EXCEPT !.index = op.index + 1]
        /\ UNCHANGED << pc, status >>
     \/ /\ op.index >= Len(ScanOrder)
        /\ Return(op.ret)
  /\ UNCHANGED << nvram, faults >>

-------------------------------------------------------------------------------
\* The machine is reset in the middle of an operation: NVRAM stays as it is and
\* the operation is forgotten.
Reset ==
  /\ pc # "idle"
  /\ Fault
  /\ Return("RESET")
  /\ UNCHANGED nvram

-------------------------------------------------------------------------------
(* The specification *)

Distinct(s) == \A i, j \in 1 .. Len(s) : s[i] = s[j] => i = j

\* Every entry of BootOrder has its variable, and no entry is listed twice.
Healthy ==
  /\ \A i \in 1 .. Len(bootOrder) : Exists(bootOrder[i])
  /\ Distinct(bootOrder)

\* NVRAM as the firmware or an operating system may have left it.
InitAny ==
  /\ \E S \in SUBSET BootNum : bootVar \in [S -> InitContent]
  /\ \E k \in 0 .. MaxInitOrder : bootOrder \in [1 .. k -> BootNum]
  /\ pc = "idle"
  /\ op = Idle
  /\ status = "SUCCESS"
  /\ faults = 0

Init == InitAny /\ Healthy

Call ==
  \/ \E f \in File, useShortForm \in BOOLEAN, bootIndex \in BootIndexes :
       AddBootOptionForFile(f, useShortForm, bootIndex)
  \/ AddNoFreeSlot
  \/ AddRefused
  \/ \E n \in BootNum : DeleteBootOption(n)
  \/ \E f \in File : DeleteBootOptionForFile(f)
  \/ \E names \in SUBSET Name : DeleteBootOptionsContainingFile(names)
  \/ DeleteForFileRefused
  \/ DeleteContainingNoOrder

Progress ==
  \/ SaveOption
  \/ ShrinkRound
  \/ SaveBootOrder
  \/ DeleteOption
  \/ DeleteFromBootOrder
  \/ FindBootOptionForFile
  \/ Scan

Failure ==
  \/ SaveOptionFails
  \/ SaveBootOrderFails
  \/ DeleteOptionFails
  \/ DeleteFromBootOrderFails
  \/ Reset

Next == Call \/ Progress \/ Failure

Spec == Init /\ [][Next]_vars
SpecAny == InitAny /\ [][Next]_vars

\* The processor keeps executing an operation that has begun.
FairSpec == Spec /\ WF_vars(Progress)

-------------------------------------------------------------------------------
(* Types *)

Status == {"SUCCESS", "NOT_FOUND", "INVALID_PARAMETER", "OUT_OF_RESOURCES",
           "DEVICE_ERROR", "RESET"}
PC == {"idle", "saveOption", "shrink", "deleteOption", "deleteFromOrder", "find", "scan"}
OptionVars == UNION {[S -> Content] : S \in SUBSET BootNum}

Operation ==
  [call : {"none", "Add", "Delete", "DeleteForFile", "DeleteContaining"},
   num : BootNum, option : Content, buf : Seq(BootNum), index : Nat, at : Nat,
   file : File \cup {NoFile}, pattern : SUBSET Name, ret : {"SUCCESS", "NOT_FOUND"},
   var0 : OptionVars, order0 : Seq(BootNum), faults0 : Nat, at0 : Nat]

\* The type invariant of the NVRAM variables and of the locals of
\* BootOptions.cpp; the unsigned BootIndexNew and Index never wrap below 0.
TypeOK ==
  /\ bootVar \in OptionVars
  /\ bootOrder \in Seq(BootNum)
  /\ pc \in PC
  /\ op \in Operation
  /\ status \in Status
  /\ faults \in Nat

-------------------------------------------------------------------------------
(* Properties *)

\* While AddToBootOrder edits its copy, BootIndexNew stays within it, so the
\* loops that build the new array read no entry beyond the end of the old one.
IndexInBuffer == pc = "shrink" => op.at <= Len(op.buf)

\* The positions of an order that are of no use to the firmware when S are the
\* options that exist: entries without a variable, and repetitions.
Useful(order, S) == {n \in BootNum \cap S : Lists(order, n)}
Waste(order, S) == Len(order) - Cardinality(Useful(order, S))

Damage == Waste(bootOrder, DOMAIN bootVar)

\* The entry that DeleteBootOption has yet to remove from BootOrder.
InFlight == IF pc = "deleteFromOrder" /\ Listed(op.num) THEN 1 ELSE 0

\* From a healthy NVRAM, a failed write or a reset spoils at most one entry of
\* BootOrder, and no operation that follows makes the damage spread: reusing
\* the number of a dangling entry makes a repetition of it, never two.
DamageBounded == Damage - InFlight <= faults

\* As long as no write has failed and the machine was not reset, every
\* operation leaves each entry of BootOrder with its variable and listed once.
HealthyWithoutFaults == pc = "idle" /\ faults = 0 => Healthy

\* The slot AddBootOption is about to write has no variable.
SlotFree == pc = "saveOption" => ~ Exists(op.num)

\* What holds inside the operations until the first fault: BootOrder is healthy
\* but for the entry that DeleteBootOption is about to remove, and the copy that
\* AddToBootOrder edits is healthy and does not yet hold the new number.
HealthyInside ==
  faults = 0 =>
    /\ Distinct(bootOrder)
    /\ \A i \in 1 .. Len(bootOrder) :
         Exists(bootOrder[i]) \/ (pc = "deleteFromOrder" /\ bootOrder[i] = op.num)
    /\ pc = "shrink" =>
         /\ Exists(op.num)
         /\ Distinct(op.buf)
         /\ \A i \in 1 .. Len(op.buf) : Exists(op.buf[i]) /\ op.buf[i] # op.num

\* The inductive invariants: of any behaviour, and of one that starts healthy.
TInv == TypeOK /\ IndexInBuffer /\ SlotFree
IInv == TInv /\ HealthyInside

\* The running operation returns to its caller in this step.
Returns(call) ==
  /\ pc # "idle" /\ pc' = "idle"
  /\ op.call = call
  /\ status' # "RESET"

NoFaultDuring == faults' = op.faults0

\* The entries of s at the positions P are entries of t, in the order of t.
InOrder(s, P, t) ==
  \A i, j \in P : i <= j =>
    \E p, q \in 1 .. Len(t) : (i < j => p < q) /\ t[p] = s[i] /\ t[q] = s[j]

\* The NVRAM that an operation is to leave when it deletes, of the options
\* listed in BootOrder, exactly those whose content is doomed: the others are as
\* they were, and the rest of BootOrder is in its old order.
Deleted(doomed) ==
  LET gone == {n \in DOMAIN op.var0 : op.var0[n] \in doomed /\ Lists(op.order0, n)}
  IN  /\ bootVar' = [n \in DOMAIN op.var0 \ gone |-> op.var0[n]]
      /\ \A n \in BootNum : Lists(bootOrder', n) <=> Lists(op.order0, n) /\ n \notin gone
      /\ Distinct(bootOrder')
      /\ InOrder(bootOrder', 1 .. Len(bootOrder'), op.order0)

HealthyBefore ==
  /\ \A i \in 1 .. Len(op.order0) : op.order0[i] \in DOMAIN op.var0
  /\ Distinct(op.order0)

\* The options for a file, long and short form, and those whose name matches.
ForFile(f) ==
  {OptionOf(CreateBootOptionDevicePath(f[1], f[2], short)) : short \in BOOLEAN}
Containing(names) == {content \in Content : NameMatches(content, names)}

\* DeleteBootOptionForFile, which searches BootOrder anew after each deletion,
\* removes every listed option for the file, long and short form, and leaves
\* every other option and the order of the rest alone.
DeleteForFileExact ==
  [][Returns("DeleteForFile") /\ NoFaultDuring /\ HealthyBefore =>
       Deleted(ForFile(op.file))]_vars

\* DeleteBootOptionsContainingFile walks a copy of BootOrder that each deletion
\* makes stale; all the same it removes every listed option that matches and
\* nothing else, and reports success exactly when it removed one.
DeleteContainingExact ==
  [][Returns("DeleteContaining") /\ NoFaultDuring /\ HealthyBefore =>
       /\ Deleted(Containing(op.pattern))
       /\ status' = "SUCCESS" <=> bootOrder' # op.order0]_vars

\* AddBootOption may drop entries of BootOrder but never reorders or invents
\* one, and an option asked for at index 0, as the menu does, comes first.
AddKeepsRelativeOrder ==
  [][Returns("Add") /\ status' = "SUCCESS" =>
       \E k \in 1 .. Len(bootOrder') :
         /\ bootOrder'[k] = op.num
         /\ op.at0 = 0 => k = 1
         /\ InOrder(bootOrder', (1 .. Len(bootOrder')) \ {k}, op.order0)]_vars

\* Every operation returns, as long as the firmware does not refuse every
\* write: the do-while loop of DeleteBootOptionForFile runs out of options.
OperationReturns == pc # "idle" ~> pc = "idle"

-------------------------------------------------------------------------------
(* What the comments of the code say and the code does not do *)

\* "Updates BootOrder by adding new boot option BootNumNew at index
\* BootIndexNew": the entries of BootOrder whose option exists are still listed.
AddKeepsExisting ==
  [][Returns("Add") /\ status' = "SUCCESS" =>
       \A i \in 1 .. Len(op.order0) : op.order0[i] \in DOMAIN op.var0 =>
         \E j \in 1 .. Len(bootOrder') : bootOrder'[j] = op.order0[i]]_vars

\* "Updates BootOrder by deleting boot option BootNum": when DeleteBootOption
\* reports success the number is no longer listed.
DeletedIsUnlisted ==
  [][Returns("Delete") /\ status' = "SUCCESS" =>
       \A i \in 1 .. Len(bootOrder') : bootOrder'[i] # op.num]_vars
===============================================================================
