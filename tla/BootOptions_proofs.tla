-------------------------- MODULE BootOptions_proofs --------------------------
(***************************************************************************)
(* Proofs about BootOptions for any number of slots, any files and any     *)
(* number of faults: the types, the bounds of the copy that AddToBootOrder *)
(* edits, the health of BootOrder as long as no fault has occurred and the *)
(* bound on its damage afterwards, the order of the entries when an option *)
(* is added, and what the two loops that delete options leave.             *)
(***************************************************************************)
EXTENDS BootOptions, SequenceTheorems, FiniteSetTheorems, TLAPS

\* What the removal of an entry does to an array of slot numbers.
LEMMA RemoveIndexFacts ==
  ASSUME NEW S, NEW s \in Seq(S), NEW i \in 0 .. Len(s) - 1
  PROVE  /\ RemoveIndex(s, i) \in Seq(S)
         /\ Len(RemoveIndex(s, i)) = Len(s) - 1
         /\ \A j \in 1 .. Len(s) - 1 :
              RemoveIndex(s, i)[j] = IF j <= i THEN s[j] ELSE s[j + 1]
<1> DEFINE a == SubSeq(s, 1, i)
           b == SubSeq(s, i + 2, Len(s))
<1>1. a \in Seq(S) /\ Len(a) = i /\ \A j \in 1 .. i : a[j] = s[j]
  OBVIOUS
<1>2. b \in Seq(S) /\ Len(b) = Len(s) - i - 1
      /\ \A j \in 1 .. Len(s) - i - 1 : b[j] = s[i + 1 + j]
  OBVIOUS
<1> HIDE DEF a, b
<1>3. /\ a \o b \in Seq(S)
      /\ Len(a \o b) = Len(a) + Len(b)
      /\ \A j \in 1 .. Len(a) + Len(b) :
           (a \o b)[j] = IF j <= Len(a) THEN a[j] ELSE b[j - Len(a)]
  BY <1>1, <1>2, ConcatProperties
<1>4. Len(a) + Len(b) = Len(s) - 1
  BY <1>1, <1>2
<1>5. ASSUME NEW j \in 1 .. Len(s) - 1
      PROVE  (a \o b)[j] = IF j <= i THEN s[j] ELSE s[j + 1]
  <2>1. CASE j <= i
    BY <1>1, <1>3, <1>4, <2>1
  <2>2. CASE ~ (j <= i)
    <3>1. (a \o b)[j] = b[j - i]
      BY <1>1, <1>3, <1>4, <2>2
    <3>2. b[j - i] = s[i + 1 + (j - i)]
      BY <1>2, <2>2
    <3>3. i + 1 + (j - i) = j + 1
      OBVIOUS
    <3> QED
      BY <2>2, <3>1, <3>2, <3>3
  <2> QED
    BY <2>1, <2>2
<1> QED
  BY <1>3, <1>4, <1>5 DEF RemoveIndex, a, b

\* What the insertion of an entry does to it.
LEMMA InsertIndexFacts ==
  ASSUME NEW s \in Seq(BootNum), NEW i \in 0 .. Len(s), NEW x \in BootNum
  PROVE  /\ InsertIndex(s, i, x) \in Seq(BootNum)
         /\ Len(InsertIndex(s, i, x)) = Len(s) + 1
         /\ \A j \in 1 .. i : InsertIndex(s, i, x)[j] = s[j]
         /\ InsertIndex(s, i, x)[i + 1] = x
         /\ \A j \in i + 2 .. Len(s) + 1 : InsertIndex(s, i, x)[j] = s[j - 1]
<1> DEFINE a == SubSeq(s, 1, i)
           b == SubSeq(s, i + 1, Len(s))
           c == a \o << x >>
<1>1. a \in Seq(BootNum) /\ Len(a) = i /\ \A j \in 1 .. i : a[j] = s[j]
  OBVIOUS
<1>2. b \in Seq(BootNum) /\ Len(b) = Len(s) - i
      /\ \A j \in 1 .. Len(s) - i : b[j] = s[i + j]
  OBVIOUS
<1> HIDE DEF a, b
<1>3. c \in Seq(BootNum) /\ Len(c) = i + 1
      /\ \A j \in 1 .. i + 1 : c[j] = IF j <= i THEN s[j] ELSE x
  BY <1>1, ConcatProperties
<1> HIDE DEF c
<1>4. /\ c \o b \in Seq(BootNum)
      /\ Len(c \o b) = Len(c) + Len(b)
      /\ \A j \in 1 .. Len(c) + Len(b) :
           (c \o b)[j] = IF j <= Len(c) THEN c[j] ELSE b[j - Len(c)]
  BY <1>2, <1>3, ConcatProperties
<1>5. Len(c) + Len(b) = Len(s) + 1
  BY <1>2, <1>3
<1>6. \A j \in 1 .. i + 1 : (c \o b)[j] = c[j]
  BY <1>2, <1>3, <1>4
<1>7. ASSUME NEW j \in i + 2 .. Len(s) + 1
      PROVE  (c \o b)[j] = s[j - 1]
  <2>1. (c \o b)[j] = b[j - (i + 1)]
    BY <1>3, <1>4, <1>5
  <2>2. b[j - (i + 1)] = s[i + (j - (i + 1))]
    <3>1. j - (i + 1) \in 1 .. Len(s) - i
      OBVIOUS
    <3> QED
      BY <1>2, <3>1
  <2>3. i + (j - (i + 1)) = j - 1
    OBVIOUS
  <2> QED
    BY <2>1, <2>2, <2>3
<1>8. c \o b = InsertIndex(s, i, x)
  BY DEF InsertIndex, a, b, c
<1> QED
  BY <1>3, <1>4, <1>5, <1>6, <1>7, <1>8

-------------------------------------------------------------------------------
(* Types *)

LEMMA IdleType == Idle \in Operation
<1>1. [n \in {} |-> Unparsable] \in OptionVars
  <2>1. [n \in {} |-> Unparsable] \in [{} -> Content]
    OBVIOUS
  <2> QED
    BY <2>1 DEF OptionVars
<1>2. 0 \in BootNum /\ Unparsable \in Content
  BY MaxBootNumAssumption DEF BootNum, Content
<1> QED
  BY <1>1, <1>2 DEF Idle, Operation

LEMMA StartedType ==
  ASSUME TypeOK, NEW c \in {"Add", "Delete", "DeleteForFile", "DeleteContaining"}
  PROVE  Started(c) \in Operation
  BY IdleType DEF TypeOK, Started, Operation, Idle

\* DeleteBootOption's way back to its caller keeps the types of the locals.
LEMMA DeleteReturnsType ==
  ASSUME TypeOK, NEW st \in Status, DeleteReturns(st)
  PROVE  pc' \in PC /\ op' \in Operation /\ status' \in Status /\ pc' # "shrink" /\ pc' # "saveOption"
<1>1. CASE op.call = "Delete" /\ Return(st)
  BY <1>1, IdleType DEF Return, PC
<1>2. CASE op.call = "DeleteForFile" /\ pc' = "find" /\ UNCHANGED << op, status >>
  BY <1>2 DEF TypeOK, PC
<1>3. CASE /\ op.call = "DeleteContaining"
           /\ pc' = "scan"
           /\ op' = [op EXCEPT !.index = op.index + 1,
                               !.ret = IF st = "SUCCESS" THEN st ELSE op.ret]
           /\ UNCHANGED status
  <2>1. op.index + 1 \in Nat
    BY DEF TypeOK, Operation
  <2>2. (IF st = "SUCCESS" THEN st ELSE op.ret) \in {"SUCCESS", "NOT_FOUND"}
    BY DEF TypeOK, Operation
  <2>3. op' \in Operation
    BY <1>3, <2>1, <2>2 DEF TypeOK, Operation
  <2> QED
    BY <1>3, <2>3 DEF TypeOK, PC
<1> QED
  BY <1>1, <1>2, <1>3 DEF DeleteReturns

LEMMA InitTInv == InitAny => TInv
<1> SUFFICES ASSUME InitAny PROVE TInv
  OBVIOUS
<1>1. bootVar \in OptionVars
  <2>1. PICK S \in SUBSET BootNum : bootVar \in [S -> InitContent]
    BY DEF InitAny
  <2>2. bootVar \in [S -> Content]
    BY <2>1, InitContentAssumption
  <2> QED
    BY <2>2 DEF OptionVars
<1>2. bootOrder \in Seq(BootNum)
  BY MaxInitOrderAssumption DEF InitAny
<1>3. TypeOK
  BY <1>1, <1>2, IdleType DEF InitAny, TypeOK, PC, Status
<1>4. IndexInBuffer /\ SlotFree
  BY DEF InitAny, IndexInBuffer, SlotFree
<1> QED
  BY <1>3, <1>4 DEF TInv

LEMMA NextTInv == TInv /\ [Next]_vars => TInv'
<1> SUFFICES ASSUME TInv, [Next]_vars PROVE TInv'
  OBVIOUS
<1>t. TypeOK
  BY DEF TInv
<1> USE DEF TInv
<1>1. ASSUME NEW f \in File, NEW useShortForm \in BOOLEAN, NEW bootIndex \in BootIndexes,
             AddBootOptionForFile(f, useShortForm, bootIndex)
      PROVE  TInv'
  <2>1. PICK n \in BootNum :
          /\ IsFreeBootNum(n)
          /\ op' = [Started("Add") EXCEPT
                      !.num = n,
                      !.option = OptionOf(CreateBootOptionDevicePath(f[1], f[2], useShortForm)),
                      !.at = bootIndex, !.at0 = bootIndex]
    BY <1>1 DEF AddBootOptionForFile
  <2>2. OptionOf(CreateBootOptionDevicePath(f[1], f[2], useShortForm)) \in Content
    BY DEF Content
  <2>3. Started("Add") \in Operation
    BY <1>t, StartedType
  <2>4. op' \in Operation /\ op'.num = n
    BY <2>1, <2>2, <2>3, BootIndexesAssumption DEF Operation
  <2>5. ~ (n \in DOMAIN bootVar)
    BY <2>1 DEF IsFreeBootNum, FreeBootNums, Exists
  <2> QED
    BY <1>1, <2>4, <2>5
       DEF AddBootOptionForFile, nvram, TypeOK, PC, IndexInBuffer, SlotFree, Exists
<1>2. ASSUME NEW st \in Status, Refuse(st)
      PROVE  TInv'
  BY <1>2, IdleType DEF Refuse, Return, nvram, TypeOK, PC, IndexInBuffer, SlotFree
<1>3. CASE SaveOption
  <2>1. bootVar' \in OptionVars
    <3>1. PICK S \in SUBSET BootNum : bootVar \in [S -> Content]
      BY <1>t DEF TypeOK, OptionVars
    <3>2. op.num \in BootNum /\ op.option \in Content
      BY <1>t DEF TypeOK, Operation
    <3>3. bootVar' \in [S \cup {op.num} -> Content]
      BY <3>1, <3>2, <1>3 DEF SaveOption
    <3>4. S \cup {op.num} \in SUBSET BootNum
      BY <3>1, <3>2
    <3> QED
      BY <3>3, <3>4 DEF OptionVars
  <2>2. CASE bootOrder = << >> /\ Return("NOT_FOUND")
    BY <1>3, <2>1, <2>2, IdleType
       DEF SaveOption, Return, TypeOK, PC, Status, IndexInBuffer, SlotFree
  <2>3. CASE bootOrder # << >> /\ pc' = "shrink"
             /\ op' = [op EXCEPT !.buf = bootOrder, !.index = 0,
                                 !.at = ClampedIndex(op.at, Len(bootOrder))]
             /\ UNCHANGED status
    <3>1. Len(bootOrder) \in Nat /\ op.at \in Nat /\ bootOrder \in Seq(BootNum)
      BY <1>t DEF TypeOK, Operation
    <3>2. ClampedIndex(op.at, Len(bootOrder)) \in Nat
          /\ ClampedIndex(op.at, Len(bootOrder)) <= Len(bootOrder)
      BY <3>1 DEF ClampedIndex
    <3>3. op' \in Operation /\ op'.at <= Len(op'.buf)
      BY <1>t, <2>3, <3>1, <3>2 DEF TypeOK, Operation
    <3> QED
      BY <1>3, <2>1, <2>3, <3>3 DEF SaveOption, TypeOK, PC, IndexInBuffer, SlotFree
  <2> QED
    BY <1>3, <2>2, <2>3 DEF SaveOption
<1>4. CASE SaveOptionFails
  BY <1>4, IdleType
     DEF SaveOptionFails, Fault, Return, nvram, TypeOK, PC, Status, IndexInBuffer, SlotFree
<1>5. CASE ShrinkRound
  <2>1. op.index \in Nat /\ op.at \in Nat /\ op.buf \in Seq(BootNum) /\ op.at <= Len(op.buf)
        /\ Len(op.buf) \in Nat /\ op.index < Len(op.buf)
    BY <1>5 DEF ShrinkRound, TypeOK, Operation, IndexInBuffer
  <2>i. op.index + 1 \in Nat
    BY <2>1
  <2>2. CASE Exists(op.index)
    <3>1. op' = [op EXCEPT !.index = op.index + 1]
      BY <1>5, <2>2 DEF ShrinkRound
    <3>2. op' \in Operation /\ op'.at = op.at /\ op'.buf = op.buf
      BY <1>t, <2>i, <3>1 DEF TypeOK, Operation
    <3> QED
      BY <1>5, <2>1, <3>2 DEF ShrinkRound, nvram, TypeOK, IndexInBuffer, SlotFree
  <2>3. CASE ~ Exists(op.index)
    <3>1. op.index \in 0 .. Len(op.buf) - 1
      BY <2>1
    <3>2. RemoveIndex(op.buf, op.index) \in Seq(BootNum)
          /\ Len(RemoveIndex(op.buf, op.index)) = Len(op.buf) - 1
      BY <2>1, <3>1, RemoveIndexFacts
    <3>3. ShiftedIndex(op.at, op.index) \in Nat
          /\ ShiftedIndex(op.at, op.index) <= Len(op.buf) - 1
      BY <2>1 DEF ShiftedIndex
    <3>4. op' = [op EXCEPT !.index = op.index + 1,
                           !.buf = RemoveIndex(op.buf, op.index),
                           !.at = ShiftedIndex(op.at, op.index)]
      BY <1>5, <2>3 DEF ShrinkRound
    <3>5. op' \in Operation /\ op'.at <= Len(op'.buf)
      <4>1. op' \in Operation
        BY <1>t, <2>i, <3>2, <3>3, <3>4 DEF TypeOK, Operation
      <4>2. op'.at = ShiftedIndex(op.at, op.index) /\ op'.buf = RemoveIndex(op.buf, op.index)
        BY <1>t, <3>4 DEF TypeOK, Operation
      <4> QED
        BY <4>1, <4>2, <3>2, <3>3
    <3> QED
      BY <1>5, <3>5 DEF ShrinkRound, nvram, TypeOK, IndexInBuffer, SlotFree
  <2> QED
    BY <2>2, <2>3
<1>6. CASE SaveBootOrder
  <2>1. op.at \in 0 .. Len(op.buf) /\ op.buf \in Seq(BootNum) /\ op.num \in BootNum
    BY <1>6 DEF SaveBootOrder, TypeOK, Operation, IndexInBuffer
  <2>2. bootOrder' \in Seq(BootNum)
    BY <1>6, <2>1, InsertIndexFacts DEF SaveBootOrder
  <2> QED
    BY <1>6, <2>2, IdleType
       DEF SaveBootOrder, Return, TypeOK, PC, Status, IndexInBuffer, SlotFree
<1>7. CASE SaveBootOrderFails
  BY <1>7, IdleType
     DEF SaveBootOrderFails, Fault, Return, nvram, TypeOK, PC, Status, IndexInBuffer, SlotFree
<1>8. ASSUME NEW n \in BootNum, DeleteBootOption(n)
      PROVE  TInv'
  <2>1. op' \in Operation
    BY <1>8, <1>t, StartedType DEF DeleteBootOption, Operation
  <2> QED
    BY <1>8, <2>1 DEF DeleteBootOption, nvram, TypeOK, PC, IndexInBuffer, SlotFree
<1>9. CASE DeleteOption
  <2>1. CASE /\ Exists(op.num)
             /\ bootVar' = [n \in DOMAIN bootVar \ {op.num} |-> bootVar[n]]
             /\ pc' = "deleteFromOrder"
             /\ UNCHANGED << op, status >>
    <3>1. PICK S \in SUBSET BootNum : bootVar \in [S -> Content]
      BY <1>t DEF TypeOK, OptionVars
    <3>2. bootVar' \in [S \ {op.num} -> Content]
      BY <2>1, <3>1
    <3>3. bootVar' \in OptionVars
      BY <3>1, <3>2 DEF OptionVars
    <3> QED
      BY <1>9, <2>1, <3>3 DEF DeleteOption, TypeOK, PC, IndexInBuffer, SlotFree
  <2>2. CASE DeleteReturns("NOT_FOUND") /\ UNCHANGED bootVar
    <3>1. "NOT_FOUND" \in Status
      BY DEF Status
    <3>2. pc' \in PC /\ op' \in Operation /\ status' \in Status
          /\ pc' # "shrink" /\ pc' # "saveOption"
      BY <1>t, <2>2, <3>1, DeleteReturnsType
    <3> QED
      BY <1>9, <2>2, <3>2 DEF DeleteOption, TypeOK, IndexInBuffer, SlotFree
  <2> QED
    BY <1>9, <2>1, <2>2 DEF DeleteOption
<1>10. CASE DeleteOptionFails \/ DeleteFromBootOrderFails
  <2>1. "DEVICE_ERROR" \in Status
    BY DEF Status
  <2>2. DeleteReturns("DEVICE_ERROR") /\ UNCHANGED nvram /\ Fault
    BY <1>10 DEF DeleteOptionFails, DeleteFromBootOrderFails
  <2>3. pc' \in PC /\ op' \in Operation /\ status' \in Status
        /\ pc' # "shrink" /\ pc' # "saveOption"
    BY <1>t, <2>1, <2>2, DeleteReturnsType
  <2> QED
    BY <2>2, <2>3 DEF Fault, nvram, TypeOK, IndexInBuffer, SlotFree
<1>11. CASE DeleteFromBootOrder
  <2>1. "SUCCESS" \in Status /\ "NOT_FOUND" \in Status
    BY DEF Status
  <2>2. bootOrder' \in Seq(BootNum)
    <3>1. CASE \E i \in 1 .. Len(bootOrder) : bootOrder' = RemoveIndex(bootOrder, i - 1)
      <4>1. PICK i \in 1 .. Len(bootOrder) : bootOrder' = RemoveIndex(bootOrder, i - 1)
        BY <3>1
      <4>2. bootOrder \in Seq(BootNum) /\ i - 1 \in 0 .. Len(bootOrder) - 1
        BY <1>t DEF TypeOK
      <4> QED
        BY <4>1, <4>2, RemoveIndexFacts
    <3>2. CASE UNCHANGED bootOrder
      BY <1>t, <3>2 DEF TypeOK
    <3> QED
      BY <1>11, <3>1, <3>2 DEF DeleteFromBootOrder
  <2>3. DeleteReturns("SUCCESS") \/ DeleteReturns("NOT_FOUND")
    BY <1>11 DEF DeleteFromBootOrder
  <2>4. pc' \in PC /\ op' \in Operation /\ status' \in Status
        /\ pc' # "shrink" /\ pc' # "saveOption"
    BY <1>t, <2>1, <2>3, DeleteReturnsType
  <2> QED
    BY <1>11, <2>2, <2>4 DEF DeleteFromBootOrder, TypeOK, IndexInBuffer, SlotFree
<1>12. ASSUME NEW f \in File, DeleteBootOptionForFile(f)
       PROVE  TInv'
  <2>1. op' \in Operation
    BY <1>12, <1>t, StartedType DEF DeleteBootOptionForFile, Operation
  <2> QED
    BY <1>12, <2>1 DEF DeleteBootOptionForFile, nvram, TypeOK, PC, IndexInBuffer, SlotFree
<1>13. CASE FindBootOptionForFile
  <2>1. CASE \E i \in 0 .. Len(bootOrder) - 1 :
               /\ op' = [op EXCEPT !.num = bootOrder[i + 1]]
               /\ pc' = "deleteOption"
               /\ UNCHANGED status
    <3>1. PICK i \in 0 .. Len(bootOrder) - 1 :
               /\ op' = [op EXCEPT !.num = bootOrder[i + 1]]
               /\ pc' = "deleteOption"
               /\ UNCHANGED status
      BY <2>1
    <3>2. bootOrder[i + 1] \in BootNum
      BY <1>t DEF TypeOK
    <3>3. op' \in Operation
      BY <1>t, <3>1, <3>2 DEF TypeOK, Operation
    <3> QED
      BY <1>13, <3>1, <3>3
         DEF FindBootOptionForFile, nvram, TypeOK, PC, IndexInBuffer, SlotFree
  <2>2. CASE Return(IF bootOrder = << >> THEN "OUT_OF_RESOURCES" ELSE "NOT_FOUND")
    BY <1>13, <2>2, IdleType
       DEF FindBootOptionForFile, Return, nvram, TypeOK, PC, Status, IndexInBuffer, SlotFree
  <2> QED
    BY <1>13, <2>1, <2>2 DEF FindBootOptionForFile
<1>14. ASSUME NEW names \in SUBSET Name, DeleteBootOptionsContainingFile(names)
       PROVE  TInv'
  <2>1. op' \in Operation
    BY <1>14, <1>t, StartedType DEF DeleteBootOptionsContainingFile, Operation, TypeOK
  <2> QED
    BY <1>14, <2>1
       DEF DeleteBootOptionsContainingFile, nvram, TypeOK, PC, IndexInBuffer, SlotFree
<1>15. CASE Scan
  <2>1. op.index \in Nat /\ op.buf \in Seq(BootNum) /\ op.ret \in Status
    BY <1>t DEF TypeOK, Operation, Status
  <2>2. CASE /\ op.index < Len(ScanOrder)
             /\ op' = [op EXCEPT !.num = ScanOrder[op.index + 1]]
             /\ pc' = "deleteOption"
             /\ UNCHANGED status
    <3>1. op.buf[op.index + 1] \in BootNum
      BY <2>1, <2>2 DEF ScanOrder
    <3>2. op' \in Operation
      BY <1>t, <2>2, <3>1 DEF TypeOK, Operation, ScanOrder
    <3> QED
      BY <1>15, <2>2, <3>2 DEF Scan, nvram, TypeOK, PC, IndexInBuffer, SlotFree
  <2>3. CASE op' = [op EXCEPT !.index = op.index + 1] /\ UNCHANGED << pc, status >>
    <3>0. op.index + 1 \in Nat
      BY <2>1
    <3>1. op' \in Operation
      BY <1>t, <2>3, <3>0 DEF TypeOK, Operation
    <3> QED
      BY <1>15, <2>3, <3>1 DEF Scan, nvram, TypeOK, IndexInBuffer, SlotFree
  <2>4. CASE Return(op.ret)
    BY <1>15, <2>1, <2>4, IdleType DEF Scan, Return, nvram, TypeOK, PC, IndexInBuffer, SlotFree
  <2> QED
    BY <1>15, <2>2, <2>3, <2>4 DEF Scan
<1>16. CASE Reset
  BY <1>16, IdleType DEF Reset, Fault, Return, nvram, TypeOK, PC, Status, IndexInBuffer, SlotFree
<1>17. CASE UNCHANGED vars
  BY <1>17 DEF vars, TypeOK, IndexInBuffer, SlotFree, Exists
<1>18. AddNoFreeSlot \/ AddRefused \/ DeleteForFileRefused \/ DeleteContainingNoOrder => TInv'
  BY <1>2 DEF AddNoFreeSlot, AddRefused, DeleteForFileRefused, DeleteContainingNoOrder, Status
<1> QED
  BY <1>1, <1>3, <1>4, <1>5, <1>6, <1>7, <1>8, <1>9, <1>10, <1>11, <1>12, <1>13, <1>14,
     <1>15, <1>16, <1>17, <1>18 DEF Next, Call, Progress, Failure

\* Whatever NVRAM held at the start and however many writes fail, the variables
\* and locals of BootOptions.cpp keep their types.
THEOREM TypeCorrect == SpecAny => []TypeOK
<1>1. TInv => TypeOK
  BY DEF TInv
<1> QED
  BY InitTInv, NextTInv, <1>1, PTL DEF SpecAny

\* Whatever NVRAM held at the start, the position at which AddToBootOrder
\* inserts never lies beyond the copy of BootOrder that it shrinks.
THEOREM InsertInBounds == SpecAny => []IndexInBuffer
<1>1. TInv => IndexInBuffer
  BY DEF TInv
<1> QED
  BY InitTInv, NextTInv, <1>1, PTL DEF SpecAny

-------------------------------------------------------------------------------
(* Health *)

LEMMA InitIInv == Init => IInv
<1> SUFFICES ASSUME Init PROVE IInv
  OBVIOUS
<1>1. TInv
  BY InitTInv DEF Init
<1>2. HealthyInside
  BY DEF Init, InitAny, Healthy, HealthyInside
<1> QED
  BY <1>1, <1>2 DEF IInv

\* A step that writes nothing keeps the health of BootOrder, unless it leaves
\* DeleteFromBootOrder or is part of AddToBootOrder.
LEMMA QuietStep ==
  ASSUME HealthyInside, UNCHANGED << nvram, faults >>,
         pc # "deleteFromOrder", pc' # "shrink"
  PROVE  HealthyInside'
  BY DEF HealthyInside, nvram, Distinct, Exists

LEMMA FaultStep ==
  ASSUME TypeOK, Fault
  PROVE  HealthyInside'
<1>1. faults' # 0
  BY DEF TypeOK, Fault
<1> QED
  BY <1>1 DEF HealthyInside

LEMMA DeleteReturnsPc ==
  ASSUME NEW st, DeleteReturns(st)
  PROVE  pc' # "shrink" /\ pc' # "deleteFromOrder"
  BY DEF DeleteReturns, Return

LEMMA NextHealthyInside == IInv /\ [Next]_vars => HealthyInside'
<1> SUFFICES ASSUME IInv, [Next]_vars PROVE HealthyInside'
  OBVIOUS
<1>t. TypeOK /\ IndexInBuffer /\ SlotFree /\ HealthyInside
  BY DEF IInv, TInv
<1>1. CASE Call
  <2>1. UNCHANGED << nvram, faults >> /\ pc = "idle" /\ pc' # "shrink"
    BY <1>1 DEF Call, AddBootOptionForFile, AddNoFreeSlot, AddRefused, DeleteBootOption,
         DeleteBootOptionForFile, DeleteForFileRefused, DeleteBootOptionsContainingFile,
         DeleteContainingNoOrder,
         Refuse, Return
  <2> QED
    BY <1>t, <2>1, QuietStep
<1>2. CASE Failure
  <2>1. Fault
    BY <1>2 DEF Failure, SaveOptionFails, SaveBootOrderFails, DeleteOptionFails,
         DeleteFromBootOrderFails, Reset
  <2> QED
    BY <1>t, <2>1, FaultStep
<1>3. CASE SaveOption
  <2> SUFFICES ASSUME faults' = 0
               PROVE  /\ Distinct(bootOrder')
                      /\ \A i \in 1 .. Len(bootOrder') : bootOrder'[i] \in DOMAIN bootVar'
                      /\ pc' = "shrink" =>
                           /\ op'.num \in DOMAIN bootVar'
                           /\ Distinct(op'.buf)
                           /\ \A i \in 1 .. Len(op'.buf) :
                                op'.buf[i] \in DOMAIN bootVar' /\ op'.buf[i] # op'.num
    BY DEF HealthyInside, Exists
  <2>1. pc = "saveOption" /\ UNCHANGED bootOrder /\ faults = 0
    BY <1>3 DEF SaveOption
  <2>2. /\ DOMAIN bootVar' = DOMAIN bootVar \cup {op.num}
        /\ ~ (op.num \in DOMAIN bootVar)
    BY <1>t, <1>3, <2>1 DEF SaveOption, SlotFree, Exists
  <2>3. /\ Distinct(bootOrder)
        /\ \A i \in 1 .. Len(bootOrder) : bootOrder[i] \in DOMAIN bootVar
    BY <1>t, <2>1 DEF HealthyInside, Exists
  <2>4. ASSUME pc' = "shrink"
        PROVE  op'.num = op.num /\ op'.buf = bootOrder
    BY <1>t, <1>3, <2>4 DEF SaveOption, Return, TypeOK, Operation
  <2> QED
    BY <2>1, <2>2, <2>3, <2>4
<1>4. CASE ShrinkRound
  <2>1. CASE Exists(op.index)
    <3>1. UNCHANGED << nvram, pc, faults >> /\ op'.buf = op.buf /\ op'.num = op.num
      BY <1>t, <1>4, <2>1 DEF ShrinkRound, TypeOK, Operation
    <3> QED
      BY <1>t, <3>1 DEF HealthyInside, nvram, Exists, Distinct
  <2>2. CASE ~ Exists(op.index)
    <3>1. /\ UNCHANGED << nvram, pc, faults >> /\ pc = "shrink"
          /\ op'.buf = RemoveIndex(op.buf, op.index) /\ op'.num = op.num
      BY <1>t, <1>4, <2>2 DEF ShrinkRound, TypeOK, Operation
    <3>2. op.buf \in Seq(BootNum) /\ op.index \in 0 .. Len(op.buf) - 1
      BY <1>t, <1>4 DEF ShrinkRound, TypeOK, Operation
    <3>3. /\ Len(op'.buf) = Len(op.buf) - 1
          /\ \A j \in 1 .. Len(op.buf) - 1 :
               op'.buf[j] = IF j <= op.index THEN op.buf[j] ELSE op.buf[j + 1]
      BY <3>1, <3>2, RemoveIndexFacts
    <3> DEFINE Pos(j) == IF j <= op.index THEN j ELSE j + 1
    <3>4. \A j \in 1 .. Len(op'.buf) : Pos(j) \in 1 .. Len(op.buf) /\ op'.buf[j] = op.buf[Pos(j)]
      BY <3>2, <3>3
    <3>5. \A i, j \in 1 .. Len(op'.buf) : Pos(i) = Pos(j) => i = j
      BY <3>2, <3>3
    <3> HIDE DEF Pos
    <3>6. faults = 0 => Distinct(op'.buf)
      BY <1>t, <3>1, <3>4, <3>5 DEF HealthyInside, Distinct
    <3>7. faults = 0 => \A i \in 1 .. Len(op'.buf) : Exists(op'.buf[i]) /\ op'.buf[i] # op.num
      BY <1>t, <3>1, <3>4 DEF HealthyInside
    <3> QED
      BY <1>t, <3>1, <3>6, <3>7 DEF HealthyInside, nvram, Exists, Distinct
  <2> QED
    BY <2>1, <2>2
<1>5. CASE SaveBootOrder
  <2>1. op.buf \in Seq(BootNum) /\ op.at \in 0 .. Len(op.buf) /\ op.num \in BootNum
    BY <1>t, <1>5 DEF SaveBootOrder, TypeOK, Operation, IndexInBuffer
  <2>2. /\ Len(bootOrder') = Len(op.buf) + 1
        /\ \A j \in 1 .. op.at : bootOrder'[j] = op.buf[j]
        /\ bootOrder'[op.at + 1] = op.num
        /\ \A j \in op.at + 2 .. Len(op.buf) + 1 : bootOrder'[j] = op.buf[j - 1]
    BY <1>5, <2>1, InsertIndexFacts DEF SaveBootOrder
  <2>3. pc = "shrink" /\ pc' = "idle" /\ UNCHANGED << bootVar, faults >>
    BY <1>5 DEF SaveBootOrder, Return
  <2> SUFFICES ASSUME faults = 0
               PROVE  /\ Distinct(bootOrder')
                      /\ \A i \in 1 .. Len(bootOrder') : bootOrder'[i] \in DOMAIN bootVar
    BY <2>3 DEF HealthyInside, Exists
  <2>4. /\ op.num \in DOMAIN bootVar
        /\ Distinct(op.buf)
        /\ \A i \in 1 .. Len(op.buf) : op.buf[i] \in DOMAIN bootVar /\ op.buf[i] # op.num
    BY <1>t, <2>3 DEF HealthyInside, Exists
  <2> DEFINE Pos(j) == IF j <= op.at THEN j ELSE j - 1
  <2>5. \A j \in 1 .. Len(bootOrder') :
          IF j = op.at + 1 THEN bootOrder'[j] = op.num
          ELSE Pos(j) \in 1 .. Len(op.buf) /\ bootOrder'[j] = op.buf[Pos(j)]
    <3> SUFFICES ASSUME NEW j \in 1 .. Len(op.buf) + 1, j # op.at + 1
                 PROVE  Pos(j) \in 1 .. Len(op.buf) /\ bootOrder'[j] = op.buf[Pos(j)]
      BY <2>2
    <3> Len(op.buf) \in Nat /\ op.at \in 0 .. Len(op.buf)
      BY <2>1
    <3>1. CASE j <= op.at
      <4>1. Pos(j) = j /\ j \in 1 .. op.at /\ j \in 1 .. Len(op.buf)
        BY <3>1
      <4> HIDE DEF Pos
      <4> QED
        BY <4>1, <2>2
    <3>2. CASE ~ (j <= op.at)
      <4>1. Pos(j) = j - 1 /\ j \in op.at + 2 .. Len(op.buf) + 1 /\ j - 1 \in 1 .. Len(op.buf)
        BY <3>2
      <4> HIDE DEF Pos
      <4> QED
        BY <4>1, <2>2
    <3> QED
      BY <3>1, <3>2
  <2>6. \A i, j \in 1 .. Len(bootOrder') :
          i # op.at + 1 /\ j # op.at + 1 /\ Pos(i) = Pos(j) => i = j
    BY <2>1, <2>2
  <2> HIDE DEF Pos
  <2>7. Distinct(bootOrder')
    BY <2>4, <2>5, <2>6 DEF Distinct
  <2>8. \A i \in 1 .. Len(bootOrder') : bootOrder'[i] \in DOMAIN bootVar
    BY <2>4, <2>5
  <2> QED
    BY <2>7, <2>8
<1>6. CASE DeleteOption
  <2>1. CASE /\ Exists(op.num)
             /\ bootVar' = [n \in DOMAIN bootVar \ {op.num} |-> bootVar[n]]
             /\ pc' = "deleteFromOrder"
             /\ UNCHANGED << op, status >>
    <3>1. DOMAIN bootVar' = DOMAIN bootVar \ {op.num}
      BY <2>1
    <3> QED
      BY <1>t, <1>6, <2>1, <3>1 DEF DeleteOption, HealthyInside, Exists, Distinct
  <2>2. CASE DeleteReturns("NOT_FOUND") /\ UNCHANGED bootVar
    <3>1. pc' # "shrink"
      BY <2>2, DeleteReturnsPc
    <3> QED
      BY <1>t, <1>6, <2>2, <3>1, QuietStep DEF DeleteOption, nvram
  <2> QED
    BY <1>6, <2>1, <2>2 DEF DeleteOption
<1>7. CASE DeleteFromBootOrder
  <2>1. pc' # "shrink" /\ pc = "deleteFromOrder" /\ UNCHANGED << bootVar, faults >>
    BY <1>7, DeleteReturnsPc DEF DeleteFromBootOrder
  <2> SUFFICES ASSUME faults = 0
               PROVE  /\ Distinct(bootOrder')
                      /\ \A i \in 1 .. Len(bootOrder') : bootOrder'[i] \in DOMAIN bootVar
    BY <2>1 DEF HealthyInside, Exists
  <2>2. /\ Distinct(bootOrder)
        /\ \A i \in 1 .. Len(bootOrder) : bootOrder[i] \in DOMAIN bootVar \/ bootOrder[i] = op.num
    BY <1>t, <2>1 DEF HealthyInside, Exists
  <2>3. CASE \E i \in 1 .. Len(bootOrder) :
               bootOrder[i] = op.num /\ bootOrder' = RemoveIndex(bootOrder, i - 1)
    <3>1. PICK k \in 1 .. Len(bootOrder) :
            bootOrder[k] = op.num /\ bootOrder' = RemoveIndex(bootOrder, k - 1)
      BY <2>3
    <3>2. bootOrder \in Seq(BootNum) /\ k - 1 \in 0 .. Len(bootOrder) - 1
      BY <1>t DEF TypeOK
    <3>3. /\ Len(bootOrder') = Len(bootOrder) - 1
          /\ \A j \in 1 .. Len(bootOrder) - 1 :
               bootOrder'[j] = IF j <= k - 1 THEN bootOrder[j] ELSE bootOrder[j + 1]
      BY <3>1, <3>2, RemoveIndexFacts
    <3> DEFINE Pos(j) == IF j <= k - 1 THEN j ELSE j + 1
    <3>4. \A j \in 1 .. Len(bootOrder') :
            Pos(j) \in 1 .. Len(bootOrder) /\ Pos(j) # k /\ bootOrder'[j] = bootOrder[Pos(j)]
      BY <3>2, <3>3
    <3>5. \A i, j \in 1 .. Len(bootOrder') : Pos(i) = Pos(j) => i = j
      BY <3>2, <3>3
    <3> HIDE DEF Pos
    <3>6. Distinct(bootOrder')
      BY <2>2, <3>4, <3>5 DEF Distinct
    <3>7. \A i \in 1 .. Len(bootOrder') : bootOrder'[i] # op.num
      BY <2>2, <3>1, <3>4 DEF Distinct
    <3>8. \A i \in 1 .. Len(bootOrder') : bootOrder'[i] \in DOMAIN bootVar
      BY <2>2, <3>4, <3>7
    <3> QED
      BY <3>6, <3>8
  <2>4. CASE ~ Listed(op.num) /\ UNCHANGED bootOrder
    BY <2>2, <2>4 DEF Listed, Lists
  <2> QED
    BY <1>7, <2>3, <2>4 DEF DeleteFromBootOrder
<1>8. CASE FindBootOptionForFile
  <2>1. pc = "find" /\ pc' # "shrink" /\ UNCHANGED << nvram, faults >>
    BY <1>8 DEF FindBootOptionForFile, Return
  <2> QED
    BY <1>t, <2>1, QuietStep
<1>9. CASE Scan
  <2>1. pc = "scan" /\ pc' # "shrink" /\ UNCHANGED << nvram, faults >>
    BY <1>9 DEF Scan, Return
  <2> QED
    BY <1>t, <2>1, QuietStep
<1>10. CASE UNCHANGED vars
  BY <1>t, <1>10 DEF vars, HealthyInside, Exists, Distinct
<1> QED
  BY <1>1, <1>2, <1>3, <1>4, <1>5, <1>6, <1>7, <1>8, <1>9, <1>10 DEF Next, Progress

\* Starting from a healthy NVRAM, every operation of BootOptions.cpp leaves each
\* entry of BootOrder with its Boot#### variable and listed once, for as long as
\* no write has failed and no reset has cut an operation short.
THEOREM HealthPreserved == Spec => []HealthyWithoutFaults
<1>1. IInv => HealthyWithoutFaults
  BY DEF IInv, HealthyInside, HealthyWithoutFaults, Healthy
<1>2. IInv /\ [Next]_vars => IInv'
  BY NextTInv, NextHealthyInside DEF IInv
<1> QED
  BY InitIInv, <1>1, <1>2, PTL DEF Spec

-------------------------------------------------------------------------------
(* The damage that faults do *)

\* What bounds the damage inside the operations, faults or not: AddToBootOrder
\* edits its copy after the new variable has been written, and the copy wastes
\* no more than BootOrder did without it; the option that DeleteFromBootOrder
\* is about to unlist is gone.
DamageInside ==
  /\ pc = "shrink" =>
       /\ Exists(op.num)
       /\ Waste(op.buf, DOMAIN bootVar \ {op.num}) <= faults
  /\ pc = "deleteFromOrder" => ~ Exists(op.num)

DInv == TInv /\ DamageInside /\ DamageBounded

LEMMA UsefulFinite ==
  ASSUME NEW s, NEW S
  PROVE  IsFiniteSet(Useful(s, S)) /\ Cardinality(Useful(s, S)) \in Nat
<1>1. IsFiniteSet(BootNum)
  BY FS_Interval, MaxBootNumAssumption DEF BootNum
<1>2. Useful(s, S) \in SUBSET BootNum
  BY DEF Useful, Lists
<1>3. IsFiniteSet(Useful(s, S))
  BY <1>1, <1>2, FS_Subset
<1> QED
  BY <1>3, FS_CardinalityType

LEMMA WasteType ==
  ASSUME NEW s \in Seq(BootNum), NEW S
  PROVE  Waste(s, S) \in Int
  BY UsefulFinite DEF Waste

\* An order without dangling entries and without repetitions wastes nothing.
LEMMA NoWaste ==
  ASSUME NEW s \in Seq(BootNum), NEW S, Distinct(s), \A i \in 1 .. Len(s) : s[i] \in S
  PROVE  Waste(s, S) = 0
<1> DEFINE T == Useful(s, S)
           n == Len(s)
<1>0. n \in Nat /\ IsFiniteSet(1 .. n) /\ Cardinality(1 .. n) = n
  <2>1. n \in Nat
    OBVIOUS
  <2>2. IsFiniteSet(1 .. n) /\ Cardinality(1 .. n) = IF 1 > n THEN 0 ELSE n - 1 + 1
    BY <2>1, FS_Interval
  <2> QED
    BY <2>1, <2>2
<1>1. \A i \in 1 .. n : s[i] \in T
  BY DEF Useful, Lists
<1>2. \A m \in T : \E i \in 1 .. n : s[i] = m
  BY DEF Useful, Lists
<1>3. s \in [1 .. n -> T]
  BY <1>1
<1>4. s \in Bijection(1 .. n, T)
  BY <1>2, <1>3 DEF Distinct, Bijection, Injection, Surjection, IsInjective
<1>5. Cardinality(T) = Cardinality(1 .. n)
  BY <1>0, <1>4, FS_Bijection DEF ExistsBijection
<1> QED
  BY <1>0, <1>5 DEF Waste

\* An option that is written makes no entry worse.
LEMMA WasteOfMore ==
  ASSUME NEW s \in Seq(BootNum), NEW S, NEW T, S \subseteq T
  PROVE  Waste(s, T) <= Waste(s, S)
<1>1. Useful(s, S) \in SUBSET Useful(s, T)
  BY DEF Useful, Lists
<1>2. Cardinality(Useful(s, S)) <= Cardinality(Useful(s, T))
  BY <1>1, UsefulFinite, FS_Subset
<1> QED
  BY <1>2, UsefulFinite DEF Waste

\* An option that is deleted spoils the entry that lists it.
LEMMA WasteOfDeleted ==
  ASSUME NEW s \in Seq(BootNum), NEW S, NEW n \in S
  PROVE  Waste(s, S \ {n})
           = IF Lists(s, n) THEN Waste(s, S) + 1 ELSE Waste(s, S)
<1>1. Useful(s, S \ {n}) = Useful(s, S) \ {n}
  BY DEF Useful, Lists
<1>2. Cardinality(Useful(s, S \ {n}))
        = IF n \in Useful(s, S) THEN Cardinality(Useful(s, S)) - 1
                                  ELSE Cardinality(Useful(s, S))
  BY <1>1, UsefulFinite, FS_RemoveElement
<1>3. n \in Useful(s, S) <=> Lists(s, n)
  BY DEF Useful, Lists
<1> QED
  BY <1>2, <1>3, UsefulFinite DEF Waste

\* The entries of an array after a removal.
LEMMA ListedAfterRemove ==
  ASSUME NEW s \in Seq(BootNum), NEW i \in 0 .. Len(s) - 1
  PROVE  \A n : Lists(s, n) <=> n = s[i + 1] \/ Lists(RemoveIndex(s, i), n)
<1> DEFINE r == RemoveIndex(s, i)
<1>1. /\ Len(r) = Len(s) - 1
      /\ \A j \in 1 .. Len(s) - 1 : r[j] = IF j <= i THEN s[j] ELSE s[j + 1]
  BY RemoveIndexFacts
<1> HIDE DEF r
<1>2. ASSUME NEW n, NEW j \in 1 .. Len(r), r[j] = n
      PROVE  \E k \in 1 .. Len(s) : s[k] = n
  BY <1>1, <1>2
<1>3. ASSUME NEW j \in 1 .. Len(s), j # i + 1
      PROVE  \E k \in 1 .. Len(r) : r[k] = s[j]
  <2>1. CASE j <= i
    BY <1>1, <2>1
  <2>2. CASE ~ (j <= i)
    <3>1. j - 1 \in 1 .. Len(r) /\ ~ (j - 1 <= i) /\ (j - 1) + 1 = j
      BY <1>1, <1>3, <2>2
    <3> QED
      BY <1>1, <3>1
  <2> QED
    BY <2>1, <2>2
<1>4. i + 1 \in 1 .. Len(s)
  OBVIOUS
<1> QED
  BY <1>2, <1>3, <1>4 DEF r, Lists

\* A removal wastes nothing, and pays for an entry without a variable.
LEMMA WasteOfRemoved ==
  ASSUME NEW s \in Seq(BootNum), NEW S, NEW i \in 0 .. Len(s) - 1
  PROVE  /\ Waste(RemoveIndex(s, i), S) <= Waste(s, S)
         /\ s[i + 1] \notin S => Waste(RemoveIndex(s, i), S) = Waste(s, S) - 1
<1> DEFINE r == RemoveIndex(s, i)
<1>0. r \in Seq(BootNum) /\ Len(r) = Len(s) - 1 /\ Len(s) \in Nat
  BY RemoveIndexFacts
<1>1. \A n : Lists(s, n) <=> n = s[i + 1] \/ Lists(r, n)
  BY ListedAfterRemove
<1> HIDE DEF r
<1> DEFINE A == Useful(s, S)
           B == Useful(r, S)
<1>2. IsFiniteSet(A) /\ IsFiniteSet(B) /\ Cardinality(A) \in Nat /\ Cardinality(B) \in Nat
  BY UsefulFinite
<1>3. A \ {s[i + 1]} \in SUBSET B /\ (s[i + 1] \notin S => A = B)
  BY <1>1 DEF Useful, Lists
<1>d. Waste(r, S) = Len(r) - Cardinality(B) /\ Waste(s, S) = Len(s) - Cardinality(A)
  BY DEF Waste
<1> HIDE DEF A, B
<1>4. Cardinality(A \ {s[i + 1]}) >= Cardinality(A) - 1
  <2>1. Cardinality(A \ {s[i + 1]}) =
          IF s[i + 1] \in A THEN Cardinality(A) - 1 ELSE Cardinality(A)
    BY <1>2, FS_RemoveElement
  <2> QED
    BY <1>2, <2>1
<1>5. Cardinality(A \ {s[i + 1]}) <= Cardinality(B)
  BY <1>2, <1>3, FS_Subset
<1>6. Cardinality(A \ {s[i + 1]}) \in Nat
  <2>1. IsFiniteSet(A \ {s[i + 1]})
    BY <1>2, FS_RemoveElement
  <2> QED
    BY <2>1, FS_CardinalityType
<1>7. Cardinality(B) >= Cardinality(A) - 1
  BY <1>2, <1>4, <1>5, <1>6
<1> QED
  BY <1>0, <1>2, <1>3, <1>7, <1>d DEF r

\* An option that exists and is put into an array wastes no more there than
\* its number would waste without the option.
LEMMA WasteOfInserted ==
  ASSUME NEW s \in Seq(BootNum), NEW i \in 0 .. Len(s), NEW S, NEW x \in S \cap BootNum
  PROVE  Waste(InsertIndex(s, i, x), S) <= Waste(s, S \ {x})
<1> DEFINE r == InsertIndex(s, i, x)
           A == Useful(s, S \ {x})
           B == Useful(r, S)
<1>1. /\ r \in Seq(BootNum)
      /\ Len(r) = Len(s) + 1
      /\ \A j \in 1 .. i : r[j] = s[j]
      /\ r[i + 1] = x
      /\ \A j \in i + 2 .. Len(s) + 1 : r[j] = s[j - 1]
  BY InsertIndexFacts
<1> HIDE DEF r
<1>2. ASSUME NEW j \in 1 .. Len(s)
      PROVE  \E k \in 1 .. Len(r) : r[k] = s[j]
  <2>1. CASE j <= i
    BY <1>1, <2>1
  <2>2. CASE ~ (j <= i)
    <3>1. j + 1 \in i + 2 .. Len(s) + 1 /\ j + 1 \in 1 .. Len(r) /\ (j + 1) - 1 = j
      BY <1>1, <2>2
    <3> QED
      BY <1>1, <3>1
  <2> QED
    BY <2>1, <2>2
<1>3. i + 1 \in 1 .. Len(r)
  BY <1>1
<1>4. A \cup {x} \in SUBSET B /\ x \notin A
  BY <1>1, <1>2, <1>3 DEF Useful, Lists
<1>5. IsFiniteSet(A) /\ IsFiniteSet(B) /\ Cardinality(A) \in Nat /\ Cardinality(B) \in Nat
  BY UsefulFinite
<1>d. Waste(r, S) = Len(r) - Cardinality(B) /\ Waste(s, S \ {x}) = Len(s) - Cardinality(A)
  BY DEF Waste
<1> HIDE DEF A, B
<1>6. Cardinality(A \cup {x}) = Cardinality(A) + 1
  BY <1>4, <1>5, FS_AddElement
<1>7. Cardinality(A \cup {x}) <= Cardinality(B)
  BY <1>4, <1>5, FS_Subset
<1> QED
  BY <1>1, <1>5, <1>6, <1>7, <1>d DEF r

LEMMA InitDamage == Init => DamageInside /\ DamageBounded
<1> SUFFICES ASSUME Init PROVE DamageInside /\ DamageBounded
  OBVIOUS
<1>1. TypeOK /\ pc = "idle" /\ faults = 0 /\ Healthy
  BY InitTInv DEF Init, InitAny, TInv
<1>2. Damage = 0
  BY <1>1, NoWaste DEF Damage, Healthy, Exists, TypeOK
<1>3. InFlight = 0
  BY <1>1 DEF InFlight
<1>4. DamageBounded
  BY <1>1, <1>2, <1>3 DEF DamageBounded
<1> QED
  BY <1>1, <1>4 DEF DamageInside

\* A step that leaves NVRAM alone keeps the bound on the damage, when the entry
\* that is yet to be unlisted is paid for by a fault.
LEMMA QuietDamage ==
  ASSUME TypeOK, DamageBounded, UNCHANGED nvram, pc' \notin {"shrink", "deleteFromOrder"},
         \/ pc # "deleteFromOrder" /\ UNCHANGED faults
         \/ Fault
  PROVE  DamageInside' /\ DamageBounded'
<1>1. Damage' = Damage /\ Damage \in Int /\ faults \in Nat
  BY WasteType DEF nvram, Damage, TypeOK
<1>2. InFlight' = 0
  BY DEF InFlight
<1>3. CASE pc # "deleteFromOrder" /\ UNCHANGED faults
  <2>1. InFlight = 0
    BY <1>3 DEF InFlight
  <2> QED
    BY <1>1, <1>2, <1>3, <2>1 DEF DamageInside, DamageBounded
<1>4. CASE Fault
  <2>1. InFlight \in {0, 1}
    BY DEF InFlight
  <2> QED
    BY <1>1, <1>2, <1>4, <2>1 DEF DamageInside, DamageBounded, Fault
<1> QED
  BY <1>3, <1>4

LEMMA NothingInFlight ==
  ASSUME NEW d \in Int, NEW f \in Nat, Damage' = d, faults' = f, InFlight' = 0, d <= f
  PROVE  DamageBounded'
<1>1. d - 0 <= f
  OBVIOUS
<1> QED
  BY <1>1 DEF DamageBounded

LEMMA NextDamage == DInv /\ [Next]_vars => DamageInside' /\ DamageBounded'
<1> SUFFICES ASSUME DInv, [Next]_vars PROVE DamageInside' /\ DamageBounded'
  OBVIOUS
<1>t. TypeOK /\ IndexInBuffer /\ SlotFree /\ DamageInside /\ DamageBounded
  BY DEF DInv, TInv
<1>b. bootOrder \in Seq(BootNum) /\ faults \in Nat
  BY <1>t DEF TypeOK
<1>w. Damage \in Int
  BY <1>b, WasteType DEF Damage
<1>1. CASE Call
  <2>1. UNCHANGED << nvram, faults >> /\ pc = "idle" /\ pc' \notin {"shrink", "deleteFromOrder"}
    BY <1>1 DEF Call, AddBootOptionForFile, AddNoFreeSlot, AddRefused, DeleteBootOption,
         DeleteBootOptionForFile, DeleteForFileRefused, DeleteBootOptionsContainingFile,
         DeleteContainingNoOrder, Refuse, Return
  <2> QED
    BY <1>t, <2>1, QuietDamage
<1>2. CASE Failure
  <2>1. Fault /\ UNCHANGED nvram
    BY <1>2 DEF Failure, SaveOptionFails, SaveBootOrderFails, DeleteOptionFails,
         DeleteFromBootOrderFails, Reset
  <2>2. pc' \notin {"shrink", "deleteFromOrder"}
    BY <1>2, DeleteReturnsPc DEF Failure, SaveOptionFails, SaveBootOrderFails,
       DeleteOptionFails, DeleteFromBootOrderFails, Reset, Return
  <2> QED
    BY <1>t, <2>1, <2>2, QuietDamage
<1>3. CASE SaveOption
  <2>1. pc = "saveOption" /\ UNCHANGED << bootOrder, faults >> /\ pc' \in {"shrink", "idle"}
    BY <1>3 DEF SaveOption, Return
  <2>2. DOMAIN bootVar' = DOMAIN bootVar \cup {op.num} /\ op.num \notin DOMAIN bootVar
    BY <1>t, <1>3, <2>1 DEF SaveOption, SlotFree, Exists
  <2>3. Damage <= faults
    <3>1. InFlight = 0
      BY <2>1 DEF InFlight
    <3> QED
      BY <1>t, <1>w, <3>1 DEF DamageBounded
  <2>4. InFlight' = 0
    BY <2>1 DEF InFlight
  <2>5. Damage' <= Damage /\ Damage' \in Int
    <3>1. Waste(bootOrder, DOMAIN bootVar') <= Waste(bootOrder, DOMAIN bootVar)
      BY <1>b, <2>2, WasteOfMore
    <3>2. Waste(bootOrder, DOMAIN bootVar') \in Int
      BY <1>b, WasteType
    <3> QED
      BY <2>1, <3>1, <3>2 DEF Damage
  <2>6. DamageBounded'
    <3>1. PICK d : d = Damage'
      OBVIOUS
    <3>2. d \in Int /\ d <= Damage
      BY <2>5, <3>1
    <3>3. d <= faults
      BY <1>b, <1>w, <2>3, <3>2
    <3> QED
      BY <1>b, <2>1, <2>4, <3>1, <3>2, <3>3, NothingInFlight
  <2>7. ASSUME pc' = "shrink"
        PROVE  op'.num = op.num /\ op'.buf = bootOrder
    BY <1>t, <1>3, <2>7 DEF SaveOption, Return, TypeOK, Operation
  <2>8. DOMAIN bootVar' \ {op.num} = DOMAIN bootVar
    BY <2>2
  <2>9. ASSUME pc' = "shrink"
        PROVE  op'.num \in DOMAIN bootVar' /\ Waste(op'.buf, DOMAIN bootVar' \ {op'.num}) <= faults'
    BY <2>1, <2>2, <2>3, <2>7, <2>8, <2>9 DEF Damage
  <2> QED
    BY <2>1, <2>6, <2>9 DEF DamageInside, Exists
<1>4. CASE ShrinkRound
  <2>1. /\ UNCHANGED << nvram, pc, faults >> /\ pc = "shrink" /\ op'.num = op.num
        /\ op'.buf \in {op.buf, RemoveIndex(op.buf, op.index)}
    BY <1>t, <1>4 DEF ShrinkRound, TypeOK, Operation
  <2>2. op.buf \in Seq(BootNum) /\ op.index \in 0 .. Len(op.buf) - 1
    BY <1>t, <1>4 DEF ShrinkRound, TypeOK, Operation
  <2>3. /\ Waste(op'.buf, DOMAIN bootVar \ {op.num}) <= faults
        /\ op.num \in DOMAIN bootVar
    <3>1. /\ Waste(op.buf, DOMAIN bootVar \ {op.num}) <= faults
          /\ op.num \in DOMAIN bootVar
      BY <1>t, <2>1 DEF DamageInside, Exists
    <3>2. /\ Waste(RemoveIndex(op.buf, op.index), DOMAIN bootVar \ {op.num})
               <= Waste(op.buf, DOMAIN bootVar \ {op.num})
          /\ RemoveIndex(op.buf, op.index) \in Seq(BootNum)
      BY <2>2, WasteOfRemoved, RemoveIndexFacts
    <3>3. /\ Waste(RemoveIndex(op.buf, op.index), DOMAIN bootVar \ {op.num}) \in Int
          /\ Waste(op.buf, DOMAIN bootVar \ {op.num}) \in Int
      BY <2>2, <3>2, WasteType
    <3> QED
      BY <1>b, <2>1, <3>1, <3>2, <3>3
  <2>4. DamageInside'
    BY <2>1, <2>3 DEF DamageInside, nvram, Exists
  <2>5. Damage' = Damage /\ InFlight' = 0 /\ InFlight = 0
    BY <2>1 DEF Damage, nvram, InFlight
  <2> QED
    BY <1>t, <2>1, <2>4, <2>5 DEF DamageBounded
<1>5. CASE SaveBootOrder
  <2>1. op.buf \in Seq(BootNum) /\ op.at \in 0 .. Len(op.buf) /\ op.num \in BootNum
    BY <1>t, <1>5 DEF SaveBootOrder, TypeOK, Operation, IndexInBuffer
  <2>2. /\ pc = "shrink" /\ pc' = "idle" /\ UNCHANGED << bootVar, faults >>
        /\ bootOrder' = InsertIndex(op.buf, op.at, op.num)
    BY <1>5 DEF SaveBootOrder, Return
  <2>3. /\ op.num \in DOMAIN bootVar
        /\ Waste(op.buf, DOMAIN bootVar \ {op.num}) <= faults
    BY <1>t, <2>2 DEF DamageInside, Exists
  <2>4. /\ Waste(InsertIndex(op.buf, op.at, op.num), DOMAIN bootVar)
             <= Waste(op.buf, DOMAIN bootVar \ {op.num})
        /\ InsertIndex(op.buf, op.at, op.num) \in Seq(BootNum)
    BY <2>1, <2>3, WasteOfInserted, InsertIndexFacts
  <2>5. /\ Waste(InsertIndex(op.buf, op.at, op.num), DOMAIN bootVar) \in Int
        /\ Waste(op.buf, DOMAIN bootVar \ {op.num}) \in Int
    BY <2>1, <2>4, WasteType
  <2>6. Waste(InsertIndex(op.buf, op.at, op.num), DOMAIN bootVar) <= faults
    BY <1>b, <2>3, <2>4, <2>5
  <2>7. Damage' \in Int /\ Damage' <= faults /\ InFlight' = 0
    BY <2>2, <2>5, <2>6 DEF Damage, InFlight
  <2>8. DamageBounded'
    BY <1>b, <2>2, <2>7, NothingInFlight
  <2> QED
    BY <2>2, <2>8 DEF DamageInside
<1>6. CASE DeleteOption
  <2>1. pc = "deleteOption" /\ UNCHANGED << bootOrder, faults >>
    BY <1>6 DEF DeleteOption
  <2>2. InFlight = 0
    BY <2>1 DEF InFlight
  <2>3. CASE /\ Exists(op.num)
             /\ bootVar' = [n \in DOMAIN bootVar \ {op.num} |-> bootVar[n]]
             /\ pc' = "deleteFromOrder"
             /\ UNCHANGED << op, status >>
    <3>1. DOMAIN bootVar' = DOMAIN bootVar \ {op.num} /\ op.num \in DOMAIN bootVar
      BY <2>3 DEF Exists
    <3>2. Waste(bootOrder, DOMAIN bootVar \ {op.num})
            = IF Lists(bootOrder, op.num)
              THEN Waste(bootOrder, DOMAIN bootVar) + 1 ELSE Waste(bootOrder, DOMAIN bootVar)
      BY <1>b, <3>1, WasteOfDeleted
    <3>3. Damage' = IF Listed(op.num) THEN Damage + 1 ELSE Damage
      BY <2>1, <3>1, <3>2 DEF Damage, Listed
    <3>4. InFlight' = IF Listed(op.num) THEN 1 ELSE 0
      BY <2>1, <2>3 DEF InFlight, Listed, Lists
    <3>5. DamageBounded'
      BY <1>t, <1>b, <1>w, <2>1, <2>2, <3>3, <3>4 DEF DamageBounded
    <3> QED
      BY <2>3, <3>1, <3>5 DEF DamageInside, Exists
  <2>4. CASE DeleteReturns("NOT_FOUND") /\ UNCHANGED bootVar
    <3>1. pc' \notin {"shrink", "deleteFromOrder"}
      BY <2>4, DeleteReturnsPc
    <3> QED
      BY <1>t, <2>1, <2>4, <3>1, QuietDamage DEF nvram
  <2> QED
    BY <1>6, <2>3, <2>4 DEF DeleteOption
<1>7. CASE DeleteFromBootOrder
  <2>1. /\ pc' \notin {"shrink", "deleteFromOrder"} /\ pc = "deleteFromOrder"
        /\ UNCHANGED << bootVar, faults >> /\ op.num \notin DOMAIN bootVar
    BY <1>t, <1>7, DeleteReturnsPc DEF DeleteFromBootOrder, DamageInside, Exists
  <2>2. CASE \E i \in 1 .. Len(bootOrder) :
               bootOrder[i] = op.num /\ bootOrder' = RemoveIndex(bootOrder, i - 1)
    <3>1. PICK k \in 1 .. Len(bootOrder) :
            bootOrder[k] = op.num /\ bootOrder' = RemoveIndex(bootOrder, k - 1)
      BY <2>2
    <3>2. k - 1 \in 0 .. Len(bootOrder) - 1 /\ (k - 1) + 1 = k
      BY <1>b
    <3>3. Waste(RemoveIndex(bootOrder, k - 1), DOMAIN bootVar)
            = Waste(bootOrder, DOMAIN bootVar) - 1
      BY <1>b, <2>1, <3>1, <3>2, WasteOfRemoved
    <3>4. Damage' = Damage - 1
      BY <2>1, <3>1, <3>3 DEF Damage
    <3>5. InFlight = 1 /\ InFlight' = 0
      BY <2>1, <3>1 DEF InFlight, Listed, Lists
    <3> QED
      BY <1>t, <1>b, <1>w, <2>1, <3>4, <3>5 DEF DamageInside, DamageBounded
  <2>3. CASE ~ Listed(op.num) /\ UNCHANGED bootOrder
    <3>1. Damage' = Damage /\ InFlight = 0 /\ InFlight' = 0
      BY <2>1, <2>3 DEF Damage, InFlight
    <3> QED
      BY <1>t, <2>1, <3>1 DEF DamageInside, DamageBounded
  <2> QED
    BY <1>7, <2>2, <2>3 DEF DeleteFromBootOrder
<1>8. CASE FindBootOptionForFile \/ Scan
  <2>1. /\ pc \in {"find", "scan"} /\ pc' \notin {"shrink", "deleteFromOrder"}
        /\ UNCHANGED << nvram, faults >>
    BY <1>8 DEF FindBootOptionForFile, Scan, Return
  <2> QED
    BY <1>t, <2>1, QuietDamage
<1>9. CASE UNCHANGED vars
  <2>1. Damage' = Damage /\ InFlight' = InFlight
    BY <1>9 DEF vars, Damage, InFlight, Listed
  <2> QED
    BY <1>t, <1>9, <2>1 DEF vars, DamageInside, DamageBounded, Exists
<1> QED
  BY <1>1, <1>2, <1>3, <1>4, <1>5, <1>6, <1>7, <1>8, <1>9 DEF Next, Progress

\* Starting from a healthy NVRAM, BootOrder never has more useless entries,
\* dangling or repeated, than writes have failed and resets have struck: no
\* operation of BootOptions.cpp makes the damage of another one spread.
THEOREM DamageIsBounded == Spec => []DamageBounded
<1>1. Init => DInv
  BY InitTInv, InitDamage DEF Init, DInv
<1>2. DInv /\ [Next]_vars => DInv'
  BY NextTInv, NextDamage DEF DInv
<1>3. DInv => DamageBounded
  BY DEF DInv
<1> QED
  BY <1>1, <1>2, <1>3, PTL DEF Spec

-------------------------------------------------------------------------------
(* The order of the entries *)

LEMMA InOrderSelf ==
  ASSUME NEW s \in Seq(BootNum)
  PROVE  InOrder(s, 1 .. Len(s), s)
  BY DEF InOrder

\* Entries that are taken from s at growing positions keep the order of s.
LEMMA InOrderTaken ==
  ASSUME NEW s, NEW P, NEW t, InOrder(s, P, t),
         NEW r, NEW Q \in SUBSET Nat, NEW pos \in [Q -> P],
         \A j \in Q : r[j] = s[pos[j]],
         \A i, j \in Q : (i <= j => pos[i] <= pos[j]) /\ (i < j => pos[i] < pos[j])
  PROVE  InOrder(r, Q, t)
<1> SUFFICES ASSUME NEW i \in Q, NEW j \in Q, i <= j
             PROVE  \E p, q \in 1 .. Len(t) : (i < j => p < q) /\ t[p] = r[i] /\ t[q] = r[j]
  BY DEF InOrder
<1>1. pos[i] \in P /\ pos[j] \in P /\ pos[i] <= pos[j]
  OBVIOUS
<1>2. PICK p \in 1 .. Len(t), q \in 1 .. Len(t) :
        (pos[i] < pos[j] => p < q) /\ t[p] = s[pos[i]] /\ t[q] = s[pos[j]]
  BY <1>1 DEF InOrder
<1>3. (i < j => p < q) /\ t[p] = r[i] /\ t[q] = r[j]
  BY <1>2
<1> QED
  BY <1>3

LEMMA InOrderRemoved ==
  ASSUME NEW s \in Seq(BootNum), NEW t, NEW i \in 0 .. Len(s) - 1, InOrder(s, 1 .. Len(s), t)
  PROVE  InOrder(RemoveIndex(s, i), 1 .. Len(RemoveIndex(s, i)), t)
<1> DEFINE r == RemoveIndex(s, i)
           Q == 1 .. Len(r)
           pos == [j \in Q |-> IF j <= i THEN j ELSE j + 1]
<1>0. Len(s) \in Nat
  OBVIOUS
<1>1. /\ Len(r) = Len(s) - 1
      /\ \A j \in 1 .. Len(s) - 1 : r[j] = IF j <= i THEN s[j] ELSE s[j + 1]
  BY RemoveIndexFacts
<1> HIDE DEF r
<1>2. \A j \in Q : pos[j] = IF j <= i THEN j ELSE j + 1
  OBVIOUS
<1>3. pos \in [Q -> 1 .. Len(s)] /\ Q \in SUBSET Nat
  BY <1>0, <1>1
<1>4. \A j \in Q : r[j] = s[pos[j]]
  BY <1>0, <1>1
<1>5. \A j, k \in Q : (j <= k => pos[j] <= pos[k]) /\ (j < k => pos[j] < pos[k])
  BY <1>0, <1>1, <1>2
<1> HIDE DEF pos, Q
<1>6. InOrder(r, Q, t)
  BY <1>3, <1>4, <1>5, InOrderTaken
<1> QED
  BY <1>6 DEF r, Q

\* What an insertion adds is one entry: the others are in the order they had.
LEMMA InOrderInserted ==
  ASSUME NEW s \in Seq(BootNum), NEW t, NEW i \in 0 .. Len(s), NEW x \in BootNum,
         InOrder(s, 1 .. Len(s), t)
  PROVE  InOrder(InsertIndex(s, i, x), (1 .. Len(InsertIndex(s, i, x))) \ {i + 1}, t)
<1> DEFINE r == InsertIndex(s, i, x)
           Q == (1 .. Len(r)) \ {i + 1}
           pos == [j \in Q |-> IF j <= i THEN j ELSE j - 1]
<1>1. /\ Len(r) = Len(s) + 1 /\ Len(s) \in Nat
      /\ \A j \in 1 .. i : r[j] = s[j]
      /\ \A j \in i + 2 .. Len(s) + 1 : r[j] = s[j - 1]
  BY InsertIndexFacts
<1> HIDE DEF r
<1>2. \A j \in Q : pos[j] = IF j <= i THEN j ELSE j - 1
  OBVIOUS
<1>3. pos \in [Q -> 1 .. Len(s)] /\ Q \in SUBSET Nat
  BY <1>1
<1>4. ASSUME NEW j \in Q
      PROVE  r[j] = s[pos[j]]
  <2>1. CASE j <= i
    BY <1>1, <1>2, <2>1
  <2>2. CASE ~ (j <= i)
    <3>1. j \in i + 2 .. Len(s) + 1 /\ pos[j] = j - 1
      BY <1>1, <2>2
    <3> QED
      BY <1>1, <3>1
  <2> QED
    BY <2>1, <2>2
<1>5. \A j, k \in Q : (j <= k => pos[j] <= pos[k]) /\ (j < k => pos[j] < pos[k])
  BY <1>1, <1>2
<1> HIDE DEF pos, Q
<1>6. InOrder(r, Q, t)
  BY <1>3, <1>4, <1>5, InOrderTaken
<1> QED
  BY <1>6 DEF r, Q

\* Which operation runs at which place, and that faults are only added.
CallInside ==
  /\ pc = "idle" \/ op.faults0 <= faults
  /\ pc \in {"saveOption", "shrink"} => op.call = "Add"
  /\ pc = "find" => op.call = "DeleteForFile"
  /\ pc = "scan" => op.call = "DeleteContaining"

\* AddToBootOrder has not written BootOrder yet, and its copy is in the order of
\* BootOrder; an index 0 stays 0.
AddInside ==
  /\ pc \in {"saveOption", "shrink"} =>
       op.order0 = bootOrder /\ (op.at0 = 0 => op.at = 0)
  /\ pc = "shrink" => InOrder(op.buf, 1 .. Len(op.buf), op.order0)

AInv == TInv /\ CallInside /\ AddInside

LEMMA InitAInv == InitAny => AInv
<1> SUFFICES ASSUME InitAny PROVE AInv
  OBVIOUS
<1>1. pc = "idle"
  BY DEF InitAny
<1> QED
  BY <1>1, InitTInv DEF AInv, CallInside, AddInside

\* DeleteBootOption's way back to its caller.
LEMMA DeleteReturnsCall ==
  ASSUME TypeOK, NEW st, DeleteReturns(st)
  PROVE  \/ pc' = "idle" /\ op.call = "Delete"
         \/ pc' = "find" /\ op.call = "DeleteForFile" /\ op' = op
         \/ /\ pc' = "scan" /\ op.call = "DeleteContaining"
            /\ op' = [op EXCEPT !.index = op.index + 1,
                                !.ret = IF st = "SUCCESS" THEN st ELSE op.ret]
            /\ op'.call = op.call /\ op'.faults0 = op.faults0
            /\ op'.var0 = op.var0 /\ op'.order0 = op.order0
            /\ op'.file = op.file /\ op'.pattern = op.pattern
            /\ op'.buf = op.buf /\ op'.index = op.index + 1
            /\ op'.ret = IF st = "SUCCESS" THEN st ELSE op.ret
  BY DEF DeleteReturns, Return, TypeOK, Operation

LEMMA NextAInv == AInv /\ [Next]_vars => AInv'
<1> SUFFICES ASSUME AInv, [Next]_vars PROVE AInv'
  OBVIOUS
<1>t. TInv /\ TypeOK /\ IndexInBuffer /\ CallInside /\ AddInside
  BY DEF AInv, TInv
<1>n. TInv'
  BY <1>t, NextTInv
<1>f. faults \in Nat /\ op.faults0 \in Nat /\ op \in Operation
  BY <1>t DEF TypeOK, Operation
<1> SUFFICES CallInside' /\ AddInside'
  BY <1>n DEF AInv
<1>1. ASSUME NEW f \in File, NEW useShortForm \in BOOLEAN, NEW bootIndex \in BootIndexes,
             AddBootOptionForFile(f, useShortForm, bootIndex)
      PROVE  CallInside' /\ AddInside'
  <2>1. PICK n \in BootNum :
          op' = [Started("Add") EXCEPT
                   !.num = n,
                   !.option = OptionOf(CreateBootOptionDevicePath(f[1], f[2], useShortForm)),
                   !.at = bootIndex, !.at0 = bootIndex]
    BY <1>1 DEF AddBootOptionForFile
  <2>2. Started("Add") \in Operation
    BY <1>t, StartedType
  <2>3. /\ Started("Add").call = "Add" /\ Started("Add").faults0 = faults
        /\ Started("Add").order0 = bootOrder
    BY DEF Started, Idle
  <2>4. /\ op'.call = "Add" /\ op'.faults0 = faults /\ op'.order0 = bootOrder
        /\ op'.at = bootIndex /\ op'.at0 = bootIndex
    BY <2>1, <2>2, <2>3 DEF Operation
  <2> QED
    BY <1>1, <1>f, <2>4 DEF AddBootOptionForFile, CallInside, AddInside, nvram
<1>2. ASSUME pc' = "idle"
      PROVE  CallInside' /\ AddInside'
  BY <1>2 DEF CallInside, AddInside
<1>3. ASSUME NEW n \in BootNum, DeleteBootOption(n)
      PROVE  CallInside' /\ AddInside'
  <2>1. op'.faults0 = faults
    BY <1>3 DEF DeleteBootOption, Started, Idle
  <2> QED
    BY <1>3, <1>f, <2>1 DEF DeleteBootOption, CallInside, AddInside
<1>4. ASSUME NEW f \in File, DeleteBootOptionForFile(f)
      PROVE  CallInside' /\ AddInside'
  <2>1. op'.faults0 = faults /\ op'.call = "DeleteForFile"
    BY <1>4 DEF DeleteBootOptionForFile, Started, Idle
  <2> QED
    BY <1>4, <1>f, <2>1 DEF DeleteBootOptionForFile, CallInside, AddInside
<1>5. ASSUME NEW names \in SUBSET Name, DeleteBootOptionsContainingFile(names)
      PROVE  CallInside' /\ AddInside'
  <2>1. op'.faults0 = faults /\ op'.call = "DeleteContaining"
    BY <1>5 DEF DeleteBootOptionsContainingFile, Started, Idle
  <2> QED
    BY <1>5, <1>f, <2>1 DEF DeleteBootOptionsContainingFile, CallInside, AddInside
<1>6. CASE SaveOption
  <2>1. CASE pc' = "shrink"
    <3>1. /\ pc = "saveOption" /\ UNCHANGED << bootOrder, faults >>
          /\ op' = [op EXCEPT !.buf = bootOrder, !.index = 0,
                              !.at = ClampedIndex(op.at, Len(bootOrder))]
      BY <1>6, <2>1 DEF SaveOption, Return
    <3>2. /\ op'.call = op.call /\ op'.faults0 = op.faults0 /\ op'.order0 = op.order0
          /\ op'.at0 = op.at0 /\ op'.buf = bootOrder
          /\ op'.at = ClampedIndex(op.at, Len(bootOrder))
      BY <1>f, <3>1 DEF Operation
    <3>3. op.at = 0 => ClampedIndex(op.at, Len(bootOrder)) = 0
      BY <1>t DEF ClampedIndex, TypeOK
    <3>4. InOrder(bootOrder, 1 .. Len(bootOrder), bootOrder)
      BY <1>t, InOrderSelf DEF TypeOK
    <3> QED
      BY <1>t, <2>1, <3>1, <3>2, <3>3, <3>4 DEF CallInside, AddInside
  <2>2. CASE pc' = "idle"
    BY <1>2, <2>2
  <2> QED
    BY <1>6, <2>1, <2>2 DEF SaveOption, Return
<1>7. CASE ShrinkRound
  <2>1. /\ pc = "shrink" /\ UNCHANGED << bootOrder, pc, faults >>
        /\ op.buf \in Seq(BootNum) /\ op.index \in 0 .. Len(op.buf) - 1
    BY <1>t, <1>7 DEF ShrinkRound, nvram, TypeOK, Operation
  <2>2. /\ op'.call = op.call /\ op'.faults0 = op.faults0 /\ op'.order0 = op.order0
        /\ op'.at0 = op.at0
        /\ op'.at \in {op.at, ShiftedIndex(op.at, op.index)}
        /\ op'.buf \in {op.buf, RemoveIndex(op.buf, op.index)}
    BY <1>f, <1>7 DEF ShrinkRound, Operation
  <2>3. op.at = 0 => op'.at = 0
    BY <2>1, <2>2 DEF ShiftedIndex
  <2>4. InOrder(op'.buf, 1 .. Len(op'.buf), op.order0)
    <3>1. InOrder(op.buf, 1 .. Len(op.buf), op.order0)
      BY <1>t, <2>1 DEF AddInside
    <3>2. InOrder(RemoveIndex(op.buf, op.index), 1 .. Len(RemoveIndex(op.buf, op.index)), op.order0)
      BY <2>1, <3>1, InOrderRemoved
    <3> QED
      BY <2>2, <3>1, <3>2
  <2> QED
    BY <1>t, <2>1, <2>2, <2>3, <2>4 DEF CallInside, AddInside
<1>8. ASSUME NEW st, DeleteReturns(st), faults' >= faults, faults' \in Nat, pc # "idle"
      PROVE  CallInside' /\ AddInside'
  <2>1. op.faults0 <= faults'
    BY <1>t, <1>f, <1>8 DEF CallInside
  <2> QED
    BY <1>t, <1>8, <2>1, DeleteReturnsCall DEF CallInside, AddInside
<1>9. CASE DeleteOption
  <2>1. CASE pc' = "deleteFromOrder" /\ UNCHANGED op
    BY <1>t, <1>9, <2>1 DEF DeleteOption, CallInside, AddInside
  <2> QED
    BY <1>8, <1>9, <1>f, <2>1 DEF DeleteOption
<1>10. CASE DeleteFromBootOrder
  BY <1>8, <1>10, <1>f DEF DeleteFromBootOrder
<1>11. CASE DeleteOptionFails \/ DeleteFromBootOrderFails
  <2>1. DeleteReturns("DEVICE_ERROR") /\ pc # "idle" /\ faults' = faults + 1
    BY <1>11 DEF DeleteOptionFails, DeleteFromBootOrderFails, Fault
  <2> QED
    BY <1>8, <1>f, <2>1
<1>12. CASE FindBootOptionForFile
  <2>1. CASE \E i \in 0 .. Len(bootOrder) - 1 :
               op' = [op EXCEPT !.num = bootOrder[i + 1]] /\ pc' = "deleteOption"
    <3>1. op'.faults0 = op.faults0
      BY <1>f, <2>1 DEF Operation
    <3> QED
      BY <1>t, <1>12, <2>1, <3>1 DEF FindBootOptionForFile, CallInside, AddInside
  <2> QED
    BY <1>2, <1>12, <2>1 DEF FindBootOptionForFile, Return
<1>13. CASE Scan
  <2>1. CASE op' = [op EXCEPT !.num = ScanOrder[op.index + 1]] /\ pc' = "deleteOption"
    <3>1. op'.faults0 = op.faults0
      BY <1>f, <2>1 DEF Operation
    <3> QED
      BY <1>t, <1>13, <2>1, <3>1 DEF Scan, CallInside, AddInside
  <2>2. CASE op' = [op EXCEPT !.index = op.index + 1] /\ pc' = pc
    <3>1. op'.faults0 = op.faults0 /\ op'.call = op.call
      BY <1>f, <2>2 DEF Operation
    <3> QED
      BY <1>t, <1>13, <2>2, <3>1 DEF Scan, CallInside, AddInside
  <2> QED
    BY <1>2, <1>13, <2>1, <2>2 DEF Scan, Return
<1>14. CASE UNCHANGED vars
  BY <1>t, <1>14 DEF vars, CallInside, AddInside
<1>15. ASSUME \/ AddNoFreeSlot \/ AddRefused \/ DeleteForFileRefused
              \/ DeleteContainingNoOrder
              \/ SaveOptionFails \/ SaveBootOrder \/ SaveBootOrderFails \/ Reset
       PROVE  CallInside' /\ AddInside'
  BY <1>2, <1>15 DEF AddNoFreeSlot, AddRefused, DeleteForFileRefused, DeleteContainingNoOrder, Refuse,
         SaveOptionFails, SaveBootOrder, SaveBootOrderFails, Reset, Return
<1>16. CASE Call
  BY <1>1, <1>3, <1>4, <1>5, <1>15, <1>16 DEF Call
<1>17. CASE Progress
  BY <1>6, <1>7, <1>9, <1>10, <1>12, <1>13, <1>15, <1>17 DEF Progress
<1>18. CASE Failure
  BY <1>11, <1>15, <1>18 DEF Failure
<1> QED
  BY <1>14, <1>16, <1>17, <1>18 DEF Next

\* Whatever NVRAM held at the start and whatever failed before, an AddBootOption
\* that succeeds leaves the entries it keeps in the order they had, brings in
\* none but its own, and puts that one first when index 0 was asked for.
THEOREM AddKeepsOrder == SpecAny => AddKeepsRelativeOrder
<1> DEFINE Placed ==
      Returns("Add") /\ status' = "SUCCESS" =>
        \E k \in 1 .. Len(bootOrder') :
          /\ bootOrder'[k] = op.num
          /\ op.at0 = 0 => k = 1
          /\ InOrder(bootOrder', (1 .. Len(bootOrder')) \ {k}, op.order0)
<1>1. AInv /\ [Next]_vars => [Placed]_vars
  <2> SUFFICES ASSUME AInv, [Next]_vars, Returns("Add"), status' = "SUCCESS"
               PROVE  \E k \in 1 .. Len(bootOrder') :
                        /\ bootOrder'[k] = op.num
                        /\ op.at0 = 0 => k = 1
                        /\ InOrder(bootOrder', (1 .. Len(bootOrder')) \ {k}, op.order0)
    OBVIOUS
  <2>t. TypeOK /\ IndexInBuffer /\ CallInside /\ AddInside
    BY DEF AInv, TInv
  <2>1. SaveBootOrder
    <3>0. pc # "idle" /\ pc' = "idle" /\ op.call = "Add"
      BY DEF Returns
    <3>1. ~ Call
      BY <3>0 DEF Call, AddBootOptionForFile, AddNoFreeSlot, AddRefused, DeleteBootOption,
         DeleteBootOptionForFile, DeleteForFileRefused, DeleteBootOptionsContainingFile,
         DeleteContainingNoOrder, Refuse
    <3>2. ~ Failure
      BY <3>0 DEF Failure, SaveOptionFails, SaveBootOrderFails, DeleteOptionFails,
         DeleteFromBootOrderFails, Reset, DeleteReturns, Return
    <3>3. ~ SaveOption /\ ~ ShrinkRound
      BY <3>0 DEF SaveOption, ShrinkRound, Return
    <3>4. ~ DeleteOption /\ ~ DeleteFromBootOrder
      BY <3>0 DEF DeleteOption, DeleteFromBootOrder, DeleteReturns, Return
    <3>5. ~ FindBootOptionForFile /\ ~ Scan
      BY <2>t, <3>0 DEF FindBootOptionForFile, Scan, CallInside
    <3>6. ~ UNCHANGED vars
      BY <3>0 DEF vars
    <3> QED
      BY <3>1, <3>2, <3>3, <3>4, <3>5, <3>6 DEF Next, Progress
  <2>2. /\ pc = "shrink" /\ bootOrder' = InsertIndex(op.buf, op.at, op.num)
        /\ op.buf \in Seq(BootNum) /\ op.at \in 0 .. Len(op.buf) /\ op.num \in BootNum
    BY <2>t, <2>1 DEF SaveBootOrder, TypeOK, Operation, IndexInBuffer
  <2>3. /\ InOrder(op.buf, 1 .. Len(op.buf), op.order0)
        /\ op.at0 = 0 => op.at = 0
    BY <2>t, <2>2 DEF AddInside
  <2>4. /\ Len(bootOrder') = Len(op.buf) + 1
        /\ bootOrder'[op.at + 1] = op.num
    BY <2>2, InsertIndexFacts
  <2>5. InOrder(bootOrder', (1 .. Len(bootOrder')) \ {op.at + 1}, op.order0)
    BY <2>2, <2>3, InOrderInserted
  <2>6. op.at + 1 \in 1 .. Len(bootOrder') /\ (op.at0 = 0 => op.at + 1 = 1)
    BY <2>2, <2>3, <2>4
  <2> QED
    BY <2>4, <2>5, <2>6
<1> QED
  BY InitAInv, NextAInv, <1>1, PTL DEF SpecAny, AddKeepsRelativeOrder

-------------------------------------------------------------------------------
(* The comparison of paths *)

Node == {HwNode(v) : v \in Volume} \cup {HdNode(v) : v \in Volume}
          \cup {FileNode(s) : s \in Spelling}

\* The three paths that CreateBootOptionDevicePath builds.
LEMMA CreatedPath ==
  ASSUME NEW v \in Volume, NEW s \in Spelling, NEW short \in BOOLEAN
  PROVE  CreateBootOptionDevicePath(v, s, short) =
           IF v \notin HDVolume THEN << HwNode(v), FileNode(s) >>
           ELSE IF short THEN << HdNode(v), FileNode(s) >>
                ELSE << HwNode(v), HdNode(v), FileNode(s) >>
<1> DEFINE full == FileDevicePath(v, s)
<1>0. /\ HwNode(v).type = "hw" /\ HdNode(v).type = "hd" /\ FileNode(s).type = "file"
  BY DEF HwNode, HdNode, FileNode
<1>1. CASE v \notin HDVolume
  <2>1. full = << HwNode(v), FileNode(s) >>
    BY <1>1 DEF FileDevicePath
  <2>2. Len(full) = 2 /\ full[1] = HwNode(v) /\ full[2] = FileNode(s)
    BY <2>1
  <2>3. ~ HasNode(full, "hd")
    BY <1>0, <2>2 DEF HasNode
  <2> QED
    BY <1>1, <2>1, <2>3 DEF CreateBootOptionDevicePath
<1>2. CASE v \in HDVolume
  <2>1. full = << HwNode(v), HdNode(v), FileNode(s) >>
    BY <1>2 DEF FileDevicePath
  <2>2. Len(full) = 3 /\ full[1] = HwNode(v) /\ full[2] = HdNode(v) /\ full[3] = FileNode(s)
    BY <2>1
  <2>3. HasNode(full, "hd")
    BY <1>0, <2>2 DEF HasNode
  <2> DEFINE First(i) == /\ full[i].type = "hd"
                         /\ \A j \in 1 .. i - 1 : full[j].type # "hd"
             first == CHOOSE i \in 1 .. Len(full) : First(i)
  <2>4. \A i \in 1 .. Len(full) : First(i) <=> i = 2
    <3>1. ASSUME NEW i \in 1 .. Len(full)
          PROVE  First(i) <=> i = 2
      <4>1. CASE i = 1
        BY <1>0, <2>2, <4>1
      <4>2. CASE i = 2
        BY <1>0, <2>2, <4>2
      <4>3. CASE i = 3
        BY <1>0, <2>2, <4>3
      <4> QED
        BY <2>2, <4>1, <4>2, <4>3
    <3> QED
      BY <3>1
  <2>5. first = 2
    <3>1. 2 \in 1 .. Len(full)
      BY <2>2
    <3> HIDE DEF First
    <3> QED
      BY <2>4, <3>1
  <2>6. FindDevicePathNodeWithType(full, "hd") = SubSeq(full, 2, Len(full))
    BY <2>5 DEF FindDevicePathNodeWithType
  <2>7. SubSeq(full, 2, Len(full)) = << HdNode(v), FileNode(s) >>
    <3>1. HwNode(v) \in Node /\ HdNode(v) \in Node /\ FileNode(s) \in Node
      BY DEF Node
    <3>2. full \in Seq(Node) /\ << HdNode(v), FileNode(s) >> \in Seq(Node)
      BY <2>1, <3>1
    <3> HIDE DEF full
    <3>3. /\ SubSeq(full, 2, 3) \in Seq(Node)
          /\ Len(SubSeq(full, 2, 3)) = 2
          /\ SubSeq(full, 2, 3)[1] = full[2]
          /\ SubSeq(full, 2, 3)[2] = full[3]
      BY <2>2, <3>2
    <3>4. PICK a, b : a = SubSeq(full, 2, 3) /\ b = << HdNode(v), FileNode(s) >>
      OBVIOUS
    <3>5. /\ a \in Seq(Node) /\ Len(a) = 2 /\ a[1] = HdNode(v) /\ a[2] = FileNode(s)
          /\ b \in Seq(Node) /\ Len(b) = 2 /\ b[1] = HdNode(v) /\ b[2] = FileNode(s)
      BY <2>2, <3>2, <3>3, <3>4
    <3>6. a = b
      BY <3>5, SeqEqual
    <3> QED
      BY <2>2, <3>4, <3>6
  <2> QED
    BY <1>2, <2>1, <2>3, <2>6, <2>7 DEF CreateBootOptionDevicePath
<1> QED
  BY <1>1, <1>2

\* Equal nodes are the same node, case apart.
LEMMA NodesEqual ==
  ASSUME NEW n1 \in Node, NEW n2 \in Node
  PROVE  NodeEqual(n1, n2) <=> n1 = n2
  BY DEF Node, NodeEqual, SameNodeLength, HwNode, HdNode, FileNode, Spelling

LEMMA PathsEqual ==
  ASSUME NEW p1 \in Seq(Node), NEW p2 \in Seq(Node)
  PROVE  DevicePathEqual(p1, p2) <=> p1 = p2
<1>1. \A i \in 1 .. Len(p1) : Len(p1) = Len(p2) => p1[i] \in Node /\ p2[i] \in Node
  OBVIOUS
<1>2. DevicePathEqual(p1, p2) <=>
        Len(p1) = Len(p2) /\ \A i \in 1 .. Len(p1) : p1[i] = p2[i]
  BY <1>1, NodesEqual DEF DevicePathEqual
<1> QED
  BY <1>2, SeqEqual

LEMMA ContentPaths ==
  ASSUME NEW v \in Volume, NEW s \in Spelling, NEW short \in BOOLEAN
  PROVE  CreateBootOptionDevicePath(v, s, short) \in Seq(Node)
<1>1. HwNode(v) \in Node /\ HdNode(v) \in Node /\ FileNode(s) \in Node
  BY DEF Node
<1>2. /\ << HwNode(v), FileNode(s) >> \in Seq(Node)
      /\ << HdNode(v), FileNode(s) >> \in Seq(Node)
      /\ << HwNode(v), HdNode(v), FileNode(s) >> \in Seq(Node)
  BY <1>1
<1> QED
  BY <1>2, CreatedPath

\* Of the contents a Boot#### variable can have, FindBootOptionForFile finds
\* the two forms of the option for the file and no other.
LEMMA MatchesForFile ==
  ASSUME NEW c \in Content, NEW f \in File
  PROVE  PathMatches(c, f) <=> c \in ForFile(f)
<1>1. f[1] \in Volume /\ f[2] \in Spelling
  BY FileAssumption
<1>2. \A short \in BOOLEAN : CreateBootOptionDevicePath(f[1], f[2], short) \in Seq(Node)
  BY <1>1, ContentPaths
<1>3. c.parses => c.path \in Seq(Node) /\ c = OptionOf(c.path)
  <2>1. ASSUME c = Unparsable
        PROVE  ~ c.parses
    BY <2>1 DEF Unparsable
  <2>2. ASSUME NEW v \in Volume, c = OptionOf(<< HwNode(v) >>)
        PROVE  c.path \in Seq(Node) /\ c = OptionOf(c.path)
    <3>1. HwNode(v) \in Node
      BY DEF Node
    <3>2. << HwNode(v) >> \in Seq(Node)
      BY <3>1
    <3> QED
      BY <2>2, <3>2 DEF OptionOf
  <2>3. ASSUME NEW g \in File, NEW short \in BOOLEAN,
               c = OptionOf(CreateBootOptionDevicePath(g[1], g[2], short))
        PROVE  c.path \in Seq(Node) /\ c = OptionOf(c.path)
    <3>1. g[1] \in Volume /\ g[2] \in Spelling
      BY FileAssumption
    <3>2. CreateBootOptionDevicePath(g[1], g[2], short) \in Seq(Node)
      BY <3>1, ContentPaths
    <3> QED
      BY <2>3, <3>2 DEF OptionOf
  <2>4. \/ c = Unparsable
        \/ \E v \in Volume : c = OptionOf(<< HwNode(v) >>)
        \/ \E g \in File, short \in BOOLEAN :
             c = OptionOf(CreateBootOptionDevicePath(g[1], g[2], short))
    BY DEF Content
  <2> QED
    BY <2>1, <2>2, <2>3, <2>4
<1>4. ASSUME c.parses, NEW short \in BOOLEAN
      PROVE  DevicePathEqual(CreateBootOptionDevicePath(f[1], f[2], short), c.path)
               <=> CreateBootOptionDevicePath(f[1], f[2], short) = c.path
  BY <1>2, <1>3, <1>4, PathsEqual
<1>5. ASSUME NEW p
      PROVE  OptionOf(p).parses /\ OptionOf(p).path = p
  BY DEF OptionOf
<1>6. ASSUME PathMatches(c, f)
      PROVE  c \in ForFile(f)
  BY <1>3, <1>4, <1>6 DEF PathMatches, ForFile
<1>7. ASSUME c \in ForFile(f)
      PROVE  PathMatches(c, f)
  BY <1>4, <1>5, <1>7 DEF PathMatches, ForFile
<1> QED
  BY <1>6, <1>7

-------------------------------------------------------------------------------
(* The two operations that delete in a loop *)

\* The state of such a loop, from the NVRAM it found (var0, order0) to the one
\* it has reached: nothing but doomed and listed options is gone, and BootOrder
\* has lost their entries but for the pending one.
SoFar(var, order, var0, order0, doomed, pending) ==
  /\ DOMAIN var \subseteq DOMAIN var0
  /\ \A n \in DOMAIN var : var[n] = var0[n]
  /\ \A n \in DOMAIN var0 \ DOMAIN var : var0[n] \in doomed /\ Lists(order0, n)
  /\ Distinct(order)
  /\ InOrder(order, 1 .. Len(order), order0)
  /\ \A n \in BootNum : Lists(order, n) <=> Lists(order0, n) /\ n \in DOMAIN var \cup pending

LEMMA SoFarBegins ==
  ASSUME NEW var, NEW order \in Seq(BootNum), NEW doomed,
         \A i \in 1 .. Len(order) : order[i] \in DOMAIN var, Distinct(order)
  PROVE  SoFar(var, order, var, order, doomed, {})
  BY InOrderSelf DEF SoFar, Lists

\* SetVariable deletes an option that is doomed and listed.
LEMMA SoFarDeletes ==
  ASSUME NEW var, NEW order, NEW var0, NEW order0, NEW doomed, NEW n \in DOMAIN var,
         SoFar(var, order, var0, order0, doomed, {}), var[n] \in doomed, n \in BootNum,
         Lists(order, n)
  PROVE  SoFar([m \in DOMAIN var \ {n} |-> var[m]], order, var0, order0, doomed, {n})
<1> DEFINE less == [m \in DOMAIN var \ {n} |-> var[m]]
<1>1. DOMAIN less = DOMAIN var \ {n} /\ \A m \in DOMAIN less : less[m] = var[m]
  OBVIOUS
<1> HIDE DEF less
<1>2. DOMAIN less \subseteq DOMAIN var0 /\ \A m \in DOMAIN less : less[m] = var0[m]
  BY <1>1 DEF SoFar
<1>3. \A m \in DOMAIN var0 \ DOMAIN less : var0[m] \in doomed /\ Lists(order0, m)
  BY <1>1 DEF SoFar
<1>4. \A m \in BootNum : Lists(order, m) <=> Lists(order0, m) /\ m \in DOMAIN less \cup {n}
  BY <1>1 DEF SoFar
<1>5. SoFar(less, order, var0, order0, doomed, {n})
  BY <1>2, <1>3, <1>4 DEF SoFar
<1> QED
  BY <1>5 DEF less

\* DeleteFromBootOrder removes its entry, the only one of that number.
LEMMA SoFarUnlists ==
  ASSUME NEW var, NEW order \in Seq(BootNum), NEW var0, NEW order0, NEW doomed, NEW n,
         SoFar(var, order, var0, order0, doomed, {n}), n \notin DOMAIN var,
         NEW k \in 1 .. Len(order), order[k] = n
  PROVE  SoFar(var, RemoveIndex(order, k - 1), var0, order0, doomed, {})
<1> DEFINE r == RemoveIndex(order, k - 1)
<1>0. k - 1 \in 0 .. Len(order) - 1 /\ (k - 1) + 1 = k /\ Len(order) \in Nat
  OBVIOUS
<1>1. /\ Len(r) = Len(order) - 1
      /\ \A j \in 1 .. Len(order) - 1 : r[j] = IF j <= k - 1 THEN order[j] ELSE order[j + 1]
  BY <1>0, RemoveIndexFacts
<1>2. InOrder(r, 1 .. Len(r), order0)
  BY <1>0, InOrderRemoved DEF SoFar
<1>3. \A m : Lists(order, m) <=> m = n \/ Lists(r, m)
  BY <1>0, ListedAfterRemove
<1> HIDE DEF r
<1> DEFINE Pos(j) == IF j <= k - 1 THEN j ELSE j + 1
<1>4. \A j \in 1 .. Len(r) : Pos(j) \in 1 .. Len(order) /\ Pos(j) # k /\ r[j] = order[Pos(j)]
  BY <1>0, <1>1
<1>5. \A i, j \in 1 .. Len(r) : Pos(i) = Pos(j) => i = j
  BY <1>0, <1>1
<1> HIDE DEF Pos
<1>6. Distinct(r)
  BY <1>4, <1>5 DEF SoFar, Distinct
<1>7. ~ Lists(r, n)
  BY <1>4 DEF SoFar, Distinct, Lists
<1>8. \A m \in BootNum : Lists(r, m) <=> Lists(order0, m) /\ m \in DOMAIN var \cup {}
  BY <1>3, <1>7 DEF SoFar
<1>9. SoFar(var, r, var0, order0, doomed, {})
  BY <1>2, <1>6, <1>8 DEF SoFar
<1> QED
  BY <1>9 DEF r

\* What a running loop is to delete, and the entry it has yet to unlist.
Doomed == IF op.call = "DeleteForFile" THEN ForFile(op.file) ELSE Containing(op.pattern)
Pending == IF pc = "deleteFromOrder" THEN {op.num} ELSE {}

\* A loop runs on what was healthy, and nothing has failed since it began.
Looping ==
  /\ pc # "idle" /\ op.call \in {"DeleteForFile", "DeleteContaining"}
  /\ faults = op.faults0
  /\ HealthyBefore

\* The walk of DeleteBootOptionsContainingFile over its copy of BootOrder: what
\* lies behind it is not doomed, and it remembers whether it deleted.
WalkInside ==
  /\ op.buf = op.order0
  /\ op.index <= Len(op.buf)
  /\ \A i \in 1 .. op.index : Exists(op.buf[i]) => bootVar[op.buf[i]] \notin Doomed
  /\ pc # "scan" => op.index < Len(op.buf) /\ op.num = op.buf[op.index + 1]
  /\ op.ret = "SUCCESS" => \E n \in DOMAIN op.var0 \ DOMAIN bootVar : n \notin Pending
  /\ op.ret # "SUCCESS" => bootOrder = op.order0

DeleteInside ==
  Looping =>
    /\ SoFar(bootVar, bootOrder, op.var0, op.order0, Doomed, Pending)
    /\ op.call = "DeleteForFile" => op.file \in File
    /\ pc = "deleteOption" => Exists(op.num) /\ bootVar[op.num] \in Doomed /\ Listed(op.num)
    /\ pc = "deleteFromOrder" => op.num \in DOMAIN op.var0 \ DOMAIN bootVar
    /\ op.call = "DeleteContaining" => WalkInside

LInv == AInv /\ DeleteInside

\* The contents of the variables that exist.
LEMMA VarContent ==
  ASSUME TypeOK, NEW n, Exists(n)
  PROVE  bootVar[n] \in Content /\ n \in BootNum
<1>1. PICK S \in SUBSET BootNum : bootVar \in [S -> Content]
  BY DEF TypeOK, OptionVars
<1> QED
  BY <1>1 DEF Exists

\* What stays the same in a step inside a loop.
SameLoop ==
  /\ op'.call = op.call /\ op'.faults0 = op.faults0
  /\ op'.var0 = op.var0 /\ op'.order0 = op.order0
  /\ op'.file = op.file /\ op'.pattern = op.pattern /\ op'.buf = op.buf

LEMMA SameLoopFacts ==
  ASSUME SameLoop
  PROVE  Doomed' = Doomed /\ (HealthyBefore' <=> HealthyBefore)
  BY DEF SameLoop, Doomed, HealthyBefore

LEMMA FindStep ==
  ASSUME LInv, FindBootOptionForFile, pc' # "idle", Looping'
  PROVE  DeleteInside'
<1>t. TypeOK /\ CallInside /\ DeleteInside /\ op \in Operation
  BY DEF LInv, AInv, TInv, TypeOK
<1>1. PICK i \in 0 .. Len(bootOrder) - 1 :
        /\ FoundAt(op.file, i)
        /\ op' = [op EXCEPT !.num = bootOrder[i + 1]]
        /\ pc' = "deleteOption"
  BY DEF FindBootOptionForFile, Return
<1>2. pc = "find" /\ UNCHANGED << bootVar, bootOrder, faults >> /\ op.call = "DeleteForFile"
  BY <1>t DEF FindBootOptionForFile, nvram, CallInside
<1>3. SameLoop /\ op'.num = bootOrder[i + 1]
  BY <1>t, <1>1 DEF SameLoop, Operation
<1>4. Doomed' = Doomed /\ Looping
  BY <1>2, <1>3, SameLoopFacts DEF Looping, SameLoop
<1>5. /\ SoFar(bootVar, bootOrder, op.var0, op.order0, Doomed, {})
      /\ op.file \in File
  BY <1>t, <1>2, <1>4 DEF DeleteInside, Pending
<1>6. PointsTo(bootOrder[i + 1], op.file)
  BY <1>1 DEF FoundAt
<1>7. bootOrder[i + 1] \in DOMAIN bootVar /\ bootVar[bootOrder[i + 1]] \in Doomed
  <2>1. Exists(bootOrder[i + 1]) /\ PathMatches(bootVar[bootOrder[i + 1]], op.file)
    BY <1>6 DEF PointsTo
  <2>2. bootVar[bootOrder[i + 1]] \in ForFile(op.file)
    BY <1>t, <1>5, <2>1, VarContent, MatchesForFile
  <2> QED
    BY <1>2, <2>1, <2>2 DEF Doomed, Exists
<1>8. Lists(bootOrder, bootOrder[i + 1])
  <2>1. i + 1 \in 1 .. Len(bootOrder)
    BY <1>t DEF TypeOK
  <2> QED
    BY <2>1 DEF Lists
<1>9. Pending' = {}
  BY <1>1 DEF Pending
<1> QED
  BY <1>1, <1>2, <1>3, <1>4, <1>5, <1>7, <1>8, <1>9
     DEF DeleteInside, SameLoop, Exists, Listed

LEMMA ScanStep ==
  ASSUME LInv, Scan, pc' # "idle", Looping'
  PROVE  DeleteInside'
<1>t. TypeOK /\ CallInside /\ DeleteInside /\ op \in Operation
  BY DEF LInv, AInv, TInv, TypeOK
<1>1. /\ pc = "scan" /\ UNCHANGED << bootVar, bootOrder, faults >>
      /\ op.call = "DeleteContaining" /\ op.index < Len(op.buf)
  BY <1>t DEF Scan, nvram, CallInside, ScanOrder, Return
<1>2. op.buf \in Seq(BootNum) /\ op.index \in Nat /\ op.index + 1 \in 1 .. Len(op.buf)
  BY <1>t, <1>1 DEF Operation
<1> DEFINE n == op.buf[op.index + 1]
<1>3. SameLoop /\ op'.ret = op.ret
  BY <1>t DEF Scan, SameLoop, Operation, Return
<1>4. Doomed' = Doomed /\ Looping
  BY <1>1, <1>3, SameLoopFacts DEF Looping, SameLoop
<1>5. SoFar(bootVar, bootOrder, op.var0, op.order0, Doomed, {}) /\ WalkInside /\ Pending = {}
  BY <1>t, <1>1, <1>4 DEF DeleteInside, Pending
<1>6. n \in DOMAIN bootVar => (NameMatches(bootVar[n], op.pattern) <=> bootVar[n] \in Doomed)
  BY <1>t, <1>1, VarContent DEF Doomed, Containing, Exists
<1>7. CASE ScanMatches(n)
  <2>1. op' = [op EXCEPT !.num = n] /\ pc' = "deleteOption"
    BY <1>1, <1>7 DEF Scan, ScanOrder, Return
  <2>2. op'.num = n /\ op'.index = op.index /\ Pending' = {}
    BY <1>t, <2>1 DEF Operation, Pending
  <2>3. n \in DOMAIN bootVar /\ bootVar[n] \in Doomed
    BY <1>6, <1>7 DEF ScanMatches, Exists
  <2>4. Lists(bootOrder, n)
    <3>1. op.buf = op.order0 /\ Lists(op.order0, n) /\ n \in BootNum
      BY <1>2, <1>5 DEF WalkInside, Lists
    <3> QED
      BY <1>5, <2>3, <3>1 DEF SoFar
  <2>5. WalkInside'
    BY <1>1, <1>3, <1>4, <1>5, <2>2 DEF WalkInside, SameLoop, Exists
  <2> QED
    BY <1>1, <1>3, <1>4, <1>5, <2>1, <2>2, <2>3, <2>4, <2>5
       DEF DeleteInside, SameLoop, Exists, Listed
<1>8. CASE ~ ScanMatches(n)
  <2>1. op' = [op EXCEPT !.index = op.index + 1] /\ pc' = "scan"
    BY <1>1, <1>8 DEF Scan, ScanOrder, Return
  <2>2. op'.index = op.index + 1 /\ Pending' = {}
    BY <1>t, <2>1 DEF Operation, Pending
  <2>3. n \in DOMAIN bootVar => bootVar[n] \notin Doomed
    BY <1>6, <1>8 DEF ScanMatches, Exists
  <2>4. \A i \in 1 .. op.index + 1 : op.buf[i] \in DOMAIN bootVar => bootVar[op.buf[i]] \notin Doomed
    <3>1. ASSUME NEW i \in 1 .. op.index + 1
          PROVE  i \in 1 .. op.index \/ i = op.index + 1
      BY <1>2
    <3>2. \A i \in 1 .. op.index :
            op.buf[i] \in DOMAIN bootVar => bootVar[op.buf[i]] \notin Doomed
      BY <1>5 DEF WalkInside, Exists
    <3> QED
      BY <2>3, <3>1, <3>2
  <2>5. op.index + 1 <= Len(op.buf)
    BY <1>2
  <2>6. WalkInside'
    BY <1>1, <1>3, <1>4, <1>5, <2>1, <2>2, <2>4, <2>5 DEF WalkInside, SameLoop, Exists
  <2> QED
    BY <1>1, <1>3, <1>4, <1>5, <2>1, <2>2, <2>6 DEF DeleteInside, SameLoop
<1> QED
  BY <1>7, <1>8

LEMMA DeleteOptionStep ==
  ASSUME LInv, DeleteOption, pc' # "idle", Looping'
  PROVE  DeleteInside'
<1>t. TypeOK /\ DeleteInside /\ op \in Operation
  BY DEF LInv, AInv, TInv, TypeOK
<1>1. pc = "deleteOption" /\ UNCHANGED << bootOrder, faults >>
  BY DEF DeleteOption
<1>2. SameLoop
  <2>1. CASE UNCHANGED op
    BY <2>1 DEF SameLoop
  <2>2. CASE DeleteReturns("NOT_FOUND")
    BY <1>t, <2>2, DeleteReturnsCall DEF SameLoop
  <2> QED
    BY <2>1, <2>2 DEF DeleteOption
<1>3. Doomed' = Doomed /\ Looping
  BY <1>1, <1>2, SameLoopFacts DEF Looping, SameLoop
<1>4. /\ SoFar(bootVar, bootOrder, op.var0, op.order0, Doomed, {}) /\ Pending = {}
      /\ op.num \in DOMAIN bootVar /\ bootVar[op.num] \in Doomed /\ Lists(bootOrder, op.num)
      /\ op.call = "DeleteForFile" => op.file \in File
      /\ op.call = "DeleteContaining" => WalkInside
  BY <1>t, <1>1, <1>3 DEF DeleteInside, Pending, Exists, Listed
<1>5. /\ bootVar' = [m \in DOMAIN bootVar \ {op.num} |-> bootVar[m]]
      /\ pc' = "deleteFromOrder" /\ UNCHANGED op
  BY <1>4 DEF DeleteOption, Exists
<1>6. op.num \in BootNum /\ Pending' = {op.num}
  BY <1>t, <1>5 DEF Operation, Pending
<1>7. SoFar(bootVar', bootOrder', op'.var0, op'.order0, Doomed', Pending')
  <2>1. SoFar([m \in DOMAIN bootVar \ {op.num} |-> bootVar[m]], bootOrder, op.var0, op.order0,
              Doomed, {op.num})
    BY <1>4, <1>6, SoFarDeletes
  <2> QED
    BY <1>1, <1>3, <1>5, <1>6, <2>1
<1>8. DOMAIN bootVar' = DOMAIN bootVar \ {op.num} /\ \A m \in DOMAIN bootVar' : bootVar'[m] = bootVar[m]
  BY <1>5
<1>9. op.num \in DOMAIN op.var0 \ DOMAIN bootVar'
  BY <1>4, <1>8 DEF SoFar
<1>10. ASSUME op.call = "DeleteContaining"
       PROVE  WalkInside'
  <2>1. WalkInside
    BY <1>4, <1>10
  <2>2. \A i \in 1 .. op.index : op.buf[i] \in DOMAIN bootVar' => bootVar'[op.buf[i]] \notin Doomed
    BY <1>8, <2>1 DEF WalkInside, Exists
  <2>3. /\ op.buf = op.order0 /\ op.index <= Len(op.buf)
        /\ op.index < Len(op.buf) /\ op.num = op.buf[op.index + 1]
        /\ op.ret # "SUCCESS" => bootOrder = op.order0
    BY <1>1, <2>1 DEF WalkInside
  <2>4. op.ret = "SUCCESS" => \E n \in DOMAIN op.var0 \ DOMAIN bootVar' : n \notin {op.num}
    <3>1. op.ret = "SUCCESS" => \E n \in DOMAIN op.var0 \ DOMAIN bootVar : n \notin {}
      BY <1>4, <2>1 DEF WalkInside
    <3> QED
      BY <1>4, <1>8, <3>1
  <2> QED
    BY <1>1, <1>3, <1>5, <1>6, <2>2, <2>3, <2>4 DEF WalkInside, Exists
<1> QED
  BY <1>4, <1>5, <1>7, <1>9, <1>10 DEF DeleteInside

LEMMA UnlistStep ==
  ASSUME LInv, DeleteFromBootOrder, pc' # "idle", Looping'
  PROVE  DeleteInside'
<1>t. TypeOK /\ DeleteInside /\ op \in Operation /\ bootOrder \in Seq(BootNum)
  BY DEF LInv, AInv, TInv, TypeOK
<1>1. pc = "deleteFromOrder" /\ UNCHANGED << bootVar, faults >>
  BY DEF DeleteFromBootOrder
<1>2. PICK st : DeleteReturns(st)
  BY DEF DeleteFromBootOrder
<1>3. /\ SameLoop
      /\ pc' = "find" \/ pc' = "scan"
      /\ op.call = "DeleteContaining" => pc' = "scan"
  BY <1>t, <1>2, DeleteReturnsCall DEF SameLoop
<1>4. Doomed' = Doomed /\ Looping
  BY <1>1, <1>3, SameLoopFacts DEF Looping, SameLoop
<1>5. /\ SoFar(bootVar, bootOrder, op.var0, op.order0, Doomed, {op.num}) /\ Pending = {op.num}
      /\ op.num \in DOMAIN op.var0 \ DOMAIN bootVar
      /\ op.call = "DeleteForFile" => op.file \in File
      /\ op.call = "DeleteContaining" => WalkInside
  BY <1>t, <1>1, <1>4 DEF DeleteInside, Pending
<1>6. Lists(bootOrder, op.num)
  <2>1. op.num \in BootNum /\ Lists(op.order0, op.num)
    BY <1>t, <1>5 DEF Operation, SoFar
  <2> QED
    BY <1>5, <2>1 DEF SoFar
<1>7. PICK k \in 1 .. Len(bootOrder) :
        /\ bootOrder[k] = op.num
        /\ bootOrder' = RemoveIndex(bootOrder, k - 1)
        /\ DeleteReturns("SUCCESS")
  BY <1>6 DEF DeleteFromBootOrder, Listed
<1>8. Pending' = {}
  BY <1>3 DEF Pending
<1>9. SoFar(bootVar', bootOrder', op'.var0, op'.order0, Doomed', Pending')
  <2>1. SoFar(bootVar, RemoveIndex(bootOrder, k - 1), op.var0, op.order0, Doomed, {})
    BY <1>t, <1>5, <1>7, SoFarUnlists
  <2> QED
    BY <1>1, <1>3, <1>4, <1>7, <1>8, <2>1 DEF SameLoop
<1>10. ASSUME op.call = "DeleteContaining"
       PROVE  WalkInside'
  <2>1. WalkInside /\ pc' = "scan"
    BY <1>3, <1>5, <1>10
  <2>2. op'.index = op.index + 1 /\ op'.ret = "SUCCESS"
    BY <1>t, <1>7, <1>10, <2>1, DeleteReturnsCall
  <2>3. op.buf \in Seq(BootNum) /\ op.index \in Nat
    BY <1>t DEF Operation
  <2>4. /\ op.buf = op.order0 /\ op.index < Len(op.buf) /\ op.num = op.buf[op.index + 1]
    BY <1>1, <2>1 DEF WalkInside
  <2>5. \A i \in 1 .. op.index + 1 :
          op.buf[i] \in DOMAIN bootVar => bootVar[op.buf[i]] \notin Doomed
    <3>1. ASSUME NEW i \in 1 .. op.index + 1
          PROVE  i \in 1 .. op.index \/ i = op.index + 1
      BY <2>3
    <3>2. \A i \in 1 .. op.index :
            op.buf[i] \in DOMAIN bootVar => bootVar[op.buf[i]] \notin Doomed
      BY <2>1 DEF WalkInside, Exists
    <3> QED
      BY <1>5, <2>4, <3>1, <3>2
  <2>6. op.index + 1 <= Len(op.buf)
    BY <2>3, <2>4
  <2> QED
    BY <1>1, <1>3, <1>4, <1>5, <1>8, <2>1, <2>2, <2>4, <2>5, <2>6
       DEF WalkInside, SameLoop, Exists
<1> QED
  BY <1>3, <1>5, <1>9, <1>10 DEF DeleteInside, SameLoop

LEMMA LoopBegins ==
  ASSUME LInv, Looping',
         \/ \E f \in File : DeleteBootOptionForFile(f)
         \/ \E names \in SUBSET Name : DeleteBootOptionsContainingFile(names)
  PROVE  DeleteInside'
<1>t. TypeOK
  BY DEF LInv, AInv, TInv
<1>1. UNCHANGED << bootVar, bootOrder, faults >> /\ pc' \in {"find", "scan"}
  BY DEF DeleteBootOptionForFile, DeleteBootOptionsContainingFile, nvram
<1>2. op'.var0 = bootVar /\ op'.order0 = bootOrder
  BY DEF DeleteBootOptionForFile, DeleteBootOptionsContainingFile, Started, Idle
<1>3. Pending' = {}
  BY <1>1 DEF Pending
<1>4. SoFar(bootVar', bootOrder', op'.var0, op'.order0, Doomed', Pending')
  <2>1. bootOrder \in Seq(BootNum)
    BY <1>t DEF TypeOK
  <2>2. Distinct(bootOrder) /\ \A i \in 1 .. Len(bootOrder) : bootOrder[i] \in DOMAIN bootVar
    BY <1>2 DEF Looping, HealthyBefore
  <2>3. SoFar(bootVar, bootOrder, bootVar, bootOrder, Doomed', {})
    BY <2>1, <2>2, SoFarBegins
  <2> QED
    BY <1>1, <1>2, <1>3, <2>3
<1>5. CASE \E f \in File : DeleteBootOptionForFile(f)
  <2>1. PICK f \in File : DeleteBootOptionForFile(f)
    BY <1>5
  <2>2. op'.file = f /\ op'.call = "DeleteForFile" /\ pc' = "find"
    BY <2>1 DEF DeleteBootOptionForFile, Started, Idle
  <2> QED
    BY <1>4, <2>2 DEF DeleteInside
<1>6. CASE \E names \in SUBSET Name : DeleteBootOptionsContainingFile(names)
  <2>1. PICK names \in SUBSET Name : DeleteBootOptionsContainingFile(names)
    BY <1>6
  <2>2. /\ op'.call = "DeleteContaining" /\ pc' = "scan"
        /\ op'.buf = bootOrder /\ op'.index = 0 /\ op'.ret = "NOT_FOUND"
    BY <2>1 DEF DeleteBootOptionsContainingFile, Started, Idle
  <2>3. WalkInside'
    <3>1. 0 <= Len(bootOrder) /\ 1 .. 0 = {}
      BY <1>t DEF TypeOK
    <3> QED
      BY <1>1, <1>2, <2>2, <3>1 DEF WalkInside
  <2> QED
    BY <1>4, <2>2, <2>3 DEF DeleteInside
<1> QED
  BY <1>5, <1>6

LEMMA InitLInv == InitAny => LInv
<1> SUFFICES ASSUME InitAny PROVE LInv
  OBVIOUS
<1>1. pc = "idle"
  BY DEF InitAny
<1> QED
  BY <1>1, InitAInv DEF LInv, DeleteInside, Looping

LEMMA NextLInv == LInv /\ [Next]_vars => LInv'
<1> SUFFICES ASSUME LInv, [Next]_vars PROVE LInv'
  OBVIOUS
<1>t. TypeOK /\ CallInside /\ op \in Operation
  BY DEF LInv, AInv, TInv, TypeOK
<1>n. AInv'
  BY NextAInv DEF LInv
<1> SUFFICES ASSUME Looping' PROVE DeleteInside'
  BY <1>n DEF LInv, DeleteInside
<1>0. /\ pc' # "idle" /\ op'.call \in {"DeleteForFile", "DeleteContaining"}
      /\ faults' = op'.faults0
  BY DEF Looping
<1>1. CASE Call
  <2>1. ~ (AddNoFreeSlot \/ AddRefused \/ DeleteForFileRefused \/ DeleteContainingNoOrder)
    BY <1>0 DEF AddNoFreeSlot, AddRefused, DeleteForFileRefused, DeleteContainingNoOrder,
       Refuse, Return
  <2>2. ASSUME NEW n \in BootNum, DeleteBootOption(n)
        PROVE  FALSE
    BY <1>0, <2>2 DEF DeleteBootOption, Started, Idle
  <2>3. ASSUME NEW f \in File, NEW useShortForm \in BOOLEAN, NEW bootIndex \in BootIndexes,
               AddBootOptionForFile(f, useShortForm, bootIndex)
        PROVE  FALSE
    BY <1>0, <2>3 DEF AddBootOptionForFile, Started, Idle
  <2> QED
    BY <1>1, <2>1, <2>2, <2>3, LoopBegins DEF Call
<1>2. CASE Failure
  <2>1. faults' = faults + 1
    BY <1>2 DEF Failure, SaveOptionFails, SaveBootOrderFails, DeleteOptionFails,
         DeleteFromBootOrderFails, Reset, Fault
  <2>2. DeleteReturns("DEVICE_ERROR") /\ pc # "idle"
    BY <1>0, <1>2 DEF Failure, SaveOptionFails, SaveBootOrderFails, DeleteOptionFails,
         DeleteFromBootOrderFails, Reset, Return
  <2>3. op'.faults0 = op.faults0
    BY <1>t, <1>0, <2>2, DeleteReturnsCall
  <2>4. op.faults0 <= faults /\ faults \in Nat /\ op.faults0 \in Nat
    BY <1>t, <2>2 DEF CallInside, TypeOK, Operation
  <2>5. faults + 1 # op.faults0
    BY <2>4
  <2> QED
    BY <1>0, <2>1, <2>3, <2>5, Zenon
<1>3. CASE SaveOption \/ ShrinkRound
  <2>1. op'.call = op.call /\ op.call = "Add"
    BY <1>t, <1>0, <1>3 DEF SaveOption, ShrinkRound, Return, CallInside, Operation
  <2> QED
    BY <1>0, <2>1
<1>4. CASE SaveBootOrder
  BY <1>0, <1>4 DEF SaveBootOrder, Return
<1>5. CASE UNCHANGED vars
  <2>1. UNCHANGED << bootVar, bootOrder, pc, op, faults >>
    BY <1>5 DEF vars
  <2>2. Doomed' = Doomed /\ Pending' = Pending /\ Looping
    BY <2>1 DEF Doomed, Pending, Looping, HealthyBefore
  <2>3. DeleteInside
    BY DEF LInv
  <2>4. WalkInside => WalkInside'
    BY <2>1, <2>2 DEF WalkInside, Exists
  <2> QED
    BY <2>1, <2>2, <2>3, <2>4 DEF DeleteInside, Exists, Listed
<1> QED
  BY <1>0, <1>1, <1>2, <1>3, <1>4, <1>5, FindStep, ScanStep, DeleteOptionStep, UnlistStep
     DEF Next, Progress

\* A loop that finds nothing doomed any more has deleted exactly what it should.
LEMMA LoopEnds ==
  ASSUME TypeOK, HealthyBefore, UNCHANGED << bootVar, bootOrder >>, NEW doomed,
         SoFar(bootVar, bootOrder, op.var0, op.order0, doomed, {}),
         \A n \in DOMAIN bootVar : Lists(op.order0, n) => bootVar[n] \notin doomed
  PROVE  Deleted(doomed)
<1>1. PICK var, order, var0, order0 :
        var = bootVar /\ order = bootOrder /\ var0 = op.var0 /\ order0 = op.order0
  OBVIOUS
<1>2. PICK gone : gone = {n \in DOMAIN var0 : var0[n] \in doomed /\ Lists(order0, n)}
  OBVIOUS
<1>3. /\ var \in OptionVars /\ var0 \in OptionVars
      /\ \A i \in 1 .. Len(order0) : order0[i] \in DOMAIN var0
  BY <1>1 DEF TypeOK, Operation, HealthyBefore
<1>4. /\ SoFar(var, order, var0, order0, doomed, {})
      /\ \A n \in DOMAIN var : Lists(order0, n) => var[n] \notin doomed
  BY <1>1, Zenon
<1>5. /\ var = [n \in DOMAIN var0 \ gone |-> var0[n]]
      /\ \A n \in BootNum : Lists(order, n) <=> Lists(order0, n) /\ n \notin gone
  <2>1. DOMAIN var = DOMAIN var0 \ gone
    BY <1>2, <1>4 DEF SoFar
  <2>2. PICK S \in SUBSET BootNum : var \in [S -> Content]
    BY <1>3 DEF OptionVars
  <2>3. var = [n \in DOMAIN var |-> var[n]]
    BY <2>2
  <2>4. var = [n \in DOMAIN var0 \ gone |-> var0[n]]
    BY <1>4, <2>1, <2>3 DEF SoFar
  <2>5. ASSUME NEW n \in BootNum
        PROVE  Lists(order, n) <=> Lists(order0, n) /\ n \notin gone
    <3>1. CASE n \in DOMAIN var0
      BY <1>2, <1>4, <2>1, <3>1 DEF SoFar
    <3>2. CASE n \notin DOMAIN var0
      BY <1>3, <1>4, <3>2 DEF SoFar, Lists
    <3> QED
      BY <3>1, <3>2
  <2> QED
    BY <2>4, <2>5
<1>6. bootVar' = var /\ bootOrder' = order
  BY <1>1
<1>7. Distinct(order) /\ InOrder(order, 1 .. Len(order), order0)
  BY <1>4 DEF SoFar
<1> QED
  BY <1>1, <1>2, <1>5, <1>6, <1>7, Zenon DEF Deleted

\* In any behaviour, with failures and resets before it, a call of
\* DeleteBootOptionForFile that meets a healthy BootOrder and no failure of its
\* own deletes the listed options for the file, both forms, and nothing else.
THEOREM ForFileExact == SpecAny => DeleteForFileExact
<1> DEFINE Exact ==
      Returns("DeleteForFile") /\ NoFaultDuring /\ HealthyBefore => Deleted(ForFile(op.file))
<1>1. LInv /\ [Next]_vars => [Exact]_vars
  <2> SUFFICES ASSUME LInv, [Next]_vars, Returns("DeleteForFile"), NoFaultDuring, HealthyBefore
               PROVE  Deleted(ForFile(op.file))
    OBVIOUS
  <2>t. TypeOK /\ CallInside /\ DeleteInside /\ op \in Operation
    BY DEF LInv, AInv, TInv, TypeOK
  <2>0. pc # "idle" /\ pc' = "idle" /\ op.call = "DeleteForFile" /\ status' # "RESET"
    BY DEF Returns
  <2>1. FindBootOptionForFile
    <3>1. ~ Call
      BY <2>0 DEF Call, AddBootOptionForFile, AddNoFreeSlot, AddRefused, DeleteBootOption,
         DeleteBootOptionForFile, DeleteForFileRefused, DeleteBootOptionsContainingFile,
         DeleteContainingNoOrder, Refuse
    <3>2. ~ Failure
      BY <2>t, <2>0 DEF Failure, SaveOptionFails, SaveBootOrderFails, DeleteOptionFails,
         DeleteFromBootOrderFails, Reset, DeleteReturns, Return, CallInside
    <3>3. ~ SaveOption /\ ~ ShrinkRound /\ ~ SaveBootOrder
      BY <2>t, <2>0 DEF SaveOption, ShrinkRound, SaveBootOrder, CallInside
    <3>4. ~ DeleteOption /\ ~ DeleteFromBootOrder
      BY <2>0 DEF DeleteOption, DeleteFromBootOrder, DeleteReturns, Return
    <3>5. ~ Scan
      BY <2>t, <2>0 DEF Scan, CallInside
    <3>6. ~ UNCHANGED vars
      BY <2>0 DEF vars
    <3> QED
      BY <3>1, <3>2, <3>3, <3>4, <3>5, <3>6 DEF Next, Progress
  <2>2. /\ pc = "find" /\ UNCHANGED << bootVar, bootOrder, faults >>
        /\ NotFound(op.file)
    BY <2>0, <2>1 DEF FindBootOptionForFile, nvram
  <2>3. Looping /\ Doomed = ForFile(op.file) /\ Pending = {}
    BY <2>0, <2>2 DEF Looping, NoFaultDuring, Doomed, Pending
  <2>4. SoFar(bootVar, bootOrder, op.var0, op.order0, ForFile(op.file), {}) /\ op.file \in File
    BY <2>t, <2>0, <2>3 DEF DeleteInside
  <2>5. ASSUME NEW n \in DOMAIN bootVar, Lists(op.order0, n)
        PROVE  bootVar[n] \notin ForFile(op.file)
    <3>1. bootVar[n] \in Content /\ n \in BootNum
      BY <2>t, VarContent DEF Exists
    <3>2. Lists(bootOrder, n)
      BY <2>4, <2>5, <3>1 DEF SoFar
    <3>3. ~ PathMatches(bootVar[n], op.file)
      BY <2>2, <3>2 DEF NotFound, PointsTo, Lists, Exists
    <3> QED
      BY <2>4, <3>1, <3>3, MatchesForFile
  <2> QED
    BY <2>t, <2>2, <2>4, <2>5, LoopEnds
<1> QED
  BY InitLInv, NextLInv, <1>1, PTL DEF SpecAny, DeleteForFileExact

\* In any behaviour, a call of DeleteBootOptionsContainingFile that meets a
\* healthy BootOrder and no failure of its own deletes the listed options that
\* match and nothing else, and reports success exactly when there was one.
THEOREM ContainingExact == SpecAny => DeleteContainingExact
<1> DEFINE Exact ==
      Returns("DeleteContaining") /\ NoFaultDuring /\ HealthyBefore =>
        /\ Deleted(Containing(op.pattern))
        /\ status' = "SUCCESS" <=> bootOrder' # op.order0
<1>1. LInv /\ [Next]_vars => [Exact]_vars
  <2> SUFFICES ASSUME LInv, [Next]_vars, Returns("DeleteContaining"), NoFaultDuring, HealthyBefore
               PROVE  /\ Deleted(Containing(op.pattern))
                      /\ status' = "SUCCESS" <=> bootOrder' # op.order0
    OBVIOUS
  <2>t. TypeOK /\ CallInside /\ DeleteInside /\ op \in Operation
    BY DEF LInv, AInv, TInv, TypeOK
  <2>0. pc # "idle" /\ pc' = "idle" /\ op.call = "DeleteContaining" /\ status' # "RESET"
    BY DEF Returns
  <2>1. Scan
    <3>1. ~ Call
      BY <2>0 DEF Call, AddBootOptionForFile, AddNoFreeSlot, AddRefused, DeleteBootOption,
         DeleteBootOptionForFile, DeleteForFileRefused, DeleteBootOptionsContainingFile,
         DeleteContainingNoOrder, Refuse
    <3>2. ~ Failure
      BY <2>t, <2>0 DEF Failure, SaveOptionFails, SaveBootOrderFails, DeleteOptionFails,
         DeleteFromBootOrderFails, Reset, DeleteReturns, Return, CallInside
    <3>3. ~ SaveOption /\ ~ ShrinkRound /\ ~ SaveBootOrder
      BY <2>t, <2>0 DEF SaveOption, ShrinkRound, SaveBootOrder, CallInside
    <3>4. ~ DeleteOption /\ ~ DeleteFromBootOrder
      BY <2>0 DEF DeleteOption, DeleteFromBootOrder, DeleteReturns, Return
    <3>5. ~ FindBootOptionForFile
      BY <2>t, <2>0 DEF FindBootOptionForFile, CallInside
    <3>6. ~ UNCHANGED vars
      BY <2>0 DEF vars
    <3> QED
      BY <3>1, <3>2, <3>3, <3>4, <3>5, <3>6 DEF Next, Progress
  <2>2. /\ pc = "scan" /\ UNCHANGED << bootVar, bootOrder, faults >>
        /\ op.index >= Len(op.buf) /\ status' = op.ret
    BY <2>0, <2>1 DEF Scan, ScanOrder, nvram, Return
  <2>3. Looping /\ Doomed = Containing(op.pattern) /\ Pending = {}
    BY <2>0, <2>2 DEF Looping, NoFaultDuring, Doomed, Pending
  <2>4. SoFar(bootVar, bootOrder, op.var0, op.order0, Containing(op.pattern), {}) /\ WalkInside
    BY <2>t, <2>0, <2>3 DEF DeleteInside
  <2>5. ASSUME NEW n \in DOMAIN bootVar, Lists(op.order0, n)
        PROVE  bootVar[n] \notin Containing(op.pattern)
    <3>1. op.buf = op.order0 /\ op.index <= Len(op.buf) /\ op.buf \in Seq(BootNum) /\ op.index \in Nat
      BY <2>t, <2>4 DEF WalkInside, Operation
    <3>2. op.index = Len(op.order0)
      BY <2>2, <3>1
    <3> QED
      BY <2>3, <2>4, <2>5, <3>1, <3>2 DEF WalkInside, Lists, Exists
  <2>6. Deleted(Containing(op.pattern))
    BY <2>t, <2>2, <2>4, <2>5, LoopEnds
  <2>7. ASSUME op.ret = "SUCCESS"
        PROVE  bootOrder # op.order0
    <3>1. PICK n \in DOMAIN op.var0 \ DOMAIN bootVar : TRUE
      BY <2>4, <2>7 DEF WalkInside
    <3>2. n \in BootNum
      BY <2>t DEF TypeOK, Operation, OptionVars
    <3>3. Lists(op.order0, n) /\ ~ Lists(bootOrder, n)
      BY <2>4, <3>1, <3>2 DEF SoFar
    <3> QED
      BY <3>3
  <2>8. op.ret # "SUCCESS" => bootOrder = op.order0
    BY <2>4 DEF WalkInside
  <2>9. status' = "SUCCESS" <=> bootOrder' # op.order0
    BY <2>2, <2>7, <2>8
  <2> QED
    BY <2>6, <2>9
<1> QED
  BY InitLInv, NextLInv, <1>1, PTL DEF SpecAny, DeleteContainingExact
===============================================================================
