-------------------------- MODULE InputDialog_proofs --------------------------
(***************************************************************************)
(* Proofs about the editor of a text field, for any line and text size.    *)
(* That the shift stays within the text is inductive together with the     *)
(* same fact about the text that ESC would restore (ShiftInv); that the    *)
(* field and the setting go together, with the same fact about the text    *)
(* that ESC would restore (BackupMeetsSetting).                            *)
(***************************************************************************)
EXTENDS InputDialog, Least_proofs

-------------------------------------------------------------------------------
(* Printing and reading *)

LEMMA PrintedProps == \A x \in 0 .. 255 : Printed(x) \in Seq(Char)
<1>1. ASSUME NEW x \in 0 .. 255
      PROVE  /\ x \div 10 \in Int /\ x % 10 \in 0 .. 9 /\ (x \div 10) % 10 \in 0 .. 9
             /\ x \div 100 \in 0 .. 9 /\ (x < 100 => x \div 10 \in 0 .. 9)
  OBVIOUS
<1>2. 0 .. 9 \subseteq Char
  BY CharAssumption
<1> QED
  BY <1>1, <1>2 DEF Printed

LEMMA ReplaceProps ==
  ASSUME NEW v \in Seq(Char)
  PROVE  ReplaceAll(v, Backslash, Underscore) \in Seq(Char)
<1>1. Underscore \in Char /\ Len(v) \in Nat
  BY CharAssumption
<1>2. ReplaceAll(v, Backslash, Underscore) \in [1 .. Len(v) -> Char]
  BY <1>1 DEF ReplaceAll
<1> QED
  BY <1>1, <1>2

\* What is read of a text, character by character: it is below the modulus.
LEMMA ReadSteps ==
  ASSUME NEW v \in Seq(Char)
  PROVE  \E f \in [0 .. Len(v) -> 0 .. Modulus - 1] :
           /\ StrDecimalToUintn(v) = f[Len(v)]
           /\ f[0] = 0
           /\ \A i \in 1 .. Len(v) :
                f[i] = IF IsRead(v, i) THEN (10 * f[i - 1] + v[i]) % Modulus ELSE f[i - 1]
<1> DEFINE L == Len(v)
           S == 0 .. Modulus - 1
           Step(i, x) == IF IsRead(v, i) THEN (10 * x + v[i]) % Modulus ELSE x
           F == [i \in 1 .. L |-> [x \in S |-> Step(i, x)]]
           P(f) == f = [i \in 0 .. L |-> IF i = 0 THEN 0
                                          ELSE IF IsRead(v, i) THEN (10 * f[i - 1] + v[i]) % Modulus
                                          ELSE f[i - 1]]
           d == CHOOSE f : P(f)
<1>1. L \in Nat /\ Modulus \in Nat /\ Modulus >= 1 /\ 0 \in S
  BY ModulusAssumption
<1>2. ASSUME NEW i \in 1 .. L, NEW x \in S PROVE Step(i, x) \in S
  <2>1. CASE IsRead(v, i)
    <3>1. v[i] \in 0 .. 9
      <4>1. PICK pad \in 0 .. i - 1 : \A j \in pad + 1 .. i : v[j] \in 0 .. 9
        BY <2>1 DEF IsRead
      <4>2. i \in pad + 1 .. i
        OBVIOUS
      <4> QED
        BY <4>1, <4>2
    <3>2. 10 * x + v[i] \in Nat
      BY <1>1, <3>1
    <3>3. \A n \in Nat : n % Modulus \in 0 .. Modulus - 1
      BY <1>1
    <3> QED
      BY <2>1, <3>2, <3>3
  <2>2. CASE ~ IsRead(v, i)
    BY <2>2
  <2> QED
    BY <2>1, <2>2
<1>3. F \in [1 .. L -> [S -> S]]
  <2> HIDE DEF Step, L, S
  <2> QED
    BY <1>2
<1>4. \A i \in 1 .. L, x \in S : F[i][x] = Step(i, x)
  <2> HIDE DEF Step, L, S
  <2> QED
    OBVIOUS
<1>5. PICK f : IsIteration(f, F, 0, S, L)
  <2> HIDE DEF F, L, S
  <2> QED
    BY <1>1, <1>3, IterationExists, Zenon
<1>6. /\ f \in [0 .. L -> S] /\ f[0] = 0
      /\ \A i \in 1 .. L : f[i] = Step(i, f[i - 1])
  <2> HIDE DEF F, L, S, Step
  <2>1. /\ f \in [0 .. L -> S] /\ f[0] = 0
        /\ \A i \in 1 .. L : f[i] = F[i][f[i - 1]]
    BY <1>5, Zenon DEF IsIteration
  <2>2. \A i \in 1 .. L : i - 1 \in 0 .. L
    BY <1>1
  <2>3. \A i \in 1 .. L : f[i - 1] \in S
    BY <2>1, <2>2, Zenon
  <2> QED
    BY <1>4, <2>1, <2>3, Zenon
<1>7. P(f)
  <2>1. PICK D : D = 0 .. L
    OBVIOUS
  <2>2. f = [i \in D |-> f[i]]
    <3> HIDE DEF L, S
    <3> QED
      BY <1>6, <2>1
  <2>3. \A i \in D : i = 0 \/ i \in 1 .. L
    BY <1>1, <2>1
  <2>4. \A i \in D : f[i] = IF i = 0 THEN 0 ELSE Step(i, f[i - 1])
    <3> HIDE DEF L, S, Step
    <3> QED
      BY <1>6, <2>3
  <2>5. f = [i \in D |-> IF i = 0 THEN 0 ELSE Step(i, f[i - 1])]
    <3> HIDE DEF L, S, Step
    <3> QED
      BY <2>2, <2>4, Zenon
  <2> QED
    BY <2>1, <2>5
<1>8. P(d)
  BY <1>7, Zenon
<1>9. StrDecimalToUintn(v) = d[L]
  BY Zenon DEF StrDecimalToUintn
<1>10. \A i \in 0 .. L : d[i] = f[i]
  <2> HIDE DEF d
  <2>1. d[0] = f[0]
    BY <1>1, <1>6, <1>8
  <2>2. \A i \in 1 .. L : d[i] = Step(i, d[i - 1])
    BY <1>1, <1>8
  <2>3. \A i \in 1 .. L : d[i - 1] = f[i - 1] => d[i] = f[i]
    <3> HIDE DEF Step, L
    <3> QED
      BY <1>6, <2>2
  <2>4. PICK n, g : n = L /\ g = d
    OBVIOUS
  <2>5. /\ n \in Nat /\ g[0] = f[0]
        /\ \A i \in 1 .. n : g[i - 1] = f[i - 1] => g[i] = f[i]
    BY <1>1, <2>1, <2>3, <2>4
  <2>6. \A i \in 0 .. n : g[i] = f[i]
    BY <2>5, SumsAgree
  <2> QED
    BY <2>4, <2>6
<1> HIDE DEF d
<1>11. StrDecimalToUintn(v) = f[L]
  BY <1>1, <1>9, <1>10
<1> QED
  BY <1>6, <1>11

LEMMA ReadProps ==
  ASSUME NEW v \in Seq(Char)
  PROVE  StrDecimalToUintn(v) \in 0 .. Modulus - 1
<1>1. Len(v) \in 0 .. Len(v)
  OBVIOUS
<1> QED
  BY <1>1, ReadSteps

\* A number below the modulus that is printed is read as the same.
LEMMA PrintedIsRead ==
  ASSUME NEW x \in 0 .. Modulus - 1
  PROVE  StrDecimalToUintn(Printed(x)) = x
<1>1. /\ Modulus \in Int /\ Modulus <= 256 /\ x \in 0 .. 255 /\ x < Modulus
      /\ \A y \in 0 .. x : y % Modulus = y
  BY ModulusAssumption
<1> DEFINE v == Printed(x)
<1>2. v \in Seq(Char)
  BY <1>1, PrintedProps
<1>3. ASSUME NEW i \in 1 .. Len(v), \A j \in 1 .. Len(v) : v[j] \in 0 .. 9
      PROVE  IsRead(v, i)
  <2>1. 0 \in 0 .. i - 1 /\ \A j \in 0 + 1 .. i : j \in 1 .. Len(v)
    BY <1>2
  <2>2. \A j \in 1 .. 0 : v[j] = Space
    OBVIOUS
  <2> HIDE DEF v
  <2> QED
    BY <1>3, <2>1, <2>2 DEF IsRead
<1>4. PICK f : /\ StrDecimalToUintn(v) = f[Len(v)] /\ f[0] = 0
               /\ \A i \in 1 .. Len(v) :
                    f[i] = IF IsRead(v, i) THEN (10 * f[i - 1] + v[i]) % Modulus ELSE f[i - 1]
  <2> HIDE DEF v
  <2> QED
    BY <1>2, ReadSteps
<1>5. CASE x < 100
  <2>1. /\ Len(v) = 2 /\ v[1] = x \div 10 /\ v[2] = x % 10
        /\ v[1] \in 0 .. 9 /\ v[2] \in 0 .. 9
    BY <1>1, <1>5 DEF Printed
  <2> HIDE DEF v
  <2>2. IsRead(v, 1) /\ IsRead(v, 2)
    BY <1>3, <2>1
  <2>3. f[1] = (10 * 0 + v[1]) % Modulus /\ f[2] = (10 * f[1] + v[2]) % Modulus
    BY <1>4, <2>1, <2>2
  <2>4. 10 * 0 + v[1] = x \div 10 /\ x \div 10 \in 0 .. x
    BY <1>1, <2>1
  <2>5. f[1] = x \div 10
    BY <1>1, <2>3, <2>4
  <2>6. 10 * f[1] + v[2] = x /\ x \in 0 .. x
    BY <1>1, <2>1, <2>5
  <2>7. f[2] = x
    BY <1>1, <2>3, <2>6
  <2> QED
    BY <1>4, <2>1, <2>7 DEF v
<1>6. CASE ~ (x < 100)
  <2>1. /\ Len(v) = 3 /\ v[1] = x \div 100 /\ v[2] = (x \div 10) % 10 /\ v[3] = x % 10
        /\ v[1] \in 0 .. 9 /\ v[2] \in 0 .. 9 /\ v[3] \in 0 .. 9
    BY <1>1, <1>6 DEF Printed
  <2> HIDE DEF v
  <2>2. IsRead(v, 1) /\ IsRead(v, 2) /\ IsRead(v, 3)
    BY <1>3, <2>1
  <2>3. /\ f[1] = (10 * 0 + v[1]) % Modulus /\ f[2] = (10 * f[1] + v[2]) % Modulus
        /\ f[3] = (10 * f[2] + v[3]) % Modulus
    BY <1>4, <2>1, <2>2
  <2>4. 10 * 0 + v[1] = x \div 100 /\ x \div 100 \in 0 .. x
    BY <1>1, <2>1
  <2>5. f[1] = x \div 100
    BY <1>1, <2>3, <2>4
  <2>6. 10 * f[1] + v[2] = x \div 10 /\ x \div 10 \in 0 .. x
    BY <1>1, <2>1, <2>5
  <2>7. f[2] = x \div 10
    BY <1>1, <2>3, <2>6
  <2>8. 10 * f[2] + v[3] = x /\ x \in 0 .. x
    BY <1>1, <2>1, <2>7
  <2>9. f[3] = x
    BY <1>1, <2>3, <2>8
  <2> QED
    BY <1>4, <2>1, <2>9 DEF v
<1> QED
  BY <1>5, <1>6

\* Replacing the backslashes of a text that has none left changes nothing.
LEMMA ReplacedOnce ==
  ASSUME NEW v \in Seq(Char), NEW w, w = ReplaceAll(v, Backslash, Underscore)
  PROVE  ReplaceAll(w, Backslash, Underscore) = w
<1>1. /\ Len(v) \in Nat /\ Len(w) = Len(v)
      /\ w = [i \in 1 .. Len(v) |-> IF v[i] = Backslash THEN Underscore ELSE v[i]]
  BY DEF ReplaceAll
<1>2. \A i \in 1 .. Len(w) : w[i] # Backslash
  BY <1>1, CharAssumption
<1>3. w = [i \in 1 .. Len(w) |-> w[i]]
  BY <1>1
<1> QED
  BY <1>2, <1>3 DEF ReplaceAll

\* The type of a setting of a kind.
SettingOf(k) == IF k = "number" THEN 0 .. 255 ELSE Seq(Char)

LEMMA ShownTyped ==
  ASSUME kind \in Fields, NEW x \in SettingOf(kind)
  PROVE  Shown(x) \in Seq(Char)
BY PrintedProps DEF SettingOf, Shown

LEMMA AppliedTyped ==
  ASSUME kind \in Fields, NEW v \in Seq(Char)
  PROVE  Applied(v) \in SettingOf(kind)
<1>1. CASE kind = "number"
  <2>1. Applied(v) = StrDecimalToUintn(v)
    BY <1>1 DEF Applied
  <2>2. 0 .. Modulus - 1 \subseteq 0 .. 255
    BY ModulusAssumption
  <2> QED
    BY <1>1, <2>1, <2>2, ReadProps DEF SettingOf
<1>2. CASE kind = "args"
  BY <1>2, ReplaceProps DEF Applied, SettingOf
<1>3. CASE kind = "text"
  BY <1>3 DEF Applied, SettingOf
<1> QED
  BY <1>1, <1>2, <1>3 DEF Fields

\* What ApplyInputs has converted, it reads back from what FillInputs prints of it.
LEMMA AppliedRoundTrip ==
  ASSUME kind \in Fields, NEW v \in Seq(Char)
  PROVE  Applied(Shown(Applied(v))) = Applied(v)
<1>1. CASE kind = "number"
  BY <1>1, ReadProps, PrintedIsRead DEF Applied, Shown
<1>2. CASE kind = "args"
  BY <1>2, ReplacedOnce DEF Applied, Shown
<1>3. CASE kind = "text"
  BY <1>3 DEF Applied, Shown
<1> QED
  BY <1>1, <1>2, <1>3 DEF Fields

LEMMA ConfiguredTyped ==
  ASSUME kind \in Fields
  PROVE  Configured \subseteq SettingOf(kind)
BY ConfigurationAssumption DEF Configured, SettingOf

-------------------------------------------------------------------------------
(* XStringW *)

LEMMA CatProps ==
  ASSUME NEW s \in Seq(Char), NEW t \in Seq(Char)
  PROVE  s \o t \in Seq(Char) /\ Len(s \o t) = Len(s) + Len(t)
  OBVIOUS

\* insertAtPos makes the text one character longer.
LEMMA InsertProps ==
  ASSUME NEW v \in Seq(Char), NEW c \in Char, NEW i \in Nat
  PROVE  InsertAtPos(v, c, i) \in Seq(Char) /\ Len(InsertAtPos(v, c, i)) = Len(v) + 1
<1>1. CASE i >= Len(v)
  BY <1>1 DEF InsertAtPos
<1>2. CASE ~ (i >= Len(v))
  <2>1. SubSeq(v, 1, i) \in Seq(Char) /\ Len(SubSeq(v, 1, i)) = i
    BY <1>2
  <2>2. SubSeq(v, i + 1, Len(v)) \in Seq(Char) /\ Len(SubSeq(v, i + 1, Len(v))) = Len(v) - i
    BY <1>2
  <2>3. << c >> \in Seq(Char) /\ Len(<< c >>) = 1
    OBVIOUS
  <2> DEFINE head == SubSeq(v, 1, i)
             tail == SubSeq(v, i + 1, Len(v))
  <2>4. InsertAtPos(v, c, i) = (head \o << c >>) \o tail
    BY <1>2 DEF InsertAtPos
  <2> HIDE DEF head, tail
  <2>parts. head \in Seq(Char) /\ Len(head) = i /\ tail \in Seq(Char) /\ Len(tail) = Len(v) - i
    BY <2>1, <2>2 DEF head, tail
  <2>5. head \o << c >> \in Seq(Char) /\ Len(head \o << c >>) = Len(head) + Len(<< c >>)
    BY <2>3, <2>parts, CatProps
  <2>6. /\ (head \o << c >>) \o tail \in Seq(Char)
        /\ Len((head \o << c >>) \o tail) = Len(head \o << c >>) + Len(tail)
    BY <2>5, <2>parts, CatProps
  <2>7. Len(v) \in Nat
    OBVIOUS
  <2>8. Len((head \o << c >>) \o tail) = Len(v) + 1
    BY <2>3, <2>5, <2>6, <2>7, <2>parts
  <2> QED
    BY <2>4, <2>6, <2>8
<1> QED
  BY <1>1, <1>2

\* deleteCharsAtPos makes it at most one character shorter.
LEMMA DeleteProps ==
  ASSUME NEW v \in Seq(Char), NEW i \in Nat
  PROVE  /\ DeleteCharsAtPos(v, i) \in Seq(Char)
         /\ Len(DeleteCharsAtPos(v, i)) >= Len(v) - 1
<1>1. CASE i >= Len(v)
  BY <1>1 DEF DeleteCharsAtPos
<1>2. CASE ~ (i >= Len(v))
  <2>1. SubSeq(v, 1, i) \in Seq(Char) /\ Len(SubSeq(v, 1, i)) = i
    BY <1>2
  <2>2. SubSeq(v, i + 2, Len(v)) \in Seq(Char)
        /\ Len(SubSeq(v, i + 2, Len(v))) = Len(v) - i - 1
    BY <1>2
  <2> DEFINE head == SubSeq(v, 1, i)
             tail == SubSeq(v, i + 2, Len(v))
  <2>3. DeleteCharsAtPos(v, i) = head \o tail
    BY <1>2 DEF DeleteCharsAtPos
  <2> HIDE DEF head, tail
  <2>parts. head \in Seq(Char) /\ Len(head) = i /\ tail \in Seq(Char) /\ Len(tail) = Len(v) - i - 1
    BY <2>1, <2>2 DEF head, tail
  <2>4. head \o tail \in Seq(Char) /\ Len(head \o tail) = Len(head) + Len(tail)
    BY <2>parts, CatProps
  <2>5. Len(v) \in Nat
    OBVIOUS
  <2>6. Len(head \o tail) >= Len(v) - 1
    BY <2>4, <2>5, <2>parts
  <2> QED
    BY <2>3, <2>4, <2>6
<1> QED
  BY <1>1, <1>2

LEMMA NoBackupTyped == NoBackup \in [value : Seq(Char), shift : Nat, row : Nat]
BY DEF NoBackup

\* A key that leaves the shift within the text.
LEMMA EditKeepsShift ==
  ASSUME ShiftInv, NEW v \in Seq(Char), NEW p \in Nat, NEW s \in Nat,
         ~ refilled => s <= Len(v), Edit(v, p, s)
  PROVE  ShiftInv'
  BY DEF ShiftInv, DialogTypeOK, ShiftInText, BackupShiftInText, Edit, source

LEMMA AdvancedKeepsShift ==
  ASSUME ShiftInv, NEW v \in Seq(Char), ~ refilled => shift < Len(v), Advanced(v)
  PROVE  ShiftInv'
<1>1. pos \in Nat /\ shift \in Nat /\ pos + 1 \in Nat /\ shift + 1 \in Nat /\ Len(v) \in Nat
  BY DEF ShiftInv, DialogTypeOK
<1>2. CASE pos < LineSize
  BY <1>1, <1>2, EditKeepsShift DEF Advanced
<1>3. CASE ~ (pos < LineSize)
  BY <1>1, <1>3, EditKeepsShift DEF Advanced
<1> QED
  BY <1>2, <1>3

LEMMA NextKeepsShift ==
  ASSUME ShiftInv, DialogNext
  PROVE  ShiftInv'
<1>1. /\ value \in Seq(Char) /\ Len(value) \in Nat
      /\ pos \in Nat /\ shift \in Nat /\ cursor \in Nat /\ cursor = pos + shift
      /\ ~ refilled => shift <= Len(value)
  BY DEF ShiftInv, DialogTypeOK, ShiftInText, cursor
<1>2. CASE OpenDialog
  BY <1>2 DEF OpenDialog, field, source, ShiftInv, DialogTypeOK, ShiftInText, BackupShiftInText
<1>3. CASE PaintAll
  BY <1>3 DEF PaintAll, source, ShiftInv, DialogTypeOK, ShiftInText, BackupShiftInText
<1>13. CASE FillInputs
  <2>1. /\ kind \in Fields /\ setting \in SettingOf(kind) /\ Configured \subseteq SettingOf(kind)
        /\ kind' = kind /\ refilled' = TRUE /\ copied' = "filled" /\ value' = Shown(setting')
    BY <1>13, ConfiguredTyped DEF FillInputs, ShiftInv, DialogTypeOK, SettingOf
  <2>2. setting' \in SettingOf(kind) /\ (entered' = entered \/ entered' = FALSE)
    BY <1>13, <2>1 DEF FillInputs
  <2>3. value' \in Seq(Char)
    BY <2>1, <2>2, ShownTyped
  <2> QED
    BY <1>13, <2>1, <2>2, <2>3
    DEF FillInputs, ShiftInv, DialogTypeOK, ShiftInText, BackupShiftInText, SettingOf
<1>14. CASE ChooseLoadOptions
  <2>1. setting' \in Seq(Char)
    BY <1>14, ConfigurationAssumption DEF ChooseLoadOptions
  <2> QED
    BY <1>14, <2>1
    DEF ChooseLoadOptions, field, ShiftInv, DialogTypeOK, ShiftInText, BackupShiftInText
<1>4. CASE Right
  BY <1>1, <1>4, AdvancedKeepsShift DEF Right
<1>5. CASE Left
  <2>1. CASE pos > 0 /\ Edit(value, pos - 1, shift)
    <3>1. pos - 1 \in Nat
      BY <1>1, <2>1
    <3> QED
      BY <1>1, <2>1, <3>1, EditKeepsShift
  <2>2. CASE pos = 0 /\ shift > 0 /\ Edit(value, pos, shift - 1)
    <3>1. shift - 1 \in Nat /\ (~ refilled => shift - 1 <= Len(value))
      BY <1>1, <2>2
    <3> QED
      BY <1>1, <2>2, <3>1, EditKeepsShift
  <2> QED
    BY <1>5, <2>1, <2>2 DEF Left
<1>6. CASE Home
  <2>1. 0 \in Nat /\ 0 <= Len(value)
    BY <1>1
  <2> QED
    BY <1>1, <1>6, <2>1, EditKeepsShift DEF Home
<1>7. CASE End
  <2>1. CASE Len(value) < LineSize /\ Edit(value, Len(value), shift)
    BY <1>1, <2>1, EditKeepsShift
  <2>2. CASE Len(value) >= LineSize /\ Edit(value, LineSize, Len(value) - LineSize)
    <3>1. Len(value) - LineSize \in Nat /\ Len(value) - LineSize <= Len(value)
      BY <1>1, <2>2, LineSizeAssumption
    <3> QED
      BY <1>1, <2>2, <3>1, LineSizeAssumption, EditKeepsShift
  <2> QED
    BY <1>7, <2>1, <2>2 DEF End
<1>8. CASE Delete
  <2> DEFINE v == DeleteCharsAtPos(value, cursor)
  <2>1. v \in Seq(Char) /\ Len(v) >= Len(value) - 1
    BY <1>1, DeleteProps
  <2>2. cursor < Len(value) /\ Edit(v, pos, shift)
    BY <1>8 DEF Delete
  <2>3. Len(v) \in Nat
    BY <2>1
  <2> HIDE DEF v
  <2>4. shift <= Len(v)
    BY <1>1, <2>1, <2>2, <2>3
  <2> QED
    BY <1>1, <2>1, <2>2, <2>4, EditKeepsShift
<1>9. CASE Backspace
  <2> DEFINE v == DeleteCharsAtPos(value, cursor - 1)
  <2>1. pos # 0 /\ cursor - 1 \in Nat /\ pos - 1 \in Nat
    BY <1>1, <1>9 DEF Backspace
  <2>2. v \in Seq(Char) /\ Len(v) >= Len(value) - 1
    BY <1>1, <2>1, DeleteProps
  <2>3. Len(v) \in Nat
    BY <2>2
  <2>4. IF shift > 0 THEN Edit(v, pos, shift - 1) ELSE Edit(v, pos - 1, shift)
    BY <1>9 DEF Backspace
  <2> HIDE DEF v
  <2>5. CASE shift > 0
    <3>1. shift - 1 \in Nat /\ (~ refilled => shift - 1 <= Len(v))
      BY <1>1, <2>2, <2>3, <2>5
    <3> QED
      BY <1>1, <2>2, <2>4, <2>5, <3>1, EditKeepsShift
  <2>6. CASE ~ (shift > 0)
    <3>1. shift <= Len(v)
      BY <1>1, <2>3, <2>6
    <3> QED
      BY <1>1, <2>1, <2>2, <2>4, <2>6, <3>1, EditKeepsShift
  <2> QED
    BY <2>5, <2>6
<1>10. ASSUME NEW c \in Keys, Type(c)
       PROVE  ShiftInv'
  <2> DEFINE v == InsertAtPos(value, c, cursor)
  <2>1. v \in Seq(Char) /\ Len(v) = Len(value) + 1
    BY <1>1, CharAssumption, InsertProps
  <2>2. Advanced(v)
    BY <1>10 DEF Type
  <2> HIDE DEF v
  <2>3. ~ refilled => shift < Len(v)
    BY <1>1, <2>1
  <2> QED
    BY <2>1, <2>2, <2>3, AdvancedKeepsShift
<1>11. CASE Enter
  <2>1. value' = value /\ Len(value) >= 0 /\ shift' = 0 /\ open' = FALSE
    BY <1>1, <1>11 DEF Enter, Return
  <2>2. kind \in Fields /\ kind' = kind /\ setting' = Applied(value)
    BY <1>11 DEF Enter, ShiftInv, DialogTypeOK
  <2>3. setting' \in SettingOf(kind)
    BY <1>1, <2>2, AppliedTyped
  <2>4. DialogTypeOK'
    BY <1>1, <1>11, <2>2, <2>3, NoBackupTyped
    DEF Enter, Return, ShiftInv, DialogTypeOK, SettingOf
  <2>5. ShiftInText' /\ BackupShiftInText'
    BY <2>1 DEF ShiftInText, BackupShiftInText
  <2> QED
    BY <2>4, <2>5 DEF ShiftInv
<1>12. CASE Escape
  <2>1. /\ open /\ open' = FALSE /\ pos' = 0 /\ backup' = NoBackup /\ Escaped
        /\ UNCHANGED << source, refilled >>
    BY <1>12 DEF Escape, Return
  <2>2. CASE value # backup.value
    BY <2>1, <2>2, NoBackupTyped
    DEF Escaped, source, ShiftInv, DialogTypeOK, ShiftInText, BackupShiftInText
  <2>3. CASE value = backup.value
    BY <2>1, <2>3, NoBackupTyped
    DEF Escaped, field, source, ShiftInv, DialogTypeOK, ShiftInText, BackupShiftInText
  <2> QED
    BY <2>2, <2>3
<1> QED
  BY <1>2, <1>3, <1>4, <1>5, <1>6, <1>7, <1>8, <1>9, <1>10, <1>11, <1>12, <1>13, <1>14 DEF DialogNext

LEMMA ShiftInvariant == DialogSpec => []ShiftInv
<1>1. DialogInit => ShiftInv
  <2> SUFFICES ASSUME DialogInit
               PROVE  ShiftInv
    OBVIOUS
  <2>1. value \in Seq(Char) /\ Len(value) \in Nat
    <3>1. kind \in Fields /\ setting \in SettingOf(kind) /\ value = Shown(setting)
      BY ConfiguredTyped DEF DialogInit
    <3> QED
      BY <3>1, ShownTyped
  <2>2. DialogTypeOK
    <3>1. row \in Nat
      BY <2>1 DEF DialogInit
    <3>2. kind \in Fields /\ setting \in SettingOf(kind)
      BY ConfiguredTyped DEF DialogInit
    <3> QED
      BY <2>1, <3>1, <3>2, NoBackupTyped DEF DialogInit, DialogTypeOK, SettingOf
  <2>3. ShiftInText /\ BackupShiftInText
    BY <2>1 DEF DialogInit, ShiftInText, BackupShiftInText
  <2> QED
    BY <2>2, <2>3 DEF ShiftInv
<1>2. ShiftInv /\ [DialogNext]_dialogVars => ShiftInv'
  <2> SUFFICES ASSUME ShiftInv, [DialogNext]_dialogVars
               PROVE  ShiftInv'
    OBVIOUS
  <2>1. CASE DialogNext
    BY <2>1, NextKeepsShift
  <2>2. CASE UNCHANGED dialogVars
    BY <2>2 DEF dialogVars, field, source, ShiftInv, DialogTypeOK, ShiftInText, BackupShiftInText
  <2> QED
    BY <2>1, <2>2
<1> QED
  BY <1>1, <1>2, PTL DEF DialogSpec

\* Pos and LineShift, which are unsigned, never wrap below 0.
THEOREM DialogTypeCorrect == DialogSpec => []DialogTypeOK
<1>1. ShiftInv => DialogTypeOK
  BY DEF ShiftInv
<1> QED
  BY <1>1, ShiftInvariant, PTL

\* For every line size and every sequence of keys, what PAINT_SELECTION reads
\* begins within the text, until FillInputs replaces the text.
THEOREM ShiftStaysInText == DialogSpec => []ShiftInText
<1>1. ShiftInv => ShiftInText
  BY DEF ShiftInv
<1> QED
  BY <1>1, ShiftInvariant, PTL

-------------------------------------------------------------------------------
(* The field and the setting *)

\* What goes together stays so as long as the setting is left alone.
LEMMA MeetsKept ==
  ASSUME UNCHANGED source, NEW v, Meets(v)
  PROVE  Meets(v)'
BY DEF source, Meets, Shown, Applied

LEMMA BackupStaysWithSetting == DialogSpec => [](FieldMeetsSetting /\ BackupMeetsSetting)
<1> DEFINE Inv == FieldMeetsSetting /\ BackupMeetsSetting
<1>1. DialogInit => Inv
  BY DEF DialogInit, FieldMeetsSetting, BackupMeetsSetting, Meets
<1>2. Inv /\ [DialogNext]_dialogVars => Inv'
  <2> SUFFICES ASSUME Inv, [DialogNext]_dialogVars
               PROVE  Inv'
    OBVIOUS
  <2>1. ASSUME NEW v, NEW p, NEW s, Edit(v, p, s)
        PROVE  Inv'
    <3>1. open /\ open' = open /\ backup' = backup /\ UNCHANGED source /\ Meets(backup.value)
      BY <2>1 DEF Edit, BackupMeetsSetting
    <3>2. PICK b : b = backup.value
      OBVIOUS
    <3>3. Meets(b)'
      BY <3>1, <3>2, MeetsKept
    <3> QED
      BY <3>1, <3>2, <3>3 DEF FieldMeetsSetting, BackupMeetsSetting, Meets
  <2>2. CASE OpenDialog \/ PaintAll \/ UNCHANGED dialogVars
    <3>1. UNCHANGED source /\ value' = value
      BY <2>2 DEF OpenDialog, PaintAll, field, dialogVars
    <3>2. PICK w, b : w = value /\ b = backup.value
      OBVIOUS
    <3>3. CASE ~ open
      <4>1. Meets(w)'
        BY <3>1, <3>2, <3>3, MeetsKept DEF FieldMeetsSetting
      <4>2. open' => backup'.value = w
        <5>1. CASE OpenDialog
          BY <3>2, <5>1 DEF OpenDialog
        <5>2. CASE PaintAll \/ UNCHANGED dialogVars
          BY <3>3, <5>2 DEF PaintAll, dialogVars
        <5> QED
          BY <2>2, <5>1, <5>2
      <4> QED
        BY <3>1, <3>2, <4>1, <4>2 DEF FieldMeetsSetting, BackupMeetsSetting, Meets
    <3>4. CASE open
      <4>1. Meets(b)'
        BY <3>1, <3>2, <3>4, MeetsKept DEF BackupMeetsSetting
      <4>2. open' = open /\ backup' = backup
        BY <2>2, <3>4 DEF OpenDialog, PaintAll, dialogVars
      <4> QED
        BY <3>2, <3>4, <4>1, <4>2 DEF FieldMeetsSetting, BackupMeetsSetting, Meets
    <3> QED
      BY <3>3, <3>4
  <2>3. CASE FillInputs \/ ChooseLoadOptions
    <3>1. ~ open' /\ kind' = kind
      BY <2>3 DEF FillInputs, ChooseLoadOptions
    <3>2. Meets(value)'
      BY <2>3, <3>1 DEF FillInputs, ChooseLoadOptions, Meets, Shown
    <3> QED
      BY <3>1, <3>2 DEF FieldMeetsSetting, BackupMeetsSetting
  <2>4. CASE Right \/ (\E c \in Keys : Type(c))
    BY <2>1, <2>4 DEF Right, Type, Advanced
  <2>5. CASE Left \/ Home \/ End \/ Delete
    BY <2>1, <2>5 DEF Left, Home, End, Delete
  <2>6. CASE Backspace
    BY <2>1, <2>6 DEF Backspace
  <2>7. CASE Enter
    <3>1. /\ ~ open' /\ kind' = kind /\ value' = value
          /\ setting' = Applied(value) /\ copied' = "applied"
      BY <2>7 DEF Enter, Return
    <3>2. Applied(value)' = Applied(value)
      BY <3>1 DEF Applied
    <3> QED
      BY <3>1, <3>2 DEF FieldMeetsSetting, BackupMeetsSetting, Meets
  <2>8. CASE Escape
    <3>1. /\ open /\ ~ open' /\ UNCHANGED source /\ value' = backup.value
      BY <2>8 DEF Escape, Return, Escaped, field
    <3>2. PICK b : b = backup.value
      OBVIOUS
    <3>3. Meets(b)'
      BY <3>1, <3>2, MeetsKept DEF BackupMeetsSetting
    <3> QED
      BY <3>1, <3>2, <3>3 DEF FieldMeetsSetting, BackupMeetsSetting, Meets
  <2> QED
    BY <2>2, <2>3, <2>4, <2>5, <2>6, <2>7, <2>8 DEF DialogNext
<1> QED
  BY <1>1, <1>2, PTL DEF DialogSpec

\* Whatever dialogs were left by ENTER or ESC and however often FillInputs has
\* printed the setting: the text of a field without an open dialog is what was
\* printed of the setting, or one that ApplyInputs has read the setting from.
THEOREM FieldStaysWithSetting == DialogSpec => []FieldMeetsSetting
BY BackupStaysWithSetting, PTL

\* The setting that was entered reads back, and the field has not lost it.
EnteredInv ==
  entered => Applied(Shown(setting)) = setting /\ copied # "no"

LEMMA NextEntered ==
  ASSUME DialogTypeOK, EnteredInv, [DialogNext]_dialogVars
  PROVE  EnteredInv'
<1>1. ASSUME UNCHANGED source PROVE EnteredInv'
  BY <1>1 DEF source, EnteredInv, Applied, Shown
<1>2. CASE OpenDialog \/ PaintAll \/ Escape \/ UNCHANGED dialogVars
  BY <1>1, <1>2 DEF OpenDialog, PaintAll, Escape, dialogVars
<1>3. CASE FillInputs
  <2>1. kind' = kind /\ copied' = "filled" /\ (UNCHANGED << setting, entered >> \/ entered' = FALSE)
    BY <1>3 DEF FillInputs
  <2> QED
    BY <2>1 DEF EnteredInv, Applied, Shown
<1>4. CASE ChooseLoadOptions
  BY <1>4 DEF ChooseLoadOptions, EnteredInv
<1>5. ASSUME NEW v, NEW p, NEW s, Edit(v, p, s) PROVE EnteredInv'
  BY <1>1, <1>5 DEF Edit
<1>6. CASE Right \/ (\E c \in Keys : Type(c))
  BY <1>5, <1>6 DEF Right, Type, Advanced
<1>7. CASE Left \/ Home \/ End \/ Delete
  BY <1>5, <1>7 DEF Left, Home, End, Delete
<1>8. CASE Backspace
  BY <1>5, <1>8 DEF Backspace
<1>9. CASE Enter
  <2>1. kind' = kind /\ setting' = Applied(value) /\ copied' = "applied"
    BY <1>9 DEF Enter
  <2>2. Applied(Shown(Applied(value))) = Applied(value)
    BY AppliedRoundTrip DEF DialogTypeOK
  <2>3. PICK x : x = setting'
    OBVIOUS
  <2>4. Applied(Shown(x))' = Applied(Shown(x))
    BY <2>1 DEF Applied, Shown
  <2> QED
    BY <2>1, <2>2, <2>3, <2>4 DEF EnteredInv, Applied, Shown
<1> QED
  BY <1>2, <1>3, <1>4, <1>6, <1>7, <1>8, <1>9 DEF DialogNext

\* Confirming a field without an edit leaves a setting that was entered before as
\* it is, for every text, number, mask and sequence of refills.
THEOREM ConfirmChangesNothing == DialogSpec => ConfirmKeepsSetting
<1> DEFINE Inv == BackupMeetsSetting /\ EnteredInv
           Step == Enter /\ entered /\ value = backup.value => UNCHANGED setting
<1>1. DialogInit => EnteredInv
  BY DEF DialogInit, EnteredInv
<1>2. DialogTypeOK /\ EnteredInv /\ [DialogNext]_dialogVars => EnteredInv'
  BY NextEntered
<1>3. DialogTypeOK /\ Inv => Step
  <2> SUFFICES ASSUME DialogTypeOK, Inv, Enter, entered, value = backup.value
               PROVE  UNCHANGED setting
    OBVIOUS
  <2>1. open /\ setting' = Applied(backup.value)
    BY DEF Enter, Return
  <2>2. Meets(backup.value) /\ copied \in {"filled", "applied"}
    BY <2>1 DEF BackupMeetsSetting, EnteredInv, DialogTypeOK
  <2>3. CASE copied = "filled"
    BY <2>1, <2>2, <2>3 DEF Meets, EnteredInv
  <2>4. CASE copied = "applied"
    BY <2>1, <2>2, <2>4 DEF Meets
  <2> QED
    BY <2>2, <2>3, <2>4
<1>4. DialogTypeOK /\ Inv /\ [DialogNext]_dialogVars => [Step]_dialogVars
  BY <1>3
<1> QED
  BY <1>1, <1>2, <1>4, DialogTypeCorrect, BackupStaysWithSetting, PTL
  DEF DialogSpec, ConfirmKeepsSetting
===============================================================================
