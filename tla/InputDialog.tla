------------------------------ MODULE InputDialog ------------------------------
(***************************************************************************)
(* The text field of an options menu and its editor, InputDialog           *)
(* (rEFIt_UEFI/gui/REFIT_MENU_SCREEN.cpp).  The text is shown from         *)
(* LineShift on; the cursor is Pos characters behind that.                 *)
(*                                                                         *)
(* A key and what it does is one step.  The dialogs of check boxes and     *)
(* radio buttons return at once and are steps of GenericMenu.              *)
(*                                                                         *)
(* The field is a copy of a setting.  FillInputs prints the setting into   *)
(* the field, ApplyInputs reads the field into the setting, and neither is *)
(* the inverse of the other: the boot arguments lose their backslashes, a  *)
(* number its upper bits and whatever follows its digits.                  *)
(***************************************************************************)
EXTENDS Integers, Sequences

CONSTANTS Char,      \* characters; a digit is its number
          Backslash, Underscore, Space,
          Keys,      \* the characters a user types
          LineSize,  \* characters the dialog shows; 38, less in a narrow menu
          MaxSize,   \* SVALUE_MAX_SIZE, 512
          Fits,      \* characters the menu has room for on a full repaint
          Texts,     \* texts that the configuration may give a setting
          Numbers,   \* numbers that it may give one, UINT8
          Modulus    \* one more than the mask ApplyInputs puts on a number, 0x80

ASSUME LineSizeAssumption == LineSize \in Nat
ASSUME MaxSizeAssumption == MaxSize \in Nat
ASSUME FitsAssumption == Fits \in Nat
ASSUME CharAssumption ==
  /\ 0 .. 9 \cup {Backslash, Underscore, Space} \cup Keys \subseteq Char
  /\ Space \notin 0 .. 9 /\ Backslash # Underscore
ASSUME ConfigurationAssumption == Texts \subseteq Seq(Char) /\ Numbers \subseteq 0 .. 255
ASSUME ModulusAssumption == Modulus \in 1 .. 256

VARIABLES
  value,    \* Item->SValue
  shift,    \* Item->LineShift
  row,      \* Row of the entry, where the cursor is kept
  open,     \* InputDialog is running
  pos,      \* its Pos
  backup,   \* its Backup, BackupShift and BackupPos
  kind,     \* "args" for the boot arguments, "number" or "text" for another field
  setting,  \* the member of gSettings that the field is about
  refilled, \* FillInputs has changed the text since LineShift was last reset
  copied,   \* how the field and the setting last met: "filled", "applied" or not
  entered   \* the setting is one that ApplyInputs has set

field == << value, shift, row >>
source == << kind, setting, copied, entered >>
dialogVars == << field, open, pos, backup, source, refilled >>

cursor == pos + shift

NoBackup == [value |-> << >>, shift |-> 0, row |-> 0]

-------------------------------------------------------------------------------
(* XStringW *)

\* insertAtPos appends when the position is beyond the end, and deleteCharsAtPos
\* does nothing then.  Positions are 0 based.
InsertAtPos(v, c, i) ==
  IF i >= Len(v) THEN Append(v, c)
                 ELSE SubSeq(v, 1, i) \o << c >> \o SubSeq(v, i + 1, Len(v))

DeleteCharsAtPos(v, i) ==
  IF i >= Len(v) THEN v ELSE SubSeq(v, 1, i) \o SubSeq(v, i + 2, Len(v))

\* replaceAll
ReplaceAll(v, c, d) == [i \in 1 .. Len(v) |-> IF v[i] = c THEN d ELSE v[i]]

-------------------------------------------------------------------------------
(* Printing and reading a setting *)

\* A faulty variant: room for two digits.
PrintedInTwo(x) == << (x \div 10) % 10, x % 10 >>

\* "%02d" of an UINT8
Printed(x) ==
  IF x < 100 THEN << x \div 10, x % 10 >> ELSE << x \div 100, (x \div 10) % 10, x % 10 >>

\* The i-th character of v is one of the digits that begin it, after spaces.
IsRead(v, i) ==
  \E pad \in 0 .. i - 1 :
    /\ \A j \in 1 .. pad : v[j] = Space
    /\ \A j \in pad + 1 .. i : v[j] \in 0 .. 9

\* StrDecimalToUintn with the mask of its caller.  It wraps at 2^64 without an
\* error, and the modulus divides that.
StrDecimalToUintn(v) ==
  LET data[i \in 0 .. Len(v)] ==
        IF i = 0 THEN 0
        ELSE IF IsRead(v, i) THEN (10 * data[i - 1] + v[i]) % Modulus
        ELSE data[i - 1]
  IN  data[Len(v)]

\* FillInputs and ApplyInputs, for the three kinds of field.
Shown(x) == IF kind = "number" THEN Printed(x) ELSE x

Applied(v) ==
  CASE kind = "args"   -> ReplaceAll(v, Backslash, Underscore)
    [] kind = "number" -> StrDecimalToUintn(v)
    [] kind = "text"   -> v

Configured == IF kind = "number" THEN Numbers ELSE Texts

-------------------------------------------------------------------------------
(* Around the dialog *)

OpenDialog ==
  /\ ~ open
  /\ open' = TRUE
  /\ pos' = row
  /\ backup' = [value |-> value, shift |-> shift, row |-> row]
  /\ UNCHANGED << field, source, refilled >>

\* A full repaint of the menu: "set cursor to beginning if it is outside of
\* screen".
PaintAll ==
  /\ ~ open
  /\ row > Fits
  /\ row' = 0
  /\ UNCHANGED << value, shift, open, pos, backup, source, refilled >>

\* Another configuration is chosen, or the screen of the SMBIOS is entered, or the
\* menus are built again: all fields show their settings, some of which have new
\* values, and keep their LineShift and Row.
FillInputs ==
  /\ ~ open
  /\ \/ UNCHANGED << setting, entered >>
     \/ setting' \in Configured /\ entered' = FALSE
  /\ value' = Shown(setting')
  /\ copied' = "filled"
  /\ refilled' = TRUE
  /\ UNCHANGED << shift, row, open, pos, backup, kind >>

\* A subentry of a loader is chosen in its details menu: its options become the
\* boot arguments, and the field is not filled.
ChooseLoadOptions ==
  /\ ~ open
  /\ kind = "args"
  /\ setting' \in Texts
  /\ copied' = "no"
  /\ entered' = FALSE
  /\ UNCHANGED << field, open, pos, backup, kind, refilled >>

-------------------------------------------------------------------------------
(* The keys *)

\* A key sets the text, the cursor and the shift; the field is painted.
Edit(v, p, s) ==
  /\ open
  /\ value' = v
  /\ pos' = p
  /\ shift' = s
  /\ row' = p
  /\ UNCHANGED << open, backup, source, refilled >>

\* The cursor moves on: within the line, then by shifting the text.
Advanced(v) == IF pos < LineSize THEN Edit(v, pos + 1, shift) ELSE Edit(v, pos, shift + 1)

Right == cursor < Len(value) /\ Advanced(value)

\* A faulty variant: the text is shifted without a look at where it begins.
LeftUnguarded == Edit(value, pos, shift - 1)

Left ==
  \/ pos > 0 /\ Edit(value, pos - 1, shift)
  \/ pos = 0 /\ shift > 0 /\ Edit(value, pos, shift - 1)

Home == Edit(value, 0, 0)

End ==
  \/ Len(value) < LineSize /\ Edit(value, Len(value), shift)
  \/ Len(value) >= LineSize /\ Edit(value, LineSize, Len(value) - LineSize)

Delete == cursor < Len(value) /\ Edit(DeleteCharsAtPos(value, cursor), pos, shift)

Backspace ==
  /\ value # << >> /\ pos # 0
  /\ LET v == DeleteCharsAtPos(value, cursor - 1)
     IN  IF shift > 0 THEN Edit(v, pos, shift - 1) ELSE Edit(v, pos - 1, shift)

Type(c) == Len(value) < MaxSize /\ Advanced(InsertAtPos(value, c, cursor))

\* InputDialog returns, and its locals are gone.
Return ==
  /\ open
  /\ open' = FALSE
  /\ pos' = 0
  /\ backup' = NoBackup

\* ENTER: ApplyInputs reads the text; the text stays as it was typed.
Enter ==
  /\ Return
  /\ shift' = 0 /\ row' = 0
  /\ setting' = Applied(value)
  /\ copied' = "applied"
  /\ entered' = TRUE
  /\ refilled' = FALSE
  /\ UNCHANGED << value, kind >>

\* Faulty variants: ESC forgets to restore the shift, or the text.
EscapedText == value' = backup.value /\ shift' = shift /\ row' = backup.row
EscapedCursor == value' = value /\ shift' = backup.shift /\ row' = backup.row

\* ESC: if the text was changed, the text and the cursor are restored.
Escaped ==
  IF value # backup.value
  THEN value' = backup.value /\ shift' = backup.shift /\ row' = backup.row
  ELSE UNCHANGED field

Escape ==
  /\ Return
  /\ Escaped
  /\ UNCHANGED << source, refilled >>

-------------------------------------------------------------------------------
Fields == {"args", "number", "text"}

(* AddMenuItem_ puts the cursor at the end of the text, for two of the fields at  *)
(* its beginning.                                                                *)
DialogInit ==
  /\ kind \in Fields
  /\ setting \in Configured
  /\ value = Shown(setting)
  /\ copied = "filled" /\ entered = FALSE
  /\ shift = 0
  /\ row \in {0, Len(value)}
  /\ open = FALSE /\ refilled = FALSE
  /\ pos = 0
  /\ backup = NoBackup

DialogNext ==
  \/ OpenDialog \/ PaintAll \/ FillInputs \/ ChooseLoadOptions
  \/ Right \/ Left \/ Home \/ End \/ Delete \/ Backspace
  \/ \E c \in Keys : Type(c)
  \/ Enter \/ Escape

DialogSpec == DialogInit /\ [][DialogNext]_dialogVars

-------------------------------------------------------------------------------
(* Properties *)

\* The type invariant: the unsigned Pos and LineShift never wrap below 0.
DialogTypeOK ==
  /\ value \in Seq(Char)
  /\ kind \in Fields /\ setting \in (IF kind = "number" THEN 0 .. 255 ELSE Seq(Char))
  /\ copied \in {"filled", "applied", "no"} /\ entered \in BOOLEAN
  /\ shift \in Nat /\ row \in Nat /\ pos \in Nat
  /\ open \in BOOLEAN /\ refilled \in BOOLEAN
  /\ backup \in [value : Seq(Char), shift : Nat, row : Nat]

\* PAINT_SELECTION reads the text from wc_str() + LineShift on: whatever keys
\* are pressed and however the dialogs were left, that is within the text, until
\* FillInputs gives the field another text, and again once ENTER has been pressed.
ShiftInText == ~ refilled => shift <= Len(value)

\* With the text and the shift that ESC will bring back.
BackupShiftInText == open /\ ~ refilled => backup.shift <= Len(backup.value)
ShiftInv == DialogTypeOK /\ ShiftInText /\ BackupShiftInText

\* How a text and the setting go together since they last met.
Meets(v) ==
  /\ copied = "filled" => v = Shown(setting)
  /\ copied = "applied" => setting = Applied(v)

\* When no dialog is open, the field holds what FillInputs has printed of the
\* setting, or else a text that ApplyInputs has read the setting from: no sequence
\* of edits and abandoned edits leaves one on the screen that was never entered,
\* unless the boot arguments were changed behind the field.
FieldMeetsSetting == ~ open => Meets(value)

\* What the dialog keeps for that.
BackupMeetsSetting == open => Meets(backup.value)

\* ENTER in a field whose text was not changed leaves a setting that was entered
\* before as it is, however often FillInputs has printed it in between: what is
\* printed of a text or number that ApplyInputs has converted is read as the same.
\* (A configured number beyond the mask is not, nor are configured arguments with
\* a backslash.)
ConfirmKeepsSetting ==
  [][Enter /\ entered /\ value = backup.value => UNCHANGED setting]_dialogVars
===============================================================================
