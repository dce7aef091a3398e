CONSTANTS
  Backslash = Backslash
  Underscore = Underscore
  Space = Space
  Char <- MCChar
  Keys <- MCKeys
  LineSize = 2
  MaxSize = 3
  Fits = 2
  Texts <- MCTexts
  Numbers <- MCNumbers
  Modulus = 128
SPECIFICATION DialogSpec
INVARIANTS DialogTypeOK ShiftInText FieldMeetsSetting
PROPERTIES ConfirmKeepsSetting
