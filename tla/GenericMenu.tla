----------------------------- MODULE GenericMenu ------------------------------
(***************************************************************************)
(* A menu screen at work: RunGenericMenu and what it calls                 *)
(* (rEFIt_UEFI/gui/REFIT_MENU_SCREEN.cpp).  Each round of its loop paints, *)
(* looks for a file system event, waits up to a second for input, applies  *)
(* the action of the mouse, then reads a key and applies it.               *)
(*                                                                         *)
(* The user, the timer and the firmware's notification OnSimpleFileSystem  *)
(* run beside the loop, so these parts are separate steps.  The editing of *)
(* a text field is in InputDialog.tla; here it is what it does to the      *)
(* menu.  The scrolling state and its operators are those of MenuScroll.   *)
(***************************************************************************)
EXTENDS MenuScroll

CONSTANTS Kind,           \* Kind[r][e]: what the entry e of the menu r \in Rows is
          Timeouts,       \* values of TimeoutSeconds
          MaxLines,       \* bound on the lines one drag of the scroll bar moves
          MaxEvents,      \* bound on file system events in a behaviour
          MaxSpurious     \* bound on key events without a key in a behaviour

\* "option" is an entry of the menu itself (Options, About, Return) or of a
\* submenu of a loader; "text", "check" and "switch" are input fields.
Kinds == {"loader", "tool", "clover", "option", "text", "check", "switch", "info"}

ASSUME KindAssumption ==
  \A r \in Rows : \A e \in 0 .. r[2] - 1 : Kind[r][e] \in Kinds
ASSUME TimeoutsAssumption == Timeouts \subseteq Int
ASSUME MaxLinesAssumption == MaxLines \in Nat
ASSUME MaxEventsAssumption == MaxEvents \in Nat
ASSUME MaxSpuriousAssumption == MaxSpurious \in Nat

VARIABLES
  pc,           \* the part of the round that is next
  menuExit,     \* MenuExit; "none" is 0
  haveTimeout,  \* HaveTimeout
  countdown,    \* TimeoutCountdown
  mAction,      \* mAction
  mItemID,      \* mItemID; NoItem is 0xFFFF
  lines,        \* lines a drag of the scroll bar has yet to move; < 0 is up
  isDragging,   \* IsDragging
  gEvent,       \* a file system has appeared or gone
  lit,          \* the entries that the screen shows as selected
  events,       \* file system events so far
  spurious,     \* key events without a key so far
  default,      \* DefaultEntryIndex when the menu was opened
  touched,      \* an input was accepted since the menu was opened
  strayed,      \* since then PAGE_DOWN or a click left the selection above the window
  unpainted     \* a dialog opened by the mouse was left before it painted

input == << mAction, mItemID, lines, isDragging >>
timer == << haveTimeout, countdown >>
world == << gEvent, events, spurious >>
history == << default, touched, strayed >>
menuVars == << scroll, pc, menuExit, timer, input, lit, world, history, unpainted >>

NoItem == -1
Entry == 0 .. scroll.maxIndex
KindOf(e) == Kind[<< scroll.maxScroll + 1, scroll.maxIndex + 1 >>][e]

-------------------------------------------------------------------------------
(* Painting *)

\* The entries a full repaint draws: the window, and the second row.
Shown(s) == (s.first .. s.lastVisible) \cup (s.maxScroll + 1 .. s.maxIndex)

LitByPaintAll(s) == {s.cur} \cap Shown(s)

\* A faulty variant: the last selection is not drawn again.
LitBySelectionOnly(s) == lit \cup {s.cur}

\* PAINT_SELECTION draws the last selection unselected, then the current one.
LitByPaintSelection(s) == (lit \ {s.last}) \cup {s.cur}

-------------------------------------------------------------------------------
(* Opening, and the top of the loop *)

\* No default, no timeout.  The key buffer is emptied before the first round.
OpenMenu ==
  /\ pc = "closed"
  /\ \E d \in Defaults, t \in Timeouts :
       /\ OpenedAt(scroll', d)
       /\ default' = d
       /\ haveTimeout' = (d # -1 /\ t > 0)
       /\ countdown' = IF d # -1 /\ t > 0 THEN t ELSE 0
  /\ pc' = "top"
  /\ menuExit' = "none"
  /\ isDragging' = FALSE
  /\ lit' = {}
  /\ touched' = FALSE
  /\ strayed' = FALSE
  /\ unpainted' = FALSE
  /\ UNCHANGED << mAction, mItemID, lines, world >>

PaintScreen ==
  /\ pc = "top"
  /\ pc' = "event"
  /\ Paint
  /\ lit' = IF scroll.paintAll THEN LitByPaintAll(scroll)
            ELSE IF scroll.paintSelection THEN LitByPaintSelection(scroll)
            ELSE lit
  /\ unpainted' = (unpainted /\ ~ scroll.paintAll)
  /\ UNCHANGED << menuExit, timer, input, world, history >>

\* A faulty variant: the event is looked at only before a full repaint.
EventIfPainting == gEvent /\ scroll.paintAll

\* A file system event leaves the menu as ESC does, to have it built again.
EventPending == gEvent

CheckEvent ==
  /\ pc = "event"
  /\ \/ /\ EventPending
        /\ gEvent' = FALSE
        /\ menuExit' = "ESCAPE"
        /\ AskPaint(TRUE, scroll.last)
        /\ pc' = "closed"
     \/ /\ ~ EventPending
        /\ pc' = "wait"
        /\ UNCHANGED << gEvent, menuExit, scroll >>
  /\ UNCHANGED << timer, input, lit, events, spurious, history, unpainted >>

-------------------------------------------------------------------------------
(* Waiting for input *)

\* Faulty variants: one second too late, and a countdown that stands still.
ExpiredTooLate == countdown < 0
NotCounted == countdown

Expired == countdown <= 0
CountedDown == countdown - 1

\* WaitForInputEventPoll(1) returns EFI_TIMEOUT.
NoInput ==
  /\ pc = "wait"
  /\ \/ /\ haveTimeout /\ Expired
        /\ menuExit' = "TIMEOUT"
        /\ pc' = "closed"
        /\ UNCHANGED countdown
     \/ /\ haveTimeout /\ ~ Expired
        /\ countdown' = CountedDown
        /\ pc' = "top"
        /\ UNCHANGED menuExit
     \/ /\ ~ haveTimeout
        /\ pc' = "top"
        /\ UNCHANGED << countdown, menuExit >>
  /\ UNCHANGED << scroll, haveTimeout, input, lit, world, history, unpainted >>

\* WaitForKey is signalled: the mouse was not looked at, mAction is still None.
KeyEvent ==
  /\ pc = "wait"
  /\ pc' = "key"
  /\ UNCHANGED << scroll, menuExit, timer, input, lit, world, history, unpainted >>

AtClick ==
  [loader |-> "Select", tool |-> "Select", clover |-> "Enter",
   option |-> "Enter", text |-> "Select", check |-> "Enter", switch |-> "Enter",
   info |-> "Light"]
AtDoubleClick ==
  [loader |-> "Enter", tool |-> "Enter", clover |-> "Details",
   option |-> "None", text |-> "Enter", check |-> "None", switch |-> "None",
   info |-> "None"]
AtRightClick ==
  [loader |-> "Details", tool |-> "Help", clover |-> "Details",
   option |-> "None", text |-> "None", check |-> "Details", switch |-> "Details",
   info |-> "None"]

\* CheckMouseEvent has found an action, so the wait ends.
MouseEvent(action, item) ==
  /\ pc = "wait"
  /\ action # "None"
  /\ pc' = "mouse"
  /\ mAction' = action
  /\ mItemID' = item
  /\ UNCHANGED << scroll, menuExit, timer, lit, world, history, unpainted >>

\* Two clicks in a short time are a double click wherever the first one was, and
\* a rectangle that an entry had before the window moved still counts: a click
\* may hit any entry.  A left click that ends a drag is not one.
ClickEntry ==
  /\ \E e \in Entry, at \in {AtClick, AtDoubleClick, AtRightClick} :
       /\ at = AtClick => ~ isDragging
       /\ MouseEvent(at[KindOf(e)], e)
  /\ UNCHANGED << lines, isDragging >>

\* A click beside the entries, a turn of the wheel, and a click on the arrows of
\* the scroll bar.  No handler of these actions reads mItemID.
ClickElsewhere ==
  /\ \E action \in {"Deselect", "Finish", "ScrollDown", "ScrollUp"} :
       /\ action = "Deselect" => ~ isDragging
       /\ MouseEvent(action, NoItem)
  /\ UNCHANGED << lines, isDragging >>

\* A click on the scroll bar's background, above or below the bar.
ClickScrollbarBackground ==
  /\ IsScrolling(scroll)
  /\ ~ isDragging
  /\ \E action \in {"PageUp", "PageDown"} : MouseEvent(action, mItemID)
  /\ UNCHANGED << lines, isDragging >>

\* The button goes down on the scroll bar, or up after a drag: no action.
Grab ==
  /\ pc = "wait"
  /\ IsScrolling(scroll)
  /\ isDragging' = ~ isDragging
  /\ UNCHANGED << scroll, pc, menuExit, timer, mAction, mItemID, lines, lit,
                  world, history, unpainted >>

Drag ==
  /\ IsScrolling(scroll)
  /\ isDragging
  /\ MouseEvent("MoveScrollbar", mItemID)
  /\ lines' \in -MaxLines .. MaxLines
  /\ UNCHANGED isDragging

-------------------------------------------------------------------------------
(* The action of the mouse *)

SelectsItem == mAction \in {"Select", "Enter", "Details"}

MouseStep(next) ==
  /\ pc = "mouse"
  /\ pc' = next
  /\ strayed' = (strayed \/ (SelectsItem /\ ~ NotAbove(scroll, mItemID)))
  /\ UNCHANGED << timer, mAction, mItemID, isDragging, lit, world, default, touched, unpainted >>

SelectItem ==
  /\ mAction = "Select"
  /\ MouseStep("key")
  /\ Select(mItemID, TRUE)
  /\ UNCHANGED << menuExit, lines >>

\* ActionEnter and ActionDetails: an entry with a value opens its dialog, a line
\* of information does nothing, any other entry leaves the menu.
HasDialog(e) == KindOf(e) \in {"text", "check", "switch"}

EnterItem ==
  /\ mAction \in {"Enter", "Details"}
  /\ Select(mItemID, FALSE)
  /\ \/ /\ HasDialog(mItemID)
        /\ MouseStep("dialogMouse")
        /\ UNCHANGED menuExit
     \/ /\ ~ HasDialog(mItemID)
        /\ MouseStep("key")
        /\ menuExit' = IF KindOf(mItemID) = "info" THEN menuExit
                       ELSE IF mAction = "Enter" THEN "ENTER" ELSE "DETAILS"
  /\ UNCHANGED lines

\* A faulty variant: a click beside the entries selects its mItemID.
DeselectToItem == Select(mItemID, TRUE)

\* ActionDeselect keeps the selection and repaints.
DeselectKeeps == AskPaint(TRUE, scroll.cur)
Deselect ==
  /\ mAction = "Deselect"
  /\ MouseStep("key")
  /\ DeselectKeeps
  /\ UNCHANGED << menuExit, lines >>

LeaveByMouse ==
  /\ mAction \in {"Help", "Finish"}
  /\ MouseStep("key")
  /\ menuExit' = IF mAction = "Help" THEN "HELP" ELSE "ESCAPE"
  /\ UNCHANGED << scroll, lines >>

TurnWheel ==
  /\ mAction \in {"ScrollDown", "ScrollUp"}
  /\ MouseStep("key")
  /\ Move(IF mAction = "ScrollDown" THEN "SCROLL_DOWN" ELSE "SCROLL_UP")
  /\ UNCHANGED << menuExit, lines >>

\* SCROLL_SCROLLBAR_MOVE: UpdateScroll calls itself once per line.  Less than a
\* line only forgets the last selection.
MoveScrollbar ==
  /\ mAction = "MoveScrollbar"
  /\ \/ /\ lines # 0
        /\ MouseStep(IF lines \in {-1, 1} THEN "key" ELSE "mouse")
        /\ Move(IF lines > 0 THEN "SCROLL_DOWN" ELSE "SCROLL_UP")
        /\ lines' = IF lines > 0 THEN lines - 1 ELSE lines + 1
     \/ /\ lines = 0
        /\ MouseStep("key")
        /\ AskPaint(FALSE, scroll.cur)
        /\ UNCHANGED lines
  /\ UNCHANGED menuExit

\* The switch has no case for the other actions.
IgnoreAction ==
  /\ mAction \in {"Light", "PageUp", "PageDown"}
  /\ MouseStep("key")
  /\ UNCHANGED << scroll, menuExit, lines >>

-------------------------------------------------------------------------------
(* The key *)

\* A faulty variant: only the message of the timeout is removed.
KeepsTimeout == haveTimeout

\* A key, or no key after an action of the mouse: the timeout is cancelled and
\* the action is done.
CancelledTimeout == FALSE
KeyStep(next) ==
  /\ pc = "key"
  /\ pc' = next
  /\ haveTimeout' = CancelledTimeout
  /\ mAction' = "None"
  /\ touched' = TRUE
  /\ UNCHANGED << countdown, mItemID, lines, isDragging, lit, world, default, unpainted >>

\* The round ends with exit in MenuExit, which ends the loop unless it is 0.
RoundEnds(exit) ==
  /\ KeyStep(IF exit = "none" THEN "top" ELSE "closed")
  /\ menuExit' = exit

KeepsWindow == UNCHANGED << scroll, strayed >>

\* ReadKeyStroke has no key and there was no action: nothing has happened.
SpuriousKey ==
  /\ pc = "key"
  /\ mAction = "None"
  /\ spurious < MaxSpurious
  /\ spurious' = spurious + 1
  /\ pc' = "top"
  /\ UNCHANGED << scroll, menuExit, timer, input, lit, gEvent, events, history, unpainted >>

NoKey ==
  /\ mAction # "None"
  /\ RoundEnds(menuExit)
  /\ KeepsWindow

KeyMove ==
  /\ \E m \in {"LINE_UP", "LINE_DOWN", "FIRST", "LAST", "PAGE_UP", "PAGE_DOWN"} :
       /\ Move(m)
       /\ strayed' = (strayed \/ (m = "PAGE_DOWN" /\ ~ NotAbove(scroll', scroll'.cur)))
  /\ RoundEnds(menuExit)

\* ESC, F9 after it has set the next screen mode and F11 after it has reset
\* NVRAM; INSERT, F1, F3.
KeyLeave ==
  /\ \E exit \in {"ESCAPE", "OPTIONS", "HELP", "HIDE_TOGGLE"} : RoundEnds(exit)
  /\ KeepsWindow

\* F12
KeyEject ==
  /\ AskPaint(TRUE, scroll.last)
  /\ RoundEnds("EJECT")
  /\ UNCHANGED strayed

\* F2, F4 .. F8, F10 and B save or test something; so does a key of no meaning.
KeyOther ==
  /\ RoundEnds(menuExit)
  /\ KeepsWindow

KeyEnterOrSpace(exit) ==
  /\ \/ /\ HasDialog(scroll.cur)
        /\ KeyStep("dialogKey")
        /\ UNCHANGED menuExit
     \/ /\ KindOf(scroll.cur) = "info"
        /\ RoundEnds(menuExit)
     \/ /\ ~ HasDialog(scroll.cur) /\ KindOf(scroll.cur) # "info"
        /\ RoundEnds(IF KindOf(scroll.cur) = "clover" THEN "DETAILS" ELSE exit)
  /\ KeepsWindow

\* FindMenuShortcutEntry finds the entry of the key.
KeyShortcut ==
  /\ \E e \in Entry : Jump(e)
  /\ RoundEnds("ENTER")
  /\ UNCHANGED strayed

-------------------------------------------------------------------------------
(* InputDialog, as far as the menu goes *)

InDialog == pc \in {"dialogMouse", "dialogKey"}

\* A key is edited into the field and the field is painted.
DialogRound ==
  /\ InDialog
  /\ KindOf(scroll.cur) = "text"
  /\ lit' = LitByPaintSelection(scroll)
  /\ UNCHANGED << scroll, pc, menuExit, timer, input, world, history, unpainted >>

\* InputDialog returns 0; a radio button asks for a repaint.
DialogReturns ==
  /\ InDialog
  /\ menuExit' = "none"
  /\ pc' = IF pc = "dialogMouse" THEN "key" ELSE "top"
  /\ AskPaint(KindOf(scroll.cur) = "switch", scroll.last)
  /\ UNCHANGED << timer, input, world, history >>

\* ENTER, or a check box or radio button: the field is painted once more.
DialogEnter ==
  /\ DialogReturns
  /\ lit' = LitByPaintSelection(scroll)
  /\ UNCHANGED unpainted

\* ESC leaves the loop without painting the field.
DialogEscape ==
  /\ KindOf(scroll.cur) = "text"
  /\ DialogReturns
  /\ unpainted' = (unpainted \/ lit # LitByPaintSelection(scroll))
  /\ UNCHANGED lit

-------------------------------------------------------------------------------
\* OnSimpleFileSystem interrupts whatever the menu does.
OnSimpleFileSystem ==
  /\ events < MaxEvents
  /\ events' = events + 1
  /\ gEvent' = TRUE
  /\ UNCHANGED << scroll, pc, menuExit, timer, input, lit, spurious, history, unpainted >>

MenuInit ==
  /\ ScrollInit
  /\ pc = "closed"
  /\ menuExit = "none"
  /\ haveTimeout = FALSE /\ countdown = 0
  /\ mAction = "None" /\ mItemID = NoItem /\ lines = 0 /\ isDragging = FALSE
  /\ gEvent = FALSE /\ events = 0 /\ spurious = 0
  /\ lit = {}
  /\ default = -1 /\ touched = FALSE /\ strayed = FALSE /\ unpainted = FALSE

Mouse ==
  \/ SelectItem \/ EnterItem \/ Deselect \/ LeaveByMouse
  \/ TurnWheel \/ MoveScrollbar \/ IgnoreAction

Key ==
  \/ SpuriousKey \/ NoKey \/ KeyMove \/ KeyLeave \/ KeyEject \/ KeyOther
  \/ KeyEnterOrSpace("ENTER") \/ KeyEnterOrSpace("DETAILS")
  \/ KeyShortcut

User ==
  \/ KeyEvent \/ ClickEntry \/ ClickElsewhere \/ ClickScrollbarBackground
  \/ Grab \/ Drag \/ DialogRound \/ DialogEnter \/ DialogEscape

\* What the processor does by itself.
Loop == PaintScreen \/ CheckEvent \/ Mouse \/ Key

MenuNext == OpenMenu \/ Loop \/ NoInput \/ User \/ OnSimpleFileSystem

MenuSpec == MenuInit /\ [][MenuNext]_menuVars

\* The processor goes on, and a second without input passes.
FairMenuSpec == MenuSpec /\ WF_menuVars(Loop) /\ WF_menuVars(NoInput)

-------------------------------------------------------------------------------
(* Properties *)

MenuPC == {"closed", "top", "event", "wait", "mouse", "key", "dialogMouse", "dialogKey"}
Exits == {"none", "ENTER", "ESCAPE", "DETAILS", "TIMEOUT", "OPTIONS", "EJECT", "HELP",
          "HIDE_TOGGLE"}
Actions == {"None", "Select", "Enter", "Details", "Help", "Deselect", "Finish",
            "ScrollDown", "ScrollUp", "MoveScrollbar", "PageUp", "PageDown", "Light"}

\* The type invariant of the locals of RunGenericMenu and the members it uses.
MenuTypeOK ==
  /\ ScrollTypeOK
  /\ pc \in MenuPC
  /\ menuExit \in Exits
  /\ haveTimeout \in BOOLEAN /\ countdown \in Nat
  /\ mAction \in Actions /\ mItemID \in {NoItem} \cup Nat
  /\ lines \in Int /\ isDragging \in BOOLEAN
  /\ gEvent \in BOOLEAN /\ events \in Nat /\ spurious \in Nat
  /\ lit \subseteq Int
  /\ default \in Int /\ touched \in BOOLEAN /\ strayed \in BOOLEAN /\ unpainted \in BOOLEAN

\* A menu that has timed out was not touched, and the entry it hands to its
\* caller is the default entry: no input that moved the selection, by mouse or
\* by key, is followed by the automatic boot of another entry.
TimeoutBootsDefault ==
  menuExit = "TIMEOUT" =>
    /\ ~ touched
    /\ default \in Entry => scroll.cur = default

\* While the menu waits for input, the screen shows the selection and no other
\* entry as selected, whatever mixture of full and partial repaints led there.
ScreenShowsSelection ==
  pc = "wait" /\ ~ unpainted =>
    lit \cap Shown(scroll) = {scroll.cur} \cap Shown(scroll)

\* A partial repaint of the main menu reads itemPosX[LastSelection - FirstVisible]
\* and itemPosX[CurrentSelection - FirstVisible] for entries of the first row.
\* Whatever mixture of keys, wheel, drags and clicks came before, neither index is
\* negative unless PAGE_DOWN, or a click on the rectangle of an entry that has been
\* scrolled away, has put the selection above the window since the menu was opened.
PaintsInArray ==
  pc = "top" /\ scroll.paintSelection /\ ~ scroll.paintAll /\ ~ strayed =>
    NotAbove(scroll, scroll.last) /\ NotAbove(scroll, scroll.cur)

\* A timeout that is running is cancelled by an input, has the user in a dialog,
\* or expires and leaves the menu, whatever events without a key come between.
UntouchedMenuEnds == haveTimeout ~> (~ haveTimeout \/ pc = "closed" \/ InDialog)

\* "GUI refreshes after CD/DVD insertion": a file system event leaves the menu,
\* unless the user is in a dialog.
EventLeavesMenu == gEvent ~> (~ gEvent \/ pc = "closed" \/ InDialog)
===============================================================================
