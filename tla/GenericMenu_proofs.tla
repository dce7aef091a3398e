-------------------------- MODULE GenericMenu_proofs ---------------------------
(***************************************************************************)
(* Proofs about a menu screen at work, for menus and screens of any size   *)
(* and any number of file system events.  The invariants that carry them:  *)
(*   ItemInv     what the mouse has left in mAction and mItemID is an      *)
(*               action on an entry while it is being applied, and is gone *)
(*               when the next round begins;                               *)
(*   TimeoutInv  as long as the timeout runs nothing was touched;          *)
(*   KindInv     the menu is one of the menus, and no action opens a line  *)
(*               of information;                                           *)
(*   ScreenInv   what the screen shows in each part of a round;            *)
(*   PaintInv    a partial repaint is asked for at the end of a round only,*)
(*               and never beside a full one.                              *)
(***************************************************************************)
EXTENDS GenericMenu, MenuScroll_proofs

USE DEF Entry

-------------------------------------------------------------------------------
(* The mouse *)

ItemInv ==
  /\ pc \in {"closed", "top", "event", "wait", "dialogKey"} => mAction = "None"
  /\ pc \in {"mouse", "dialogMouse"} => mAction # "None"
  /\ pc = "mouse" /\ mAction \in {"Select", "Enter", "Details"} => mItemID \in Entry

LEMMA InitItem == MenuInit => ItemInv
BY DEF MenuInit, ItemInv

LEMMA LoopItem ==
  ASSUME ItemInv, PaintScreen \/ CheckEvent \/ NoInput \/ OpenMenu \/ OnSimpleFileSystem
  PROVE  ItemInv'
<1> USE DEF ItemInv, input
<1>1. CASE PaintScreen
  BY <1>1 DEF PaintScreen
<1>2. CASE CheckEvent
  BY <1>2 DEF CheckEvent
<1>3. CASE NoInput
  BY <1>3 DEF NoInput
<1>4. CASE OpenMenu
  BY <1>4 DEF OpenMenu
<1>5. CASE OnSimpleFileSystem
  BY <1>5 DEF OnSimpleFileSystem
<1> QED
  BY <1>1, <1>2, <1>3, <1>4, <1>5

LEMMA MouseItem ==
  ASSUME ItemInv, Mouse
  PROVE  ItemInv'
<1> USE DEF ItemInv, MouseStep
<1>1. CASE MoveScrollbar
  BY <1>1 DEF MoveScrollbar
<1>2. CASE EnterItem
  BY <1>2 DEF EnterItem
<1>3. CASE SelectItem \/ Deselect \/ LeaveByMouse \/ TurnWheel \/ IgnoreAction
  BY <1>3 DEF SelectItem, Deselect, LeaveByMouse, TurnWheel, IgnoreAction
<1> QED
  BY <1>1, <1>2, <1>3 DEF Mouse

LEMMA KeyItem ==
  ASSUME ItemInv, Key
  PROVE  ItemInv'
<1>1. CASE SpuriousKey
  BY <1>1 DEF SpuriousKey, ItemInv, input
<1>2. CASE \E next \in {"top", "closed", "dialogKey"} : KeyStep(next)
  BY <1>2 DEF KeyStep, ItemInv
<1> QED
  BY <1>1, <1>2 DEF Key, NoKey, KeyMove, KeyLeave, KeyEject, KeyOther, KeyEnterOrSpace,
                    KeyShortcut, RoundEnds

LEMMA UserItem ==
  ASSUME ItemInv, User
  PROVE  ItemInv'
<1> USE DEF ItemInv
<1>1. CASE ClickEntry
  <2>1. PICK e \in Entry, at \in {AtClick, AtDoubleClick, AtRightClick} : MouseEvent(at[KindOf(e)], e)
    BY <1>1 DEF ClickEntry
  <2> QED
    BY <2>1 DEF MouseEvent
<1>2. CASE ClickElsewhere \/ ClickScrollbarBackground \/ Drag
  BY <1>2 DEF ClickElsewhere, ClickScrollbarBackground, Drag, MouseEvent
<1>3. CASE KeyEvent \/ Grab \/ DialogRound
  BY <1>3 DEF KeyEvent, Grab, DialogRound, InDialog, input
<1>4. CASE DialogEnter \/ DialogEscape
  BY <1>4 DEF DialogEnter, DialogEscape, DialogReturns, InDialog, input
<1> QED
  BY <1>1, <1>2, <1>3, <1>4 DEF User

LEMMA NextItem == ItemInv /\ [MenuNext]_menuVars => ItemInv'
<1>1. ASSUME UNCHANGED menuVars PROVE ItemInv' = ItemInv
  BY <1>1 DEF menuVars, ItemInv, input
<1> QED
  BY <1>1, LoopItem, MouseItem, KeyItem, UserItem DEF MenuNext, Loop

-------------------------------------------------------------------------------
(* A menu screen scrolls as MenuScroll says *)

LEMMA LoopScrolls ==
  ASSUME PaintScreen \/ CheckEvent \/ NoInput \/ OpenMenu \/ OnSimpleFileSystem
  PROVE  [ScrollNext]_scroll
<1>1. CASE PaintScreen
  BY <1>1 DEF PaintScreen, ScrollNext
<1>2. CASE CheckEvent
  <2>1. AskPaint(TRUE, scroll.last) => ScrollNext
    BY Zenon DEF ScrollNext
  <2> QED
    BY <1>2, <2>1 DEF CheckEvent
<1>3. CASE NoInput \/ OnSimpleFileSystem
  BY <1>3 DEF NoInput, OnSimpleFileSystem
<1>4. CASE OpenMenu
  BY <1>4 DEF OpenMenu, ScrollNext, Open, Opened
<1> QED
  BY <1>1, <1>2, <1>3, <1>4

LEMMA AnyMove == ASSUME NEW m \in Movement, Move(m) PROVE ScrollNext
BY DEF ScrollNext

LEMMA MouseScrolls ==
  ASSUME ItemInv, Mouse
  PROVE  [ScrollNext]_scroll
<1>1. CASE SelectItem \/ EnterItem
  <2>1. pc = "mouse" /\ mItemID \in 0 .. scroll.maxIndex
    BY <1>1 DEF SelectItem, EnterItem, MouseStep, ItemInv
  <2>2. Select(mItemID, TRUE) \/ Select(mItemID, FALSE)
    BY <1>1 DEF SelectItem, EnterItem
  <2>3. TRUE \in BOOLEAN /\ FALSE \in BOOLEAN
    OBVIOUS
  <2> QED
    BY <2>1, <2>2, <2>3, Zenon DEF ScrollNext
<1>2. CASE Deselect
  <2>1. AskPaint(TRUE, scroll.cur)
    BY <1>2 DEF Deselect, DeselectKeeps
  <2> QED
    BY <2>1, Zenon DEF ScrollNext
<1>3. CASE TurnWheel
  BY <1>3, AnyMove DEF TurnWheel, Movement
<1>4. CASE MoveScrollbar
  <2>1. AskPaint(FALSE, scroll.cur) => ScrollNext
    BY Zenon DEF ScrollNext
  <2>2. Move("SCROLL_DOWN") \/ Move("SCROLL_UP") => ScrollNext
    BY AnyMove DEF Movement
  <2> QED
    BY <1>4, <2>1, <2>2 DEF MoveScrollbar
<1>5. CASE LeaveByMouse \/ IgnoreAction
  BY <1>5 DEF LeaveByMouse, IgnoreAction
<1> QED
  BY <1>1, <1>2, <1>3, <1>4, <1>5 DEF Mouse

LEMMA KeyScrolls ==
  ASSUME Key
  PROVE  [ScrollNext]_scroll
<1>1. CASE KeyMove
  BY <1>1, AnyMove DEF KeyMove, Movement
<1>2. CASE KeyEject
  <2>1. AskPaint(TRUE, scroll.last)
    BY <1>2 DEF KeyEject
  <2> QED
    BY <2>1, Zenon DEF ScrollNext
<1>3. CASE KeyShortcut
  BY <1>3 DEF KeyShortcut, ScrollNext
<1>4. CASE UNCHANGED scroll
  BY <1>4
<1> QED
  BY <1>1, <1>2, <1>3, <1>4 DEF Key, SpuriousKey, NoKey, KeyLeave, KeyOther, KeyEnterOrSpace,
                                KeepsWindow

LEMMA UserScrolls ==
  ASSUME User
  PROVE  [ScrollNext]_scroll
<1>1. CASE DialogEnter \/ DialogEscape
  <2>1. PICK p \in BOOLEAN : AskPaint(p, scroll.last)
    <3>1. AskPaint(KindOf(scroll.cur) = "switch", scroll.last)
      BY <1>1 DEF DialogEnter, DialogEscape, DialogReturns
    <3>2. (KindOf(scroll.cur) = "switch") \in BOOLEAN
      OBVIOUS
    <3> QED
      BY <3>1, <3>2, Zenon
  <2> QED
    BY <2>1, Zenon DEF ScrollNext
<1>2. CASE KeyEvent \/ Grab \/ DialogRound
  BY <1>2 DEF KeyEvent, Grab, DialogRound
<1>3. CASE ClickEntry \/ ClickElsewhere \/ ClickScrollbarBackground \/ Drag
  BY <1>3 DEF ClickEntry, ClickElsewhere, ClickScrollbarBackground, Drag, MouseEvent
<1> QED
  BY <1>1, <1>2, <1>3 DEF User

LEMMA NextScrolls == ItemInv /\ [MenuNext]_menuVars => [ScrollNext]_scroll
<1>1. UNCHANGED menuVars => UNCHANGED scroll
  BY DEF menuVars
<1> QED
  BY <1>1, LoopScrolls, MouseScrolls, KeyScrolls, UserScrolls DEF MenuNext, Loop

\* RunGenericMenu uses the scrolling state only as MenuScroll allows: whatever
\* mouse, keys, timer and events do, it opens, moves, selects and paints, and a
\* click selects an entry of the menu.  What is proved of ScrollSpec holds of the
\* screen at work.
THEOREM MenuScrolls == MenuSpec => ScrollSpec
<1>1. MenuInit => ScrollInit
  BY DEF MenuInit
<1> QED
  BY <1>1, InitItem, NextItem, NextScrolls, PTL DEF MenuSpec, ScrollSpec
-------------------------------------------------------------------------------
(* The timeout *)

\* The members of SCROLL_STATE.
Members == {"cur", "last", "maxIndex", "maxScroll", "maxVisible", "maxFirst", "first",
            "lastVisible", "paintAll", "paintSelection"}

LEMMA MovedMembers ==
  ASSUME NEW s, DOMAIN s = Members, NEW m \in Movement
  PROVE  DOMAIN Moved(s, m) = Members
<1> USE DEF Moved, MovedTo
<1>1. CASE m \in {"LINE_UP", "LINE_DOWN"}
  BY <1>1 DEF LineUp, LineDown
<1>2. CASE m \in {"SCROLL_DOWN", "SCROLL_UP"}
  BY <1>2 DEF ScrollDown, ScrollUp
<1>3. CASE m \in {"PAGE_UP", "PAGE_DOWN"}
  BY <1>3 DEF PageUp, PageDown
<1>4. CASE m \in {"FIRST", "LAST"}
  BY <1>4 DEF First, Last
<1>5. CASE m = "NONE"
  BY <1>5 DEF Follow
<1> QED
  BY <1>1, <1>2, <1>3, <1>4, <1>5 DEF Movement

LEMMA UpdateMembers ==
  ASSUME NEW s, DOMAIN s = Members, NEW m \in Movement
  PROVE  DOMAIN UpdateScroll(s, m) = Members
<1>1. PICK t : t = [s EXCEPT !.last = s.cur]
  OBVIOUS
<1>2. DOMAIN t = Members
  BY <1>1
<1>3. DOMAIN Moved(t, m) = Members
  BY <1>2, MovedMembers
<1> QED
  BY <1>1, <1>3 DEF UpdateScroll

\* A menu opens on its default entry, if that is one of its entries.
LEMMA OpenedOnDefault ==
  ASSUME NEW s, NEW d, OpenedAt(s, d)
  PROVE  DOMAIN s = Members /\ (d \in 0 .. s.maxIndex => s.cur = d)
<1>1. PICK r \in Rows, space \in VisibleSpaces :
        s = WithDefault(InitScroll(r[1], r[2], space, 0), d)
  BY DEF OpenedAt
<1>2. PICK i : i = InitScroll(r[1], r[2], space, 0)
  OBVIOUS
<1>3. DOMAIN i = Members
  BY <1>2 DEF InitScroll, Members
<1>4. i.maxIndex \in Int
  BY <1>2, RowsAssumption DEF InitScroll
<1>5. CASE 0 <= d /\ d <= i.maxIndex
  <2>1. PICK t : t = [i EXCEPT !.cur = d]
    OBVIOUS
  <2>2. DOMAIN t = Members /\ t.cur = d
    BY <1>3, <2>1 DEF Members
  <2>3. s = UpdateScroll(t, "NONE")
    BY <1>1, <1>2, <1>5, <2>1 DEF WithDefault
  <2>4. PICK u : u = [t EXCEPT !.last = t.cur]
    OBVIOUS
  <2>5. DOMAIN u = Members /\ u.cur = d
    BY <2>2, <2>4 DEF Members
  <2>6. Moved(u, "NONE") = Follow(u)
    BY DEF Moved
  <2>7. DOMAIN Follow(u) = Members /\ Follow(u).cur = d
    BY <2>5 DEF Follow, MovedTo, Members
  <2>8. s.cur = d
    BY <2>3, <2>4, <2>6, <2>7 DEF UpdateScroll, Members
  <2>9. DOMAIN s = Members
    BY <2>2, <2>3, UpdateMembers DEF Movement
  <2> QED
    BY <2>8, <2>9
<1>6. CASE ~ (0 <= d /\ d <= i.maxIndex)
  <2>1. s = i
    BY <1>1, <1>2, <1>6 DEF WithDefault
  <2> QED
    BY <1>3, <1>4, <1>6, <2>1
<1> QED
  BY <1>5, <1>6

LEMMA NextMembers == DOMAIN scroll = Members /\ [ScrollNext]_scroll => DOMAIN scroll' = Members
<1> SUFFICES ASSUME DOMAIN scroll = Members, [ScrollNext]_scroll PROVE DOMAIN scroll' = Members
  OBVIOUS
<1>1. CASE Open
  BY <1>1, OpenedOnDefault DEF Open, Opened
<1>2. CASE \E m \in Movement : Move(m)
  BY <1>2, UpdateMembers DEF Move
<1>3. CASE \E i \in 0 .. scroll.maxIndex, paint \in BOOLEAN : Select(i, paint)
  BY <1>3 DEF Select
<1>4. CASE Paint
  BY <1>4 DEF Paint, Painted
<1>5. CASE \E i \in 0 .. scroll.maxIndex : Jump(i)
  BY <1>5 DEF Jump
<1>6. CASE \E paint \in BOOLEAN, last \in {scroll.last, scroll.cur} : AskPaint(paint, last)
  BY <1>6 DEF AskPaint
<1> QED
  BY <1>1, <1>2, <1>3, <1>4, <1>5, <1>6 DEF ScrollNext

OnDefault == default \in Entry => scroll.cur = default

TimeoutInv ==
  /\ DOMAIN scroll = Members
  /\ haveTimeout /\ (pc \in {"top", "event", "wait"} \/ (pc = "key" /\ mAction = "None"))
       => ~ touched /\ OnDefault
  /\ menuExit = "TIMEOUT" => pc = "closed" /\ ~ touched /\ OnDefault
  /\ pc = "dialogKey" => ~ haveTimeout

LEMMA InitTimeout == MenuInit => TimeoutInv
<1>1. MenuInit => DOMAIN scroll = Members
  BY OpenedOnDefault DEF MenuInit, ScrollInit, Opened
<1> QED
  BY <1>1 DEF MenuInit, TimeoutInv

\* The parts of TimeoutInv but the first, which the scrolling steps keep.
LEMMA LoopTimeout ==
  ASSUME ItemInv, TimeoutInv, DOMAIN scroll' = Members,
         PaintScreen \/ CheckEvent \/ NoInput \/ OpenMenu \/ OnSimpleFileSystem
  PROVE  TimeoutInv'
<1> USE DEF TimeoutInv, OnDefault, timer, input, history
<1>1. CASE PaintScreen
  <2>1. scroll'.cur = scroll.cur /\ scroll'.maxIndex = scroll.maxIndex
    BY <1>1 DEF PaintScreen, Paint, Painted, Members
  <2> QED
    BY <1>1, <2>1 DEF PaintScreen
<1>2. CASE CheckEvent
  BY <1>2 DEF CheckEvent
<1>3. CASE NoInput
  BY <1>3 DEF NoInput
<1>4. CASE OpenMenu
  <2>1. PICK d \in Defaults : OpenedAt(scroll', d) /\ default' = d
    BY <1>4 DEF OpenMenu
  <2>2. OnDefault'
    BY <2>1, OpenedOnDefault
  <2> QED
    BY <1>4, <2>2 DEF OpenMenu
<1>5. CASE OnSimpleFileSystem
  BY <1>5 DEF OnSimpleFileSystem
<1> QED
  BY <1>1, <1>2, <1>3, <1>4, <1>5

LEMMA MouseTimeout ==
  ASSUME ItemInv, TimeoutInv, DOMAIN scroll' = Members, Mouse
  PROVE  TimeoutInv'
<1>1. pc = "mouse" /\ mAction # "None" /\ mAction' = mAction
  BY DEF ItemInv, Mouse, SelectItem, EnterItem, Deselect, LeaveByMouse, TurnWheel,
         MoveScrollbar, IgnoreAction, MouseStep
<1>2. pc' \in {"mouse", "key", "dialogMouse"} /\ menuExit' # "TIMEOUT"
  BY <1>1 DEF TimeoutInv, Mouse, SelectItem, EnterItem, Deselect, LeaveByMouse, TurnWheel,
         MoveScrollbar, IgnoreAction, MouseStep
<1> QED
  BY <1>1, <1>2 DEF TimeoutInv

LEMMA KeyTimeout ==
  ASSUME ItemInv, TimeoutInv, DOMAIN scroll' = Members, Key
  PROVE  TimeoutInv'
<1>1. CASE SpuriousKey
  BY <1>1 DEF SpuriousKey, TimeoutInv, OnDefault, timer, history
<1>2. CASE Key /\ ~ SpuriousKey
  <2>1. pc = "key" /\ ~ haveTimeout'
    BY <1>2 DEF Key, NoKey, KeyMove, KeyLeave, KeyEject, KeyOther, KeyEnterOrSpace,
                KeyShortcut, RoundEnds, KeyStep, CancelledTimeout
  <2>2. menuExit' # "TIMEOUT"
    BY <1>2, <2>1
    DEF TimeoutInv, Key, NoKey, KeyMove, KeyLeave, KeyEject, KeyOther, KeyEnterOrSpace,
        KeyShortcut, RoundEnds
  <2> QED
    BY <2>1, <2>2 DEF TimeoutInv
<1> QED
  BY <1>1, <1>2

LEMMA UserTimeout ==
  ASSUME ItemInv, TimeoutInv, DOMAIN scroll' = Members, User
  PROVE  TimeoutInv'
<1> USE DEF TimeoutInv, OnDefault, timer, history
<1>1. CASE ClickEntry \/ ClickElsewhere \/ ClickScrollbarBackground \/ Drag
  BY <1>1 DEF ClickEntry, ClickElsewhere, ClickScrollbarBackground, Drag, MouseEvent
<1>2. CASE KeyEvent \/ Grab
  BY <1>2 DEF KeyEvent, Grab, ItemInv, input
<1>3. CASE DialogRound
  BY <1>3 DEF DialogRound, InDialog
<1>4. CASE DialogEnter \/ DialogEscape
  BY <1>4 DEF DialogEnter, DialogEscape, DialogReturns, InDialog, ItemInv, input
<1> QED
  BY <1>1, <1>2, <1>3, <1>4 DEF User

LEMMA NextTimeout == ItemInv /\ TimeoutInv /\ [MenuNext]_menuVars => TimeoutInv'
<1> SUFFICES ASSUME ItemInv, TimeoutInv, [MenuNext]_menuVars PROVE TimeoutInv'
  OBVIOUS
<1>1. DOMAIN scroll' = Members
  BY NextScrolls, NextMembers DEF TimeoutInv
<1>2. CASE UNCHANGED menuVars
  BY <1>2 DEF menuVars, TimeoutInv, OnDefault, timer, input, history
<1> QED
  BY <1>1, <1>2, LoopTimeout, MouseTimeout, KeyTimeout, UserTimeout DEF MenuNext, Loop

\* In menus of every shape, with whatever clicks, keys, key events without a key
\* and file system events between: a menu that RunGenericMenu leaves with
\* MENU_EXIT_TIMEOUT was not touched and hands its default entry to its caller.
THEOREM TimeoutIsUntouched == MenuSpec => []TimeoutBootsDefault
<1>1. TimeoutInv => TimeoutBootsDefault
  BY DEF TimeoutInv, TimeoutBootsDefault, OnDefault
<1> QED
  BY <1>1, InitItem, NextItem, InitTimeout, NextTimeout, PTL DEF MenuSpec
-------------------------------------------------------------------------------
(* Movements, as the screen sees them *)

\* UpdateScroll remembers the selection, keeps the rows, and asks for what has
\* to be painted; the wheel and PAGE_DOWN leave the selection alone unless all is
\* repainted.
LEMMA UpdatePaints ==
  ASSUME NEW s, Shape(s), NEW m \in Movement, NEW v, v = UpdateScroll(s, m)
  PROVE  /\ v.last = s.cur /\ v.maxScroll = s.maxScroll /\ v.maxIndex = s.maxIndex
         /\ s.paintAll => v.paintAll
         /\ v.paintAll \/ (v.first = s.first /\ v.lastVisible = s.lastVisible)
         /\ v.paintAll \/ v.cur = s.cur \/ v.paintSelection
         /\ v.paintSelection => s.paintSelection \/ (~ v.paintAll /\ v.cur # s.cur)
         /\ m \in {"SCROLL_UP", "SCROLL_DOWN", "PAGE_DOWN"} => v.paintAll \/ v.cur = s.cur
<1> DEFINE t == [s EXCEPT !.last = s.cur]
           u == Moved(t, m)
<1>1. /\ t \in ScrollState /\ Shape(t) /\ t.last = s.cur /\ t.cur = s.cur /\ t.first = s.first
      /\ t.maxScroll = s.maxScroll /\ t.maxIndex = s.maxIndex
      /\ t.paintSelection = s.paintSelection
  BY DEF Shape, ScrollState
<1>2. u = t \/ Result(t, u)
  BY <1>1, MovedResult
<1>3. /\ u \in ScrollState /\ u.last = t.last /\ u.maxScroll = t.maxScroll
      /\ u.maxIndex = t.maxIndex /\ u.paintSelection = t.paintSelection
  <2>1. CASE u = t
    BY <1>1, <2>1
  <2>2. CASE Result(t, u)
    <3>1. PICK cur \in Int, first \in Nat, paint \in BOOLEAN : u = MovedTo(t, cur, first, paint)
      BY <2>2 DEF Result
    <3> HIDE DEF t, u
    <3> QED
      BY <1>1, <3>1 DEF MovedTo, ScrollState
  <2> QED
    BY <1>2, <2>1, <2>2
<1>4. m \in {"SCROLL_UP", "SCROLL_DOWN", "PAGE_DOWN"} => u.paintAll \/ u.cur = t.cur
  <2>1. CASE m = "SCROLL_DOWN"
    <3>1. u = ScrollDown(t)
      BY <2>1 DEF Moved
    <3> HIDE DEF t, u
    <3> QED
      BY <1>1, <3>1 DEF ScrollDown, MovedTo, ScrollState
  <2>2. CASE m = "SCROLL_UP"
    <3>1. u = ScrollUp(t)
      BY <2>2 DEF Moved
    <3> HIDE DEF t, u
    <3> QED
      BY <1>1, <3>1 DEF ScrollUp, MovedTo, ScrollState
  <2>3. CASE m = "PAGE_DOWN"
    <3>1. u = PageDown(t)
      BY <2>3 DEF Moved
    <3> HIDE DEF t, u
    <3> QED
      BY <1>1, <3>1 DEF PageDown, MovedTo, ScrollState
  <2> QED
    BY <2>1, <2>2, <2>3
<1>5. v = [u EXCEPT !.paintSelection = u.paintSelection \/ (~ u.paintAll /\ u.cur # s.cur),
                    !.lastVisible = u.first + u.maxVisible]
  BY DEF UpdateScroll
<1>6. /\ Shape(v) /\ (v.first # s.first => v.paintAll) /\ (s.paintAll => v.paintAll)
  BY UpdateKeepsShape
<1> HIDE DEF t, u
<1>7. /\ v.last = u.last /\ v.maxScroll = u.maxScroll /\ v.maxIndex = u.maxIndex
      /\ v.cur = u.cur /\ v.paintAll = u.paintAll
      /\ v.paintSelection = (u.paintSelection \/ (~ u.paintAll /\ u.cur # s.cur))
      /\ v.maxVisible = u.maxVisible
  BY <1>3, <1>5 DEF ScrollState
<1>8. v.paintAll \/ v.cur = s.cur \/ v.paintSelection
  BY <1>3, <1>7 DEF ScrollState
<1>9. v.maxVisible = s.maxVisible
  <2>1. u.maxVisible = t.maxVisible
    <3>1. CASE u = t
      BY <3>1
    <3>2. CASE Result(t, u)
      <4>1. PICK cur \in Int, first \in Nat, paint \in BOOLEAN : u = MovedTo(t, cur, first, paint)
        BY <3>2 DEF Result
      <4> QED
        BY <1>1, <4>1 DEF MovedTo, ScrollState
    <3> QED
      BY <1>2, <3>1, <3>2
  <2>2. t.maxVisible = s.maxVisible
    BY DEF t, Shape, ScrollState
  <2> QED
    BY <1>7, <2>1, <2>2
<1>10. v.first = s.first => v.lastVisible = s.lastVisible
  BY <1>6, <1>9 DEF Shape
<1>11. v.paintSelection => s.paintSelection \/ (~ v.paintAll /\ v.cur # s.cur)
  BY <1>1, <1>3, <1>7 DEF ScrollState
<1> QED
  BY <1>1, <1>3, <1>4, <1>6, <1>7, <1>8, <1>10, <1>11

-------------------------------------------------------------------------------
(* Types *)

SizeOfMenu(s) == << s.maxScroll + 1, s.maxIndex + 1 >>

LEMMA OpenedSize ==
  ASSUME NEW s, Opened(s), NonEmptyRows
  PROVE  SizeOfMenu(s) \in Rows
<1>1. PICK d \in Defaults, r \in Rows, space \in VisibleSpaces :
        s = WithDefault(InitScroll(r[1], r[2], space, 0), d)
  BY DEF Opened, OpenedAt
<1>2. /\ r[1] \in Nat /\ r[2] \in Nat /\ space \in Nat /\ 1 <= r[1] /\ r[1] <= r[2]
      /\ r = << r[1], r[2] >> /\ d \in Int
  BY RowsAssumption, VisibleSpacesAssumption, DefaultsAssumption DEF NonEmptyRows
<1>3. PICK i : i = InitScroll(r[1], r[2], space, 0)
  OBVIOUS
<1>4. Shape(i) /\ Selects(i)
  BY <1>2, <1>3, InitShape
<1>5. i.maxScroll = r[1] - 1 /\ i.maxIndex = r[2] - 1
  BY <1>3 DEF InitScroll
<1>6. s.maxScroll = i.maxScroll /\ s.maxIndex = i.maxIndex
  <2>1. CASE 0 <= d /\ d <= i.maxIndex
    <3>1. PICK t : t = [i EXCEPT !.cur = d]
      OBVIOUS
    <3>2. Shape(t) /\ t.maxScroll = i.maxScroll /\ t.maxIndex = i.maxIndex
      BY <1>2, <1>4, <3>1 DEF Shape, ScrollState
    <3>3. s = UpdateScroll(t, "NONE")
      BY <1>1, <1>3, <2>1, <3>1 DEF WithDefault
    <3> QED
      BY <3>2, <3>3, UpdatePaints DEF Movement
  <2>2. CASE ~ (0 <= d /\ d <= i.maxIndex)
    BY <1>1, <1>3, <2>2 DEF WithDefault
  <2> QED
    BY <2>1, <2>2
<1>7. << s.maxScroll + 1, s.maxIndex + 1 >> = << r[1], r[2] >>
  BY <1>2, <1>5, <1>6
<1> QED
  BY <1>2, <1>7 DEF SizeOfMenu

LEMMA NextSize ==
  ASSUME NonEmptyRows, Shape(scroll), [ScrollNext]_scroll, ~ Open
  PROVE  scroll'.maxScroll = scroll.maxScroll /\ scroll'.maxIndex = scroll.maxIndex
<1> USE DEF Shape, ScrollState
<1>1. ASSUME NEW m \in Movement, Move(m)
      PROVE  scroll'.maxScroll = scroll.maxScroll /\ scroll'.maxIndex = scroll.maxIndex
  BY <1>1, UpdatePaints DEF Move
<1>2. CASE \E i \in 0 .. scroll.maxIndex, paint \in BOOLEAN : Select(i, paint)
  BY <1>2 DEF Select
<1>3. CASE Paint
  BY <1>3 DEF Paint, Painted
<1>4. CASE \E i \in 0 .. scroll.maxIndex : Jump(i)
  BY <1>4 DEF Jump
<1>5. CASE \E paint \in BOOLEAN, last \in {scroll.last, scroll.cur} : AskPaint(paint, last)
  BY <1>5 DEF AskPaint
<1> QED
  BY <1>1, <1>2, <1>3, <1>4, <1>5 DEF ScrollNext

TypeInv == Shape(scroll) /\ SizeOfMenu(scroll) \in Rows /\ MenuTypeOK

\* The scrolling part of a step.
LEMMA NextShape ==
  ASSUME NonEmptyRows, TypeInv, [ScrollNext]_scroll
  PROVE  Shape(scroll') /\ SizeOfMenu(scroll') \in Rows
<1>1. Shape(scroll')
  BY NextKeepsShape DEF TypeInv
<1>2. CASE Open
  BY <1>1, <1>2, OpenedSize DEF Open
<1>3. CASE ~ Open
  BY <1>1, <1>3, NextSize DEF TypeInv, SizeOfMenu
<1> QED
  BY <1>1, <1>2, <1>3

LEMMA KindTyped ==
  ASSUME TypeInv, NEW e \in Entry
  PROVE  KindOf(e) \in Kinds
<1>1. PICK r \in Rows : r = SizeOfMenu(scroll)
  BY DEF TypeInv
<1>2. e \in 0 .. r[2] - 1
  BY <1>1 DEF SizeOfMenu, TypeInv, Shape, ScrollState
<1> QED
  BY <1>1, <1>2, KindAssumption DEF KindOf, SizeOfMenu

\* What a click does to an entry.
LEMMA ClickActions ==
  ASSUME NEW k \in Kinds, NEW at \in {AtClick, AtDoubleClick, AtRightClick}
  PROVE  at[k] \in Actions /\ (k = "info" => at[k] \notin {"Enter", "Details"})
BY DEF Kinds, AtClick, AtDoubleClick, AtRightClick, Actions

LEMMA InitType == NonEmptyRows /\ MenuInit => TypeInv
<1> SUFFICES ASSUME NonEmptyRows, MenuInit PROVE TypeInv
  OBVIOUS
<1>1. Shape(scroll) /\ SizeOfMenu(scroll) \in Rows
  BY OpenedShape, OpenedSize DEF MenuInit, ScrollInit
<1>2. ScrollTypeOK
  BY <1>1 DEF Shape, ScrollTypeOK
<1> QED
  <2>1. pc \in MenuPC /\ menuExit \in Exits /\ mAction \in Actions
    BY DEF MenuInit, MenuPC, Exits, Actions
  <2>2. /\ haveTimeout \in BOOLEAN /\ isDragging \in BOOLEAN /\ gEvent \in BOOLEAN
        /\ touched \in BOOLEAN /\ strayed \in BOOLEAN /\ unpainted \in BOOLEAN /\ lit \subseteq Int
    BY DEF MenuInit
  <2>3. /\ countdown \in Nat /\ mItemID \in {NoItem} \cup Nat /\ lines \in Int
        /\ events \in Nat /\ spurious \in Nat /\ default \in Int
    BY DEF MenuInit
  <2> QED
    BY <1>1, <1>2, <2>1, <2>2, <2>3 DEF TypeInv, MenuTypeOK

\* Everything in MenuTypeOK but the scrolling state and what is shown.
LocalTypeOK ==
  /\ pc \in MenuPC
  /\ menuExit \in Exits
  /\ haveTimeout \in BOOLEAN /\ countdown \in Nat
  /\ mAction \in Actions /\ mItemID \in {NoItem} \cup Nat
  /\ lines \in Int /\ isDragging \in BOOLEAN
  /\ gEvent \in BOOLEAN /\ events \in Nat /\ spurious \in Nat
  /\ default \in Int /\ touched \in BOOLEAN /\ strayed \in BOOLEAN /\ unpainted \in BOOLEAN

LEMMA LoopType ==
  ASSUME LocalTypeOK, PaintScreen \/ CheckEvent \/ NoInput \/ OpenMenu \/ OnSimpleFileSystem
  PROVE  LocalTypeOK'
<1> USE DEF LocalTypeOK, timer, input, world, history
<1>1. CASE PaintScreen
  BY <1>1 DEF PaintScreen, MenuPC
<1>2. CASE CheckEvent
  BY <1>2 DEF CheckEvent, MenuPC, Exits
<1>3. CASE NoInput
  <2>1. pc' \in MenuPC /\ menuExit' \in Exits
    BY <1>3 DEF NoInput, MenuPC, Exits
  <2>2. countdown' \in Nat
    BY <1>3 DEF NoInput, Expired, CountedDown
  <2> QED
    BY <1>3, <2>1, <2>2 DEF NoInput
<1>4. CASE OpenMenu
  <2>1. PICK d \in Defaults, t \in Timeouts :
           /\ default' = d /\ haveTimeout' = (d # -1 /\ t > 0)
           /\ countdown' = IF d # -1 /\ t > 0 THEN t ELSE 0
    BY <1>4 DEF OpenMenu
  <2>2. default' \in Int /\ countdown' \in Nat
    BY <2>1, TimeoutsAssumption, DefaultsAssumption
  <2>3. haveTimeout' \in BOOLEAN /\ isDragging' \in BOOLEAN /\ touched' \in BOOLEAN
        /\ strayed' \in BOOLEAN /\ unpainted' \in BOOLEAN
    BY <1>4, <2>1, Zenon DEF OpenMenu
  <2>4. pc' \in MenuPC /\ menuExit' \in Exits
    BY <1>4 DEF OpenMenu, MenuPC, Exits
  <2> QED
    BY <1>4, <2>2, <2>3, <2>4 DEF OpenMenu
<1>5. CASE OnSimpleFileSystem
  BY <1>5 DEF OnSimpleFileSystem
<1> QED
  BY <1>1, <1>2, <1>3, <1>4, <1>5

LEMMA MouseType ==
  ASSUME LocalTypeOK, Mouse
  PROVE  LocalTypeOK'
<1>1. /\ UNCHANGED << timer, mAction, mItemID, isDragging, world, default, touched, unpainted >>
      /\ pc' \in MenuPC
  BY DEF Mouse, SelectItem, EnterItem, Deselect, LeaveByMouse, TurnWheel, MoveScrollbar,
         IgnoreAction, MouseStep, MenuPC
<1>2. menuExit' \in {menuExit, "ENTER", "DETAILS", "HELP", "ESCAPE"}
  BY DEF Mouse, SelectItem, EnterItem, Deselect, LeaveByMouse, TurnWheel, MoveScrollbar,
         IgnoreAction
<1>3. lines' \in {lines, lines - 1, lines + 1}
  BY DEF Mouse, SelectItem, EnterItem, Deselect, LeaveByMouse, TurnWheel, MoveScrollbar,
         IgnoreAction
<1>4. menuExit' \in Exits /\ lines' \in Int
  BY <1>2, <1>3 DEF LocalTypeOK, Exits
<1>5. strayed' \in BOOLEAN
  BY Zenon DEF Mouse, SelectItem, EnterItem, Deselect, LeaveByMouse, TurnWheel, MoveScrollbar,
               IgnoreAction, MouseStep
<1> QED
  BY <1>1, <1>4, <1>5 DEF LocalTypeOK, timer, world

LEMMA KeyType ==
  ASSUME LocalTypeOK, Key
  PROVE  LocalTypeOK'
<1>1. CASE SpuriousKey
  BY <1>1 DEF SpuriousKey, LocalTypeOK, timer, input, history, MenuPC
<1>2. ASSUME NEW next \in {"top", "closed", "dialogKey"}, KeyStep(next), menuExit' \in Exits,
             strayed' \in BOOLEAN
      PROVE  LocalTypeOK'
  BY <1>2 DEF KeyStep, LocalTypeOK, CancelledTimeout, world, MenuPC, Actions
<1>3. CASE NoKey \/ KeyMove \/ KeyLeave \/ KeyEject \/ KeyOther \/ KeyShortcut
  <2>1. PICK exit \in Exits : RoundEnds(exit)
    BY <1>3 DEF LocalTypeOK, NoKey, KeyMove, KeyLeave, KeyEject, KeyOther, KeyShortcut, Exits
  <2>2. strayed' \in BOOLEAN
    BY <1>3, Zenon DEF LocalTypeOK, NoKey, KeyMove, KeyLeave, KeyEject, KeyOther, KeyShortcut,
                       KeepsWindow
  <2> QED
    BY <1>2, <2>1, <2>2 DEF RoundEnds
<1>4. CASE KeyEnterOrSpace("ENTER") \/ KeyEnterOrSpace("DETAILS")
  <2>1. menuExit \in Exits /\ "ENTER" \in Exits /\ "DETAILS" \in Exits
    BY DEF LocalTypeOK, Exits
  <2> QED
    BY <1>2, <1>4, <2>1 DEF KeyEnterOrSpace, RoundEnds, KeepsWindow, LocalTypeOK
<1> QED
  BY <1>1, <1>3, <1>4 DEF Key

LEMMA UserType ==
  ASSUME TypeInv, LocalTypeOK, User
  PROVE  LocalTypeOK'
<1> USE DEF LocalTypeOK, timer, world, history
<1>1. CASE ClickEntry
  <2>1. PICK e \in Entry, at \in {AtClick, AtDoubleClick, AtRightClick} : MouseEvent(at[KindOf(e)], e)
    BY <1>1 DEF ClickEntry
  <2>2. at[KindOf(e)] \in Actions /\ e \in Nat
    BY KindTyped, ClickActions
  <2> QED
    BY <1>1, <2>1, <2>2 DEF ClickEntry, MouseEvent, MenuPC
<1>2. CASE ClickElsewhere \/ ClickScrollbarBackground
  BY <1>2 DEF ClickElsewhere, ClickScrollbarBackground, MouseEvent, MenuPC, Actions
<1>3. CASE Drag
  BY <1>3, MaxLinesAssumption DEF Drag, MouseEvent, MenuPC, Actions
<1>4. CASE KeyEvent \/ Grab \/ DialogRound
  BY <1>4 DEF KeyEvent, Grab, DialogRound, input, MenuPC
<1>5. CASE DialogEnter \/ DialogEscape
  BY <1>5 DEF DialogEnter, DialogEscape, DialogReturns, input, MenuPC, Exits
<1> QED
  BY <1>1, <1>2, <1>3, <1>4, <1>5 DEF User

\* Only the paintings change what is lit.
LEMMA NextLit ==
  ASSUME ItemInv, TypeInv, MenuNext
  PROVE  lit' \in {lit, {}, LitByPaintAll(scroll), LitByPaintSelection(scroll)}
BY DEF MenuNext, Loop, OpenMenu, PaintScreen, CheckEvent, NoInput, OnSimpleFileSystem,
       Mouse, SelectItem, EnterItem, Deselect, LeaveByMouse, TurnWheel, MoveScrollbar,
       IgnoreAction, MouseStep, Key, SpuriousKey, NoKey, KeyMove, KeyLeave, KeyEject,
       KeyOther, KeyEnterOrSpace, KeyShortcut, RoundEnds, KeyStep, User, KeyEvent,
       ClickEntry, ClickElsewhere, ClickScrollbarBackground, MouseEvent, Grab, Drag,
       DialogRound, DialogEnter, DialogEscape

LEMMA NextType ==
  NonEmptyRows /\ ItemInv /\ TypeInv /\ [MenuNext]_menuVars => TypeInv'
<1> SUFFICES ASSUME NonEmptyRows, ItemInv, TypeInv, [MenuNext]_menuVars PROVE TypeInv'
  OBVIOUS
<1>1. Shape(scroll') /\ SizeOfMenu(scroll') \in Rows
  BY NextScrolls, NextShape
<1>2. LocalTypeOK /\ lit \subseteq Int /\ scroll.cur \in Int
  BY DEF TypeInv, MenuTypeOK, LocalTypeOK, Shape, ScrollState
<1>3. LocalTypeOK' /\ lit' \subseteq Int
  <2>1. CASE UNCHANGED menuVars
    BY <1>2, <2>1 DEF menuVars, LocalTypeOK, timer, input, world, history
  <2>2. CASE MenuNext
    <3>1. LocalTypeOK'
      BY <1>2, <2>2, LoopType, MouseType, KeyType, UserType DEF MenuNext, Loop
    <3>2. lit' \subseteq Int
      BY <1>2, <2>2, NextLit DEF LitByPaintAll, LitByPaintSelection
    <3> QED
      BY <3>1, <3>2
  <2> QED
    BY <2>1, <2>2
<1>4. ScrollTypeOK'
  BY <1>1 DEF Shape, ScrollTypeOK
<1> QED
  BY <1>1, <1>3, <1>4 DEF TypeInv, MenuTypeOK, LocalTypeOK, Shape, SizeOfMenu

\* The locals of RunGenericMenu and the members it uses keep their types, in
\* menus with an entry to scroll: the countdown is never negative, the action of
\* the mouse is one its switch knows of, and a click is on an entry.
THEOREM MenuTypeCorrect ==
  ASSUME NonEmptyRows
  PROVE  MenuSpec => []MenuTypeOK
<1>1. TypeInv => MenuTypeOK
  BY DEF TypeInv
<1>2. MenuInit => ItemInv /\ TypeInv
  BY InitItem, InitType
<1>3. ItemInv /\ TypeInv /\ [MenuNext]_menuVars => (ItemInv /\ TypeInv)'
  BY NextItem, NextType
<1> QED
  BY <1>1, <1>2, <1>3, PTL DEF MenuSpec
-------------------------------------------------------------------------------
(* The screen *)

\* No action of the mouse enters a line of information.
InfoInv == pc = "mouse" /\ mAction \in {"Enter", "Details"} => KindOf(mItemID) # "info"

LEMMA NextInfo == TypeInv /\ InfoInv /\ [MenuNext]_menuVars => InfoInv'
<1> SUFFICES ASSUME TypeInv, InfoInv, [MenuNext]_menuVars, pc' = "mouse",
                    mAction' \in {"Enter", "Details"}
             PROVE  KindOf(mItemID)' # "info"
  BY DEF InfoInv
<1>1. CASE ClickEntry
  <2>1. PICK e \in Entry, at \in {AtClick, AtDoubleClick, AtRightClick} : MouseEvent(at[KindOf(e)], e)
    BY <1>1 DEF ClickEntry
  <2>2. KindOf(e) # "info"
    BY <2>1, KindTyped, ClickActions DEF MouseEvent
  <2> QED
    BY <2>1, <2>2 DEF MouseEvent, KindOf
<1>2. CASE UNCHANGED << scroll, pc, mAction, mItemID >>
  BY <1>2 DEF InfoInv, KindOf
<1>3. CASE MenuNext /\ ~ ClickEntry /\ ~ UNCHANGED << scroll, pc, mAction, mItemID >>
  BY <1>3
  DEF MenuNext, Loop, OpenMenu, PaintScreen, CheckEvent, NoInput, OnSimpleFileSystem,
      Mouse, SelectItem, EnterItem, Deselect, LeaveByMouse, TurnWheel, MoveScrollbar,
      IgnoreAction, MouseStep, Key, SpuriousKey, NoKey, KeyMove, KeyLeave, KeyEject,
      KeyOther, KeyEnterOrSpace, KeyShortcut, RoundEnds, KeyStep, User, KeyEvent,
      ClickElsewhere, ClickScrollbarBackground, MouseEvent, Grab, Drag, input,
      DialogRound, DialogEnter, DialogEscape, DialogReturns, InDialog
<1>4. CASE UNCHANGED menuVars
  BY <1>2, <1>4 DEF menuVars, input
<1> QED
  BY <1>1, <1>2, <1>3, <1>4

\* The screen shows the selection, and no other entry as selected.
Good == lit \cap Shown(scroll) = {scroll.cur} \cap Shown(scroll)
\* It shows at most the last selection beside it: PAINT_SELECTION puts that right.
Mendable == lit \cap Shown(scroll) \subseteq {scroll.last, scroll.cur}

ScreenInv ==
  \/ unpainted
  \/ pc = "closed"
  \/ pc \in {"event", "wait"} /\ Good
  \/ pc \in {"top", "mouse", "key", "dialogMouse", "dialogKey"} /\ (scroll.paintAll \/ Good)
  \/ pc = "top" /\ scroll.paintSelection /\ Mendable
  \/ pc = "dialogMouse" /\ Mendable
  \/ pc = "key" /\ menuExit # "none" /\ mAction # "None" /\ ~ HasDialog(scroll.cur)

\* PAINT_SELECTION mends the screen.
LEMMA PaintMends ==
  ASSUME Mendable
  PROVE  LitByPaintSelection(scroll) \cap Shown(scroll) = {scroll.cur} \cap Shown(scroll)
BY DEF Mendable, LitByPaintSelection

LEMMA GoodIsMendable == Good => Mendable
BY DEF Good, Mendable

\* Steps that leave the selection, the window and the rows alone.
SameView ==
  /\ scroll'.cur = scroll.cur /\ scroll'.first = scroll.first
  /\ scroll'.lastVisible = scroll.lastVisible
  /\ scroll'.maxScroll = scroll.maxScroll /\ scroll'.maxIndex = scroll.maxIndex

LEMMA SameShown == SameView => Shown(scroll') = Shown(scroll)
BY DEF SameView, Shown

LEMMA LoopScreen ==
  ASSUME NonEmptyRows, TypeInv, ScreenInv,
         PaintScreen \/ CheckEvent \/ NoInput \/ OpenMenu \/ OnSimpleFileSystem
  PROVE  ScreenInv'
<1>1. CASE PaintScreen
  <2>1. SameView
    BY <1>1 DEF PaintScreen, Paint, Painted, SameView, TypeInv, Shape, ScrollState
  <2>2. Shown(scroll') = Shown(scroll) /\ scroll'.cur = scroll.cur
    BY <2>1, SameShown DEF SameView
  <2>3. pc = "top" /\ pc' = "event"
    BY <1>1 DEF PaintScreen
  <2>4. CASE scroll.paintAll
    <3>1. lit' = LitByPaintAll(scroll)
      BY <1>1, <2>4 DEF PaintScreen
    <3>2. Good'
      BY <2>2, <3>1 DEF Good, LitByPaintAll
    <3> QED
      BY <2>3, <3>2 DEF ScreenInv
  <2>5. CASE ~ scroll.paintAll /\ unpainted
    BY <1>1, <2>5 DEF PaintScreen, ScreenInv
  <2>6. CASE ~ scroll.paintAll /\ ~ unpainted /\ scroll.paintSelection
    <3>1. lit' = LitByPaintSelection(scroll)
      BY <1>1, <2>6 DEF PaintScreen
    <3>2. Mendable
      BY <2>3, <2>6, GoodIsMendable DEF ScreenInv
    <3>3. Good'
      BY <2>2, <3>1, <3>2, PaintMends DEF Good
    <3> QED
      BY <2>3, <3>3 DEF ScreenInv
  <2>7. CASE ~ scroll.paintAll /\ ~ unpainted /\ ~ scroll.paintSelection
    <3>1. lit' = lit
      BY <1>1, <2>7 DEF PaintScreen
    <3>2. Good
      BY <2>3, <2>7 DEF ScreenInv
    <3>3. Good'
      BY <2>2, <3>1, <3>2 DEF Good
    <3> QED
      BY <2>3, <3>3 DEF ScreenInv
  <2> QED
    BY <2>4, <2>5, <2>6, <2>7
<1>2. CASE CheckEvent
  BY <1>2 DEF CheckEvent, ScreenInv, Good
<1>3. CASE NoInput
  BY <1>3 DEF NoInput, ScreenInv, Good
<1>4. CASE OpenMenu
  <2>1. Opened(scroll') /\ pc' = "top"
    BY <1>4 DEF OpenMenu, Opened
  <2>2. scroll'.paintAll
    BY <2>1, OpenedShape
  <2> QED
    BY <2>1, <2>2 DEF ScreenInv
<1>5. CASE OnSimpleFileSystem
  BY <1>5 DEF OnSimpleFileSystem, ScreenInv, Good, Mendable, HasDialog, KindOf, input
<1> QED
  BY <1>1, <1>2, <1>3, <1>4, <1>5

\* A movement of a screen that is good: it is good again, can be mended, or is
\* painted anew.
LEMMA MoveScreen ==
  ASSUME Shape(scroll), NEW m \in Movement, Move(m), lit' = lit, scroll.paintAll \/ Good
  PROVE  /\ scroll'.paintAll \/ Good' \/ (scroll'.paintSelection /\ Mendable')
         /\ m \in {"SCROLL_UP", "SCROLL_DOWN"} => scroll'.paintAll \/ Good'
<1>1. /\ scroll'.last = scroll.cur /\ scroll'.maxScroll = scroll.maxScroll
      /\ scroll'.maxIndex = scroll.maxIndex
      /\ scroll.paintAll => scroll'.paintAll
      /\ scroll'.paintAll \/ (scroll'.first = scroll.first /\ scroll'.lastVisible = scroll.lastVisible)
      /\ scroll'.paintAll \/ scroll'.cur = scroll.cur \/ scroll'.paintSelection
      /\ m \in {"SCROLL_UP", "SCROLL_DOWN"} => scroll'.paintAll \/ scroll'.cur = scroll.cur
  BY UpdatePaints DEF Move
<1>2. CASE scroll'.paintAll
  BY <1>2
<1>3. CASE ~ scroll'.paintAll
  <2>1. Good /\ Shown(scroll') = Shown(scroll)
    BY <1>1, <1>3 DEF Shown
  <2>2. scroll'.cur = scroll.cur => Good'
    BY <2>1 DEF Good
  <2>3. Mendable'
    BY <1>1, <2>1 DEF Good, Mendable
  <2> QED
    BY <1>1, <1>3, <2>2, <2>3
<1> QED
  BY <1>2, <1>3

LEMMA MouseScreen ==
  ASSUME TypeInv, InfoInv, ScreenInv, Mouse
  PROVE  ScreenInv'
<1>1. /\ pc = "mouse" /\ lit' = lit /\ unpainted' = unpainted /\ mAction' = mAction
  BY DEF Mouse, SelectItem, EnterItem, Deselect, LeaveByMouse, TurnWheel, MoveScrollbar,
         IgnoreAction, MouseStep
<1>2. CASE unpainted
  BY <1>1, <1>2 DEF ScreenInv
<1>3. CASE ~ unpainted
  <2>1. scroll.paintAll \/ Good
    BY <1>1, <1>3 DEF ScreenInv
  <2>2. scroll \in ScrollState /\ Shape(scroll)
    BY DEF TypeInv, Shape
  <2>3. CASE SelectItem \/ Deselect
    <3>1. scroll'.paintAll /\ pc' = "key"
      BY <2>2, <2>3 DEF SelectItem, Deselect, DeselectKeeps, Select, AskPaint, MouseStep, ScrollState
    <3> QED
      BY <3>1 DEF ScreenInv
  <2>4. CASE EnterItem
    <3>1. /\ scroll' = [scroll EXCEPT !.last = scroll.cur, !.cur = mItemID,
                                      !.paintAll = scroll.paintAll \/ FALSE]
      BY <2>4 DEF EnterItem, Select
    <3>2. /\ scroll'.cur = mItemID /\ scroll'.last = scroll.cur
          /\ scroll'.first = scroll.first /\ scroll'.lastVisible = scroll.lastVisible
          /\ scroll'.maxScroll = scroll.maxScroll /\ scroll'.maxIndex = scroll.maxIndex
          /\ scroll.paintAll => scroll'.paintAll
      BY <2>2, <3>1 DEF ScrollState
    <3>3. CASE HasDialog(mItemID)
      <4>1. pc' = "dialogMouse"
        BY <2>4, <3>3 DEF EnterItem, MouseStep
      <4>2. Good => Mendable'
        <5>1. Shown(scroll') = Shown(scroll)
          BY <3>2 DEF Shown
        <5> QED
          BY <1>1, <3>2, <5>1 DEF Good, Mendable
      <4> QED
        BY <2>1, <3>2, <4>1, <4>2 DEF ScreenInv
    <3>4. CASE ~ HasDialog(mItemID)
      <4>1. KindOf(mItemID) # "info"
        BY <1>1, <2>4 DEF InfoInv, EnterItem
      <4>2. pc' = "key" /\ menuExit' # "none" /\ mAction' # "None"
        BY <1>1, <2>4, <3>4, <4>1 DEF EnterItem, MouseStep
      <4>3. ~ HasDialog(scroll.cur)'
        BY <3>2, <3>4 DEF HasDialog, KindOf
      <4> QED
        BY <4>2, <4>3 DEF ScreenInv
    <3> QED
      BY <3>3, <3>4
  <2>5. CASE LeaveByMouse \/ IgnoreAction
    BY <1>1, <2>1, <2>5 DEF LeaveByMouse, IgnoreAction, MouseStep, ScreenInv, Good
  <2>6. ASSUME pc' \in {"mouse", "key"}, NEW m \in {"SCROLL_UP", "SCROLL_DOWN"}, Move(m)
        PROVE  ScreenInv'
    <3>1. scroll'.paintAll \/ Good'
      BY <1>1, <2>1, <2>2, <2>6, MoveScreen DEF Movement
    <3> QED
      BY <2>6, <3>1 DEF ScreenInv
  <2>7. CASE TurnWheel
    BY <2>6, <2>7 DEF TurnWheel, MouseStep
  <2>8. CASE MoveScrollbar /\ lines # 0
    BY <2>6, <2>8 DEF MoveScrollbar, MouseStep
  <2>9. CASE MoveScrollbar /\ lines = 0
    <3>1. pc' = "key" /\ AskPaint(FALSE, scroll.cur)
      BY <2>9 DEF MoveScrollbar, MouseStep
    <3>2. SameView /\ (scroll.paintAll => scroll'.paintAll)
      BY <2>2, <3>1 DEF AskPaint, SameView, ScrollState
    <3>3. Good => Good'
      BY <1>1, <3>2, SameShown DEF Good, SameView
    <3> QED
      BY <2>1, <3>1, <3>2, <3>3 DEF ScreenInv
  <2> QED
    BY <2>3, <2>4, <2>5, <2>7, <2>8, <2>9 DEF Mouse
<1> QED
  BY <1>2, <1>3

LEMMA KeyScreen ==
  ASSUME TypeInv, ScreenInv, Key
  PROVE  ScreenInv'
<1>1. pc = "key" /\ lit' = lit /\ unpainted' = unpainted
  BY DEF Key, SpuriousKey, NoKey, KeyMove, KeyLeave, KeyEject, KeyOther, KeyEnterOrSpace,
         KeyShortcut, RoundEnds, KeyStep
<1>2. CASE unpainted
  BY <1>1, <1>2 DEF ScreenInv
<1>3. CASE ~ unpainted
  <2>1. \/ scroll.paintAll \/ Good
        \/ menuExit # "none" /\ mAction # "None" /\ ~ HasDialog(scroll.cur)
    BY <1>1, <1>3 DEF ScreenInv
  <2>2. CASE pc' = "closed"
    BY <2>2 DEF ScreenInv
  <2>3. CASE pc' \in {"top", "dialogKey"} /\ (scroll.paintAll \/ Good) /\ UNCHANGED scroll
    BY <1>1, <2>3 DEF ScreenInv, Good
  <2>4. CASE SpuriousKey
    BY <2>1, <2>3, <2>4 DEF SpuriousKey
  <2>5. CASE NoKey \/ KeyOther
    BY <2>1, <2>2, <2>3, <2>5 DEF NoKey, KeyOther, RoundEnds, KeyStep, KeepsWindow
  <2>6. CASE KeyMove
    <3>1. CASE menuExit # "none"
      BY <2>2, <2>6, <3>1 DEF KeyMove, RoundEnds, KeyStep
    <3>2. CASE menuExit = "none"
      <4>1. PICK m \in Movement : Move(m)
        BY <2>6 DEF KeyMove, Movement
      <4>2. scroll'.paintAll \/ Good' \/ (scroll'.paintSelection /\ Mendable')
        BY <1>1, <2>1, <3>2, <4>1, MoveScreen DEF TypeInv
      <4>3. pc' = "top"
        BY <2>6, <3>2 DEF KeyMove, RoundEnds, KeyStep
      <4> QED
        BY <4>2, <4>3 DEF ScreenInv
    <3> QED
      BY <3>1, <3>2
  <2>7. CASE KeyLeave \/ KeyEject \/ KeyShortcut
    BY <2>2, <2>7 DEF KeyLeave, KeyEject, KeyShortcut, RoundEnds, KeyStep
  <2>8. CASE KeyEnterOrSpace("ENTER") \/ KeyEnterOrSpace("DETAILS")
    BY <2>1, <2>2, <2>3, <2>8 DEF KeyEnterOrSpace, RoundEnds, KeyStep, KeepsWindow
  <2> QED
    BY <2>4, <2>5, <2>6, <2>7, <2>8 DEF Key
<1> QED
  BY <1>2, <1>3

LEMMA UserScreen ==
  ASSUME TypeInv, ScreenInv, User
  PROVE  ScreenInv'
<1>1. CASE ClickEntry \/ ClickElsewhere \/ ClickScrollbarBackground \/ Drag
  BY <1>1 DEF ClickEntry, ClickElsewhere, ClickScrollbarBackground, Drag, MouseEvent,
              ScreenInv, Good
<1>2. CASE KeyEvent \/ Grab
  BY <1>2 DEF KeyEvent, Grab, ScreenInv, Good
<1>3. CASE DialogRound
  <2>1. /\ pc \in {"dialogMouse", "dialogKey"} /\ pc' = pc /\ scroll' = scroll
        /\ unpainted' = unpainted /\ lit' = LitByPaintSelection(scroll)
    BY <1>3 DEF DialogRound, InDialog
  <2>2. Mendable => Good'
    BY <2>1, PaintMends DEF Good
  <2> QED
    BY <2>1, <2>2, GoodIsMendable DEF ScreenInv
<1>4. CASE DialogEnter \/ DialogEscape
  <2>1. pc \in {"dialogMouse", "dialogKey"} /\ pc' \in {"key", "top"}
    BY <1>4 DEF DialogEnter, DialogEscape, DialogReturns, InDialog
  <2>2. SameView /\ (scroll.paintAll => scroll'.paintAll)
    BY <1>4 DEF DialogEnter, DialogEscape, DialogReturns, AskPaint, SameView, TypeInv, Shape,
                ScrollState
  <2>3. unpainted' \/ (~ unpainted /\ lit' = LitByPaintSelection(scroll))
    BY <1>4 DEF DialogEnter, DialogEscape
  <2>4. ~ unpainted' /\ Mendable => Good'
    BY <2>2, <2>3, PaintMends, SameShown DEF Good, SameView
  <2> QED
    BY <2>1, <2>2, <2>3, <2>4, GoodIsMendable DEF ScreenInv
<1> QED
  BY <1>1, <1>2, <1>3, <1>4 DEF User

LEMMA NextScreen ==
  ASSUME NonEmptyRows
  PROVE  TypeInv /\ InfoInv /\ ScreenInv /\ [MenuNext]_menuVars => ScreenInv'
<1>1. UNCHANGED menuVars /\ ScreenInv => ScreenInv'
  BY DEF menuVars, input, ScreenInv, Good, Mendable, HasDialog, KindOf
<1> QED
  BY <1>1, LoopScreen, MouseScreen, KeyScreen, UserScreen DEF MenuNext, Loop

\* In menus of every size with an entry to scroll: whatever mixture of
\* PAINT_ALL, PAINT_SELECTION, dialogs, movements and clicks led there, a menu
\* that waits for input shows its selection and no other entry as selected,
\* unless a dialog the mouse has opened was left before it painted its field.
THEOREM ScreenIsTrue ==
  ASSUME NonEmptyRows
  PROVE  MenuSpec => []ScreenShowsSelection
<1> DEFINE Inv == ItemInv /\ TypeInv /\ InfoInv /\ ScreenInv
<1>1. MenuInit => Inv
  <2>1. MenuInit => InfoInv /\ ScreenInv
    BY DEF MenuInit, InfoInv, ScreenInv
  <2> QED
    BY <2>1, InitItem, InitType
<1>2. Inv /\ [MenuNext]_menuVars => Inv'
  BY NextItem, NextType, NextInfo, NextScreen
<1>3. Inv => ScreenShowsSelection
  BY DEF ScreenInv, ScreenShowsSelection, Good
<1> QED
  BY <1>1, <1>2, <1>3, PTL DEF MenuSpec
-------------------------------------------------------------------------------
(* Partial repaints *)

\* A partial repaint is only ever asked for by a key, at the end of a round, and
\* never beside a full one; the selection is above the window only if strayed.
PaintInv ==
  /\ scroll.paintSelection /\ pc # "closed" => pc = "top" /\ ~ scroll.paintAll
  /\ pc # "closed" /\ ~ strayed => NotAbove(scroll, scroll.cur)
  /\ PaintsInArray

LEMMA OpenedPaint ==
  ASSUME NonEmptyRows, NEW s, Opened(s)
  PROVE  s.paintAll /\ ~ s.paintSelection /\ NotAbove(s, s.cur)
<1>1. PICK d \in Defaults, r \in Rows, space \in VisibleSpaces :
        s = WithDefault(InitScroll(r[1], r[2], space, 0), d)
  BY DEF Opened, OpenedAt
<1>2. /\ r[1] \in Nat /\ r[2] \in Nat /\ space \in Nat /\ 1 <= r[1] /\ r[1] <= r[2]
      /\ d \in Int
  BY RowsAssumption, VisibleSpacesAssumption, DefaultsAssumption DEF NonEmptyRows
<1>3. PICK i : i = InitScroll(r[1], r[2], space, 0)
  OBVIOUS
<1>4. Shape(i) /\ Selects(i) /\ i.paintAll
  BY <1>2, <1>3, InitShape
<1>5. ~ i.paintSelection /\ i.cur = 0 /\ i.first <= 0
  BY <1>3, <1>4 DEF InitScroll, Least, Shape, ScrollState
<1>6. CASE 0 <= d /\ d <= i.maxIndex
  <2>1. PICK t : t = [i EXCEPT !.cur = d]
    OBVIOUS
  <2>2. Shape(t) /\ NotAbove(t, t.cur) /\ t.paintAll /\ ~ t.paintSelection
    BY <1>2, <1>4, <1>5, <1>6, <2>1 DEF Shape, ScrollState, NotAbove
  <2>3. s = UpdateScroll(t, "NONE") /\ "NONE" \in Movement /\ "NONE" \in TameMovement
    BY <1>1, <1>3, <1>6, <2>1 DEF WithDefault, Movement, TameMovement
  <2>4. s.paintAll /\ ~ s.paintSelection
    BY <2>2, <2>3, UpdatePaints
  <2> QED
    BY <2>2, <2>3, <2>4, UpdateNotAbove
<1>7. CASE ~ (0 <= d /\ d <= i.maxIndex)
  <2>1. s = i
    BY <1>1, <1>3, <1>7 DEF WithDefault
  <2> QED
    BY <1>4, <1>5, <2>1 DEF NotAbove, Shape, ScrollState
<1> QED
  BY <1>6, <1>7

\* A step that keeps the window, the selection and the strays.
LEMMA SamePaint ==
  ASSUME TypeInv, PaintInv, pc # "closed", strayed' = strayed,
         scroll'.first = scroll.first, scroll'.cur = scroll.cur,
         scroll'.maxScroll = scroll.maxScroll, ~ scroll'.paintSelection
  PROVE  PaintInv'
BY DEF PaintInv, PaintsInArray, NotAbove

LEMMA LoopPaint ==
  ASSUME NonEmptyRows, TypeInv, PaintInv,
         PaintScreen \/ CheckEvent \/ NoInput \/ OpenMenu \/ OnSimpleFileSystem
  PROVE  PaintInv'
<1>1. CASE PaintScreen
  <2>1. pc = "top" /\ pc' = "event" /\ strayed' = strayed /\ scroll' = Painted(scroll)
    BY <1>1 DEF PaintScreen, Paint, history
  <2>2. /\ scroll'.first = scroll.first /\ scroll'.cur = scroll.cur
        /\ scroll'.maxScroll = scroll.maxScroll /\ ~ scroll'.paintSelection
    BY <2>1 DEF Painted, PaintInv, TypeInv, Shape, ScrollState
  <2> QED
    BY <2>1, <2>2, SamePaint
<1>2. CASE CheckEvent
  <2>1. CASE pc' = "closed"
    BY <2>1 DEF PaintInv, PaintsInArray
  <2>2. CASE pc' = "wait"
    <3>1. pc = "event" /\ strayed' = strayed /\ scroll' = scroll
      BY <1>2, <2>2 DEF CheckEvent, history
    <3> QED
      BY <2>2, <3>1, SamePaint DEF PaintInv
  <2> QED
    BY <1>2, <2>1, <2>2 DEF CheckEvent
<1>3. CASE NoInput
  <2>1. pc = "wait" /\ strayed' = strayed /\ scroll' = scroll
    BY <1>3 DEF NoInput, history
  <2> QED
    BY <2>1, SamePaint DEF PaintInv
<1>4. CASE OpenMenu
  <2>1. Opened(scroll') /\ pc' = "top"
    BY <1>4 DEF OpenMenu, Opened
  <2> QED
    BY <2>1, OpenedPaint DEF PaintInv, PaintsInArray
<1>5. CASE OnSimpleFileSystem
  BY <1>5 DEF OnSimpleFileSystem, history, PaintInv, PaintsInArray
<1> QED
  BY <1>1, <1>2, <1>3, <1>4, <1>5

LEMMA MousePaint ==
  ASSUME TypeInv, PaintInv, Mouse
  PROVE  PaintInv'
<1>1. /\ pc = "mouse" /\ pc' \in {"key", "mouse", "dialogMouse"}
      /\ strayed' = (strayed \/ (SelectsItem /\ ~ NotAbove(scroll, mItemID)))
  BY DEF Mouse, SelectItem, EnterItem, Deselect, LeaveByMouse, TurnWheel, MoveScrollbar,
         IgnoreAction, MouseStep
<1>2. ~ scroll.paintSelection /\ (~ strayed => NotAbove(scroll, scroll.cur))
  BY <1>1 DEF PaintInv
<1>3. SUFFICES ~ scroll'.paintSelection /\ (~ strayed' => NotAbove(scroll', scroll'.cur))
  BY <1>1 DEF PaintInv, PaintsInArray
<1>4. CASE SelectItem \/ EnterItem
  <2>1. SelectsItem /\ (Select(mItemID, TRUE) \/ Select(mItemID, FALSE))
    BY <1>4 DEF SelectItem, EnterItem, SelectsItem
  <2>2. /\ scroll'.cur = mItemID /\ scroll'.first = scroll.first
        /\ scroll'.maxScroll = scroll.maxScroll
        /\ scroll'.paintSelection = scroll.paintSelection
    BY <2>1 DEF Select, TypeInv, Shape, ScrollState
  <2> QED
    BY <1>1, <1>2, <2>1, <2>2 DEF NotAbove
<1>5. ASSUME NEW m \in {"SCROLL_UP", "SCROLL_DOWN"}, Move(m)
      PROVE  ~ scroll'.paintSelection /\ (~ strayed' => NotAbove(scroll', scroll'.cur))
  <2>1. m \in Movement /\ m \in TameMovement /\ Shape(scroll)
    BY <1>5 DEF Movement, TameMovement, TypeInv
  <2>2. ~ scroll'.paintSelection
    BY <1>2, <1>5, <2>1, UpdatePaints DEF Move
  <2>3. NotAbove(scroll, scroll.cur) => NotAbove(scroll', scroll'.cur)
    BY <1>5, <2>1, UpdateNotAbove DEF Move
  <2> QED
    BY <1>1, <1>2, <2>2, <2>3
<1>6. ASSUME NEW paint \in BOOLEAN, NEW last, AskPaint(paint, last)
      PROVE  ~ scroll'.paintSelection /\ (~ strayed' => NotAbove(scroll', scroll'.cur))
  BY <1>1, <1>2, <1>6 DEF AskPaint, NotAbove, TypeInv, Shape, ScrollState
<1>7. CASE Deselect
  BY <1>6, <1>7 DEF Deselect, DeselectKeeps
<1>8. CASE TurnWheel
  BY <1>5, <1>8 DEF TurnWheel
<1>9. CASE MoveScrollbar
  BY <1>5, <1>6, <1>9 DEF MoveScrollbar
<1>10. CASE LeaveByMouse \/ IgnoreAction
  BY <1>1, <1>2, <1>10 DEF LeaveByMouse, IgnoreAction
<1> QED
  BY <1>4, <1>7, <1>8, <1>9, <1>10 DEF Mouse

LEMMA KeyPaint ==
  ASSUME TypeInv, PaintInv, Key
  PROVE  PaintInv'
<1>1. pc = "key" /\ pc' \in {"top", "closed", "dialogKey"}
  BY DEF Key, SpuriousKey, NoKey, KeyMove, KeyLeave, KeyEject, KeyOther, KeyEnterOrSpace,
         KeyShortcut, RoundEnds, KeyStep
<1>2. ~ scroll.paintSelection /\ (~ strayed => NotAbove(scroll, scroll.cur))
  BY <1>1 DEF PaintInv
<1>3. CASE pc' = "closed"
  BY <1>3 DEF PaintInv, PaintsInArray
<1>4. CASE UNCHANGED << scroll, strayed >>
  BY <1>1, <1>2, <1>4, SamePaint
<1>5. CASE SpuriousKey \/ NoKey \/ KeyOther \/ KeyEnterOrSpace("ENTER")
           \/ KeyEnterOrSpace("DETAILS")
  BY <1>4, <1>5 DEF SpuriousKey, NoKey, KeyOther, KeyEnterOrSpace, KeepsWindow, history
<1>6. CASE KeyLeave \/ KeyEject \/ KeyShortcut
  BY <1>3, <1>6 DEF KeyLeave, KeyEject, KeyShortcut, RoundEnds, KeyStep
<1>7. CASE KeyMove /\ pc' = "top"
  <2>1. PICK m \in {"LINE_UP", "LINE_DOWN", "FIRST", "LAST", "PAGE_UP", "PAGE_DOWN"} :
          /\ Move(m)
          /\ strayed' = (strayed \/ (m = "PAGE_DOWN" /\ ~ NotAbove(scroll', scroll'.cur)))
    BY <1>7 DEF KeyMove
  <2>2. m \in Movement /\ Shape(scroll) /\ scroll' = UpdateScroll(scroll, m)
    BY <2>1 DEF Movement, Move, TypeInv
  <2>3. scroll'.paintSelection => ~ scroll'.paintAll
    BY <1>2, <2>2, UpdatePaints
  <2>4. CASE m # "PAGE_DOWN"
    <3>1. m \in TameMovement
      BY <2>2, <2>4 DEF TameMovement
    <3>2. NotAbove(scroll, scroll.cur) =>
            /\ NotAbove(scroll', scroll'.cur)
            /\ scroll'.paintSelection /\ ~ scroll'.paintAll => NotAbove(scroll', scroll'.last)
      BY <2>2, <3>1, UpdateNotAbove
    <3> QED
      BY <1>2, <1>7, <2>1, <2>3, <3>2 DEF PaintInv, PaintsInArray
  <2>5. CASE m = "PAGE_DOWN"
    <3>1. scroll'.paintSelection /\ ~ scroll'.paintAll => FALSE
      BY <1>2, <2>2, <2>5, UpdatePaints
    <3> QED
      BY <1>7, <2>1, <2>3, <2>5, <3>1 DEF PaintInv, PaintsInArray
  <2> QED
    BY <2>4, <2>5
<1>8. KeyMove => pc' \in {"top", "closed"}
  BY DEF KeyMove, RoundEnds, KeyStep
<1> QED
  BY <1>3, <1>5, <1>6, <1>7, <1>8 DEF Key

LEMMA UserPaint ==
  ASSUME TypeInv, PaintInv, User
  PROVE  PaintInv'
<1>1. CASE ClickEntry \/ ClickElsewhere \/ ClickScrollbarBackground \/ Drag \/ KeyEvent \/ Grab
           \/ DialogRound
  <2>1. /\ pc \in {"wait", "dialogMouse", "dialogKey"} /\ scroll' = scroll /\ strayed' = strayed
    BY <1>1 DEF ClickEntry, ClickElsewhere, ClickScrollbarBackground, Drag, MouseEvent, KeyEvent,
                Grab, DialogRound, InDialog, history
  <2> QED
    BY <2>1, SamePaint DEF PaintInv
<1>2. CASE DialogEnter \/ DialogEscape
  <2>1. /\ pc \in {"dialogMouse", "dialogKey"} /\ strayed' = strayed
        /\ AskPaint(KindOf(scroll.cur) = "switch", scroll.last)
    BY <1>2 DEF DialogEnter, DialogEscape, DialogReturns, InDialog, history
  <2>2. /\ scroll'.first = scroll.first /\ scroll'.cur = scroll.cur
        /\ scroll'.maxScroll = scroll.maxScroll
        /\ scroll'.paintSelection = scroll.paintSelection
    BY <2>1 DEF AskPaint, TypeInv, Shape, ScrollState
  <2> QED
    BY <2>1, <2>2, SamePaint DEF PaintInv
<1> QED
  BY <1>1, <1>2 DEF User

\* In menus of every size with an entry to scroll, after any mixture of keys, turns
\* of the wheel, drags and clicks: a partial repaint of the main menu reads itemPosX
\* at a negative index only if PAGE_DOWN or a click on the rectangle of an entry that
\* has been scrolled away has put the selection above the window.
THEOREM PartialPaintsInArray ==
  ASSUME NonEmptyRows
  PROVE  MenuSpec => []PaintsInArray
<1> DEFINE Inv == ItemInv /\ TypeInv /\ PaintInv
<1>1. MenuInit => Inv
  <2>1. MenuInit => PaintInv
    BY DEF MenuInit, PaintInv, PaintsInArray
  <2> QED
    BY <2>1, InitItem, InitType
<1>2. Inv /\ [MenuNext]_menuVars => Inv'
  <2>1. UNCHANGED menuVars /\ PaintInv => PaintInv'
    BY DEF menuVars, history, PaintInv, PaintsInArray
  <2>2. TypeInv /\ PaintInv /\ MenuNext => PaintInv'
    BY LoopPaint, MousePaint, KeyPaint, UserPaint DEF MenuNext, Loop
  <2> QED
    BY <2>1, <2>2, NextItem, NextType
<1>3. Inv => PaintsInArray
  BY DEF PaintInv
<1> QED
  BY <1>1, <1>2, <1>3, PTL DEF MenuSpec
===============================================================================
