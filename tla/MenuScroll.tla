------------------------------ MODULE MenuScroll ------------------------------
(***************************************************************************)
(* The scrolling state of a menu screen                                    *)
(* (rEFIt_UEFI/gui/REFIT_MENU_SCREEN.cpp, InitScroll and UpdateScroll):    *)
(* the entry that is selected and the window of entries that is on screen. *)
(*                                                                         *)
(* A main menu has two rows.  Entries 0 .. maxScroll form the row that     *)
(* scrolls, entries maxScroll + 1 .. maxIndex the row that is always shown.*)
(* Every other menu has the first row only.  All numbers are signed (INTN) *)
(* in the code, and so they are here.                                      *)
(***************************************************************************)
EXTENDS Integers

CONSTANTS Rows,           \* menus: << entries of the row that scrolls, all entries >>
          VisibleSpaces,  \* how many entries fit on the screen; 0 for "all"
          Defaults        \* values of DefaultEntryIndex; -1 for "none"

ASSUME RowsAssumption ==
  \A r \in Rows : r \in Nat \X Nat /\ r[1] <= r[2] /\ r[2] >= 1
ASSUME VisibleSpacesAssumption == VisibleSpaces \subseteq Nat
ASSUME DefaultsAssumption == Defaults \subseteq Int

VARIABLE scroll   \* SCROLL_STATE

Least(a, b)    == IF a <= b THEN a ELSE b
Greatest(a, b) == IF a >= b THEN a ELSE b

(***************************************************************************)
(* scroll.cur          CurrentSelection                                    *)
(* scroll.last         LastSelection                                       *)
(* scroll.maxIndex     MaxIndex, the last entry                            *)
(* scroll.maxScroll    MaxScroll, the last entry of the row that scrolls   *)
(* scroll.maxVisible   MaxVisible, one less than the entries in the window *)
(* scroll.maxFirst     MaxFirstVisible                                     *)
(* scroll.first        FirstVisible                                        *)
(* scroll.lastVisible  LastVisible                                         *)
(* scroll.paintAll, scroll.paintSelection   what is to be painted          *)
(***************************************************************************)
InitScroll(itemCount, maxCount, visibleSpace, selected) ==
  LET maxVisible == IF visibleSpace = 0 \/ visibleSpace > itemCount
                    THEN itemCount - 1
                    ELSE visibleSpace - 1
      maxFirst   == Greatest(itemCount - 1 - maxVisible, 0)
      first      == Least(selected, maxFirst)
  IN  [cur |-> selected, last |-> selected,
       maxIndex |-> maxCount - 1, maxScroll |-> itemCount - 1,
       maxVisible |-> maxVisible, maxFirst |-> maxFirst,
       first |-> first, lastVisible |-> first + maxVisible,
       paintAll |-> TRUE, paintSelection |-> FALSE]

IsScrolling(s) == s.maxFirst > 0

-------------------------------------------------------------------------------
(* UpdateScroll, one operator per movement *)

\* The selection and the window move; paint tells whether all is to be repainted.
MovedTo(s, cur, first, paint) ==
  [s EXCEPT !.cur = cur, !.first = first, !.paintAll = s.paintAll \/ paint]

LineUp(s) ==
  LET cur   == s.cur - 1
      below == cur < s.maxScroll /\ cur > s.lastVisible
  IN  IF s.cur > 0
      THEN MovedTo(s, cur,
                   IF below THEN cur - s.maxVisible ELSE Least(s.first, cur),
                   below \/ cur < s.first \/ cur = s.maxScroll)
      ELSE s

\* A faulty variant: the last entry has a next one.
LineDownPastEnd(s) == MovedTo(s, s.cur + 1, s.first, TRUE)

LineDown(s) ==
  LET cur   == s.cur + 1
      below == cur > s.lastVisible /\ cur <= s.maxScroll
  IN  IF s.cur < s.maxIndex
      THEN MovedTo(s, cur,
                   IF below THEN Least(s.first + 1, s.maxFirst) ELSE s.first,
                   below \/ cur = s.maxScroll + 1)
      ELSE s

\* A faulty variant: the selection stays behind when the window leaves it.
ScrollDownAlone(s) ==
  IF s.first < s.maxFirst THEN MovedTo(s, s.cur, s.first + 1, TRUE) ELSE s

ScrollDown(s) ==
  IF s.first < s.maxFirst
  THEN MovedTo(s, IF s.cur = s.first THEN s.cur + 1 ELSE s.cur, s.first + 1, TRUE)
  ELSE s

ScrollUp(s) ==
  IF s.first > 0
  THEN MovedTo(s, IF s.cur = s.lastVisible THEN s.cur - 1 ELSE s.cur, s.first - 1, TRUE)
  ELSE s

\* A faulty variant: only the selection is kept from becoming negative.
PageUpUnclamped(s) ==
  IF s.cur > 0
  THEN MovedTo(s, Greatest(0, s.cur - s.maxVisible), s.first - s.maxVisible, TRUE)
  ELSE s

\* From the last entry: to the second line, or to the first entry when there is
\* nothing to scroll.  From elsewhere: one page, selection and window together.
PageUp(s) ==
  LET atEnd  == s.cur = s.maxIndex
      cur    == Greatest(0, IF ~ atEnd THEN s.cur - s.maxVisible
                            ELSE IF IsScrolling(s) THEN s.cur - (s.maxVisible - 1)
                            ELSE 0)
      first  == Greatest(0, IF atEnd THEN s.first ELSE s.first - s.maxVisible)
  IN  IF s.cur > 0
      THEN MovedTo(s, cur, Least(first, cur),
                   (~ atEnd /\ s.first > 0) \/ cur < first)
      ELSE s

\* A faulty variant: the window is not kept within the row.
PageDownUnclamped(s) ==
  IF s.cur < s.maxIndex
  THEN MovedTo(s, Least(s.maxIndex, s.cur + s.maxVisible), s.first + s.maxVisible, TRUE)
  ELSE s

\* The end of the window that the last test reads is still the one from before
\* the window has moved.
PageDown(s) ==
  LET atTop == s.cur = 0
      cur   == Least(s.maxIndex, IF ~ atTop THEN s.cur + s.maxVisible
                                 ELSE IF IsScrolling(s) THEN s.maxVisible - 1
                                 ELSE s.maxIndex)
      first == Least(s.maxFirst, IF atTop THEN s.first ELSE s.first + s.maxVisible)
      below == cur > s.lastVisible /\ cur <= s.maxScroll
  IN  IF s.cur < s.maxIndex
      THEN MovedTo(s, cur,
                   IF below THEN Least(s.maxFirst, first + s.maxVisible) ELSE first,
                   TRUE)
      ELSE s

First(s) == IF s.cur > 0 THEN MovedTo(s, 0, Least(s.first, 0), s.first > 0) ELSE s

\* A faulty variant: the window moves and only the selection is painted.
LastUnpainted(s) ==
  IF s.cur < s.maxIndex
  THEN MovedTo(s, s.maxIndex, Greatest(s.first, s.maxFirst), FALSE)
  ELSE s

Last(s) ==
  IF s.cur < s.maxIndex
  THEN MovedTo(s, s.maxIndex, Greatest(s.first, s.maxFirst), s.first < s.maxFirst)
  ELSE s

\* A faulty variant: the window follows the selection upwards only.
FollowUp(s) ==
  IF s.cur < s.first THEN MovedTo(s, s.cur, Greatest(s.cur, 0), TRUE) ELSE s

\* SCROLL_NONE: the caller has set the selection, the window follows it.
Follow(s) ==
  LET below == s.cur > s.lastVisible /\ s.cur <= s.maxScroll
  IN  IF s.cur < s.first THEN MovedTo(s, s.cur, Greatest(s.cur, 0), TRUE)
      ELSE IF below THEN MovedTo(s, s.cur, Least(s.cur - s.maxVisible, s.maxFirst), TRUE)
      ELSE s

Movement == {"LINE_UP", "LINE_DOWN", "SCROLL_DOWN", "SCROLL_UP", "PAGE_UP",
             "PAGE_DOWN", "FIRST", "LAST", "NONE"}

Moved(s, m) ==
  CASE m = "LINE_UP"     -> LineUp(s)
    [] m = "LINE_DOWN"   -> LineDown(s)
    [] m = "SCROLL_DOWN" -> ScrollDown(s)
    [] m = "SCROLL_UP"   -> ScrollUp(s)
    [] m = "PAGE_UP"     -> PageUp(s)
    [] m = "PAGE_DOWN"   -> PageDown(s)
    [] m = "FIRST"       -> First(s)
    [] m = "LAST"        -> Last(s)
    [] m = "NONE"        -> Follow(s)

\* What UpdateScroll does before and after the movement.
UpdateScroll(s, m) ==
  LET moved == Moved([s EXCEPT !.last = s.cur], m)
  IN  [moved EXCEPT
         !.paintSelection = moved.paintSelection \/ (~ moved.paintAll /\ moved.cur # s.cur),
         !.lastVisible = moved.first + moved.maxVisible]

-------------------------------------------------------------------------------
(* The behaviours of the scrolling state *)

\* RunGenericMenu opens a screen: its INIT function calls InitScroll with the
\* selection 0 (the assignments to Chosen are never reached: no entry is both an
\* input dialog and a switch), then the default entry, if it is one, is selected.
WithDefault(s, default) ==
  IF 0 <= default /\ default <= s.maxIndex
  THEN UpdateScroll([s EXCEPT !.cur = default], "NONE")
  ELSE s

OpenedAt(s, default) ==
  \E r \in Rows, space \in VisibleSpaces :
    s = WithDefault(InitScroll(r[1], r[2], space, 0), default)

Opened(s) == \E default \in Defaults : OpenedAt(s, default)

Open == Opened(scroll')

Move(m) == scroll' = UpdateScroll(scroll, m)

\* A click sets the selection without moving the window; paint tells whether
\* its handler asks for a full repaint.
Select(i, paint) ==
  scroll' = [scroll EXCEPT !.last = scroll.cur, !.cur = i,
                           !.paintAll = scroll.paintAll \/ paint]

\* A shortcut key sets the selection and leaves the menu.
Jump(i) == scroll' = [scroll EXCEPT !.cur = i]

\* The top of RunGenericMenu's loop paints what is asked for.  PAINT_ALL leaves
\* a pending PaintSelection for the next round.
Painted(s) ==
  IF s.paintAll THEN [s EXCEPT !.paintAll = FALSE]
                ELSE [s EXCEPT !.paintSelection = FALSE]

Paint == scroll' = Painted(scroll)

\* Handlers that ask for a full repaint (paint) or forget the last selection,
\* as a drag of the scroll bar by less than a line does.
AskPaint(paint, last) ==
  scroll' = [scroll EXCEPT !.paintAll = scroll.paintAll \/ paint, !.last = last]

ScrollInit == Opened(scroll)

ScrollNext ==
  \/ Open
  \/ \E m \in Movement : Move(m)
  \/ \E i \in 0 .. scroll.maxIndex, paint \in BOOLEAN : Select(i, paint)
  \/ Paint
  \/ \E i \in 0 .. scroll.maxIndex : Jump(i)
  \/ \E paint \in BOOLEAN, last \in {scroll.last, scroll.cur} : AskPaint(paint, last)

ScrollSpec == ScrollInit /\ [][ScrollNext]_scroll

-------------------------------------------------------------------------------
(* Properties *)

ScrollState ==
  [cur : Int, last : Int, maxIndex : Nat, maxScroll : Int, maxVisible : Int,
   maxFirst : Nat, first : Nat, lastVisible : Int,
   paintAll : BOOLEAN, paintSelection : BOOLEAN]

\* The type invariant of SCROLL_STATE: the entries are INTN, but the window never
\* begins before the first one.
ScrollTypeOK == scroll \in ScrollState

\* The window that the painting loops walk, FirstVisible .. LastVisible, lies
\* within the row that scrolls, however the selection got where it is.
WindowInRow ==
  /\ 0 <= scroll.first /\ scroll.first <= scroll.maxFirst
  /\ scroll.lastVisible = scroll.first + scroll.maxVisible
  /\ scroll.lastVisible <= scroll.maxScroll

\* The selection, which indexes Entries, is an entry of the menu.
SelectionInMenu ==
  /\ 0 <= scroll.cur /\ scroll.cur <= scroll.maxIndex
  /\ 0 <= scroll.last /\ scroll.last <= scroll.maxIndex

\* What InitScroll establishes when the row has an entry, and no movement changes.
Geometry ==
  /\ 0 <= scroll.maxVisible /\ scroll.maxVisible <= scroll.maxScroll
  /\ scroll.maxScroll <= scroll.maxIndex
  /\ scroll.maxFirst = scroll.maxScroll - scroll.maxVisible

\* The two inductive invariants.  With an empty first row MaxVisible is -1 and a
\* page is a step backwards; with room for one entry it is 0.
WindowInv == ScrollTypeOK /\ Geometry /\ WindowInRow
SelectionInv ==
  /\ WindowInv
  /\ scroll.maxFirst > 0 => scroll.maxVisible >= 1
  /\ SelectionInMenu

\* When the window moves, the whole screen is asked to be repainted: painting
\* the selection only would leave entries of the old window on the screen.
WindowMovesArePainted == [][scroll'.first # scroll.first => scroll'.paintAll]_scroll

\* An entry of the second row is always shown.
Visible(s) == s.cur <= s.maxScroll => s.first <= s.cur /\ s.cur <= s.lastVisible

\* "we may have to scroll to make it visible": SCROLL_NONE brings the selection
\* that its caller has set, wherever it is, into the window.
FollowShowsSelection == [][Move("NONE") => Visible(scroll')]_scroll

\* An entry of the first row that is not above the window.
NotAbove(s, e) == e <= s.maxScroll => s.first <= e

===============================================================================
