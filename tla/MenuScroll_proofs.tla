--------------------------- MODULE MenuScroll_proofs ---------------------------
(***************************************************************************)
(* Proofs about the scrolling state of a menu, for menus of any size on    *)
(* screens of any height.  Two inductive invariants carry them:            *)
(*   WindowInv     the window lies in a row that has an entry;             *)
(*   SelectionInv  the selection is an entry as well, if a menu that       *)
(*                 scrolls shows two entries or more.                      *)
(* An empty row is what the run menu_empty_row is about; on a screen with  *)
(* room for one entry PAGE_DOWN from the first entry selects entry -1.     *)
(***************************************************************************)
EXTENDS MenuScroll, TLAPS

\* The parts of the invariants as predicates on a value of SCROLL_STATE.
Shape(s) ==
  /\ s \in ScrollState
  /\ 0 <= s.maxVisible /\ s.maxVisible <= s.maxScroll
  /\ s.maxScroll <= s.maxIndex
  /\ s.maxFirst = s.maxScroll - s.maxVisible
  /\ s.first <= s.maxFirst
  /\ s.lastVisible = s.first + s.maxVisible

Selects(s) == 0 <= s.cur /\ s.cur <= s.maxIndex /\ 0 <= s.last /\ s.last <= s.maxIndex

LEMMA ShapeIsWindowInv == WindowInv <=> Shape(scroll) 
  BY DEF WindowInv, Shape, ScrollTypeOK, Geometry, WindowInRow, ScrollState

\* What a movement returns: a selection, a window within the row, and whether to
\* paint, which it is if the window has moved.
Result(s, t) ==
  \E cur \in Int, first \in Nat, paint \in BOOLEAN :
    /\ t = MovedTo(s, cur, first, paint)
    /\ first <= s.maxFirst
    /\ first # s.first => paint

LEMMA LineUpResult ==
  ASSUME NEW s \in ScrollState, Shape(s)
  PROVE  LineUp(s) = s \/ Result(s, LineUp(s))
<1> DEFINE cur   == s.cur - 1
           below == cur < s.maxScroll /\ cur > s.lastVisible
           first == IF below THEN cur - s.maxVisible ELSE Least(s.first, cur)
           paint == below \/ cur < s.first \/ cur = s.maxScroll
<1>1. cur \in Int /\ paint \in BOOLEAN
  BY DEF ScrollState
<1>2. CASE s.cur > 0
  <2>1. first \in Nat /\ first <= s.maxFirst /\ (first # s.first => paint)
    BY <1>2 DEF Shape, ScrollState, Least
  <2>2. LineUp(s) = MovedTo(s, cur, first, paint)
    BY <1>2 DEF LineUp
  <2> QED
    BY <1>1, <2>1, <2>2 DEF Result
<1>3. CASE ~ (s.cur > 0)
  BY <1>3 DEF LineUp
<1> QED
  BY <1>2, <1>3

LEMMA LineDownResult ==
  ASSUME NEW s \in ScrollState, Shape(s)
  PROVE  LineDown(s) = s \/ Result(s, LineDown(s))
<1> DEFINE cur   == s.cur + 1
           below == cur > s.lastVisible /\ cur <= s.maxScroll
           first == IF below THEN Least(s.first + 1, s.maxFirst) ELSE s.first
           paint == below \/ cur = s.maxScroll + 1
<1>1. cur \in Int /\ paint \in BOOLEAN
  BY DEF ScrollState, Least, Greatest
<1>2. CASE s.cur < s.maxIndex
  <2>1. first \in Nat /\ first <= s.maxFirst /\ (first # s.first => paint)
    BY <1>2 DEF Shape, ScrollState, Least, Greatest, IsScrolling
  <2>2. LineDown(s) = MovedTo(s, cur, first, paint)
    BY <1>2 DEF LineDown
  <2> QED
    BY <1>1, <2>1, <2>2 DEF Result
<1>3. CASE ~ (s.cur < s.maxIndex)
  BY <1>3 DEF LineDown
<1> QED
  BY <1>2, <1>3

LEMMA ScrollDownResult ==
  ASSUME NEW s \in ScrollState, Shape(s)
  PROVE  ScrollDown(s) = s \/ Result(s, ScrollDown(s))
<1> DEFINE cur   == IF s.cur = s.first THEN s.cur + 1 ELSE s.cur
           first == s.first + 1
           paint == TRUE
<1>1. cur \in Int /\ paint \in BOOLEAN
  BY DEF ScrollState, Least, Greatest
<1>2. CASE s.first < s.maxFirst
  <2>1. first \in Nat /\ first <= s.maxFirst /\ (first # s.first => paint)
    BY <1>2 DEF Shape, ScrollState, Least, Greatest, IsScrolling
  <2>2. ScrollDown(s) = MovedTo(s, cur, first, paint)
    BY <1>2 DEF ScrollDown
  <2> QED
    BY <1>1, <2>1, <2>2 DEF Result
<1>3. CASE ~ (s.first < s.maxFirst)
  BY <1>3 DEF ScrollDown
<1> QED
  BY <1>2, <1>3

LEMMA ScrollUpResult ==
  ASSUME NEW s \in ScrollState, Shape(s)
  PROVE  ScrollUp(s) = s \/ Result(s, ScrollUp(s))
<1> DEFINE cur   == IF s.cur = s.lastVisible THEN s.cur - 1 ELSE s.cur
           first == s.first - 1
           paint == TRUE
<1>1. cur \in Int /\ paint \in BOOLEAN
  BY DEF ScrollState, Least, Greatest
<1>2. CASE s.first > 0
  <2>1. first \in Nat /\ first <= s.maxFirst /\ (first # s.first => paint)
    BY <1>2 DEF Shape, ScrollState, Least, Greatest, IsScrolling
  <2>2. ScrollUp(s) = MovedTo(s, cur, first, paint)
    BY <1>2 DEF ScrollUp
  <2> QED
    BY <1>1, <2>1, <2>2 DEF Result
<1>3. CASE ~ (s.first > 0)
  BY <1>3 DEF ScrollUp
<1> QED
  BY <1>2, <1>3

LEMMA PageUpResult ==
  ASSUME NEW s \in ScrollState, Shape(s)
  PROVE  PageUp(s) = s \/ Result(s, PageUp(s))
<1> DEFINE atEnd == s.cur = s.maxIndex
           cur   == Greatest(0, IF ~ atEnd THEN s.cur - s.maxVisible
                                ELSE IF IsScrolling(s) THEN s.cur - (s.maxVisible - 1)
                                ELSE 0)
           top   == Greatest(0, IF atEnd THEN s.first ELSE s.first - s.maxVisible)
           first == Least(top, cur)
           paint == (~ atEnd /\ s.first > 0) \/ cur < top
<1>1. cur \in Int /\ paint \in BOOLEAN
  BY DEF ScrollState, Least, Greatest
<1>2. CASE s.cur > 0
  <2>1. first \in Nat /\ first <= s.maxFirst /\ (first # s.first => paint)
    BY <1>2 DEF Shape, ScrollState, Least, Greatest, IsScrolling
  <2>2. PageUp(s) = MovedTo(s, cur, first, paint)
    BY <1>2 DEF PageUp
  <2> QED
    BY <1>1, <2>1, <2>2 DEF Result
<1>3. CASE ~ (s.cur > 0)
  BY <1>3 DEF PageUp
<1> QED
  BY <1>2, <1>3

LEMMA PageDownResult ==
  ASSUME NEW s \in ScrollState, Shape(s)
  PROVE  PageDown(s) = s \/ Result(s, PageDown(s))
<1> DEFINE atTop == s.cur = 0
           cur   == Least(s.maxIndex, IF ~ atTop THEN s.cur + s.maxVisible
                                      ELSE IF IsScrolling(s) THEN s.maxVisible - 1
                                      ELSE s.maxIndex)
           top   == Least(s.maxFirst, IF atTop THEN s.first ELSE s.first + s.maxVisible)
           below == cur > s.lastVisible /\ cur <= s.maxScroll
           first == IF below THEN Least(s.maxFirst, top + s.maxVisible) ELSE top
           paint == TRUE
<1>1. cur \in Int /\ paint \in BOOLEAN
  BY DEF ScrollState, Least, Greatest
<1>2. CASE s.cur < s.maxIndex
  <2>1. first \in Nat /\ first <= s.maxFirst /\ (first # s.first => paint)
    BY <1>2 DEF Shape, ScrollState, Least, Greatest, IsScrolling
  <2>2. PageDown(s) = MovedTo(s, cur, first, paint)
    BY <1>2 DEF PageDown
  <2> QED
    BY <1>1, <2>1, <2>2 DEF Result
<1>3. CASE ~ (s.cur < s.maxIndex)
  BY <1>3 DEF PageDown
<1> QED
  BY <1>2, <1>3

LEMMA FirstResult ==
  ASSUME NEW s \in ScrollState, Shape(s)
  PROVE  First(s) = s \/ Result(s, First(s))
<1> DEFINE cur   == 0
           first == Least(s.first, 0)
           paint == s.first > 0
<1>1. cur \in Int /\ paint \in BOOLEAN
  BY DEF ScrollState, Least, Greatest
<1>2. CASE s.cur > 0
  <2>1. first \in Nat /\ first <= s.maxFirst /\ (first # s.first => paint)
    BY <1>2 DEF Shape, ScrollState, Least, Greatest, IsScrolling
  <2>2. First(s) = MovedTo(s, cur, first, paint)
    BY <1>2 DEF First
  <2> QED
    BY <1>1, <2>1, <2>2 DEF Result
<1>3. CASE ~ (s.cur > 0)
  BY <1>3 DEF First
<1> QED
  BY <1>2, <1>3

LEMMA LastResult ==
  ASSUME NEW s \in ScrollState, Shape(s)
  PROVE  Last(s) = s \/ Result(s, Last(s))
<1> DEFINE cur   == s.maxIndex
           first == Greatest(s.first, s.maxFirst)
           paint == s.first < s.maxFirst
<1>1. cur \in Int /\ paint \in BOOLEAN
  BY DEF ScrollState, Least, Greatest
<1>2. CASE s.cur < s.maxIndex
  <2>1. first \in Nat /\ first <= s.maxFirst /\ (first # s.first => paint)
    BY <1>2 DEF Shape, ScrollState, Least, Greatest, IsScrolling
  <2>2. Last(s) = MovedTo(s, cur, first, paint)
    BY <1>2 DEF Last
  <2> QED
    BY <1>1, <2>1, <2>2 DEF Result
<1>3. CASE ~ (s.cur < s.maxIndex)
  BY <1>3 DEF Last
<1> QED
  BY <1>2, <1>3

LEMMA FollowResult ==
  ASSUME NEW s \in ScrollState, Shape(s)
  PROVE  Follow(s) = s \/ Result(s, Follow(s))
<1>1. CASE s.cur < s.first
  <2>1. Greatest(s.cur, 0) \in Nat /\ Greatest(s.cur, 0) <= s.maxFirst
    BY <1>1 DEF Shape, ScrollState, Greatest
  <2>2. Follow(s) = MovedTo(s, s.cur, Greatest(s.cur, 0), TRUE)
    BY <1>1 DEF Follow
  <2> QED
    BY <2>1, <2>2 DEF Result, ScrollState
<1>2. CASE ~ (s.cur < s.first) /\ s.cur > s.lastVisible /\ s.cur <= s.maxScroll
  <2> DEFINE first == Least(s.cur - s.maxVisible, s.maxFirst)
  <2>1. first \in Nat /\ first <= s.maxFirst
    BY <1>2 DEF Shape, ScrollState, Least
  <2>2. Follow(s) = MovedTo(s, s.cur, first, TRUE)
    BY <1>2 DEF Follow
  <2> QED
    BY <2>1, <2>2 DEF Result, ScrollState
<1>3. CASE ~ (s.cur < s.first) /\ ~ (s.cur > s.lastVisible /\ s.cur <= s.maxScroll)
  BY <1>3 DEF Follow
<1> QED
  BY <1>1, <1>2, <1>3

LEMMA MovedResult ==
  ASSUME NEW s \in ScrollState, Shape(s), NEW m \in Movement
  PROVE  Moved(s, m) = s \/ Result(s, Moved(s, m))
<1>1. CASE m = "LINE_UP"
  BY <1>1, LineUpResult DEF Moved
<1>2. CASE m = "LINE_DOWN"
  BY <1>2, LineDownResult DEF Moved
<1>3. CASE m = "SCROLL_DOWN"
  BY <1>3, ScrollDownResult DEF Moved
<1>4. CASE m = "SCROLL_UP"
  BY <1>4, ScrollUpResult DEF Moved
<1>5. CASE m = "PAGE_UP"
  BY <1>5, PageUpResult DEF Moved
<1>6. CASE m = "PAGE_DOWN"
  BY <1>6, PageDownResult DEF Moved
<1>7. CASE m = "FIRST"
  BY <1>7, FirstResult DEF Moved
<1>8. CASE m = "LAST"
  BY <1>8, LastResult DEF Moved
<1>9. CASE m = "NONE"
  BY <1>9, FollowResult DEF Moved
<1> QED
  BY <1>1, <1>2, <1>3, <1>4, <1>5, <1>6, <1>7, <1>8, <1>9 DEF Movement

\* Every movement keeps the window in the row, and asks for a full repaint if it
\* has moved the window.
LEMMA UpdateKeepsShape ==
  ASSUME NEW s, Shape(s), NEW m \in Movement
  PROVE  /\ Shape(UpdateScroll(s, m))
         /\ UpdateScroll(s, m).first # s.first => UpdateScroll(s, m).paintAll
         /\ s.paintAll => UpdateScroll(s, m).paintAll
<1> DEFINE t == [s EXCEPT !.last = s.cur]
           u == Moved(t, m)
           v == UpdateScroll(s, m)
<1>1. t \in ScrollState /\ Shape(t) /\ t.first = s.first /\ t.paintAll = s.paintAll
  BY DEF Shape, ScrollState
<1>2. u = t \/ Result(t, u)
  BY <1>1, MovedResult
<1>3. /\ u \in ScrollState
      /\ u.maxVisible = t.maxVisible /\ u.maxScroll = t.maxScroll
      /\ u.maxIndex = t.maxIndex /\ u.maxFirst = t.maxFirst
      /\ u.first <= t.maxFirst
      /\ u.first # t.first => u.paintAll
      /\ t.paintAll => u.paintAll
  <2>1. CASE u = t
    BY <1>1, <2>1 DEF Shape
  <2>2. CASE Result(t, u)
    <3>1. PICK cur \in Int, first \in Nat, paint \in BOOLEAN :
            /\ u = MovedTo(t, cur, first, paint)
            /\ first <= t.maxFirst
            /\ first # t.first => paint
      BY <2>2 DEF Result
    <3>2. t.paintAll \/ paint \in BOOLEAN
      OBVIOUS
    <3> HIDE DEF t, u
    <3> QED
      BY <1>1, <3>1 DEF MovedTo, ScrollState
  <2> QED
    BY <1>2, <2>1, <2>2
<1>4. v = [u EXCEPT !.paintSelection = u.paintSelection \/ (~ u.paintAll /\ u.cur # s.cur),
                    !.lastVisible = u.first + u.maxVisible]
  BY DEF UpdateScroll
<1> HIDE DEF t, u, v
<1>5. /\ v \in ScrollState
      /\ v.maxVisible = u.maxVisible /\ v.maxScroll = u.maxScroll
      /\ v.maxIndex = u.maxIndex /\ v.maxFirst = u.maxFirst
      /\ v.first = u.first /\ v.lastVisible = u.first + u.maxVisible
      /\ v.paintAll = u.paintAll
  <2>1. (u.paintSelection \/ (~ u.paintAll /\ u.cur # s.cur)) \in BOOLEAN
    BY <1>3 DEF ScrollState
  <2>2. u.first + u.maxVisible \in Int
    BY <1>3 DEF ScrollState
  <2> QED
    BY <1>3, <1>4, <2>1, <2>2 DEF ScrollState
<1>6. Shape(v)
  BY <1>1, <1>3, <1>5 DEF Shape
<1> QED
  BY <1>1, <1>3, <1>5, <1>6 DEF v

-------------------------------------------------------------------------------
(* The selection *)

Roomy(s) == s.maxFirst > 0 => s.maxVisible >= 1

LEMMA PartsOfSelectionInv == SelectionInv <=> Shape(scroll) /\ Roomy(scroll) /\ Selects(scroll)
  BY ShapeIsWindowInv DEF SelectionInv, SelectionInMenu, Roomy, Selects

LEMMA MovedSelection ==
  ASSUME NEW s \in ScrollState, Shape(s), Roomy(s), Selects(s), NEW m \in Movement
  PROVE  Moved(s, m).cur \in 0 .. s.maxIndex /\ Moved(s, m).last = s.last
<1> USE DEF Selects, Roomy
<1>1. CASE m = "LINE_UP"
  <2>1. Moved(s, m) = LineUp(s)
    BY <1>1 DEF Moved
  <2> QED
    BY <2>1 DEF LineUp, MovedTo, Shape, ScrollState, Least, Greatest, IsScrolling
<1>2. CASE m = "LINE_DOWN"
  <2>1. Moved(s, m) = LineDown(s)
    BY <1>2 DEF Moved
  <2> QED
    BY <2>1 DEF LineDown, MovedTo, Shape, ScrollState, Least, Greatest, IsScrolling
<1>3. CASE m = "SCROLL_DOWN"
  <2>1. Moved(s, m) = ScrollDown(s)
    BY <1>3 DEF Moved
  <2> QED
    BY <2>1 DEF ScrollDown, MovedTo, Shape, ScrollState, Least, Greatest, IsScrolling
<1>4. CASE m = "SCROLL_UP"
  <2>1. Moved(s, m) = ScrollUp(s)
    BY <1>4 DEF Moved
  <2> QED
    BY <2>1 DEF ScrollUp, MovedTo, Shape, ScrollState, Least, Greatest, IsScrolling
<1>5. CASE m = "PAGE_UP"
  <2>1. Moved(s, m) = PageUp(s)
    BY <1>5 DEF Moved
  <2> QED
    BY <2>1 DEF PageUp, MovedTo, Shape, ScrollState, Least, Greatest, IsScrolling
<1>6. CASE m = "PAGE_DOWN"
  <2> DEFINE cur == Least(s.maxIndex, IF s.cur # 0 THEN s.cur + s.maxVisible
                                      ELSE IF IsScrolling(s) THEN s.maxVisible - 1
                                      ELSE s.maxIndex)
  <2>1. Moved(s, m) = PageDown(s)
    BY <1>6 DEF Moved
  <2>2. cur \in 0 .. s.maxIndex
    <3>1. /\ s.cur \in Nat /\ s.maxIndex \in Nat /\ s.maxVisible \in Nat /\ s.maxFirst \in Nat
          /\ s.maxFirst > 0 => s.maxVisible >= 1
      BY DEF Shape, ScrollState
    <3>2. CASE s.cur # 0
      BY <3>1, <3>2 DEF Least
    <3>3. CASE s.cur = 0 /\ IsScrolling(s)
      BY <3>1, <3>3 DEF Least, IsScrolling
    <3>4. CASE s.cur = 0 /\ ~ IsScrolling(s)
      BY <3>1, <3>4 DEF Least
    <3> QED
      BY <3>2, <3>3, <3>4
  <2>3. s.cur < s.maxIndex => \E first, paint : PageDown(s) = MovedTo(s, cur, first, paint)
    BY Zenon DEF PageDown
  <2>4. s.cur < s.maxIndex => PageDown(s).cur = cur /\ PageDown(s).last = s.last
    BY <2>3 DEF MovedTo, ScrollState
  <2>5. ~ (s.cur < s.maxIndex) => PageDown(s) = s
    BY DEF PageDown
  <2> QED
    BY <2>1, <2>2, <2>4, <2>5 DEF ScrollState
<1>7. CASE m = "FIRST"
  <2>1. Moved(s, m) = First(s)
    BY <1>7 DEF Moved
  <2> QED
    BY <2>1 DEF First, MovedTo, Shape, ScrollState, Least, Greatest, IsScrolling
<1>8. CASE m = "LAST"
  <2>1. Moved(s, m) = Last(s)
    BY <1>8 DEF Moved
  <2> QED
    BY <2>1 DEF Last, MovedTo, Shape, ScrollState, Least, Greatest, IsScrolling
<1>9. CASE m = "NONE"
  <2>1. Moved(s, m) = Follow(s)
    BY <1>9 DEF Moved
  <2> QED
    BY <2>1 DEF Follow, MovedTo, Shape, ScrollState, Least, Greatest, IsScrolling
<1> QED
  BY <1>1, <1>2, <1>3, <1>4, <1>5, <1>6, <1>7, <1>8, <1>9 DEF Movement

\* If a menu that scrolls shows two entries or more, every movement selects one of
\* its entries.
LEMMA UpdateKeepsSelection ==
  ASSUME NEW s, Shape(s), Roomy(s), Selects(s), NEW m \in Movement
  PROVE  Roomy(UpdateScroll(s, m)) /\ Selects(UpdateScroll(s, m))
<1> DEFINE t == [s EXCEPT !.last = s.cur]
           u == Moved(t, m)
           v == UpdateScroll(s, m)
<1>1. t \in ScrollState /\ Shape(t) /\ Roomy(t) /\ Selects(t)
  BY DEF Shape, ScrollState, Roomy, Selects
<1>2. u.cur \in 0 .. t.maxIndex /\ u.last = t.last
  BY <1>1, MovedSelection
<1>3. u = t \/ Result(t, u)
  BY <1>1, MovedResult
<1>4. u \in ScrollState /\ u.maxVisible = t.maxVisible
      /\ u.maxIndex = t.maxIndex /\ u.maxFirst = t.maxFirst
  <2>1. CASE u = t
    BY <1>1, <2>1
  <2>2. CASE Result(t, u)
    <3>1. PICK cur \in Int, first \in Nat, paint \in BOOLEAN : u = MovedTo(t, cur, first, paint)
      BY <2>2 DEF Result
    <3> HIDE DEF t, u
    <3> QED
      BY <1>1, <3>1 DEF MovedTo, ScrollState
  <2> QED
    BY <1>3, <2>1, <2>2
<1>5. v = [u EXCEPT !.paintSelection = u.paintSelection \/ (~ u.paintAll /\ u.cur # s.cur),
                    !.lastVisible = u.first + u.maxVisible]
  BY DEF UpdateScroll
<1> HIDE DEF t, u, v
<1>6. /\ v.cur = u.cur /\ v.last = u.last
      /\ v.maxVisible = u.maxVisible /\ v.maxIndex = u.maxIndex /\ v.maxFirst = u.maxFirst
  BY <1>4, <1>5 DEF ScrollState
<1> QED
  BY <1>1, <1>2, <1>4, <1>6 DEF Roomy, Selects, v

-------------------------------------------------------------------------------
(* What a partial repaint of the main menu addresses *)

TameMovement == Movement \ {"PAGE_DOWN"}

\* No movement but PAGE_DOWN takes the selection above the window.
LEMMA MovedNotAbove ==
  ASSUME NEW s \in ScrollState, Shape(s), NotAbove(s, s.cur), NEW m \in TameMovement
  PROVE  NotAbove(Moved(s, m), Moved(s, m).cur) /\ Moved(s, m).last = s.last
<1> USE DEF NotAbove
<1>1. CASE m = "LINE_UP"
  <2>1. Moved(s, m) = LineUp(s)
    BY <1>1 DEF Moved
  <2> QED
    BY <2>1 DEF LineUp, MovedTo, Shape, ScrollState, Least, Greatest
<1>2. CASE m = "LINE_DOWN"
  <2>1. Moved(s, m) = LineDown(s)
    BY <1>2 DEF Moved
  <2> QED
    BY <2>1 DEF LineDown, MovedTo, Shape, ScrollState, Least, Greatest
<1>3. CASE m = "SCROLL_DOWN"
  <2>1. Moved(s, m) = ScrollDown(s)
    BY <1>3 DEF Moved
  <2> QED
    BY <2>1 DEF ScrollDown, MovedTo, Shape, ScrollState, Least, Greatest
<1>4. CASE m = "SCROLL_UP"
  <2>1. Moved(s, m) = ScrollUp(s)
    BY <1>4 DEF Moved
  <2> QED
    BY <2>1 DEF ScrollUp, MovedTo, Shape, ScrollState, Least, Greatest
<1>5. CASE m = "FIRST"
  <2>1. Moved(s, m) = First(s)
    BY <1>5 DEF Moved
  <2> QED
    BY <2>1 DEF First, MovedTo, Shape, ScrollState, Least, Greatest
<1>6. CASE m = "LAST"
  <2>1. Moved(s, m) = Last(s)
    BY <1>6 DEF Moved
  <2> QED
    BY <2>1 DEF Last, MovedTo, Shape, ScrollState, Least, Greatest
<1>7. CASE m = "NONE"
  <2>1. Moved(s, m) = Follow(s)
    BY <1>7 DEF Moved
  <2> QED
    BY <2>1 DEF Follow, MovedTo, Shape, ScrollState, Least, Greatest
<1>8. CASE m = "PAGE_UP"
  <2>1. Moved(s, m) = PageUp(s)
    BY <1>8 DEF Moved
  <2> QED
    BY <2>1 DEF PageUp, MovedTo, Shape, ScrollState, Least, Greatest
<1> QED
  BY <1>1, <1>2, <1>3, <1>4, <1>5, <1>6, <1>7, <1>8 DEF TameMovement, Movement

\* The last selection is the one from before the movement; unless the window has
\* moved, and then all is painted, it is not above the window either.
LEMMA UpdateNotAbove ==
  ASSUME NEW s, Shape(s), NotAbove(s, s.cur), NEW m \in TameMovement
  PROVE  LET v == UpdateScroll(s, m)
         IN  /\ NotAbove(v, v.cur)
             /\ v.paintSelection /\ ~ v.paintAll => NotAbove(v, v.last)
<1> DEFINE t == [s EXCEPT !.last = s.cur]
           u == Moved(t, m)
           v == UpdateScroll(s, m)
<1>1. /\ t \in ScrollState /\ Shape(t) /\ NotAbove(t, t.cur)
      /\ t.last = s.cur /\ t.first = s.first /\ t.maxScroll = s.maxScroll
  BY DEF Shape, ScrollState, NotAbove
<1>2. NotAbove(u, u.cur) /\ u.last = t.last
  BY <1>1, MovedNotAbove
<1>3. m \in Movement
  BY DEF TameMovement
<1>4. u = t \/ Result(t, u)
  BY <1>1, <1>3, MovedResult
<1>5. u \in ScrollState /\ u.maxScroll = t.maxScroll
  <2>1. CASE u = t
    BY <1>1, <2>1
  <2>2. CASE Result(t, u)
    <3>1. PICK cur \in Int, first \in Nat, paint \in BOOLEAN : u = MovedTo(t, cur, first, paint)
      BY <2>2 DEF Result
    <3> HIDE DEF t, u
    <3> QED
      BY <1>1, <3>1 DEF MovedTo, ScrollState
  <2> QED
    BY <1>4, <2>1, <2>2
<1>6. v = [u EXCEPT !.paintSelection = u.paintSelection \/ (~ u.paintAll /\ u.cur # s.cur),
                    !.lastVisible = u.first + u.maxVisible]
  BY DEF UpdateScroll
<1>7. v.first # s.first => v.paintAll
  BY <1>3, UpdateKeepsShape
<1> HIDE DEF t, u, v
<1>8. /\ v.cur = u.cur /\ v.last = u.last /\ v.first = u.first
      /\ v.maxScroll = u.maxScroll
  BY <1>5, <1>6 DEF ScrollState
<1>9. NotAbove(v, v.cur)
  BY <1>2, <1>8 DEF NotAbove
<1>10. v.first = s.first => NotAbove(v, v.last)
  BY <1>1, <1>2, <1>5, <1>8 DEF NotAbove
<1> QED
  BY <1>7, <1>9, <1>10 DEF v

-------------------------------------------------------------------------------
(* SCROLL_NONE *)

\* A selection in the menu is brought into the window.
LEMMA FollowVisible ==
  ASSUME NEW s, Shape(s), Selects(s)
  PROVE  Visible(UpdateScroll(s, "NONE"))
<1> DEFINE t == [s EXCEPT !.last = s.cur]
           u == Follow(t)
           v == UpdateScroll(s, "NONE")
<1>1. /\ t \in ScrollState /\ Shape(t) /\ t.cur = s.cur /\ t.first = s.first
      /\ t.maxScroll = s.maxScroll /\ t.lastVisible = s.lastVisible
      /\ t.maxVisible = s.maxVisible /\ t.maxFirst = s.maxFirst
  BY DEF Shape, ScrollState
<1>2. 0 <= t.cur
  BY <1>1 DEF Selects
<1>3. Moved(t, "NONE") = u
  BY DEF Moved
<1>4. v = [u EXCEPT !.paintSelection = u.paintSelection \/ (~ u.paintAll /\ u.cur # s.cur),
                    !.lastVisible = u.first + u.maxVisible]
  BY <1>3 DEF UpdateScroll
<1> HIDE DEF t
<1>5. /\ u \in ScrollState /\ u.cur = t.cur /\ u.maxScroll = t.maxScroll
      /\ u.cur <= u.maxScroll => u.first <= u.cur /\ u.cur <= u.first + u.maxVisible
  <2>1. CASE t.cur < t.first
    <3>1. u = MovedTo(t, t.cur, t.cur, TRUE)
      BY <1>1, <1>2, <2>1 DEF Follow, Greatest, ScrollState
    <3> HIDE DEF u
    <3>2. t.cur \in Nat /\ t.cur \in Int
      BY <1>1, <1>2 DEF ScrollState
    <3>3. /\ u \in ScrollState /\ u.cur = t.cur /\ u.maxScroll = t.maxScroll
          /\ u.first = t.cur /\ u.maxVisible = t.maxVisible
      <4>1. PICK c \in Int, f \in Nat, p \in BOOLEAN : c = t.cur /\ f = t.cur /\ p = TRUE
        BY <3>2
      <4>2. u = MovedTo(t, c, f, p)
        BY <3>1, <4>1
      <4> QED
        BY <1>1, <4>1, <4>2 DEF MovedTo, ScrollState
    <3> QED
      BY <1>1, <3>2, <3>3 DEF ScrollState, Shape
  <2>2. CASE ~ (t.cur < t.first) /\ t.cur > t.lastVisible /\ t.cur <= t.maxScroll
    <3>1. Least(t.cur - t.maxVisible, t.maxFirst) = t.cur - t.maxVisible
      BY <1>1, <2>2 DEF Least, ScrollState, Shape
    <3>2. u = MovedTo(t, t.cur, t.cur - t.maxVisible, TRUE)
      BY <2>2, <3>1 DEF Follow
    <3> HIDE DEF u
    <3>3. PICK first \in Nat : first = t.cur - t.maxVisible
      BY <1>1, <2>2 DEF ScrollState, Shape
    <3>4. t.cur \in Int
      BY <1>1 DEF ScrollState
    <3>5. /\ u \in ScrollState /\ u.cur = t.cur /\ u.maxScroll = t.maxScroll
          /\ u.first = first /\ u.maxVisible = t.maxVisible
      <4>1. PICK c \in Int, p \in BOOLEAN : c = t.cur /\ p = TRUE
        BY <3>4
      <4>2. u = MovedTo(t, c, first, p)
        BY <3>2, <3>3, <4>1
      <4> QED
        BY <1>1, <4>1, <4>2 DEF MovedTo, ScrollState
    <3> QED
      BY <1>1, <3>3, <3>5 DEF ScrollState, Shape
  <2>3. CASE ~ (t.cur < t.first) /\ ~ (t.cur > t.lastVisible /\ t.cur <= t.maxScroll)
    <3>1. u = t
      BY <2>3 DEF Follow
    <3> HIDE DEF u
    <3> QED
      BY <1>1, <2>3, <3>1 DEF ScrollState, Shape
  <2> QED
    BY <2>1, <2>2, <2>3
<1> HIDE DEF u, v
<1>6. /\ v.cur = u.cur /\ v.maxScroll = u.maxScroll /\ v.first = u.first
      /\ v.lastVisible = u.first + u.maxVisible
  BY <1>4, <1>5 DEF ScrollState
<1>7. Visible(v)
  BY <1>5, <1>6 DEF Visible
<1> QED
  BY <1>7 DEF v

-------------------------------------------------------------------------------
(* Opening a menu *)

\* Every menu has an entry in the row that scrolls.
NonEmptyRows == \A r \in Rows : r[1] >= 1

LEMMA InitShape ==
  ASSUME NEW items \in Nat, NEW max \in Nat, NEW space \in Nat, 1 <= items, items <= max
  PROVE  /\ Shape(InitScroll(items, max, space, 0))
         /\ Selects(InitScroll(items, max, space, 0))
         /\ space # 1 => Roomy(InitScroll(items, max, space, 0))
         /\ InitScroll(items, max, space, 0).paintAll
<1> DEFINE visible == IF space = 0 \/ space > items THEN items - 1 ELSE space - 1
           top     == Greatest(items - 1 - visible, 0)
           first   == Least(0, top)
           i       == InitScroll(items, max, space, 0)
<1>1. /\ visible \in Int /\ 0 <= visible /\ visible <= items - 1
      /\ top = items - 1 - visible /\ top \in Nat
      /\ first = 0
      /\ space # 1 => (top > 0 => visible >= 1)
  BY DEF Greatest, Least
<1>2. i = [cur |-> 0, last |-> 0, maxIndex |-> max - 1, maxScroll |-> items - 1,
           maxVisible |-> visible, maxFirst |-> top, first |-> first,
           lastVisible |-> first + visible, paintAll |-> TRUE, paintSelection |-> FALSE]
  BY DEF InitScroll
<1> HIDE DEF visible, top, first, i
<1>3. i \in ScrollState
  BY <1>1, <1>2 DEF ScrollState
<1>4. Shape(i) /\ Selects(i) /\ (space # 1 => Roomy(i)) /\ i.paintAll
  BY <1>1, <1>2, <1>3 DEF Shape, Selects, Roomy
<1> QED
  BY <1>4 DEF i

LEMMA OpenedShape ==
  ASSUME NEW s, Opened(s), NonEmptyRows
  PROVE  /\ Shape(s) /\ s.paintAll
         /\ 1 \notin VisibleSpaces => Roomy(s) /\ Selects(s)
<1>1. PICK default \in Defaults, r \in Rows, space \in VisibleSpaces :
        s = WithDefault(InitScroll(r[1], r[2], space, 0), default)
  BY DEF Opened, OpenedAt
<1>2. /\ r[1] \in Nat /\ r[2] \in Nat /\ space \in Nat /\ 1 <= r[1] /\ r[1] <= r[2]
      /\ default \in Int
  BY RowsAssumption, VisibleSpacesAssumption, DefaultsAssumption DEF NonEmptyRows
<1> DEFINE i == InitScroll(r[1], r[2], space, 0)
           d == [i EXCEPT !.cur = default]
<1>3. Shape(i) /\ Selects(i) /\ i.paintAll /\ (space # 1 => Roomy(i))
  BY <1>2, InitShape
<1> HIDE DEF i
<1>4. CASE 0 <= default /\ default <= i.maxIndex
  <2>1. Shape(d) /\ Selects(d) /\ d.paintAll /\ (space # 1 => Roomy(d))
    BY <1>2, <1>3, <1>4 DEF Shape, ScrollState, Selects, Roomy
  <2>2. s = UpdateScroll(d, "NONE")
    BY <1>1, <1>4 DEF WithDefault, i
  <2>3. "NONE" \in Movement
    BY DEF Movement
  <2> HIDE DEF d
  <2>4. Shape(s) /\ s.paintAll
    BY <2>1, <2>2, <2>3, UpdateKeepsShape
  <2>5. space # 1 => Roomy(s) /\ Selects(s)
    BY <2>1, <2>2, <2>3, UpdateKeepsSelection
  <2> QED
    BY <2>4, <2>5
<1>5. CASE ~ (0 <= default /\ default <= i.maxIndex)
  <2>1. s = i
    BY <1>1, <1>5 DEF WithDefault, i
  <2> QED
    BY <1>3, <2>1
<1> QED
  BY <1>4, <1>5

-------------------------------------------------------------------------------
(* The theorems *)

\* A step of the specification, whatever the menu.
LEMMA NextKeepsShape ==
  ASSUME NonEmptyRows, Shape(scroll), ScrollNext
  PROVE  Shape(scroll') /\ (scroll'.first # scroll.first => scroll'.paintAll)
<1>1. CASE Open
  BY <1>1, OpenedShape DEF Open
<1>2. ASSUME NEW m \in Movement, Move(m)
      PROVE  Shape(scroll') /\ (scroll'.first # scroll.first => scroll'.paintAll)
  BY <1>2, UpdateKeepsShape DEF Move
<1>3. ASSUME NEW i \in 0 .. scroll.maxIndex, NEW paint \in BOOLEAN, Select(i, paint)
      PROVE  Shape(scroll') /\ (scroll'.first # scroll.first => scroll'.paintAll)
  <2>1. (scroll.paintAll \/ paint) \in BOOLEAN /\ i \in Int
    BY DEF Shape, ScrollState
  <2>2. scroll' \in ScrollState /\ scroll'.first = scroll.first
    BY <1>3, <2>1 DEF Select, Shape, ScrollState
  <2> QED
    BY <1>3, <2>2 DEF Select, Shape, ScrollState
<1>4. CASE Paint
  BY <1>4 DEF Paint, Painted, Shape, ScrollState
<1>5. ASSUME NEW i \in 0 .. scroll.maxIndex, Jump(i)
      PROVE  Shape(scroll') /\ (scroll'.first # scroll.first => scroll'.paintAll)
  BY <1>5 DEF Jump, Shape, ScrollState
<1>6. ASSUME NEW paint \in BOOLEAN, NEW last \in {scroll.last, scroll.cur}, AskPaint(paint, last)
      PROVE  Shape(scroll') /\ (scroll'.first # scroll.first => scroll'.paintAll)
  <2>1. (scroll.paintAll \/ paint) \in BOOLEAN /\ last \in Int
    BY DEF Shape, ScrollState
  <2>2. scroll' \in ScrollState /\ scroll'.first = scroll.first
    BY <1>6, <2>1 DEF AskPaint, Shape, ScrollState
  <2> QED
    BY <1>6, <2>2 DEF AskPaint, Shape, ScrollState
<1> QED
  BY <1>1, <1>2, <1>3, <1>4, <1>5, <1>6 DEF ScrollNext

LEMMA NextKeepsSelection ==
  ASSUME NonEmptyRows, 1 \notin VisibleSpaces,
         Shape(scroll), Roomy(scroll), Selects(scroll), ScrollNext
  PROVE  Roomy(scroll') /\ Selects(scroll')
<1>1. CASE Open
  BY <1>1, OpenedShape DEF Open
<1>2. ASSUME NEW m \in Movement, Move(m)
      PROVE  Roomy(scroll') /\ Selects(scroll')
  BY <1>2, UpdateKeepsSelection DEF Move
<1>3. ASSUME NEW i \in 0 .. scroll.maxIndex, NEW paint \in BOOLEAN, Select(i, paint)
      PROVE  Roomy(scroll') /\ Selects(scroll')
  BY <1>3 DEF Select, Shape, ScrollState, Roomy, Selects
<1>4. CASE Paint
  BY <1>4 DEF Paint, Painted, Shape, ScrollState, Roomy, Selects
<1>5. ASSUME NEW i \in 0 .. scroll.maxIndex, Jump(i)
      PROVE  Roomy(scroll') /\ Selects(scroll')
  BY <1>5 DEF Jump, Shape, ScrollState, Roomy, Selects
<1>6. ASSUME NEW paint \in BOOLEAN, NEW last \in {scroll.last, scroll.cur}, AskPaint(paint, last)
      PROVE  Roomy(scroll') /\ Selects(scroll')
  BY <1>6 DEF AskPaint, Shape, ScrollState, Roomy, Selects
<1> QED
  BY <1>1, <1>2, <1>3, <1>4, <1>5, <1>6 DEF ScrollNext

LEMMA WindowInvariant ==
  ASSUME NonEmptyRows
  PROVE  ScrollSpec => []WindowInv
<1>1. ScrollInit => WindowInv
  BY OpenedShape, ShapeIsWindowInv DEF ScrollInit
<1>2. WindowInv /\ [ScrollNext]_scroll => WindowInv'
  <2> SUFFICES ASSUME Shape(scroll), [ScrollNext]_scroll
               PROVE  Shape(scroll')
    BY ShapeIsWindowInv DEF WindowInv, Shape, ScrollTypeOK, Geometry, WindowInRow, ScrollState
  <2>1. CASE ScrollNext
    BY <2>1, NextKeepsShape
  <2>2. CASE UNCHANGED scroll
    BY <2>2
  <2> QED
    BY <2>1, <2>2
<1> QED
  BY <1>1, <1>2, PTL DEF ScrollSpec

\* The fields of SCROLL_STATE keep their types: the window never begins before
\* the first entry, whatever InitScroll and UpdateScroll compute.
THEOREM ScrollTypeCorrect ==
  ASSUME NonEmptyRows
  PROVE  ScrollSpec => []ScrollTypeOK
<1>1. WindowInv => ScrollTypeOK
  BY DEF WindowInv
<1> QED
  BY <1>1, WindowInvariant, PTL

\* In a menu with an entry to scroll the painting loops never walk outside the
\* row, for menus and screens of every size and every sequence of movements.
THEOREM WindowStaysInRow ==
  ASSUME NonEmptyRows
  PROVE  ScrollSpec => []WindowInRow
<1>1. WindowInv => WindowInRow
  BY DEF WindowInv
<1> QED
  BY <1>1, WindowInvariant, PTL

LEMMA SelectionInvariant ==
  ASSUME NonEmptyRows, 1 \notin VisibleSpaces
  PROVE  ScrollSpec => []SelectionInv
<1>1. ScrollInit => SelectionInv
  BY OpenedShape, PartsOfSelectionInv DEF ScrollInit
<1>2. SelectionInv /\ [ScrollNext]_scroll => SelectionInv'
  <2> SUFFICES ASSUME Shape(scroll), Roomy(scroll), Selects(scroll), [ScrollNext]_scroll
               PROVE  Shape(scroll') /\ Roomy(scroll') /\ Selects(scroll')
    BY PartsOfSelectionInv
       DEF SelectionInv, SelectionInMenu, WindowInv, Shape, Roomy, Selects,
           ScrollTypeOK, Geometry, WindowInRow, ScrollState
  <2>1. CASE ScrollNext
    BY <2>1, NextKeepsShape, NextKeepsSelection
  <2>2. CASE UNCHANGED scroll
    BY <2>2
  <2> QED
    BY <2>1, <2>2
<1> QED
  BY <1>1, <1>2, PTL DEF ScrollSpec

\* If besides the screen never has room for exactly one entry, the selection is
\* always an entry: Entries[CurrentSelection] exists.
THEOREM SelectionStaysInMenu ==
  ASSUME NonEmptyRows, 1 \notin VisibleSpaces
  PROVE  ScrollSpec => []SelectionInMenu
<1>1. SelectionInv => SelectionInMenu
  BY DEF SelectionInv
<1> QED
  BY <1>1, SelectionInvariant, PTL

\* Under the same conditions UpdateScroll with SCROLL_NONE brings the selection
\* its caller has set into the window, from wherever the window was.
THEOREM FollowBringsIntoWindow ==
  ASSUME NonEmptyRows, 1 \notin VisibleSpaces
  PROVE  ScrollSpec => FollowShowsSelection
<1>1. SelectionInv /\ [ScrollNext]_scroll => [Move("NONE") => Visible(scroll')]_scroll
  BY PartsOfSelectionInv, FollowVisible DEF Move
<1> QED
  BY <1>1, SelectionInvariant, PTL DEF ScrollSpec, FollowShowsSelection

\* A step that moves the window asks for a full repaint.
THEOREM WindowMovesPainted ==
  ASSUME NonEmptyRows
  PROVE  ScrollSpec => WindowMovesArePainted
<1>1. WindowInv /\ [ScrollNext]_scroll => [scroll'.first # scroll.first => scroll'.paintAll]_scroll
  BY NextKeepsShape, ShapeIsWindowInv
<1> QED
  BY <1>1, WindowInvariant, PTL DEF ScrollSpec, WindowMovesArePainted

===============================================================================
