-------------------------- MODULE EmuVariable_proofs --------------------------
(***************************************************************************)
(* Proofs about the emulated variable store and about callers that         *)
(* enumerate it, for any keys, data and sizes.                             *)
(***************************************************************************)
EXTENDS EmuVariableWalk, Least_proofs, TLAPS

Logs == [{NonVolatile, Volatile} -> Seq(Entry)]
NewEntry(k, a, d) == [key |-> k, attr |-> a, data |-> d, state |-> "ADDED"]
Room(logs, a) == << StoreOf(a), Len(logs[StoreOf(a)]) + 1 >>

USE DEF NonVolatile, Volatile

-------------------------------------------------------------------------------
(* The operations on the logs *)

\* Marking an entry changes its state only.
LEMMA MarkedEntry ==
  ASSUME NEW e \in Entry, NEW x \in States
  PROVE  /\ Marked(e, x) \in Entry
         /\ Marked(e, x).key = e.key /\ Marked(e, x).attr = e.attr
         /\ Marked(e, x).data = e.data /\ Marked(e, x).state = x
BY DEF Marked, Entry

\* Marking one entry of a log leaves the lengths and all other entries alone.
LEMMA MarkLogs ==
  ASSUME NEW logs \in Logs, NEW i \in {0, 1}, NEW n \in 1 .. Len(logs[i]), NEW x \in States
  PROVE  /\ Mark(logs, << i, n >>, x) \in Logs
         /\ \A j \in {0, 1} : Len(Mark(logs, << i, n >>, x)[j]) = Len(logs[j])
         /\ \A j \in {0, 1} : \A m \in 1 .. Len(logs[j]) :
              Mark(logs, << i, n >>, x)[j][m] =
                IF j = i /\ m = n THEN Marked(logs[i][n], x) ELSE logs[j][m]
<1>1. logs[i][n] \in Entry
  BY DEF Logs
<1>2. Marked(logs[i][n], x) \in Entry
  BY <1>1, MarkedEntry
<1>. QED
  BY <1>2 DEF Mark, Logs

\* Appending leaves every entry alone and puts the new one behind its log.
LEMMA AppendLogs ==
  ASSUME NEW logs \in Logs, NEW k \in Key, NEW a \in AttributeSets, NEW d \in Data
  PROVE  /\ StoreOf(a) \in {0, 1}
         /\ AppendTo(logs, k, a, d) \in Logs
         /\ \A j \in {0, 1} : Len(AppendTo(logs, k, a, d)[j]) =
              IF j = StoreOf(a) THEN Len(logs[j]) + 1 ELSE Len(logs[j])
         /\ \A j \in {0, 1} : \A m \in 1 .. Len(logs[j]) :
              AppendTo(logs, k, a, d)[j][m] = logs[j][m]
         /\ AppendTo(logs, k, a, d)[StoreOf(a)][Len(logs[StoreOf(a)]) + 1] = NewEntry(k, a, d)
<1>1. StoreOf(a) \in {0, 1}
  BY DEF StoreOf
<1>2. NewEntry(k, a, d) \in Entry
  BY DEF NewEntry, Entry, States
<1>3. AppendTo(logs, k, a, d) = [logs EXCEPT ![StoreOf(a)] = Append(logs[StoreOf(a)], NewEntry(k, a, d))]
  BY DEF AppendTo, NewEntry
<1>. QED
  BY <1>1, <1>2, <1>3 DEF Logs

-------------------------------------------------------------------------------
(* Slots and what is found in them *)

\* A slot is a log and a position in it, and is not the null pointer.
LEMMA SlotFacts ==
  ASSUME store \in Logs
  PROVE  /\ \A i \in {0, 1} : \A n \in 1 .. Len(store[i]) : << i, n >> \in Slots
         /\ \A s \in Slots :
              /\ s = << s[1], s[2] >>
              /\ s[1] \in {0, 1}
              /\ s[2] \in 1 .. Len(store[s[1]])
              /\ At(s) \in Entry
              /\ s # NULL
<1>1. \A i \in {0, 1} : Len(store[i]) \in Nat
  BY DEF Logs
<1>2. \A i \in {0, 1} : \A n \in 1 .. Len(store[i]) : << i, n >> \in Slots
  BY DEF Slots
<1>3. ASSUME NEW s \in Slots
      PROVE  /\ s = << s[1], s[2] >> /\ s[1] \in {0, 1} /\ s[2] \in 1 .. Len(store[s[1]])
             /\ s # NULL
  BY DEF Slots, NULL
<1>4. ASSUME NEW s \in Slots PROVE At(s) \in Entry
  BY <1>3 DEF Logs, At
<1>. QED
  BY <1>2, <1>3, <1>4

\* With at most one visible entry of a name, FindVariable finds exactly it.
LEMMA FindFacts ==
  ASSUME store \in Logs, OneVisible, NEW k
  PROVE  /\ Matches(k) = {} => FindVariable(k) = NULL
         /\ \A s \in Matches(k) : FindVariable(k) = s
         /\ FindVariable(k) = NULL => Matches(k) = {}
         /\ FindVariable(k) # NULL => FindVariable(k) \in Matches(k)
<1>1. Matches(k) = {} => FindVariable(k) = NULL
  BY DEF FindVariable
<1>2. ASSUME NEW s \in Matches(k) PROVE FindVariable(k) = s
  <2>1. \A t \in Matches(k) : s = t
    BY DEF OneVisible, Matches
  <2>. DEFINE P(x) == x \in Matches(k) /\ \A t \in Matches(k) : x = t \/ Before(x, t)
  <2>2. P(s)
    BY <2>1
  <2>3. P(CHOOSE x : P(x))
    BY <2>2
  <2>4. First(Matches(k)) = CHOOSE x : P(x)
    BY DEF First
  <2>. QED
    BY <2>1, <2>3, <2>4 DEF FindVariable
<1>3. \A s \in Matches(k) : s # NULL
  BY SlotFacts DEF Matches
<1>. QED
  BY <1>1, <1>2, <1>3
-------------------------------------------------------------------------------
(* The steps on the logs *)

\* A visible entry stays in its slot, and is what FindVariable looks at.
LEMMA VisibleByMatches ==
  \A s : s \in Slots /\ Visible(s) <=> s \in Matches(At(s).key)
BY DEF Matches

\* Marking an entry hides it and nothing else.
LEMMA MarkStep ==
  ASSUME store \in Logs, OneVisible, NEW s \in Slots, NEW x \in States \ {"ADDED"},
         store' = Mark(store, s, x), mAtRuntime' = mAtRuntime
  PROVE  /\ store' \in Logs
         /\ Slots' = Slots
         /\ At(s)' = Marked(At(s), x)
         /\ \A t \in Slots : t # s => At(t)' = At(t)
         /\ \A k : Matches(k)' = Matches(k) \ {s}
         /\ OneVisible'
<1>1. /\ s[1] \in {0, 1} /\ s[2] \in 1 .. Len(store[s[1]])
      /\ s = << s[1], s[2] >> /\ At(s) \in Entry
  BY SlotFacts
<1>2. /\ store' \in Logs
      /\ \A j \in {0, 1} : Len(store'[j]) = Len(store[j])
      /\ \A j \in {0, 1} : \A m \in 1 .. Len(store[j]) :
           store'[j][m] = IF j = s[1] /\ m = s[2]
                          THEN Marked(store[s[1]][s[2]], x) ELSE store[j][m]
  BY <1>1, MarkLogs
<1>3. Slots' = Slots
  BY <1>2 DEF Slots
<1>4. At(s)' = Marked(At(s), x)
  BY <1>1, <1>2 DEF At
<1>5. \A t \in Slots : t # s => At(t)' = At(t)
  BY <1>1, <1>2, SlotFacts DEF At
<1>6. At(s)'.state # "ADDED" /\ At(s)'.attr = At(s).attr /\ At(s)'.key = At(s).key
  BY <1>1, <1>4, MarkedEntry
<1>7. \A t \in Slots : t # s => (Visible(t)' <=> Visible(t))
  BY <1>5 DEF Visible
<1>8. ~ Visible(s)'
  BY <1>6 DEF Visible
<1>9. ASSUME NEW k PROVE Matches(k)' = Matches(k) \ {s}
  BY <1>3, <1>5, <1>7, <1>8 DEF Matches
<1>10. OneVisible'
  BY <1>3, <1>5, <1>6, <1>7, <1>8 DEF OneVisible
<1>. QED
  BY <1>2, <1>3, <1>4, <1>5, <1>9, <1>10

\* Writing a name that has no visible entry adds one.
LEMMA CreateStep ==
  ASSUME store \in Logs, OneVisible, NEW k \in Key, NEW a \in AttributeSets, NEW d \in Data,
         Matches(k) = {}, store' = AppendTo(store, k, a, d), mAtRuntime' = mAtRuntime,
         NEW r, r = Room(store, a)
  PROVE  /\ store' \in Logs
         /\ Slots' = Slots \cup {r}
         /\ r \notin Slots
         /\ At(r)' = NewEntry(k, a, d)
         /\ \A t \in Slots : At(t)' = At(t)
         /\ \A j : j # k => Matches(j)' = Matches(j)
         /\ Matches(k)' = IF mAtRuntime => "RT" \in a THEN {r} ELSE {}
         /\ OneVisible'
<1>1. /\ StoreOf(a) \in {0, 1}
      /\ store' \in Logs
      /\ \A j \in {0, 1} : Len(store'[j]) =
           IF j = StoreOf(a) THEN Len(store[j]) + 1 ELSE Len(store[j])
      /\ \A j \in {0, 1} : \A m \in 1 .. Len(store[j]) : store'[j][m] = store[j][m]
      /\ store'[StoreOf(a)][Len(store[StoreOf(a)]) + 1] = NewEntry(k, a, d)
  BY AppendLogs
<1>2. \A j \in {0, 1} : Len(store[j]) \in Nat
  BY DEF Logs
<1>3. r = << StoreOf(a), Len(store[StoreOf(a)]) + 1 >> /\ r[1] = StoreOf(a)
  BY DEF Room
<1>4. r \notin Slots
  BY <1>1, <1>2, <1>3, SlotFacts
<1>5. Slots \subseteq Slots' /\ r \in Slots'
  BY <1>1, <1>2, <1>3 DEF Slots
<1>6. ASSUME NEW t \in Slots' PROVE t \in Slots \/ t = r
  <2>1. PICK i \in {0, 1} : \E n \in 1 .. Len(store'[i]) : t = << i, n >>
    BY DEF Slots
  <2>. PICK n \in 1 .. Len(store'[i]) : t = << i, n >>
    BY <2>1
  <2>2. n \in 1 .. Len(store[i]) \/ (i = StoreOf(a) /\ n = Len(store[i]) + 1)
    BY <1>1, <1>2
  <2>3. n \in 1 .. Len(store[i]) => t \in Slots
    BY SlotFacts
  <2>. QED
    BY <2>2, <2>3, <1>3
<1>7. Slots' = Slots \cup {r}
  BY <1>5, <1>6
<1>8. \A t \in Slots : At(t)' = At(t)
  BY <1>1, SlotFacts DEF At
<1>9. At(r)' = NewEntry(k, a, d)
  BY <1>1, <1>3 DEF At
<1>10. \A t \in Slots : Visible(t)' <=> Visible(t)
  BY <1>8 DEF Visible
<1>11. /\ At(r)'.key = k /\ At(r)'.attr = a
       /\ Visible(r)' <=> (mAtRuntime => "RT" \in a)
  BY <1>9 DEF Visible, NewEntry
<1>12. ASSUME NEW j, j # k PROVE Matches(j)' = Matches(j)
  BY <1>7, <1>8, <1>10, <1>11, <1>12 DEF Matches
<1>13. Matches(k)' = IF mAtRuntime => "RT" \in a THEN {r} ELSE {}
  BY <1>7, <1>8, <1>10, <1>11 DEF Matches
<1>14. \A t \in Slots : Visible(t) => At(t).key # k
  BY DEF Matches
<1>15. OneVisible'
  BY <1>3, <1>7, <1>8, <1>10, <1>11, <1>14 DEF OneVisible
<1>. QED
  BY <1>1, <1>4, <1>7, <1>8, <1>9, <1>12, <1>13, <1>15
\* Writing a name that has a visible entry hides that entry and adds another.
LEMMA ReplaceStep ==
  ASSUME store \in Logs, OneVisible, NEW k \in Key, NEW a \in AttributeSets, NEW d \in Data,
         NEW s, Matches(k) = {s}, mAtRuntime' = mAtRuntime,
         store' = AppendTo(Mark(store, s, "DELETED"), k, a, d),
         NEW r, r = Room(store, a)
  PROVE  /\ store' \in Logs
         /\ Slots' = Slots \cup {r}
         /\ r \notin Slots
         /\ At(r)' = NewEntry(k, a, d)
         /\ At(s)' = Marked(At(s), "DELETED")
         /\ \A t \in Slots : t # s => At(t)' = At(t)
         /\ \A j : j # k => Matches(j)' = Matches(j)
         /\ Matches(k)' = IF mAtRuntime => "RT" \in a THEN {r} ELSE {}
         /\ OneVisible'
<1>1. s \in Slots /\ Visible(s) /\ At(s).key = k
  BY DEF Matches
<1>2. /\ s[1] \in {0, 1} /\ s[2] \in 1 .. Len(store[s[1]])
      /\ s = << s[1], s[2] >> /\ At(s) \in Entry
  BY <1>1, SlotFacts
<1>3. PICK logs : logs = Mark(store, s, "DELETED")
  OBVIOUS
<1>4. /\ logs \in Logs
      /\ \A j \in {0, 1} : Len(logs[j]) = Len(store[j])
      /\ \A j \in {0, 1} : \A m \in 1 .. Len(store[j]) :
           logs[j][m] = IF j = s[1] /\ m = s[2]
                        THEN Marked(store[s[1]][s[2]], "DELETED") ELSE store[j][m]
  BY <1>2, <1>3, MarkLogs DEF States
<1>5. /\ StoreOf(a) \in {0, 1}
      /\ store' \in Logs
      /\ \A j \in {0, 1} : Len(store'[j]) =
           IF j = StoreOf(a) THEN Len(store[j]) + 1 ELSE Len(store[j])
      /\ \A j \in {0, 1} : \A m \in 1 .. Len(store[j]) : store'[j][m] = logs[j][m]
      /\ store'[StoreOf(a)][Len(store[StoreOf(a)]) + 1] = NewEntry(k, a, d)
  <2>1. store' = AppendTo(logs, k, a, d)
    BY <1>3
  <2>2. /\ StoreOf(a) \in {0, 1}
        /\ store' \in Logs
        /\ \A j \in {0, 1} : Len(store'[j]) =
             IF j = StoreOf(a) THEN Len(logs[j]) + 1 ELSE Len(logs[j])
        /\ \A j \in {0, 1} : \A m \in 1 .. Len(logs[j]) : store'[j][m] = logs[j][m]
        /\ store'[StoreOf(a)][Len(logs[StoreOf(a)]) + 1] = NewEntry(k, a, d)
    BY <2>1, <1>4, AppendLogs
  <2>. QED
    BY <2>2, <1>4
<1>6. \A j \in {0, 1} : Len(store[j]) \in Nat
  BY DEF Logs
<1>7. r = << StoreOf(a), Len(store[StoreOf(a)]) + 1 >> /\ r[1] = StoreOf(a)
  BY DEF Room
<1>8. r \notin Slots
  BY <1>5, <1>6, <1>7, SlotFacts
<1>9. Slots \subseteq Slots' /\ r \in Slots'
  BY <1>5, <1>6, <1>7 DEF Slots
<1>10. ASSUME NEW t \in Slots' PROVE t \in Slots \/ t = r
  <2>1. PICK i \in {0, 1} : \E n \in 1 .. Len(store'[i]) : t = << i, n >>
    BY DEF Slots
  <2>. PICK n \in 1 .. Len(store'[i]) : t = << i, n >>
    BY <2>1
  <2>2. n \in 1 .. Len(store[i]) \/ (i = StoreOf(a) /\ n = Len(store[i]) + 1)
    BY <1>5, <1>6
  <2>3. n \in 1 .. Len(store[i]) => t \in Slots
    BY SlotFacts
  <2>. QED
    BY <2>2, <2>3, <1>7
<1>11. Slots' = Slots \cup {r}
  BY <1>9, <1>10
<1>12. At(s)' = Marked(At(s), "DELETED")
  BY <1>2, <1>4, <1>5 DEF At
<1>13. \A t \in Slots : t # s => At(t)' = At(t)
  BY <1>2, <1>4, <1>5, SlotFacts DEF At
<1>14. At(r)' = NewEntry(k, a, d)
  BY <1>5, <1>7 DEF At
<1>15. At(s)'.state # "ADDED" /\ At(s)'.attr = At(s).attr
  BY <1>2, <1>12, MarkedEntry DEF States
<1>16. \A t \in Slots : t # s => (Visible(t)' <=> Visible(t))
  BY <1>13 DEF Visible
<1>17. ~ Visible(s)'
  BY <1>15 DEF Visible
<1>18. /\ At(r)'.key = k /\ At(r)'.attr = a
       /\ Visible(r)' <=> (mAtRuntime => "RT" \in a)
  BY <1>14 DEF Visible, NewEntry
<1>19. ASSUME NEW j, j # k PROVE Matches(j)' = Matches(j)
  BY <1>1, <1>11, <1>13, <1>16, <1>17, <1>18, <1>19 DEF Matches
<1>20. \A t \in Slots : Visible(t) /\ At(t).key = k => t = s
  BY DEF Matches
<1>21. Matches(k)' = IF mAtRuntime => "RT" \in a THEN {r} ELSE {}
  BY <1>11, <1>13, <1>16, <1>17, <1>18, <1>20 DEF Matches
<1>22. OneVisible'
  BY <1>7, <1>11, <1>13, <1>15, <1>16, <1>17, <1>18, <1>20 DEF OneVisible
<1>. QED
  BY <1>5, <1>8, <1>11, <1>12, <1>13, <1>14, <1>19, <1>21, <1>22

-------------------------------------------------------------------------------
(* The calls *)

\* What EmuSetVariable changes, in the terms of the lemmas above.
StepShape(k, a, d) ==
  \/ UNCHANGED << store, totals, mAtRuntime >>
  \/ /\ UNCHANGED << totals, mAtRuntime >>
     /\ \E s \in Slots, x \in States \ {"ADDED"} :
          Matches(k) = {s} /\ WritableNow(s) /\ store' = Mark(store, s, x)
  \/ /\ UNCHANGED mAtRuntime
     /\ d \in Data
     /\ Fits(a, VarSize[<< k, d >>]) /\ Account(a, VarSize[<< k, d >>])
     /\ \/ Matches(k) = {} /\ store' = AppendTo(store, k, a, d)
        \/ \E s \in Slots : /\ Matches(k) = {s} /\ WritableNow(s)
                            /\ store' = AppendTo(Mark(store, s, "DELETED"), k, a, d)

LEMMA FoundIsOnly ==
  ASSUME store \in Logs, OneVisible, NEW k, FindVariable(k) # NULL
  PROVE  Matches(k) = {FindVariable(k)} /\ FindVariable(k) \in Slots
BY FindFacts DEF Matches

\* Every call has that shape.
LEMMA SetShape ==
  ASSUME store \in Logs, OneVisible,
         NEW k \in Key, NEW a \in AttributeSets, NEW d \in Data \cup {NoData},
         EmuSetVariable(k, a, d)
  PROVE  StepShape(k, a, d)
<1>1. CASE \E st : Answer(st)
  BY <1>1 DEF StepShape, Answer
<1>2. CASE DeleteExisting(k, a, d)
  BY <1>2, FoundIsOnly DEF StepShape, DeleteExisting, States
<1>3. CASE Replace(k, a, d)
  <2>1. FindVariable(k) # NULL /\ WritableNow(FindVariable(k)) /\ d \in Data
    BY <1>3 DEF Replace, Deletes
  <2>2. CASE Fits(a, VarSize[<< k, d >>])
    BY <1>3, <2>1, <2>2, FoundIsOnly DEF Replace, StepShape, Supersede
  <2>3. CASE ~ Fits(a, VarSize[<< k, d >>])
    BY <1>3, <2>1, <2>3, FoundIsOnly DEF Replace, StepShape, Supersede, States
  <2>. QED
    BY <2>2, <2>3
<1>4. CASE Create(k, a, d)
  BY <1>4, FindFacts DEF StepShape, Create, Deletes
<1>. QED
  BY <1>1, <1>2, <1>3, <1>4
  DEF EmuSetVariable, UpdateVariable, SetDell, SetRefused, UpdateRefused, SetSameData
-------------------------------------------------------------------------------
(* The invariants *)

\* Types, uniqueness and space hold together: what FindVariable finds has its
\* type, is the only entry, and decides what is appended and counted.
EmuInv == EmuTypeOK /\ OneVisible /\ LogsFit

LEMMA SizeFacts ==
  ASSUME NEW k \in Key, NEW d \in Data
  PROVE  VarSize[<< k, d >>] \in Nat
BY SizeAssumption

LEMMA TypeIsLogs == EmuTypeOK => store \in Logs
BY DEF EmuTypeOK, Logs

LEMMA InitInv == EmuInit => EmuInv
<1>. SUFFICES ASSUME EmuInit PROVE EmuInv
  OBVIOUS
<1>1. EmuTypeOK
  <2>1. << >> \in Seq(Entry)
    OBVIOUS
  <2>2. store \in [{NonVolatile, Volatile} -> Seq(Entry)]
    BY <2>1 DEF EmuInit
  <2>. QED
    BY <2>2, SizeAssumption DEF EmuInit, EmuTypeOK, Statuses
<1>2. Slots = {}
  BY DEF EmuInit, Slots
<1>3. OneVisible
  BY <1>2 DEF OneVisible
<1>4. LogsFit
  BY SizeAssumption DEF EmuInit, LogsFit
<1>. QED
  BY <1>1, <1>3, <1>4 DEF EmuInv

\* Counting an entry that fits keeps the logs inside their stores.
LEMMA AccountFits ==
  ASSUME EmuTypeOK, LogsFit, NEW a \in AttributeSets, NEW size \in Nat,
         Fits(a, size), Account(a, size)
  PROVE  /\ lastOffset' \in [{NonVolatile, Volatile} -> Nat]
         /\ commonTotal' \in Nat /\ hwErrTotal' \in Nat
         /\ LogsFit'
<1>1. CASE {"NV", "HR"} \subseteq a
  BY <1>1, SizeAssumption DEF EmuTypeOK, LogsFit, Fits, Account, StoreOf
<1>2. CASE "NV" \in a /\ "HR" \notin a
  BY <1>2, SizeAssumption DEF EmuTypeOK, LogsFit, Fits, Account, StoreOf
<1>3. CASE "NV" \notin a
  BY <1>3, SizeAssumption DEF EmuTypeOK, LogsFit, Fits, Account, StoreOf
<1>. QED
  BY <1>1, <1>2, <1>3

LEMMA SetStatus ==
  ASSUME NEW k, NEW a, NEW d, EmuSetVariable(k, a, d)
  PROVE  status' \in Statuses
BY DEF EmuSetVariable, UpdateVariable, SetDell, SetRefused, UpdateRefused, SetSameData,
       DeleteExisting, Replace, Create, Answer, Statuses

LEMMA SetKeepsInv ==
  ASSUME EmuInv, NEW k \in Key, NEW a \in AttributeSets, NEW d \in Data \cup {NoData},
         EmuSetVariable(k, a, d)
  PROVE  EmuInv'
<1>. USE TypeIsLogs DEF EmuInv
<1>1. StepShape(k, a, d)
  BY SetShape
<1>2. status' \in Statuses
  BY SetStatus
<1>3. CASE UNCHANGED << store, totals, mAtRuntime >>
  BY <1>2, <1>3 DEF totals, EmuTypeOK, OneVisible, LogsFit, Slots, At, Visible
<1>4. CASE /\ UNCHANGED << totals, mAtRuntime >>
           /\ \E s \in Slots, x \in States \ {"ADDED"} :
                Matches(k) = {s} /\ WritableNow(s) /\ store' = Mark(store, s, x)
  <2>1. PICK s \in Slots, x \in States \ {"ADDED"} : store' = Mark(store, s, x)
    BY <1>4
  <2>2. store' \in Logs /\ OneVisible'
    BY <1>4, <2>1, MarkStep
  <2>. QED
    BY <1>2, <1>4, <2>2 DEF totals, EmuTypeOK, LogsFit, Logs
<1>5. CASE /\ UNCHANGED mAtRuntime
           /\ d \in Data
           /\ Fits(a, VarSize[<< k, d >>]) /\ Account(a, VarSize[<< k, d >>])
           /\ \/ Matches(k) = {} /\ store' = AppendTo(store, k, a, d)
              \/ \E s \in Slots : /\ Matches(k) = {s} /\ WritableNow(s)
                                  /\ store' = AppendTo(Mark(store, s, "DELETED"), k, a, d)
  <2>1. PICK r : r = Room(store, a)
    OBVIOUS
  <2>2. store' \in Logs /\ OneVisible'
    <3>1. CASE Matches(k) = {} /\ store' = AppendTo(store, k, a, d)
      BY <1>5, <2>1, <3>1, CreateStep
    <3>2. CASE \E s \in Slots : /\ Matches(k) = {s}
                                /\ store' = AppendTo(Mark(store, s, "DELETED"), k, a, d)
      BY <1>5, <2>1, <3>2, ReplaceStep
    <3>. QED
      BY <1>5, <3>1, <3>2
  <2>3. VarSize[<< k, d >>] \in Nat
    BY <1>5, SizeFacts
  <2>4. /\ lastOffset' \in [{NonVolatile, Volatile} -> Nat]
        /\ commonTotal' \in Nat /\ hwErrTotal' \in Nat
        /\ LogsFit'
    BY <1>5, <2>3, AccountFits
  <2>. QED
    BY <1>2, <1>5, <2>2, <2>4 DEF EmuTypeOK, Logs
<1>. QED
  BY <1>1, <1>3, <1>4, <1>5 DEF StepShape

LEMMA ExitKeepsInv ==
  ASSUME EmuInv, ExitBootServices
  PROVE  EmuInv'
<1>1. Slots' = Slots /\ \A s \in Slots : At(s)' = At(s)
  BY DEF ExitBootServices, Slots, At
<1>2. \A s \in Slots : Visible(s)' => Visible(s)
  BY <1>1 DEF ExitBootServices, Visible
<1>3. OneVisible'
  BY <1>1, <1>2 DEF EmuInv, OneVisible
<1>. QED
  BY <1>3 DEF EmuInv, ExitBootServices, EmuTypeOK, LogsFit, totals

LEMMA NextKeepsInv == EmuInv /\ [EmuNext]_emuVars => EmuInv'
<1>. SUFFICES ASSUME EmuInv, [EmuNext]_emuVars PROVE EmuInv'
  OBVIOUS
<1>1. CASE \E k \in Key, a \in AttributeSets, d \in Data \cup {NoData} : EmuSetVariable(k, a, d)
  BY <1>1, SetKeepsInv
<1>2. CASE ExitBootServices
  BY <1>2, ExitKeepsInv
<1>3. CASE UNCHANGED emuVars
  BY <1>3 DEF emuVars, totals, EmuInv, EmuTypeOK, OneVisible, LogsFit, Slots, At, Visible
<1>. QED
  BY <1>1, <1>2, <1>3 DEF EmuNext

\* Whatever is written, replaced, deleted or lost, and at whatever sizes, the
\* logs and counters keep their types, FindVariable has at most one entry to
\* find, and both logs stay inside their stores.
THEOREM EmuInvariance == EmuSpec => [](EmuTypeOK /\ OneVisible /\ LogsFit)
<1>1. EmuInv /\ [EmuNext]_emuVars => EmuInv'
  BY NextKeepsInv
<1>. QED
  BY InitInv, <1>1, PTL DEF EmuSpec, EmuInv

\* After every sequence of calls and ExitBootServices both stores are logs of
\* entries in one of the states the driver leaves them in, and no counter has been
\* moved below zero.
THEOREM EmuTypeCorrect == EmuSpec => []EmuTypeOK
BY EmuInvariance, PTL

\* RuntimeServiceSetVariable only appends, and refuses before it writes: no log
\* ever grows past its store, nor do the hardware error records past their share.
THEOREM EmuLogsFit == EmuSpec => []LogsFit
BY EmuInvariance, PTL
-------------------------------------------------------------------------------
(* What EmuQueryVariableInfo adds up *)

\* The sizes a walk meets are numbers.
LEMMA EntrySizes ==
  ASSUME store \in Logs, NEW i \in {0, 1}, NEW hw \in BOOLEAN, NEW m \in 1 .. Len(store[i])
  PROVE  EntrySize(i, hw, m) \in Nat
<1>1. store[i][m] \in Entry
  BY DEF Logs
<1>2. VarSize[<< store[i][m].key, store[i][m].data >>] \in Nat
  BY <1>1, SizeFacts DEF Entry
<1>. QED
  BY <1>2 DEF EntrySize

\* SizeOf is the sum it is meant to be.
LEMMA SizeOfSums ==
  store \in Logs =>
    \A i \in {0, 1}, hw \in BOOLEAN :
      /\ \A n \in 0 .. Len(store[i]) : SizeOf(i, hw, n) \in Int
      /\ SizeOf(i, hw, 0) = 0
      /\ \A n \in 1 .. Len(store[i]) :
           SizeOf(i, hw, n) = SizeOf(i, hw, n - 1) + EntrySize(i, hw, n)
<1>. SUFFICES ASSUME store \in Logs, NEW i \in {0, 1}, NEW hw \in BOOLEAN
              PROVE  /\ \A n \in 0 .. Len(store[i]) : SizeOf(i, hw, n) \in Int
                     /\ SizeOf(i, hw, 0) = 0
                     /\ \A n \in 1 .. Len(store[i]) :
                          SizeOf(i, hw, n) = SizeOf(i, hw, n - 1) + EntrySize(i, hw, n)
  OBVIOUS
<1>. DEFINE L == Len(store[i])
            t == [m \in 1 .. L |-> EntrySize(i, hw, m)]
            P(f) == f = [m \in 0 .. L |-> IF m = 0 THEN 0 ELSE f[m - 1] + EntrySize(i, hw, m)]
            s == CHOOSE f : P(f)
<1>1. L \in Nat
  BY DEF Logs
<1>2. t \in [1 .. L -> Int]
  BY EntrySizes
<1>3. PICK f : IsSum(f, t, L)
  <2>. HIDE DEF L, t
  <2>. QED
    BY <1>1, <1>2, SumExists, Zenon
<1>4. P(f)
  <2>1. DOMAIN f = 0 .. L /\ f = [m \in 0 .. L |-> f[m]]
    <3>. HIDE DEF L
    <3>. QED
      BY <1>3 DEF IsSum
  <2>2. \A m \in 0 .. L : f[m] = IF m = 0 THEN 0 ELSE f[m - 1] + EntrySize(i, hw, m)
    <3>1. \A m \in 1 .. L : t[m] = EntrySize(i, hw, m)
      OBVIOUS
    <3>. HIDE DEF t, L
    <3>2. f[0] = 0 /\ \A m \in 1 .. L : f[m] = f[m - 1] + t[m]
      BY <1>3 DEF IsSum
    <3>3. \A m \in 0 .. L : m = 0 \/ m \in 1 .. L
      BY <1>1
    <3>. QED
      BY <3>1, <3>2, <3>3
  <2>3. PICK d : d = 0 .. L
    OBVIOUS
  <2>4. f = [m \in d |-> f[m]] /\ \A m \in d : f[m] = IF m = 0 THEN 0 ELSE f[m - 1] + EntrySize(i, hw, m)
    BY <2>1, <2>2, <2>3
  <2>5. f = [m \in d |-> IF m = 0 THEN 0 ELSE f[m - 1] + EntrySize(i, hw, m)]
    BY <2>4, Zenon
  <2>. QED
    BY <2>3, <2>5
<1>5. P(s)
  BY <1>4, Zenon
<1>6. \A n : SizeOf(i, hw, n) = s[n]
  BY Zenon DEF SizeOf
<1>. HIDE DEF s
<1>7. s[0] = 0 /\ \A n \in 1 .. L : s[n] = s[n - 1] + EntrySize(i, hw, n)
  BY <1>1, <1>5
<1>8. f[0] = 0 /\ \A n \in 1 .. L : f[n] = f[n - 1] + EntrySize(i, hw, n)
  BY <1>1, <1>4
<1>9. \A n \in 0 .. L : s[n] = f[n]
  <2>. HIDE DEF L
  <2>1. \A n \in 1 .. L : s[n - 1] = f[n - 1] => s[n] = f[n]
    BY <1>7, <1>8, Zenon
  <2>2. s[0] = f[0]
    BY <1>7, <1>8
  <2>. QED
    BY <1>1, <2>1, <2>2, SumsAgree, Zenon
<1>10. \A n \in 0 .. L : s[n] \in Int
  BY <1>3, <1>9 DEF IsSum
<1>. QED
  BY <1>6, <1>7, <1>10

LEMMA SizeOfSumsNext ==
  (store \in Logs)' =>
    (\A i \in {0, 1}, hw \in BOOLEAN :
      /\ \A n \in 0 .. Len(store[i]) : SizeOf(i, hw, n) \in Int
      /\ SizeOf(i, hw, 0) = 0
      /\ \A n \in 1 .. Len(store[i]) :
           SizeOf(i, hw, n) = SizeOf(i, hw, n - 1) + EntrySize(i, hw, n))'
BY SizeOfSums, PTL

\* A step that leaves the keys, attributes and data of the first n entries of a
\* log alone, whatever it does to their states, leaves their sum alone.
LEMMA SizeOfKept ==
  ASSUME store \in Logs, store' \in Logs, NEW i \in {0, 1}, NEW hw \in BOOLEAN,
         Len(store'[i]) >= Len(store[i]),
         \A m \in 1 .. Len(store[i]) :
           /\ store'[i][m].key = store[i][m].key /\ store'[i][m].attr = store[i][m].attr
           /\ store'[i][m].data = store[i][m].data
  PROVE  \A n \in 0 .. Len(store[i]) : SizeOf(i, hw, n)' = SizeOf(i, hw, n)
<1>. DEFINE L == Len(store[i])
<1>0. PICK f, g : /\ f = [n \in 0 .. L |-> SizeOf(i, hw, n)]
                  /\ g = [n \in 0 .. L |-> SizeOf(i, hw, n)']
  OBVIOUS
<1>1. L \in Nat /\ Len(store'[i]) \in Nat
  BY DEF Logs
<1>2. \A m \in 1 .. L : EntrySize(i, hw, m)' = EntrySize(i, hw, m)
  BY DEF EntrySize
<1>3. /\ SizeOf(i, hw, 0) = 0
      /\ \A n \in 1 .. L : SizeOf(i, hw, n) = SizeOf(i, hw, n - 1) + EntrySize(i, hw, n)
  BY SizeOfSums
<1>4. /\ SizeOf(i, hw, 0)' = 0
      /\ \A n \in 1 .. L : SizeOf(i, hw, n)' = SizeOf(i, hw, n - 1)' + EntrySize(i, hw, n)'
  BY <1>1, SizeOfSumsNext
<1>5. f[0] = g[0]
  BY <1>0, <1>1, <1>3, <1>4
<1>6. \A m \in 1 .. L : f[m - 1] = g[m - 1] => f[m] = g[m]
  <2>. SUFFICES ASSUME NEW m \in 1 .. L, f[m - 1] = g[m - 1] PROVE f[m] = g[m]
    OBVIOUS
  <2>1. m - 1 \in 0 .. L /\ m \in 0 .. L
    BY <1>1
  <2>2. SizeOf(i, hw, m - 1) = SizeOf(i, hw, m - 1)'
    BY <1>0, <2>1
  <2>. QED
    BY <1>0, <1>2, <1>3, <1>4, <2>1, <2>2
<1>7. PICK n : n = L
  OBVIOUS
<1>8. \A m \in 0 .. n : f[m] = g[m]
  BY <1>1, <1>5, <1>6, <1>7, SumsAgree
<1>. QED
  BY <1>0, <1>7, <1>8

\* The counters of UpdateVariable are the sums of the logs.
CountersInv ==
  /\ commonTotal = SizeOf(0, FALSE, Len(store[0]))
  /\ hwErrTotal = SizeOf(0, TRUE, Len(store[0]))
  /\ lastOffset[1] = HeaderSize + SizeOf(1, FALSE, Len(store[1])) + SizeOf(1, TRUE, Len(store[1]))

\* Up to the states of its entries, one pair of logs begins with the other.
Extends(new, old) ==
  \A i \in {0, 1} :
    /\ Len(new[i]) >= Len(old[i])
    /\ \A m \in 1 .. Len(old[i]) :
         /\ new[i][m].key = old[i][m].key /\ new[i][m].attr = old[i][m].attr
         /\ new[i][m].data = old[i][m].data

LEMMA MarkExtends ==
  ASSUME store \in Logs, NEW s \in Slots, NEW x \in States
  PROVE  /\ Mark(store, s, x) \in Logs
         /\ \A j \in {0, 1} : Len(Mark(store, s, x)[j]) = Len(store[j])
         /\ Extends(Mark(store, s, x), store)
<1>1. /\ s[1] \in {0, 1} /\ s[2] \in 1 .. Len(store[s[1]])
      /\ s = << s[1], s[2] >> /\ At(s) \in Entry
  BY SlotFacts
<1>2. PICK logs : logs = Mark(store, s, x)
  OBVIOUS
<1>3. /\ logs \in Logs
      /\ \A j \in {0, 1} : Len(logs[j]) = Len(store[j])
      /\ \A j \in {0, 1} : \A m \in 1 .. Len(store[j]) :
           logs[j][m] = IF j = s[1] /\ m = s[2] THEN Marked(At(s), x) ELSE store[j][m]
  BY <1>1, <1>2, MarkLogs DEF At
<1>4. \A j \in {0, 1} : Len(store[j]) \in Nat
  BY DEF Logs
<1>5. /\ Marked(At(s), x).key = At(s).key /\ Marked(At(s), x).attr = At(s).attr
      /\ Marked(At(s), x).data = At(s).data
  BY <1>1, MarkedEntry
<1>6. Extends(logs, store)
  BY <1>1, <1>3, <1>4, <1>5 DEF Extends, At
<1>. QED
  BY <1>2, <1>3, <1>6

\* Entries that keep what they hold keep their sums.
LEMMA KeptSums ==
  ASSUME store \in Logs, store' \in Logs, Extends(store', store),
         \A j \in {0, 1} : Len(store'[j]) = Len(store[j])
  PROVE  \A i \in {0, 1}, hw \in BOOLEAN :
           SizeOf(i, hw, Len(store[i]))' = SizeOf(i, hw, Len(store[i]))
<1>. SUFFICES ASSUME NEW i \in {0, 1}, NEW hw \in BOOLEAN
              PROVE  SizeOf(i, hw, Len(store[i]))' = SizeOf(i, hw, Len(store[i]))
  OBVIOUS
<1>1. PICK n : n = Len(store[i])
  OBVIOUS
<1>2. Len(store[i])' = n /\ n \in Nat /\ n \in 0 .. n
  BY <1>1 DEF Logs
<1>3. SizeOf(i, hw, Len(store[i]))' = SizeOf(i, hw, n)'
  BY <1>2
<1>4. SizeOf(i, hw, n)' = SizeOf(i, hw, n)
  BY <1>1, <1>2, SizeOfKept DEF Extends
<1>. QED
  BY <1>1, <1>3, <1>4

LEMMA UnchangedCounters ==
  ASSUME store \in Logs, CountersInv, store' \in Logs, Extends(store', store),
         \A j \in {0, 1} : Len(store'[j]) = Len(store[j]), UNCHANGED totals
  PROVE  CountersInv'
<1>1. \A i \in {0, 1}, hw \in BOOLEAN :
         SizeOf(i, hw, Len(store[i]))' = SizeOf(i, hw, Len(store[i]))
  BY KeptSums
<1>. QED
  BY <1>1 DEF CountersInv, totals

LEMMA StoreExtendsItself == store \in Logs => Extends(store, store)
<1>1. store \in Logs => \A i \in {0, 1} : Len(store[i]) \in Nat
  BY DEF Logs
<1>. QED
  BY <1>1 DEF Extends

LEMMA SameStoreCounters ==
  ASSUME store \in Logs, CountersInv, UNCHANGED << store, totals >>
  PROVE  CountersInv'
BY StoreExtendsItself, UnchangedCounters

\* An append adds its entry to the sum of its log and attribute, and to no other.
LEMMA AppendSums ==
  ASSUME store \in Logs, NEW logs \in Logs, Extends(logs, store),
         \A j \in {0, 1} : Len(logs[j]) = Len(store[j]),
         NEW k \in Key, NEW a \in AttributeSets, NEW d \in Data,
         store' = AppendTo(logs, k, a, d)
  PROVE  \A i \in {0, 1}, hw \in BOOLEAN :
           SizeOf(i, hw, Len(store[i]))' =
             SizeOf(i, hw, Len(store[i])) +
               IF i = StoreOf(a) /\ ("HR" \in a) = hw THEN VarSize[<< k, d >>] ELSE 0
<1>1. /\ StoreOf(a) \in {0, 1}
      /\ store' \in Logs
      /\ \A j \in {0, 1} : Len(store'[j]) =
           IF j = StoreOf(a) THEN Len(store[j]) + 1 ELSE Len(store[j])
      /\ \A j \in {0, 1} : \A m \in 1 .. Len(store[j]) : store'[j][m] = logs[j][m]
      /\ store'[StoreOf(a)][Len(store[StoreOf(a)]) + 1] = NewEntry(k, a, d)
  <2>1. /\ StoreOf(a) \in {0, 1}
        /\ store' \in Logs
        /\ \A j \in {0, 1} : Len(store'[j]) =
             IF j = StoreOf(a) THEN Len(logs[j]) + 1 ELSE Len(logs[j])
        /\ \A j \in {0, 1} : \A m \in 1 .. Len(logs[j]) : store'[j][m] = logs[j][m]
        /\ store'[StoreOf(a)][Len(logs[StoreOf(a)]) + 1] = NewEntry(k, a, d)
    BY AppendLogs
  <2>. QED
    BY <2>1
<1>2. \A j \in {0, 1} : Len(store[j]) \in Nat
  BY DEF Logs
<1>3. Extends(store', store)
  <2>. SUFFICES ASSUME NEW i \in {0, 1}
                PROVE  /\ Len(store'[i]) >= Len(store[i])
                       /\ \A m \in 1 .. Len(store[i]) :
                            /\ store'[i][m].key = store[i][m].key
                            /\ store'[i][m].attr = store[i][m].attr
                            /\ store'[i][m].data = store[i][m].data
    BY DEF Extends
  <2>1. Len(store'[i]) >= Len(store[i])
    BY <1>1, <1>2
  <2>2. \A m \in 1 .. Len(store[i]) : store'[i][m] = logs[i][m]
    BY <1>1
  <2>. QED
    BY <2>1, <2>2 DEF Extends
<1>. SUFFICES ASSUME NEW i \in {0, 1}, NEW hw \in BOOLEAN
              PROVE  SizeOf(i, hw, Len(store[i]))' =
                       SizeOf(i, hw, Len(store[i])) +
                         IF i = StoreOf(a) /\ ("HR" \in a) = hw THEN VarSize[<< k, d >>] ELSE 0
  OBVIOUS
<1>4. PICK n : n = Len(store[i])
  OBVIOUS
<1>5. n \in Nat /\ n \in 0 .. n
  BY <1>2, <1>4
<1>6. SizeOf(i, hw, n)' = SizeOf(i, hw, n)
  BY <1>1, <1>3, <1>4, <1>5, SizeOfKept DEF Extends
<1>7. SizeOf(i, hw, n) \in Int
  BY <1>4, <1>5, SizeOfSums
<1>8. CASE i # StoreOf(a)
  <2>1. Len(store[i])' = n
    BY <1>1, <1>4, <1>8
  <2>2. SizeOf(i, hw, Len(store[i]))' = SizeOf(i, hw, n)'
    BY <2>1
  <2>. QED
    BY <1>4, <1>6, <1>7, <1>8, <2>2
<1>9. CASE i = StoreOf(a)
  <2>1. Len(store[i])' = n + 1
    BY <1>1, <1>4, <1>9
  <2>2. SizeOf(i, hw, Len(store[i]))' = SizeOf(i, hw, n + 1)'
    BY <2>1
  <2>3. n + 1 \in 1 .. Len(store'[i]) /\ (n + 1) - 1 = n
    BY <1>5, <2>1
  <2>4. PICK q : q = n + 1
    OBVIOUS
  <2>5. SizeOf(i, hw, q)' = SizeOf(i, hw, q - 1)' + EntrySize(i, hw, q)'
    BY <1>1, <2>3, <2>4, SizeOfSumsNext
  <2>6. EntrySize(i, hw, q)' = IF ("HR" \in a) = hw THEN VarSize[<< k, d >>] ELSE 0
    <3>1. store'[i][q] = NewEntry(k, a, d)
      BY <1>1, <1>4, <1>9, <2>4
    <3>. QED
      BY <3>1 DEF EntrySize, NewEntry
  <2>7. SizeOf(i, hw, q - 1)' = SizeOf(i, hw, n)'
    BY <1>5, <2>4
  <2>. QED
    BY <1>4, <1>6, <1>9, <2>2, <2>4, <2>5, <2>6, <2>7
<1>. QED
  BY <1>8, <1>9

LEMMA CountersStep ==
  ASSUME EmuInv, CountersInv, NEW k \in Key, NEW a \in AttributeSets,
         NEW d \in Data \cup {NoData}, EmuSetVariable(k, a, d)
  PROVE  CountersInv'
<1>. USE TypeIsLogs DEF EmuInv
<1>1. StepShape(k, a, d)
  BY SetShape
<1>2. \A i \in {0, 1}, hw \in BOOLEAN : SizeOf(i, hw, Len(store[i])) \in Int
  <2>1. \A i \in {0, 1} : Len(store[i]) \in Nat
    BY DEF Logs
  <2>. QED
    BY <2>1, SizeOfSums
<1>3. CASE UNCHANGED << store, totals, mAtRuntime >>
  BY <1>3, SameStoreCounters
<1>4. CASE /\ UNCHANGED << totals, mAtRuntime >>
           /\ \E s \in Slots, x \in States \ {"ADDED"} : store' = Mark(store, s, x)
  <2>1. PICK s \in Slots, x \in States : store' = Mark(store, s, x)
    BY <1>4
  <2>2. /\ store' \in Logs /\ \A j \in {0, 1} : Len(store'[j]) = Len(store[j])
        /\ Extends(store', store)
    BY <2>1, MarkExtends
  <2>. QED
    BY <1>4, <2>2, UnchangedCounters
<1>5. CASE /\ d \in Data
           /\ Account(a, VarSize[<< k, d >>])
           /\ \/ store' = AppendTo(store, k, a, d)
              \/ \E s \in Slots : store' = AppendTo(Mark(store, s, "DELETED"), k, a, d)
  <2>1. PICK logs \in Logs : /\ store' = AppendTo(logs, k, a, d)
                             /\ \A j \in {0, 1} : Len(logs[j]) = Len(store[j])
                             /\ Extends(logs, store)
    <3>1. CASE store' = AppendTo(store, k, a, d)
      BY <3>1, StoreExtendsItself
    <3>2. CASE \E s \in Slots : store' = AppendTo(Mark(store, s, "DELETED"), k, a, d)
      <4>1. PICK s \in Slots : store' = AppendTo(Mark(store, s, "DELETED"), k, a, d)
        BY <3>2
      <4>. QED
        BY <4>1, MarkExtends DEF States
    <3>. QED
      BY <1>5, <3>1, <3>2
  <2>2. \A i \in {0, 1}, hw \in BOOLEAN :
           SizeOf(i, hw, Len(store[i]))' =
             SizeOf(i, hw, Len(store[i])) +
               IF i = StoreOf(a) /\ ("HR" \in a) = hw THEN VarSize[<< k, d >>] ELSE 0
    BY <1>5, <2>1, AppendSums
  <2>3. VarSize[<< k, d >>] \in Nat
    BY <1>5, SizeFacts
  <2>4. lastOffset \in [{0, 1} -> Nat]
    BY DEF EmuTypeOK
  <2>5. PICK size : size = VarSize[<< k, d >>]
    OBVIOUS
  <2>6. PICK c, h, v, w : /\ c = SizeOf(0, FALSE, Len(store[0])) /\ h = SizeOf(0, TRUE, Len(store[0]))
                          /\ v = SizeOf(1, FALSE, Len(store[1])) /\ w = SizeOf(1, TRUE, Len(store[1]))
    OBVIOUS
  <2>7. c \in Int /\ h \in Int /\ v \in Int /\ w \in Int /\ size \in Nat /\ HeaderSize \in Nat
    BY <1>2, <2>3, <2>5, <2>6, SizeAssumption
  <2>8. commonTotal = c /\ hwErrTotal = h /\ lastOffset[1] = HeaderSize + v + w
    BY <2>6 DEF CountersInv
  <2>9. /\ SizeOf(0, FALSE, Len(store[0]))' = c + IF "NV" \in a /\ "HR" \notin a THEN size ELSE 0
        /\ SizeOf(0, TRUE, Len(store[0]))' = h + IF "NV" \in a /\ "HR" \in a THEN size ELSE 0
        /\ SizeOf(1, FALSE, Len(store[1]))' = v + IF "NV" \notin a /\ "HR" \notin a THEN size ELSE 0
        /\ SizeOf(1, TRUE, Len(store[1]))' = w + IF "NV" \notin a /\ "HR" \in a THEN size ELSE 0
    <3>1. /\ StoreOf(a) = 0 <=> "NV" \in a
          /\ StoreOf(a) = 1 <=> "NV" \notin a
      BY DEF StoreOf
    <3>2. ("HR" \in a) \in BOOLEAN
      OBVIOUS
    <3>3. SizeOf(0, FALSE, Len(store[0]))' =
            c + IF 0 = StoreOf(a) /\ ("HR" \in a) = FALSE THEN size ELSE 0
      BY <2>2, <2>5, <2>6
    <3>4. SizeOf(0, TRUE, Len(store[0]))' =
            h + IF 0 = StoreOf(a) /\ ("HR" \in a) = TRUE THEN size ELSE 0
      BY <2>2, <2>5, <2>6
    <3>5. SizeOf(1, FALSE, Len(store[1]))' =
            v + IF 1 = StoreOf(a) /\ ("HR" \in a) = FALSE THEN size ELSE 0
      BY <2>2, <2>5, <2>6
    <3>6. SizeOf(1, TRUE, Len(store[1]))' =
            w + IF 1 = StoreOf(a) /\ ("HR" \in a) = TRUE THEN size ELSE 0
      BY <2>2, <2>5, <2>6
    <3>. QED
      BY <3>1, <3>2, <3>3, <3>4, <3>5, <3>6
  <2>10. /\ commonTotal' = c + IF "NV" \in a /\ "HR" \notin a THEN size ELSE 0
         /\ hwErrTotal' = h + IF "NV" \in a /\ "HR" \in a THEN size ELSE 0
         /\ lastOffset'[1] = HeaderSize + v + w + IF "NV" \notin a THEN size ELSE 0
    BY <1>5, <2>4, <2>5, <2>7, <2>8 DEF Account, StoreOf
  <2>11. lastOffset'[1] =
           HeaderSize + SizeOf(1, FALSE, Len(store[1]))' + SizeOf(1, TRUE, Len(store[1]))'
    <3>1. PICK x, y : /\ x = SizeOf(1, FALSE, Len(store[1]))'
                      /\ y = SizeOf(1, TRUE, Len(store[1]))'
      OBVIOUS
    <3>2. /\ x = v + IF "NV" \notin a /\ "HR" \notin a THEN size ELSE 0
          /\ y = w + IF "NV" \notin a /\ "HR" \in a THEN size ELSE 0
      BY <2>9, <3>1
    <3>3. HeaderSize + v + w + (IF "NV" \notin a THEN size ELSE 0) = HeaderSize + x + y
      BY <2>7, <3>2
    <3>4. lastOffset'[1] = HeaderSize + x + y
      BY <2>10, <3>3
    <3>. QED
      BY <3>1, <3>4, Zenon
  <2>. QED
    BY <2>9, <2>10, <2>11 DEF CountersInv
<1>. QED
  BY <1>1, <1>3, <1>4, <1>5 DEF StepShape

LEMMA CountersInit == EmuInit => CountersInv
<1>. SUFFICES ASSUME EmuInit PROVE CountersInv
  OBVIOUS
<1>1. store \in Logs /\ \A i \in {0, 1} : Len(store[i]) = 0
  BY DEF EmuInit, Logs
<1>2. \A i \in {0, 1}, hw \in BOOLEAN : SizeOf(i, hw, 0) = 0
  BY <1>1, SizeOfSums
<1>. QED
  <2>1. lastOffset[1] = HeaderSize /\ HeaderSize + 0 + 0 = HeaderSize
    BY SizeAssumption DEF EmuInit
  <2>2. \A i \in {0, 1}, hw \in BOOLEAN : SizeOf(i, hw, Len(store[i])) = 0
    BY <1>1, <1>2
  <2>. QED
    BY <2>1, <2>2 DEF EmuInit, CountersInv

LEMMA CountersNext == EmuInv /\ CountersInv /\ [EmuNext]_emuVars => CountersInv'
<1>. SUFFICES ASSUME EmuInv, CountersInv, [EmuNext]_emuVars PROVE CountersInv'
  OBVIOUS
<1>1. CASE \E k \in Key, a \in AttributeSets, d \in Data \cup {NoData} : EmuSetVariable(k, a, d)
  BY <1>1, CountersStep
<1>2. CASE ExitBootServices
  BY <1>2, SameStoreCounters, TypeIsLogs DEF ExitBootServices, EmuInv
<1>3. CASE UNCHANGED emuVars
  BY <1>3, SameStoreCounters, TypeIsLogs DEF emuVars, EmuInv
<1>. QED
  BY <1>1, <1>2, <1>3 DEF EmuNext

LEMMA CountersQuery == EmuInv /\ CountersInv => QueryAgreesWithCounters
<1>. SUFFICES ASSUME EmuInv, CountersInv PROVE QueryAgreesWithCounters
  OBVIOUS
<1>1. store \in Logs
  BY TypeIsLogs DEF EmuInv
<1>2. \A i \in {0, 1} : Len(store[i]) \in Nat /\ (store[i] = << >> <=> Len(store[i]) = 0)
  BY <1>1 DEF Logs
<1>3. ASSUME NEW i \in {0, 1}, NEW hw \in BOOLEAN
      PROVE  /\ SizeOf(i, hw, Len(store[i])) \in Int
             /\ store[i] # << >> => SizeOf(i, hw, Len(store[i]) - 1) \in Int
             /\ store[i] = << >> => SizeOf(i, hw, Len(store[i])) = 0
  BY <1>1, <1>2, SizeOfSums
<1>4. lastOffset[1] \in Nat /\ commonTotal \in Nat /\ hwErrTotal \in Nat
  BY DEF EmuInv, EmuTypeOK
<1>5. ASSUME NEW i \in {0, 1}, NEW hw \in BOOLEAN
      PROVE  LET n == SizeOf(i, hw, Len(store[i])) - (IF store[i] = << >> THEN 0
                                                      ELSE SizeOf(i, hw, Len(store[i]) - 1))
             IN  RemainingVariableStorageSize(i, hw) - n
                   = MaximumStorage(i, hw) - SizeOf(i, hw, Len(store[i]))
  <2>1. MaximumStorage(i, hw) \in Int
    BY SizeAssumption DEF MaximumStorage
  <2>2. CASE store[i] = << >>
    BY <1>3, <2>1, <2>2 DEF RemainingVariableStorageSize, Queried
  <2>3. CASE store[i] # << >>
    BY <1>3, <2>1, <2>3 DEF RemainingVariableStorageSize, Queried
  <2>. QED
    BY <2>2, <2>3
<1>6. /\ MaximumStorage(0, FALSE) = StoreSize - HeaderSize - HwErrStorageSize
      /\ MaximumStorage(0, TRUE) = HwErrStorageSize
      /\ MaximumStorage(1, FALSE) = StoreSize - HeaderSize
  BY DEF MaximumStorage
<1>7. PICK v, w : v = SizeOf(1, FALSE, Len(store[1])) /\ w = SizeOf(1, TRUE, Len(store[1]))
  OBVIOUS
<1>8. StoreSize - HeaderSize - v - w = StoreSize - lastOffset[1]
  <2>1. v \in Int /\ w \in Int
    BY <1>3, <1>7
  <2>2. lastOffset[1] = HeaderSize + v + w
    BY <1>7 DEF CountersInv
  <2>. QED
    BY <2>1, <2>2, SizeAssumption
<1>. QED
  BY <1>5, <1>6, <1>7, <1>8 DEF CountersInv, QueryAgreesWithCounters

\* What EmuQueryVariableInfo adds up by walking a log and what UpdateVariable
\* counts as it writes agree in every state, but for the newest entry, which the
\* walk leaves out: the counters are the sums of the logs.
THEOREM QueryAgrees == EmuSpec => []QueryAgreesWithCounters
<1>1. EmuInit => EmuInv /\ CountersInv
  BY InitInv, CountersInit
<1>2. EmuInv /\ CountersInv /\ [EmuNext]_emuVars => (EmuInv /\ CountersInv)'
  BY NextKeepsInv, CountersNext
<1>. QED
  BY <1>1, <1>2, CountersQuery, PTL DEF EmuSpec
-------------------------------------------------------------------------------
(* The logs only grow *)

\* What a step may do to the entries there are.
EntriesKept ==
  \A s \in Slots :
    /\ s \in Slots'
    /\ \/ At(s)' = At(s)
       \/ /\ At(s).state = "ADDED"
          /\ \E st \in States \ {"ADDED"} : At(s)' = Marked(At(s), st)
    /\ mAtRuntime /\ (s[1] = Volatile \/ "RT" \notin At(s).attr) => At(s)' = At(s)

LEMMA SetKeepsEntries ==
  ASSUME EmuInv, NEW k \in Key, NEW a \in AttributeSets, NEW d \in Data \cup {NoData},
         EmuSetVariable(k, a, d)
  PROVE  EntriesKept
<1>. USE TypeIsLogs DEF EmuInv
<1>1. StepShape(k, a, d)
  BY SetShape
<1>2. \A s : Matches(k) = {s} /\ WritableNow(s) =>
             /\ s \in Slots /\ At(s).state = "ADDED"
             /\ ~ (mAtRuntime /\ (s[1] = Volatile \/ "RT" \notin At(s).attr))
  BY DEF Matches, Visible, WritableNow
<1>3. CASE UNCHANGED << store, totals, mAtRuntime >>
  BY <1>3 DEF EntriesKept, Slots, At
<1>4. CASE /\ UNCHANGED << totals, mAtRuntime >>
           /\ \E s \in Slots, x \in States \ {"ADDED"} :
                Matches(k) = {s} /\ WritableNow(s) /\ store' = Mark(store, s, x)
  <2>1. PICK s \in Slots, x \in States \ {"ADDED"} :
           Matches(k) = {s} /\ WritableNow(s) /\ store' = Mark(store, s, x)
    BY <1>4
  <2>. QED
    BY <1>2, <1>4, <2>1, MarkStep DEF EntriesKept
<1>5. CASE /\ UNCHANGED mAtRuntime
           /\ d \in Data
           /\ \/ Matches(k) = {} /\ store' = AppendTo(store, k, a, d)
              \/ \E s \in Slots : /\ Matches(k) = {s} /\ WritableNow(s)
                                  /\ store' = AppendTo(Mark(store, s, "DELETED"), k, a, d)
  <2>1. PICK r : r = Room(store, a)
    OBVIOUS
  <2>2. CASE Matches(k) = {} /\ store' = AppendTo(store, k, a, d)
    BY <1>5, <2>1, <2>2, CreateStep DEF EntriesKept
  <2>3. ASSUME NEW s \in Slots, Matches(k) = {s}, WritableNow(s),
               store' = AppendTo(Mark(store, s, "DELETED"), k, a, d)
        PROVE  EntriesKept
    <3>1. /\ Slots' = Slots \cup {r}
          /\ At(s)' = Marked(At(s), "DELETED")
          /\ \A t \in Slots : t # s => At(t)' = At(t)
      BY <1>5, <2>1, <2>3, ReplaceStep
    <3>. QED
      BY <1>2, <2>3, <3>1 DEF EntriesKept, States
  <2>. QED
    BY <1>5, <2>2, <2>3
<1>. QED
  BY <1>1, <1>3, <1>4, <1>5 DEF StepShape

\* No call changes what an entry holds or revives it, and what is volatile or
\* has no runtime access is never touched after ExitBootServices.
THEOREM EmuLogOnlyGrows == EmuSpec => LogOnlyGrows
<1>1. ASSUME EmuInv, [EmuNext]_emuVars PROVE [EntriesKept]_emuVars
  <2>1. CASE \E k \in Key, a \in AttributeSets, d \in Data \cup {NoData} : EmuSetVariable(k, a, d)
    BY <1>1, <2>1, SetKeepsEntries
  <2>2. CASE ExitBootServices
    BY <2>2 DEF ExitBootServices, EntriesKept, Slots, At
  <2>3. CASE UNCHANGED emuVars
    BY <2>3
  <2>. QED
    BY <1>1, <2>1, <2>2, <2>3 DEF EmuNext
<1>2. EmuInv /\ [EmuNext]_emuVars => EmuInv'
  BY NextKeepsInv
<1>. QED
  BY InitInv, <1>1, <1>2, PTL DEF EmuSpec, LogOnlyGrows, EntriesKept

-------------------------------------------------------------------------------
(* The emulated store implements VariableStore *)

\* What a caller reads follows from the visible entry of the name.
LEMMA ViewFacts ==
  (store \in Logs /\ OneVisible) =>
    \A k :
      /\ Matches(k) = {} => EmuGetVariable(k) = << >>
      /\ \A s : Matches(k) = {s} => EmuGetVariable(k) = << At(s).attr, At(s).data >>
<1>. SUFFICES ASSUME store \in Logs, OneVisible, NEW k
              PROVE  /\ Matches(k) = {} => EmuGetVariable(k) = << >>
                     /\ \A s : Matches(k) = {s} =>
                               EmuGetVariable(k) = << At(s).attr, At(s).data >>
  OBVIOUS
<1>1. Matches(k) = {} => EmuGetVariable(k) = << >>
  BY FindFacts DEF EmuGetVariable
<1>2. ASSUME NEW s, Matches(k) = {s} PROVE EmuGetVariable(k) = << At(s).attr, At(s).data >>
  <2>1. FindVariable(k) = s /\ s # NULL
    BY <1>2, FindFacts, SlotFacts DEF Matches
  <2>. QED
    BY <2>1 DEF EmuGetVariable
<1>. QED
  BY <1>1, <1>2

LEMMA ViewFactsNext ==
  (store \in Logs /\ OneVisible)' =>
    (\A k :
      /\ Matches(k) = {} => EmuGetVariable(k) = << >>
      /\ \A s : Matches(k) = {s} => EmuGetVariable(k) = << At(s).attr, At(s).data >>)'
BY ViewFacts, PTL
\* A name has no visible entry or one.
LEMMA OneOrNone ==
  ASSUME OneVisible, NEW k
  PROVE  Matches(k) = {} \/ \E s \in Slots : Matches(k) = {s}
<1>1. \A s, t \in Matches(k) : s = t
  BY DEF OneVisible, Matches
<1>2. Matches(k) \subseteq Slots
  BY DEF Matches
<1>. QED
  BY <1>1, <1>2

\* A name whose entry is left alone keeps its value.
LEMMA OthersKept ==
  ASSUME EmuInv, EmuInv', NEW j, Matches(j)' = Matches(j),
         \A t \in Matches(j) : At(t)' = At(t)
  PROVE  EmuGetVariable(j)' = EmuGetVariable(j)
<1>. USE TypeIsLogs DEF EmuInv
<1>0. store \in Logs /\ store' \in Logs
  BY DEF EmuTypeOK, Logs
<1>1. CASE Matches(j) = {}
  BY <1>0, <1>1, ViewFacts, ViewFactsNext
<1>2. CASE \E s \in Slots : Matches(j) = {s}
  <2>1. PICK s : Matches(j) = {s}
    BY <1>2
  <2>2. EmuGetVariable(j) = << At(s).attr, At(s).data >>
    BY <1>0, <2>1, ViewFacts
  <2>3. EmuGetVariable(j)' = << At(s)'.attr, At(s)'.data >>
    BY <1>0, <2>1, ViewFactsNext
  <2>. QED
    BY <2>1, <2>2, <2>3
<1>. QED
  BY <1>1, <1>2, OneOrNone

\* The value the abstract store has for a name.
View == [k \in Key |-> EmuGetVariable(k)]

\* A call that hides the entry of a name deletes or loses the name.
LEMMA MarkSimulates ==
  ASSUME EmuInv, EmuInv', NEW k \in Key, NEW s \in Slots, NEW x \in States \ {"ADDED"},
         Matches(k) = {s}, WritableNow(s), store' = Mark(store, s, x), mAtRuntime' = mAtRuntime
  PROVE  /\ View' = [View EXCEPT ![k] = << >>]
         /\ View[k] # << >>
         /\ mAtRuntime => "NV" \in View[k][1]
<1>0. store \in Logs /\ store' \in Logs /\ OneVisible /\ OneVisible'
  BY DEF EmuInv, EmuTypeOK, Logs
<1>1. /\ \A t \in Slots : t # s => At(t)' = At(t)
      /\ \A j : Matches(j)' = Matches(j) \ {s}
  BY <1>0, MarkStep
<1>2. At(s).key = k
  BY DEF Matches
<1>3. ASSUME NEW j \in Key, j # k PROVE EmuGetVariable(j)' = EmuGetVariable(j)
  <2>1. s \notin Matches(j) /\ Matches(j) \subseteq Slots
    BY <1>2, <1>3 DEF Matches
  <2>2. Matches(j)' = Matches(j) /\ \A t \in Matches(j) : At(t)' = At(t)
    BY <1>1, <2>1
  <2>. QED
    BY <2>2, OthersKept
<1>4. Matches(k)' = {}
  BY <1>1
<1>5. EmuGetVariable(k)' = << >>
  BY <1>0, <1>4, ViewFactsNext
<1>6. EmuGetVariable(k) = << At(s).attr, At(s).data >>
  BY <1>0, ViewFacts
<1>7. View' = [View EXCEPT ![k] = << >>]
  BY <1>3, <1>5 DEF View
<1>8. View[k] = << At(s).attr, At(s).data >>
  BY <1>6 DEF View
<1>9. mAtRuntime => "NV" \in At(s).attr
  BY DEF WritableNow
<1>. QED
  BY <1>7, <1>8, <1>9

\* What is read of an entry with attributes a and data d.
Seen(a, d) == IF mAtRuntime => "RT" \in a THEN << a, d >> ELSE << >>

\* A call that appends an entry stores its attributes and data.
LEMMA AppendSimulates ==
  ASSUME EmuInv, EmuInv', NEW k \in Key, NEW a \in AttributeSets, NEW d \in Data,
         mAtRuntime' = mAtRuntime,
         \/ Matches(k) = {} /\ store' = AppendTo(store, k, a, d)
         \/ \E s \in Slots : /\ Matches(k) = {s}
                             /\ store' = AppendTo(Mark(store, s, "DELETED"), k, a, d)
  PROVE  View' = [View EXCEPT ![k] = Seen(a, d)]
<1>0. store \in Logs /\ store' \in Logs /\ OneVisible /\ OneVisible'
  BY DEF EmuInv, EmuTypeOK, Logs
<1>1. PICK r : r = Room(store, a)
  OBVIOUS
<1>2. /\ At(r)' = NewEntry(k, a, d)
      /\ \A t \in Slots : At(t).key # k \/ ~ Visible(t) => At(t)' = At(t)
      /\ \A j : j # k => Matches(j)' = Matches(j)
      /\ Matches(k)' = IF mAtRuntime => "RT" \in a THEN {r} ELSE {}
  <2>1. CASE Matches(k) = {} /\ store' = AppendTo(store, k, a, d)
    BY <1>0, <1>1, <2>1, CreateStep
  <2>2. ASSUME NEW s \in Slots, Matches(k) = {s},
               store' = AppendTo(Mark(store, s, "DELETED"), k, a, d)
        PROVE  /\ At(r)' = NewEntry(k, a, d)
               /\ \A t \in Slots : t # s => At(t)' = At(t)
               /\ \A j : j # k => Matches(j)' = Matches(j)
               /\ Matches(k)' = IF mAtRuntime => "RT" \in a THEN {r} ELSE {}
    BY <1>0, <1>1, <2>2, ReplaceStep
  <2>3. \A s : Matches(k) = {s} => At(s).key = k /\ Visible(s)
    BY DEF Matches
  <2>. QED
    BY <2>1, <2>2, <2>3
<1>3. ASSUME NEW j \in Key, j # k PROVE EmuGetVariable(j)' = EmuGetVariable(j)
  <2>1. \A t \in Matches(j) : t \in Slots /\ At(t).key # k
    BY <1>3 DEF Matches
  <2>. QED
    BY <1>2, <1>3, <2>1, OthersKept
<1>4. EmuGetVariable(k)' = Seen(a, d)
  <2>1. CASE mAtRuntime => "RT" \in a
    <3>1. EmuGetVariable(k)' = << At(r)'.attr, At(r)'.data >>
      BY <1>0, <1>2, <2>1, ViewFactsNext
    <3>. QED
      BY <1>2, <2>1, <3>1 DEF Seen, NewEntry
  <2>2. CASE ~ (mAtRuntime => "RT" \in a)
    <3>1. EmuGetVariable(k)' = << >>
      BY <1>0, <1>2, <2>2, ViewFactsNext
    <3>. QED
      BY <2>2, <3>1 DEF Seen
  <2>. QED
    BY <2>1, <2>2
<1>. QED
  BY <1>3, <1>4 DEF View
\* A call that only answers changes no value.
LEMMA AnswerSimulates ==
  ASSUME NEW st, Answer(st)
  PROVE  View' = View /\ mAtRuntime' = mAtRuntime /\ status' = st
BY DEF Answer, View, EmuGetVariable, FindVariable, Matches, Slots, Visible, At

LEMMA SetSimulates ==
  ASSUME EmuInv, EmuInv',
         NEW k \in Key, NEW a \in AttributeSets, NEW d \in Data \cup {NoData},
         EmuSetVariable(k, a, d)
  PROVE  Abstract!StoreNext
<1>. USE DEF View
<1>0. store \in Logs /\ OneVisible
  BY DEF EmuInv, EmuTypeOK, Logs
<1>1. CASE \E st \in Statuses : Answer(st)
  <2>1. PICK st \in Statuses : Answer(st)
    BY <1>1
  <2>2. View' = View /\ mAtRuntime' = mAtRuntime /\ status' = st
    BY <2>1, AnswerSimulates
  <2>3. Abstract!Refused \/ Abstract!Keep
    BY <2>2 DEF Abstract!Refused, Abstract!Keep, Abstract!Errors, Statuses
  <2>. QED
    BY <2>3 DEF Abstract!StoreNext
<1>2. CASE DeleteExisting(k, a, d)
  <2>1. PICK s : s = FindVariable(k)
    OBVIOUS
  <2>2. /\ Matches(k) = {s} /\ s \in Slots /\ WritableNow(s)
        /\ store' = Mark(store, s, "DELETED") /\ mAtRuntime' = mAtRuntime
        /\ status' = "SUCCESS"
    BY <1>0, <1>2, <2>1, FoundIsOnly DEF DeleteExisting
  <2>3. /\ View' = [View EXCEPT ![k] = << >>]
        /\ View[k] # << >>
        /\ mAtRuntime => "NV" \in View[k][1]
    BY <2>2, MarkSimulates DEF States
  <2>4. Abstract!Delete(k)
    BY <2>2, <2>3 DEF Abstract!Delete, Abstract!Changeable, Abstract!Absent
  <2>. QED
    BY <2>4 DEF Abstract!StoreNext
<1>3. CASE Replace(k, a, d)
  <2>1. PICK s : s = FindVariable(k)
    OBVIOUS
  <2>2. /\ Matches(k) = {s} /\ s \in Slots /\ WritableNow(s) /\ mAtRuntime' = mAtRuntime
        /\ d \in Data
    BY <1>0, <1>3, <2>1, FoundIsOnly DEF Replace, Deletes
  <2>3. CASE Fits(a, VarSize[<< k, d >>])
    <3>1. /\ store' = AppendTo(Mark(store, s, "DELETED"), k, a, d)
          /\ status' = "SUCCESS"
      BY <1>3, <2>1, <2>3 DEF Replace, Supersede
    <3>2. View' = [View EXCEPT ![k] = Seen(a, d)]
      BY <2>2, <3>1, AppendSimulates
    <3>3. View[k] = << At(s).attr, At(s).data >>
      BY <1>0, <2>2, ViewFacts
    <3>4. Abstract!Changeable(k)
      BY <2>2, <3>3 DEF Abstract!Changeable, Abstract!Absent, WritableNow
    <3>5. Abstract!Put(k, a, d)
      BY <2>2, <3>1, <3>2, <3>4
      DEF Abstract!Put, Abstract!Readable, Abstract!Absent, Seen
    <3>. QED
      BY <2>2, <3>5 DEF Abstract!StoreNext
  <2>4. CASE ~ Fits(a, VarSize[<< k, d >>])
    <3>1. /\ store' = Mark(store, s, "IN_DELETED_TRANSITION")
          /\ status' = "OUT_OF_RESOURCES"
      BY <1>3, <2>1, <2>4 DEF Replace, Supersede
    <3>2. /\ View' = [View EXCEPT ![k] = << >>]
          /\ View[k] # << >>
          /\ mAtRuntime => "NV" \in View[k][1]
      BY <2>2, <3>1, MarkSimulates DEF States
    <3>3. Abstract!Lose(k)
      BY <2>2, <3>1, <3>2 DEF Abstract!Lose, Abstract!Changeable, Abstract!Absent
    <3>. QED
      BY <3>3 DEF Abstract!StoreNext
  <2>. QED
    BY <2>3, <2>4
<1>4. CASE Create(k, a, d)
  <2>1. /\ Matches(k) = {} /\ d \in Data /\ mAtRuntime' = mAtRuntime
        /\ store' = AppendTo(store, k, a, d)
        /\ status' = "SUCCESS" /\ CreatableNow(a)
    BY <1>0, <1>4, FindFacts DEF Create, Deletes
  <2>2. View' = [View EXCEPT ![k] = Seen(a, d)]
    BY <2>1, AppendSimulates
  <2>3. View[k] = << >>
    BY <1>0, <2>1, ViewFacts
  <2>4. Abstract!Creatable(k, a)
    BY <2>1, <2>3 DEF Abstract!Creatable, Abstract!Absent, CreatableNow
  <2>5. Abstract!Put(k, a, d)
    BY <2>1, <2>2, <2>4 DEF Abstract!Put, Abstract!Readable, Abstract!Absent, Seen
  <2>. QED
    BY <2>1, <2>5 DEF Abstract!StoreNext
<1>. QED
  BY <1>1, <1>2, <1>3, <1>4
  DEF EmuSetVariable, UpdateVariable, SetDell, SetRefused, UpdateRefused, SetSameData, Statuses

LEMMA ExitSimulates ==
  ASSUME EmuInv, EmuInv', ExitBootServices
  PROVE  Abstract!StoreNext
<1>0. /\ store \in Logs /\ store' \in Logs /\ OneVisible /\ OneVisible'
      /\ store' = store /\ ~ mAtRuntime /\ mAtRuntime' = TRUE /\ status' = status
  BY DEF EmuInv, EmuTypeOK, Logs, ExitBootServices
<1>1. Slots' = Slots /\ \A s : At(s)' = At(s)
  BY <1>0 DEF Slots, At
<1>2. \A k : Matches(k)' = {s \in Matches(k) : "RT" \in At(s).attr}
  BY <1>0, <1>1 DEF Matches, Visible
<1>3. ASSUME NEW k \in Key
      PROVE  EmuGetVariable(k)' =
               IF EmuGetVariable(k) # << >> /\ "RT" \notin EmuGetVariable(k)[1]
               THEN << >> ELSE EmuGetVariable(k)
  <2>1. CASE Matches(k) = {}
    <3>1. Matches(k)' = {}
      BY <1>2, <2>1
    <3>. QED
      BY <1>0, <2>1, <3>1, ViewFacts, ViewFactsNext
  <2>2. ASSUME NEW s, Matches(k) = {s}
        PROVE  EmuGetVariable(k)' =
                 IF EmuGetVariable(k) # << >> /\ "RT" \notin EmuGetVariable(k)[1]
                 THEN << >> ELSE EmuGetVariable(k)
    <3>1. EmuGetVariable(k) = << At(s).attr, At(s).data >>
      BY <1>0, <2>2, ViewFacts
    <3>2. CASE "RT" \in At(s).attr
      <4>1. Matches(k)' = {s}
        BY <1>2, <2>2, <3>2
      <4>2. EmuGetVariable(k)' = << At(s)'.attr, At(s)'.data >>
        BY <1>0, <4>1, ViewFactsNext
      <4>. QED
        BY <1>1, <3>1, <3>2, <4>2
    <3>3. CASE "RT" \notin At(s).attr
      <4>1. Matches(k)' = {}
        BY <1>2, <2>2, <3>3
      <4>2. EmuGetVariable(k)' = << >>
        BY <1>0, <4>1, ViewFactsNext
      <4>. QED
        BY <3>1, <3>3, <4>2
    <3>. QED
      BY <3>2, <3>3
  <2>. QED
    BY <1>0, <2>1, <2>2, OneOrNone
<1>4. Abstract!ExitBoot
  BY <1>0, <1>3 DEF Abstract!ExitBoot, Abstract!Absent
<1>. QED
  BY <1>4 DEF Abstract!StoreNext

\* The two logs, with everything they keep, are a map from names to values: every
\* call changes at most its own name, an error changes nothing except that a
\* replacement without room loses the old value, and at runtime what is
\* volatile cannot be changed.
THEOREM EmuImplementsStore == EmuSpec => ImplementsStore
<1>1. EmuInit => Abstract!StoreInit
  <2>. SUFFICES ASSUME EmuInit PROVE Abstract!StoreInit
    OBVIOUS
  <2>1. \A k : Matches(k) = {}
    BY DEF EmuInit, Matches, Slots
  <2>2. store \in Logs /\ OneVisible
    BY InitInv DEF EmuInv, EmuTypeOK, Logs
  <2>3. \A k \in Key : EmuGetVariable(k) = << >>
    BY <2>1, <2>2, ViewFacts
  <2>. QED
    BY <2>3 DEF EmuInit, Abstract!StoreInit, Abstract!Absent
<1>2. EmuInv /\ EmuInv' /\ [EmuNext]_emuVars => [Abstract!StoreNext]_(Abstract!storeVars)
  <2>. SUFFICES ASSUME EmuInv, EmuInv', [EmuNext]_emuVars
                PROVE  [Abstract!StoreNext]_(Abstract!storeVars)
    OBVIOUS
  <2>1. CASE \E k \in Key, a \in AttributeSets, d \in Data \cup {NoData} : EmuSetVariable(k, a, d)
    BY <2>1, SetSimulates
  <2>2. CASE ExitBootServices
    BY <2>2, ExitSimulates
  <2>3. CASE UNCHANGED emuVars
    <3>1. View' = View
      BY <2>3 DEF emuVars, View, EmuGetVariable, FindVariable, Matches, Slots, Visible, At
    <3>. QED
      BY <2>3, <3>1 DEF emuVars, View, Abstract!storeVars
  <2>. QED
    BY <2>1, <2>2, <2>3 DEF EmuNext
<1>3. EmuInv /\ [EmuNext]_emuVars => EmuInv'
  BY NextKeepsInv
<1>. QED
  BY InitInv, <1>1, <1>2, <1>3, PTL DEF EmuSpec, ImplementsStore, Abstract!StoreSpec
-------------------------------------------------------------------------------
(* What EFI_SUCCESS means *)

\* A caller that is told EFI_SUCCESS reads what it asked for: nothing after a
\* deletion, its attributes and data after a write (nothing, if the write took
\* the runtime access away at runtime), or the same data with the attributes it
\* had before, which SetVariable did not look at.
SuccessIsStored(k, a, d) ==
  IF Deletes(a, d) THEN EmuGetVariable(k)' = << >>
  ELSE \/ EmuGetVariable(k)' = Seen(a, d)
       \/ /\ EmuGetVariable(k)' = EmuGetVariable(k)
          /\ EmuGetVariable(k) # << >> /\ EmuGetVariable(k)[2] = d

LEMMA SetContract ==
  ASSUME EmuInv, EmuInv',
         NEW k \in Key, NEW a \in AttributeSets, NEW d \in Data \cup {NoData},
         k \notin DellKey, EmuSetVariable(k, a, d), status' = "SUCCESS"
  PROVE  SuccessIsStored(k, a, d)
<1>0. store \in Logs /\ OneVisible
  BY DEF EmuInv, EmuTypeOK, Logs
<1>1. CASE DeleteExisting(k, a, d)
  <2>1. PICK s : s = FindVariable(k)
    OBVIOUS
  <2>2. /\ Matches(k) = {s} /\ s \in Slots /\ WritableNow(s) /\ Deletes(a, d)
        /\ store' = Mark(store, s, "DELETED") /\ mAtRuntime' = mAtRuntime
    BY <1>0, <1>1, <2>1, FoundIsOnly DEF DeleteExisting
  <2>3. View' = [View EXCEPT ![k] = << >>]
    BY <2>2, MarkSimulates DEF States
  <2>. QED
    BY <2>2, <2>3 DEF View, SuccessIsStored
<1>2. CASE SetSameData(k, a, d)
  <2>1. PICK s : s = FindVariable(k)
    OBVIOUS
  <2>2. Matches(k) = {s} /\ At(s).data = d /\ ~ Deletes(a, d) /\ Answer("SUCCESS")
    BY <1>0, <1>2, <2>1, FoundIsOnly DEF SetSameData
  <2>3. EmuGetVariable(k) = << At(s).attr, At(s).data >>
    BY <1>0, <2>2, ViewFacts
  <2>4. View' = View
    BY <2>2, AnswerSimulates
  <2>5. EmuGetVariable(k)' = EmuGetVariable(k)
    BY <2>4 DEF View
  <2>. QED
    BY <2>2, <2>3, <2>5 DEF SuccessIsStored
<1>3. CASE Replace(k, a, d)
  <2>1. PICK s : s = FindVariable(k)
    OBVIOUS
  <2>2. /\ Matches(k) = {s} /\ s \in Slots /\ mAtRuntime' = mAtRuntime
        /\ d \in Data /\ ~ Deletes(a, d)
        /\ store' = AppendTo(Mark(store, s, "DELETED"), k, a, d)
    BY <1>0, <1>3, <2>1, FoundIsOnly DEF Replace, Deletes, Supersede
  <2>3. View' = [View EXCEPT ![k] = Seen(a, d)]
    BY <2>2, AppendSimulates
  <2>. QED
    BY <2>2, <2>3 DEF View, SuccessIsStored
<1>4. CASE Create(k, a, d)
  <2>1. /\ Matches(k) = {} /\ d \in Data /\ mAtRuntime' = mAtRuntime /\ ~ Deletes(a, d)
        /\ store' = AppendTo(store, k, a, d)
    BY <1>0, <1>4, FindFacts DEF Create, Deletes
  <2>2. View' = [View EXCEPT ![k] = Seen(a, d)]
    BY <2>1, AppendSimulates
  <2>. QED
    BY <2>1, <2>2 DEF View, SuccessIsStored
<1>5. CASE SetRefused(k, a, d) \/ UpdateRefused(k, a, d)
  BY <1>5 DEF SetRefused, UpdateRefused, Answer
<1>. QED
  BY <1>1, <1>2, <1>3, <1>4, <1>5 DEF EmuSetVariable, UpdateVariable, SetDell

\* In every behaviour, every SetVariable that answers EFI_SUCCESS, except for
\* the writes of one vendor that are dropped, has stored what was asked for.
THEOREM EmuSuccessIsStored ==
  EmuSpec => [][\A k \in Key \ DellKey, a \in AttributeSets, d \in Data \cup {NoData} :
                  EmuSetVariable(k, a, d) /\ status' = "SUCCESS" =>
                    SuccessIsStored(k, a, d)]_emuVars
<1>1. EmuInv /\ EmuInv' /\ [EmuNext]_emuVars =>
        [\A k \in Key \ DellKey, a \in AttributeSets, d \in Data \cup {NoData} :
           EmuSetVariable(k, a, d) /\ status' = "SUCCESS" => SuccessIsStored(k, a, d)]_emuVars
  BY SetContract
<1>2. EmuInv /\ [EmuNext]_emuVars => EmuInv'
  BY NextKeepsInv
<1>. QED
  BY InitInv, <1>1, <1>2, PTL DEF EmuSpec

-------------------------------------------------------------------------------
(* The order of the slots *)

\* First finds the first of the slots it is given.
LEMMA FirstFacts ==
  ASSUME store \in Logs, NEW S, S \subseteq Slots, S # {}
  PROVE  /\ First(S) \in S
         /\ \A t \in S : First(S) = t \/ Before(First(S), t)
<1>. DEFINE P(s) == s \in S /\ \A t \in S : s = t \/ Before(s, t)
<1>1. \A s \in S : s = << s[1], s[2] >> /\ s[1] \in {0, 1} /\ s[2] \in Nat
  BY SlotFacts DEF Logs
<1>2. ASSUME NEW i \in {0, 1}, \E s \in S : s[1] = i, \A s \in S : s[1] >= i
      PROVE  \E s : P(s)
  <2>. DEFINE T == {s[2] : s \in {t \in S : t[1] = i}}
  <2>1. T \subseteq Nat /\ T # {}
    BY <1>1, <1>2
  <2>2. PICK n \in T : \A m \in T : n <= m
    BY <2>1, LeastNatural
  <2>3. PICK s \in S : s[1] = i /\ s[2] = n
    BY <2>2
  <2>4. ASSUME NEW t \in S PROVE s = t \/ Before(s, t)
    <3>1. CASE t[1] = i
      <4>1. n <= t[2]
        BY <2>2, <3>1
      <4>. QED
        BY <1>1, <2>1, <2>2, <2>3, <3>1, <4>1 DEF Before
    <3>2. CASE t[1] # i
      BY <1>1, <1>2, <2>3, <3>2 DEF Before
    <3>. QED
      BY <3>1, <3>2
  <2>. QED
    BY <2>3, <2>4
<1>3. \E s : P(s)
  <2>1. CASE \E s \in S : s[1] = 0
    BY <1>1, <1>2, <2>1
  <2>2. CASE ~ \E s \in S : s[1] = 0
    BY <1>1, <1>2, <2>2
  <2>. QED
    BY <2>1, <2>2
<1>4. P(CHOOSE s : P(s))
  BY <1>3
<1>5. First(S) = CHOOSE s : P(s)
  BY DEF First
<1>. QED
  BY <1>4, <1>5

\* The order is a strict one.
LEMMA BeforeOrders ==
  ASSUME store \in Logs, NEW r \in Slots, NEW s \in Slots, NEW t \in Slots
  PROVE  /\ ~ Before(r, r)
         /\ Before(r, s) /\ Before(s, t) => Before(r, t)
BY SlotFacts DEF Before, Logs

-------------------------------------------------------------------------------
(* The position of the enumeration *)

\* What FindVariable finds is a visible slot of its name.
LEMMA FoundSlot ==
  ASSUME store \in Logs, OneVisible, NEW k, FindVariable(k) # NULL
  PROVE  /\ FindVariable(k) \in Slots /\ Visible(FindVariable(k))
         /\ At(FindVariable(k)).key = k
BY FindFacts DEF Matches

LEMMA AheadFacts ==
  ASSUME EmuInv, walk.on, Ahead # {}
  PROVE  /\ First(Ahead) \in Ahead
         /\ \A t \in Ahead : First(Ahead) = t \/ Before(First(Ahead), t)
         /\ First(Ahead) \in Slots /\ Visible(First(Ahead)) /\ Known
         /\ walk.name # NoName => Before(FindVariable(walk.name), First(Ahead))
<1>1. store \in Logs
  BY DEF EmuInv, EmuTypeOK, Logs
<1>2. Ahead \subseteq Slots
  BY DEF Ahead
<1>3. /\ First(Ahead) \in Ahead
      /\ \A t \in Ahead : First(Ahead) = t \/ Before(First(Ahead), t)
  BY <1>1, <1>2, FirstFacts
<1>. QED
  BY <1>3 DEF Ahead, Follows

WalkInv == EmuInv /\ WalkTypeOK /\ WalkPosition

\* EmuNext is the step of the store in every call of another caller.
LEMMA OtherKeepsEmuInv == ASSUME EmuInv, EmuNext PROVE EmuInv'
BY NextKeepsInv

LEMMA SameKeepsEmuInv == ASSUME EmuInv, UNCHANGED emuVars PROVE EmuInv'
BY NextKeepsInv

LEMMA WalkInitInv == WalkInit => WalkInv
<1>. SUFFICES ASSUME WalkInit PROVE WalkInv
  OBVIOUS
<1>1. EmuInv
  BY InitInv DEF WalkInit
<1>2. WalkTypeOK
  BY <1>1 DEF WalkInit, WalkTypeOK, NoWalk, EmuInv
<1>3. WalkPosition
  BY DEF WalkInit, WalkPosition, NoWalk
<1>. QED
  BY <1>1, <1>2, <1>3 DEF WalkInv

\* Another caller's call takes what it touches out of the claim.
LEMMA OtherKeepsWalk ==
  ASSUME WalkInv, OtherCall
  PROVE  WalkInv'
<1>1. EmuInv'
  BY OtherKeepsEmuInv DEF WalkInv, OtherCall
<1>2. CASE ~ walk.on
  <2>1. walk' = walk
    BY <1>2 DEF OtherCall
  <2>. QED
    BY <1>1, <1>2, <2>1 DEF WalkInv, WalkTypeOK, WalkPosition, EmuInv
<1>3. CASE walk.on
  <2>1. walk' = [walk EXCEPT !.stable = walk.stable \ Disturbed,
                             !.derailed = walk.derailed \/ walk.name \in Disturbed]
    BY <1>3 DEF OtherCall
  <2>2. /\ walk'.on = walk.on /\ walk'.name = walk.name /\ walk'.seen = walk.seen
        /\ walk'.stable = walk.stable \ Disturbed
        /\ walk'.derailed = (walk.derailed \/ walk.name \in Disturbed)
    BY <2>1 DEF WalkInv, WalkTypeOK
  <2>3. WalkTypeOK'
    BY <1>1, <2>1 DEF WalkInv, WalkTypeOK, EmuInv
  <2>4. ASSUME ~ walk'.derailed PROVE WalkPosition'
    <3>1. PICK n : n = walk.name
      OBVIOUS
    <3>2. ~ walk.derailed /\ n \notin Disturbed /\ walk'.name = n
      BY <2>2, <2>4, <3>1
    <3>3. n # NoName => n \in Key
      BY <3>1 DEF WalkInv, WalkTypeOK
    <3>4. n # NoName => FindVariable(n)' = FindVariable(n) /\ FindVariable(n) # NULL
      BY <1>3, <3>1, <3>2, <3>3 DEF Disturbed, WalkInv, WalkPosition, Known
    <3>5. \A k \in walk'.stable : k \in walk.stable /\ FindVariable(k)' = FindVariable(k)
      BY <2>2 DEF Disturbed, WalkInv, WalkTypeOK
    <3>6. \A k \in walk.stable :
            /\ FindVariable(k) # NULL
            /\ k \in walk.seen <=> n # NoName /\ ~ Before(FindVariable(n), FindVariable(k))
      BY <1>3, <3>1, <3>2 DEF WalkInv, WalkPosition
    <3>7. \A k \in walk'.stable :
            /\ FindVariable(k)' # NULL
            /\ k \in walk'.seen <=> n # NoName /\ ~ Before(FindVariable(n)', FindVariable(k)')
      BY <2>2, <3>4, <3>5, <3>6
    <3>8. Known'
      BY <3>2, <3>4 DEF Known, NULL
    <3>. QED
      BY <3>2, <3>7, <3>8 DEF WalkPosition, Before, NULL
  <2>5. walk'.derailed => WalkPosition'
    BY DEF WalkPosition
  <2>. QED
    BY <1>1, <2>3, <2>4, <2>5 DEF WalkInv
<1>. QED
  BY <1>2, <1>3

LEMMA SameFinds ==
  ASSUME UNCHANGED emuVars, NEW k
  PROVE  FindVariable(k)' = FindVariable(k)
<1>1. store' = store /\ mAtRuntime' = mAtRuntime
  BY DEF emuVars
<1>2. Matches(k)' = Matches(k)
  BY <1>1 DEF Matches, Slots, Visible, At
<1>. QED
  BY <1>2 DEF FindVariable, First, Before, NULL

LEMMA StartKeepsWalk ==
  ASSUME WalkInv, StartWalk
  PROVE  WalkInv'
<1>1. EmuInv'
  BY SameKeepsEmuInv DEF WalkInv, StartWalk
<1>2. /\ walk'.on /\ walk'.name = NoName /\ walk'.seen = {} /\ ~ walk'.derailed
      /\ walk'.stable = {k \in Key : FindVariable(k) # NULL}
  BY DEF StartWalk, NoWalk
<1>3. WalkTypeOK'
  BY <1>1 DEF StartWalk, NoWalk, WalkTypeOK, EmuInv
<1>4. \A k \in walk'.stable : FindVariable(k)' # NULL
  BY <1>2, SameFinds DEF StartWalk
<1>5. WalkPosition'
  BY <1>2, <1>4 DEF WalkPosition, Known, NULL, NoName
<1>. QED
  BY <1>1, <1>3, <1>5 DEF WalkInv

\* The name that is returned next stands right before what has not been seen.
LEMMA GetNextKeepsWalk ==
  ASSUME WalkInv, EmuGetNextVariableName
  PROVE  WalkInv'
<1>. USE DEF NULL
<1>1. EmuInv'
  BY SameKeepsEmuInv DEF WalkInv, EmuGetNextVariableName
<1>2. store \in Logs /\ OneVisible
  BY DEF WalkInv, EmuInv, EmuTypeOK, Logs
<1>3. PICK r : r = First(Ahead)
  OBVIOUS
<1>4. PICK t : t = At(r).key
  OBVIOUS
<1>5. /\ r \in Ahead /\ \A s \in Ahead : r = s \/ Before(r, s)
      /\ r \in Slots /\ Visible(r) /\ Known
      /\ walk.name # NoName => Before(FindVariable(walk.name), r)
  BY <1>3, AheadFacts DEF EmuGetNextVariableName, WalkInv
<1>6. t \in Key
  BY <1>2, <1>4, <1>5, SlotFacts DEF Entry, Logs
<1>7. FindVariable(t) = r
  BY <1>2, <1>4, <1>5, FindFacts DEF Matches
<1>8. /\ walk'.on = walk.on /\ walk'.name = t /\ walk'.seen = walk.seen \cup {t}
      /\ walk'.stable = walk.stable /\ walk'.derailed = walk.derailed
  BY <1>3, <1>4 DEF EmuGetNextVariableName, WalkInv, WalkTypeOK
<1>9. WalkTypeOK'
  BY <1>1, <1>3, <1>4, <1>6 DEF EmuGetNextVariableName, WalkInv, WalkTypeOK, EmuInv
<1>10. ASSUME ~ walk.derailed, NEW k \in walk.stable
       PROVE  /\ FindVariable(k) # NULL
              /\ k \in walk.seen \cup {t} <=> ~ Before(r, FindVariable(k))
  <2>1. /\ FindVariable(k) # NULL
        /\ k \in walk.seen <=>
             walk.name # NoName /\ ~ Before(FindVariable(walk.name), FindVariable(k))
    BY <1>10 DEF EmuGetNextVariableName, WalkInv, WalkPosition
  <2>2. PICK f : f = FindVariable(k)
    OBVIOUS
  <2>3. f \in Slots /\ Visible(f) /\ At(f).key = k
    BY <1>2, <2>1, <2>2, FoundSlot
  <2>4. ASSUME k \in walk.seen PROVE ~ Before(r, f)
    <3>1. walk.name # NoName /\ ~ Before(FindVariable(walk.name), f)
      BY <2>1, <2>2, <2>4
    <3>2. FindVariable(walk.name) \in Slots
      <4>1. PICK n : n = walk.name
        OBVIOUS
      <4>. QED
        BY <1>2, <1>5, <3>1, <4>1, FoundSlot DEF Known
    <3>3. PICK p : p = FindVariable(walk.name)
      OBVIOUS
    <3>. QED
      BY <1>2, <1>5, <2>3, <3>1, <3>2, <3>3, BeforeOrders
  <2>5. ASSUME k = t PROVE ~ Before(r, f)
    BY <1>2, <1>5, <1>7, <2>2, <2>5, BeforeOrders
  <2>6. ASSUME ~ Before(r, f) PROVE k \in walk.seen \cup {t}
    <3>1. CASE f \in Ahead
      BY <1>4, <1>5, <2>3, <2>6, <3>1
    <3>2. CASE f \notin Ahead
      <4>1. walk.name # NoName /\ ~ Before(FindVariable(walk.name), f)
        BY <1>5, <2>3, <3>2 DEF Ahead, Follows
      <4>. QED
        BY <2>1, <2>2, <4>1
    <3>. QED
      BY <3>1, <3>2
  <2>. QED
    BY <2>1, <2>2, <2>4, <2>5, <2>6
<1>11. FindVariable(t)' = r
  BY <1>7, SameFinds DEF EmuGetNextVariableName
<1>12. Known'
  BY <1>5, <1>7, <1>8, <1>11, SlotFacts, <1>2 DEF Known
<1>13. ASSUME ~ walk'.derailed, NEW k \in walk'.stable
       PROVE  /\ FindVariable(k)' # NULL
              /\ k \in walk'.seen <=> walk'.name # NoName /\ ~ Before(r, FindVariable(k)')
  <2>1. FindVariable(k)' = FindVariable(k)
    BY SameFinds DEF EmuGetNextVariableName
  <2>2. t # NoName
    BY <1>6, NameAssumption
  <2>. QED
    BY <1>8, <1>10, <1>13, <2>1, <2>2
<1>14. WalkPosition'
  BY <1>8, <1>11, <1>12, <1>13 DEF WalkPosition, Before
<1>. QED
  BY <1>1, <1>9, <1>14 DEF WalkInv

LEMMA EndsKeepsWalk ==
  ASSUME WalkInv, WalkEnds
  PROVE  /\ WalkInv'
         /\ ~ walk.derailed => walk.stable \subseteq walk.seen
<1>1. EmuInv'
  BY SameKeepsEmuInv DEF WalkInv, WalkEnds
<1>2. WalkTypeOK' /\ WalkPosition'
  BY <1>1 DEF WalkEnds, NoWalk, WalkTypeOK, WalkPosition, EmuInv
<1>3. ASSUME ~ walk.derailed, NEW k \in walk.stable PROVE k \in walk.seen
  <2>1. /\ Known
        /\ FindVariable(k) # NULL
        /\ k \in walk.seen <=>
             walk.name # NoName /\ ~ Before(FindVariable(walk.name), FindVariable(k))
    BY <1>3 DEF WalkEnds, WalkInv, WalkPosition
  <2>2. FindVariable(k) \in Slots /\ Visible(FindVariable(k))
    BY <2>1, FoundSlot DEF WalkInv, EmuInv, EmuTypeOK, Logs
  <2>3. FindVariable(k) \notin Ahead
    BY DEF WalkEnds
  <2>. QED
    BY <2>1, <2>2, <2>3 DEF Ahead, Follows
<1>. QED
  BY <1>1, <1>2, <1>3 DEF WalkInv

LEMMA StutterKeepsWalk ==
  ASSUME WalkInv, UNCHANGED walkVars
  PROVE  WalkInv'
<1>1. EmuInv' /\ walk' = walk
  BY SameKeepsEmuInv DEF WalkInv, walkVars
<1>2. \A k : FindVariable(k)' = FindVariable(k)
  BY SameFinds DEF walkVars
<1>3. PICK n : n = walk.name
  OBVIOUS
<1>4. FindVariable(n)' = FindVariable(n)
  BY <1>2
<1>5. WalkPosition'
  BY <1>1, <1>2, <1>3, <1>4 DEF WalkInv, WalkPosition, Known, Before, NULL
<1>. QED
  BY <1>1, <1>5 DEF WalkInv, WalkTypeOK, EmuInv

\* EmuGetNextVariableName neither skips nor repeats a variable that was left
\* alone, for any number of names, entries and other callers.
THEOREM WalkPositionHolds == WalkSpec => [](WalkTypeOK /\ WalkPosition)
<1>1. WalkInit => WalkInv
  BY WalkInitInv
<1>2. WalkInv /\ [WalkNext]_walkVars => WalkInv'
  BY OtherKeepsWalk, StartKeepsWalk, GetNextKeepsWalk, EndsKeepsWalk, StutterKeepsWalk
  DEF WalkNext
<1>3. WalkInv => WalkTypeOK /\ WalkPosition
  BY DEF WalkInv
<1>. QED
  BY <1>1, <1>2, <1>3, PTL DEF WalkSpec

\* An enumeration that EmuGetNextVariableName ends with EFI_NOT_FOUND has
\* returned every variable that was left alone since it began.
THEOREM WalkIsComplete == WalkSpec => WalkComplete
<1>1. WalkInit => WalkInv
  BY WalkInitInv
<1>2. WalkInv /\ [WalkNext]_walkVars => WalkInv'
  BY OtherKeepsWalk, StartKeepsWalk, GetNextKeepsWalk, EndsKeepsWalk, StutterKeepsWalk
  DEF WalkNext
<1>3. WalkInv /\ [WalkNext]_walkVars =>
        [walk.on /\ ~ walk'.on /\ ~ walk.derailed => walk.stable \subseteq walk.seen]_walkVars
  <2>. SUFFICES ASSUME WalkInv, WalkNext, walk.on, ~ walk'.on, ~ walk.derailed
                PROVE  walk.stable \subseteq walk.seen
    OBVIOUS
  <2>1. ASSUME OtherCall PROVE FALSE
    BY <2>1 DEF OtherCall, WalkInv, WalkTypeOK
  <2>2. ASSUME EmuGetNextVariableName PROVE FALSE
    BY <2>2 DEF EmuGetNextVariableName, WalkInv, WalkTypeOK
  <2>. QED
    BY <2>1, <2>2, EndsKeepsWalk DEF WalkNext, StartWalk
<1>. QED
  BY <1>1, <1>2, <1>3, PTL DEF WalkSpec, WalkComplete
===============================================================================
