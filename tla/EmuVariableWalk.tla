--------------------------- MODULE EmuVariableWalk ----------------------------
(***************************************************************************)
(* A caller that enumerates the emulated variables: it hands the last name *)
(* it was given to EmuGetNextVariableName and gets the next one.  It may   *)
(* be ResetNativeNvram, which deletes as it goes, a tool, or the operating *)
(* system, and any call of another caller may come between two of its own. *)
(***************************************************************************)
EXTENDS EmuVariable

VARIABLE walk

walkVars == << emuVars, walk >>

\* walk.name      the last name EmuGetNextVariableName returned
\* walk.seen      the names it has returned
\* walk.stable    the variables that have not been written since the walk began
\* walk.derailed  the variable it stands on has been written or deleted
\* The last three are for the properties only.
NoName == << >>
ASSUME NameAssumption == NoName \notin Key

NoWalk == [on |-> FALSE, name |-> NoName, seen |-> {}, stable |-> {}, derailed |-> FALSE]

\* The variables that this step replaces, deletes or hides.
Disturbed == {k \in Key : FindVariable(k)' # FindVariable(k)}

OtherCall ==
  /\ EmuNext
  /\ walk' = IF ~ walk.on THEN walk
             ELSE [walk EXCEPT !.stable = @ \ Disturbed,
                               !.derailed = @ \/ walk.name \in Disturbed]

StartWalk ==
  /\ ~ walk.on
  /\ walk' = [NoWalk EXCEPT !.on = TRUE, !.stable = {k \in Key : FindVariable(k) # NULL}]
  /\ UNCHANGED emuVars

\* Faulty variants: entries before the last name are found again, and the
\* search does not go on in the volatile log.
Around(s, t) == s[1] < t[1] \/ (s[1] = t[1] /\ t[2] # s[2])
SameStore(s, t) == s[1] = t[1] /\ s[2] < t[2]

\* What EmuGetNextVariableName may return after the entry s.
Follows(s, t) == Before(s, t)

Known == walk.name = NoName \/ FindVariable(walk.name) # NULL

Ahead ==
  {t \in Slots :
     Known /\ Visible(t) /\ (walk.name = NoName \/ Follows(FindVariable(walk.name), t))}

EmuGetNextVariableName ==
  /\ walk.on
  /\ Ahead # {}
  /\ walk' = [walk EXCEPT !.name = At(First(Ahead)).key,
                          !.seen = @ \cup {At(First(Ahead)).key}]
  /\ UNCHANGED emuVars

\* EFI_NOT_FOUND: the last name is gone, or no entry follows it.
WalkEnds ==
  /\ walk.on
  /\ Ahead = {}
  /\ walk' = NoWalk
  /\ UNCHANGED emuVars

WalkInit == EmuInit /\ walk = NoWalk
WalkNext == OtherCall \/ StartWalk \/ EmuGetNextVariableName \/ WalkEnds
WalkSpec == WalkInit /\ [][WalkNext]_walkVars

-------------------------------------------------------------------------------
(* Properties *)

\* The type invariant of the caller.
WalkTypeOK ==
  /\ EmuTypeOK
  /\ walk \in [on : BOOLEAN, name : Key \cup {NoName}, seen : SUBSET Key,
               stable : SUBSET Key, derailed : BOOLEAN]

\* While the variable an enumeration stands on is left alone, the variables that
\* were left alone since it began are behind it if and only if
\* EmuGetNextVariableName has returned them, whatever was written, moved or
\* deleted around them: none is skipped and none is returned twice.
WalkPosition ==
  walk.on /\ ~ walk.derailed =>
    /\ Known
    /\ \A k \in walk.stable :
         /\ FindVariable(k) # NULL
         /\ k \in walk.seen <=>
              walk.name # NoName /\ ~ Before(FindVariable(walk.name), FindVariable(k))

\* So such an enumeration ends only when it has returned all of them.
WalkComplete ==
  [][walk.on /\ ~ walk'.on /\ ~ walk.derailed => walk.stable \subseteq walk.seen]_walkVars
===============================================================================
