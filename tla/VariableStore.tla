---------------------------- MODULE VariableStore -----------------------------
(***************************************************************************)
(* What a firmware variable store promises its callers: a map from keys (a *)
(* name and a vendor GUID) to values, each call about one key.  Clover's   *)
(* emulated store is shown to implement it.                                *)
(***************************************************************************)
CONSTANTS Key,            \* names with their vendor GUIDs
          Data,           \* what a variable may hold
          AttributeSets   \* the attribute masks callers pass

VARIABLES
  value,      \* key -> << attributes, data >>, or Absent
  runtime,    \* ExitBootServices has been called
  answer      \* the status of the last call

storeVars == << value, runtime, answer >>

Absent == << >>
Errors == {"INVALID_PARAMETER", "WRITE_PROTECTED", "NOT_FOUND", "OUT_OF_RESOURCES"}

StoreInit ==
  /\ value = [k \in Key |-> Absent]
  /\ runtime = FALSE
  /\ answer = "SUCCESS"

\* What a caller can read of a variable: at runtime only what has runtime access.
Readable(v) == IF runtime /\ v # Absent /\ "RT" \notin v[1] THEN Absent ELSE v

\* At runtime a variable may be changed only if it is non-volatile.
Changeable(k) == value[k] # Absent /\ (runtime => "NV" \in value[k][1])
Creatable(k, a) == value[k] = Absent /\ (runtime => {"NV", "RT"} \subseteq a)

\* The variable is stored with these attributes and this data.
Put(k, a, d) ==
  /\ answer' = "SUCCESS"
  /\ Changeable(k) \/ Creatable(k, a)
  /\ value' = [value EXCEPT ![k] = Readable(<< a, d >>)]
  /\ UNCHANGED runtime

Delete(k) ==
  /\ Changeable(k)
  /\ value' = [value EXCEPT ![k] = Absent]
  /\ answer' = "SUCCESS"
  /\ UNCHANGED runtime

\* An error leaves the store as it is ...
Refused ==
  /\ answer' \in Errors
  /\ UNCHANGED << value, runtime >>

\* ... except that a replacement there is no room for loses the old value.
Lose(k) ==
  /\ Changeable(k)
  /\ value' = [value EXCEPT ![k] = Absent]
  /\ answer' = "OUT_OF_RESOURCES"
  /\ UNCHANGED runtime

\* A write that finds its data there, whatever attributes it asks for, or that
\* is accepted and dropped.
Keep ==
  /\ answer' = "SUCCESS"
  /\ UNCHANGED << value, runtime >>

\* Only variables with runtime access survive ExitBootServices.
ExitBoot ==
  /\ runtime' = TRUE
  /\ value' = [k \in Key |->
                 IF value[k] # Absent /\ "RT" \notin value[k][1] THEN Absent ELSE value[k]]
  /\ UNCHANGED answer

StoreNext ==
  \/ Refused
  \/ Keep
  \/ \E k \in Key : Delete(k) \/ Lose(k)
  \/ \E k \in Key, a \in AttributeSets, d \in Data : Put(k, a, d)
  \/ ExitBoot

StoreSpec == StoreInit /\ [][StoreNext]_storeVars
===============================================================================
