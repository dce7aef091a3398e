-------------------------- MODULE MCEmuVariableWalk ---------------------------
(* An instance of EmuVariableWalk for TLC. *)
EXTENDS EmuVariableWalk, TLC

CONSTANTS k1, k2, k3,   \* names
          d1            \* data: a variable moves when it is deleted and written again

\* A volatile variable that is gone at runtime, and a non-volatile one.
Masks == {{"BS"}, {"NV", "BS", "RT"}}

Sizes == [x \in Key \X Data |-> 1]

\* The names are interchangeable.
Names == Permutations(Key)
\* No action reads the status of the last call.
WithoutStatus == << store, totals, mAtRuntime, walk >>
===============================================================================
