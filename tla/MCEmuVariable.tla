---------------------------- MODULE MCEmuVariable -----------------------------
(* An instance of EmuVariable for TLC. *)
EXTENDS EmuVariable

CONSTANTS k1, k2, k3,   \* an ordinary name, a hardware error record, Dell's
          d1, d2        \* data

\* Every mask that takes a way of its own through EmuSetVariable.
Masks ==
  {{}, {"RT"}, {"BS", "RT"}, {"NV", "BS"}, {"NV", "BS", "RT"}, {"NV", "BS", "RT", "HR"}}

\* One replacement of a non-volatile variable finds room, and one does not.
Sizes == [x \in Key \X Data |-> IF x = << k1, d2 >> THEN 2 ELSE 1]

\* No action reads the status of the last call.
WithoutStatus == << store, totals, mAtRuntime >>
===============================================================================
