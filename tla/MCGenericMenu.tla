---------------------------- MODULE MCGenericMenu -----------------------------
(* Instances of GenericMenu for TLC. *)
EXTENDS GenericMenu, TLC

\* A main menu of three loaders, a tool and the Clover entry in the second row;
\* an options menu with a text, a check box, a switch and a line of information.
MCMain == << 3, 5 >>
MCOptions == << 4, 4 >>
MCRows == {MCMain, MCOptions}
MCKind ==
  MCMain :> (0 :> "loader" @@ 1 :> "loader" @@ 2 :> "loader" @@ 3 :> "tool" @@ 4 :> "clover")
    @@ MCOptions :> (0 :> "text" @@ 1 :> "check" @@ 2 :> "switch" @@ 3 :> "info")

\* Three entries, two on the screen: for the liveness properties.
MCLive == << 3, 3 >>
MCLiveRows == {MCLive}
MCLiveKind == MCLive :> (0 :> "loader" @@ 1 :> "text" @@ 2 :> "option")

MCDefaults == {-1, 2}
===============================================================================
