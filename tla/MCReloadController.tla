------------------------- MODULE MCReloadController -------------------------
(* The reload controller for TLC.                                         *)
EXTENDS ReloadController

\* Every configuration needs the same wait.
MCOneWait == [s \in Settings |-> 1]

\* A pinned wait of the hooks, "low", counts before the limit; "high" is none.
MCPinnedWait ==
    [s \in Settings |->
        IF s["pin"] = "low" THEN 1 ELSE IF s["limit"] = "high" THEN 3 ELSE 2]
=============================================================================
