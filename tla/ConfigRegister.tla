---------------------------- MODULE ConfigRegister ----------------------------
(***************************************************************************)
(* What the programs that write config.json promise each other: the file   *)
(* is a register of changes, and a program adds its own to all that were   *)
(* there.  People edit the file as well, and need not look before they     *)
(* save: a program may put back what such an edit replaced, but never what *)
(* another program saved.                                                  *)
(***************************************************************************)
CONSTANT Program

VARIABLES
    value,      \* the programs' changes that the file holds
    undone      \* what it held before each edit by hand since a program's save

vars == <<value, undone>>

Init ==
    /\ value \in SUBSET Program
    /\ undone = {}

\* p adds its change to what the file holds, or held before an edit by hand.
Add(p) ==
    /\ \E v \in undone \cup {value} : value' = v \cup {p}
    /\ undone' = {}

Edit ==
    /\ value' \in SUBSET value
    /\ undone' = undone \cup {value}

Next == Edit \/ \E p \in Program : Add(p)

Spec == Init /\ [][Next]_vars
=============================================================================
