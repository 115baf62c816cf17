--------------------------- MODULE MCLinkedFolders ---------------------------
(* A session and two more folders, two slots.  Each folder has what the    *)
(* others lack: a reviewer that talks, a change meanwhile and a helper,    *)
(* answers only from the cache or by another's review.                     *)
EXTENDS LinkedFolders
CONSTANTS own, one, two
MCLinked == {one, two}
MCTouched == {one}
MCReviewer ==
    [f \in {own, one, two} |->
        CASE f = own -> {"gemini"} [] f = one -> {"codex"} [] f = two -> {}]
MCTalkative == {own}
MCNesting == {one}
=============================================================================
