---------------------------- MODULE MCReviewQueue ----------------------------
(* Instances of ReviewQueue for TLC: two keys of one context (a plain      *)
(* review and a forced one) and one key of another.                        *)
EXTENDS ReviewQueue, TLC

MCKey == {"plain", "forced", "other"}
MCCtx == {"main", "side"}
MCCtxOf == [k \in MCKey |-> IF k = "other" THEN "side" ELSE "main"]

MCOneKeyPair == {"plain", "forced"}
MCOneCtx == {"main"}
MCOneCtxOf == [k \in MCOneKeyPair |-> "main"]

\* The Stop hooks are alike, and so are the other callers.
MCSymmetry == Permutations(Timed) \cup Permutations(Req \ Timed)
=============================================================================
