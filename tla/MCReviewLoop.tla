----------------------------- MODULE MCReviewLoop ----------------------------
(* What tells two states of ReviewLoop apart for TLC.                      *)
EXTENDS ReviewLoop

\* No step depends on the last answer, which the properties read in the step
\* that gives it, on the merge base without the fallback, or on the last
\* verdict once its baseline is gone and no pipeline can bring it back.
MCView ==
    <<repo.head, repo.tree,
      IF Fallback THEN <<repo.base, repo.ahead>> ELSE None,
      store, pc, req, snap, relisted, payload, free, confirmed, outside,
      IF pc = "idle" /\ store.baseline = None
      THEN [hist EXCEPT !.judged = None] ELSE hist>>
=============================================================================
