----------------------------- MODULE MCStopHook ------------------------------
(* What tells two states of StopHook apart for TLC.                        *)
EXTENDS StopHook, TLC

Symmetric == Permutations(Token)

\* Nothing follows the end of the turn; the tokens do not matter to a review
\* that nobody can deny any more; a server that starts reads its token, and
\* the limit counts when the hook posts.
MCView ==
    CASE At("ended") ->
             <<"ended", hook.outcome, hook.server, hook.left, ran, misled>>
      [] At("running") /\ (hook.timer # hook.sent \/ hook.again) ->
             <<"running", hook.left, hook.timer, hook.sent, hook.again,
               hook.server, hook.short, up, ran, misled, disturbed>>
      [] OTHER ->
             <<now, grace, authVars, IF up THEN serverVars ELSE <<>>, shellVars,
               IF At("ready") THEN hook ELSE [hook EXCEPT !.limit = 0],
               history>>

\* What the tokens do does not depend on the reviews, nor on the limit of the
\* wait under way; nothing follows the end of the turn, and what the tokens do
\* during a review they do before the turn ends as well.
TokensView ==
    CASE At("ended") -> <<"ended">>
      [] At("running") -> <<"running", hook.left, hook.timer, hook.sent, up>>
      [] At("ready") -> <<tokenVars, shellVars, "ready", hook.token,
                          hook.server, hook.attempt, hook.limit, hook.left>>
      [] OTHER -> <<tokenVars, shellVars,
                    [hook EXCEPT !.limit = 0, !.short = FALSE]>>
=============================================================================
