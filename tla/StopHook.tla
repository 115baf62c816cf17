------------------------------ MODULE StopHook -------------------------------
(***************************************************************************)
(* A Stop hook asks the server for a review (hooks/stop-review.mjs through *)
(* hooks/signed-client.mjs) while the server restarts, its token rotates,  *)
(* its settings change and a reload holds its requests back.  The hook     *)
(* reads a token, finds the server that proves it, and posts a request     *)
(* signed for that instance with the wait it allows; the server            *)
(* (server/src/auth.js, index.js) may refuse it, ask for a longer wait or  *)
(* answer within that wait.  All of it is to fit one budget of time.       *)
(*                                                                         *)
(* Messages between processes of one machine take no time; what takes time *)
(* is being held and the review.  Signatures and proofs are modelled by    *)
(* the token that made them.                                               *)
(***************************************************************************)
EXTENDS TokenState, Integers

CONSTANTS
    Budget,         \* the time the hook has in all
    MaxInstances    \* bound: how often the server is started

ASSUME BudgetAssumption == Budget \in Nat /\ Budget > 1
ASSUME InstancesAssumption == MaxInstances \in Nat /\ MaxInstances > 0

Instances == 1 .. MaxInstances

MaxAttempts == 3

\* The waits that settings may need.
Waits == 2 .. Budget

\* A server's answers end a turn, or say why it should go on.
Blocking == {"ISSUES", "NO_PROGRESS_WITH_OPEN_ISSUES", "ESCALATE_NOTIFY"}
Passing == {"GOOD_TO_GO", "GOOD_TO_GO_WITH_NOTES", "NO_CHANGES", "ESCALATE"}

VARIABLES
    instance,   \* the running server's identity
    up,         \* it runs
    needs,      \* the wait the settings need
    hook,       \* the Stop hook
    ran,        \* history: ran[i]: the reviews that i began for this Stop
    misled,     \* history: the hook was told that a server did not know its
                \* request which had got it
    disturbed   \* history: how often time passed or the settings changed
                \* since the hook was told the wait, up to twice

shellVars == <<instance, up, needs>>
history == <<ran, misled, disturbed>>
vars == <<tokenVars, shellVars, hook, history>>

\* pc: begun: reads its credentials; selecting: has a token; ready: has a
\* server; sent: its request is under way; unknown: was signed for another
\* instance, or so it seems; held: waits at entry; running: is reviewed;
\* ended.
\* left: what is left of the budget; timer: of the wait it allowed; again:
\* the attempt was sent again; short: its review began with less than the
\* wait that it needs and that is left.
Idle == [pc |-> "idle", token |-> auth.token, server |-> 0, attempt |-> 0,
         limit |-> 0, left |-> Budget, timer |-> 0, sent |-> 0,
         final |-> FALSE, again |-> FALSE, short |-> FALSE,
         outcome |-> "none"]

Init ==
    /\ TokenInit
    /\ instance = 1 /\ up = TRUE
    /\ needs \in Waits
    /\ hook = Idle
    /\ ran = [i \in Instances |-> 0]
    /\ misled = FALSE
    /\ disturbed = 0

At(s) == hook.pc = s
End(o) == hook' = [hook EXCEPT !.pc = "ended", !.outcome = o]

-----------------------------------------------------------------------------
(* The hook finds its server.                                              *)

(* The turn ends: the hook reads its token, from config.json or, when that *)
(* makes no sense for a second, from the credentials, which may be older.  *)
ReadCredentials ==
    /\ At("idle")
    /\ \/ \E t \in IF auth.parses THEN {auth.token} ELSE issued :
             hook' = [hook EXCEPT !.pc = "selecting", !.token = t]
       \/ ~auth.parses /\ End("no_token")
    /\ UNCHANGED <<tokenVars, shellVars, history>>

\* The server, if it runs, proves every token that it accepts.
Proves(t) == up /\ Refresh /\ t \in Accepted'
FailsToProve(t) ==
    IF up THEN Refresh /\ t \notin Accepted' ELSE UNCHANGED serverVars

(* The server that proves the token tells how long to wait, or did in a    *)
(* file; else that follows from the credentials.  Both may be out of date. *)
SelectServer ==
    /\ At("selecting")
    /\ \/ /\ Proves(hook.token)
          /\ \E w \in Waits :
             hook' = [hook EXCEPT !.pc = "ready", !.server = instance, !.limit = w]
       \/ FailsToProve(hook.token) /\ End("no_server")
    /\ UNCHANGED <<now, grace, authVars, shellVars, history>>

-----------------------------------------------------------------------------
(* The hook posts its request.                                             *)

\* Fault: an attempt waits for its own limit, whatever the budget.
PostWholeLimit ==
    /\ At("ready")
    /\ hook' = [hook EXCEPT !.pc = "sent", !.attempt = @ + 1,
                  !.timer = hook.limit, !.sent = hook.limit, !.again = FALSE,
                  !.final = hook.attempt + 1 = MaxAttempts]
    /\ UNCHANGED <<tokenVars, shellVars, history>>

\* Fault: the second attempt is the last.
PostTwice ==
    /\ At("ready")
    /\ LET wait == IF hook.limit < hook.left THEN hook.limit ELSE hook.left
       IN  hook' = [hook EXCEPT !.pc = "sent", !.attempt = @ + 1,
                      !.timer = wait, !.sent = wait, !.again = FALSE,
                      !.final = \/ hook.attempt + 1 = MaxAttempts - 1
                                \/ hook.left < hook.limit]
    /\ UNCHANGED <<tokenVars, shellVars, history>>

(* An attempt: it waits for its limit or what is left, and is final when   *)
(* it is the third or cannot have its limit.                               *)
Post ==
    /\ At("ready")
    /\ IF hook.left = 0
       THEN End("HOOK_LIMIT_STALE")
       ELSE LET wait == IF hook.limit < hook.left THEN hook.limit ELSE hook.left
            IN  hook' = [hook EXCEPT !.pc = "sent", !.attempt = @ + 1,
                           !.timer = wait, !.sent = wait, !.again = FALSE,
                           !.final = \/ hook.attempt + 1 = MaxAttempts
                                     \/ hook.left < hook.limit]
    /\ UNCHANGED <<tokenVars, shellVars, history>>

(* The server that listens now checks it: another instance does not know   *)
(* it, which it says once more only to end it; one whose token is no       *)
(* longer accepted is refused.  It is held at the gate, if only for the    *)
(* moment.                                                                 *)
Receive ==
    /\ At("sent")
    /\ \/ ~up /\ UNCHANGED serverVars /\ End("fetch_error")
       \/ /\ up /\ Refresh
          /\ IF hook.server # instance
             THEN IF hook.again THEN End("fetch_error")
                                ELSE hook' = [hook EXCEPT !.pc = "unknown"]
             ELSE IF hook.token \in Accepted'
                  THEN hook' = [hook EXCEPT !.pc = "held"]
                  ELSE End("fetch_error")
    /\ UNCHANGED <<now, grace, authVars, shellVars, history>>

\* i began a review for this Stop.
Began(i) == ran' = [ran EXCEPT ![i] = @ + 1]

(* That answer is not signed, and what is between the hook and the server  *)
(* may give it to a request that it has passed on.  The server knows       *)
(* nothing of it: a review that it began goes on, and a request that it    *)
(* holds it may still let in.                                              *)
Denied ==
    /\ hook.pc \in {"held", "running"} /\ hook.timer = hook.sent
    /\ IF hook.again THEN End("fetch_error")
                     ELSE hook' = [hook EXCEPT !.pc = "unknown"]
    /\ misled' = TRUE
    /\ \/ At("held") /\ Began(instance)
       \/ UNCHANGED ran
    /\ UNCHANGED <<tokenVars, shellVars, disturbed>>

\* Fault: the request is sent once more to whoever proves the token.
ReselectAny ==
    /\ At("unknown")
    /\ \/ /\ Proves(hook.token)
          /\ hook' = [hook EXCEPT !.pc = "sent", !.server = instance,
                                  !.again = TRUE]
       \/ FailsToProve(hook.token) /\ End("fetch_error")
    /\ UNCHANGED <<now, grace, authVars, shellVars, history>>

(* The hook asks again who listens, and sends its request once more when   *)
(* another instance proves the token.  The same one may have served it.    *)
Reselect ==
    /\ At("unknown")
    /\ \/ /\ Proves(hook.token) /\ instance # hook.server
          /\ hook' = [hook EXCEPT !.pc = "sent", !.server = instance,
                                  !.again = TRUE]
       \/ /\ Proves(hook.token) /\ instance = hook.server
          /\ End("fetch_error")
       \/ FailsToProve(hook.token) /\ End("fetch_error")
    /\ UNCHANGED <<now, grace, authVars, shellVars, history>>

-----------------------------------------------------------------------------
(* The server admits it and answers.                                       *)

\* It answers a little before the hook gives up.
Margin == IF hook.sent > 1 THEN 1 ELSE 0
Due == hook.timer <= Margin

(* It is let in, at once or when a reload is over.  If the wait that is    *)
(* left is not what the settings need, the server says so and does         *)
(* nothing, unless the attempt is final.                                   *)
Admit ==
    /\ At("held")
    /\ IF ~hook.final /\ hook.timer < needs
       THEN hook' = [hook EXCEPT !.pc = "ready", !.limit = needs] /\ ran' = ran
       ELSE /\ hook' = [hook EXCEPT !.pc = "running",
                           !.short = hook.timer < needs /\ needs <= hook.left]
            /\ Began(instance)
    /\ UNCHANGED <<tokenVars, shellVars, misled, disturbed>>

(* The review is answered.                                                 *)
Answer ==
    /\ At("running")
    /\ \E o \in Blocking \cup Passing : End(o)
    /\ UNCHANGED <<tokenVars, shellVars, history>>

(* The deadline passes first, at the gate or during the review, which goes *)
(* on.                                                                     *)
DeadlinePasses ==
    /\ hook.pc \in {"held", "running"}
    /\ Due
    /\ End("DEADLINE_EXCEEDED")
    /\ UNCHANGED <<tokenVars, shellVars, history>>

-----------------------------------------------------------------------------
(* What happens meanwhile.                                                 *)

\* A request that the server has got ends with it.
ConnectionLost ==
    IF hook.pc \in {"held", "running"} THEN End("fetch_error")
                                       ELSE UNCHANGED hook

(* The server stops, or crashes.                                           *)
ServerStops ==
    /\ up /\ up' = FALSE
    /\ ConnectionLost
    /\ UNCHANGED <<tokenVars, instance, needs, history>>

(* It starts, as a new instance, with what the file says.                  *)
ServerStarts ==
    /\ ~up /\ up' = TRUE
    /\ instance < MaxInstances /\ instance' = instance + 1
    /\ ReadAtStart
    /\ UNCHANGED <<now, grace, authVars, needs, hook, history>>

\* The server told the hook the wait that its settings need.
Told == hook.attempt > 1 \/ (hook.attempt = 1 /\ At("ready"))

Disturb ==
    disturbed' = IF Told /\ disturbed < 2 THEN disturbed + 1 ELSE disturbed

(* Somebody else's request makes the server read the file.                 *)
OtherRequest ==
    /\ up /\ Refresh
    /\ UNCHANGED <<grace, authVars, shellVars, hook, history>>

(* The settings need another wait.                                         *)
SetNeeds ==
    /\ needs' \in Waits \ {needs}
    /\ Disturb
    /\ UNCHANGED <<tokenVars, instance, up, hook, ran, misled>>

(* Time passes while the hook has to wait: the clock starts with it.       *)
Tick ==
    /\ now < MaxTime
    /\ hook.pc \in {"held", "running"}
    /\ ~Due
    /\ now' = now + 1
    /\ hook' = [hook EXCEPT !.left = @ - 1, !.timer = @ - 1]
    /\ Disturb
    /\ UNCHANGED <<authVars, serverVars, grace, shellVars, ran, misled>>

\* The server and its files do as they like until the turn has ended.
Meanwhile ==
    \/ ServerStops \/ ServerStarts \/ OtherRequest \/ SetNeeds
    \/ TokenEvent /\ UNCHANGED <<shellVars, hook, history>>

Next ==
    \/ ReadCredentials \/ SelectServer \/ Post \/ Receive \/ Reselect
    \/ Denied \/ Admit \/ Answer \/ DeadlinePasses \/ Tick
    \/ ~At("ended") /\ Meanwhile

Spec == Init /\ [][Next]_vars

-----------------------------------------------------------------------------
(* Properties.                                                             *)

(* An old token stays out.  What a running server does not accept it never *)
(* accepts later, unless the file says it again, whatever happens to the   *)
(* records, the setting of the grace or the file; and it takes no request  *)
(* signed with a token that a rotation revoked, even when it comes first   *)
(* after several rotations.  (auth.js:54-146; the exception, a token       *)
(* edited by hand, is in TokenState's EditToken.)                          *)
OldTokensStayOut ==
    [][/\ up /\ up' => Accepted' \subseteq Accepted \cup {auth.token}
       /\ hook.pc = "sent" /\ hook'.pc = "held" /\ auth.parses
          => hook.token \notin revoked]_vars

(* A server reviews a Stop once, however often its request is sent, and a  *)
(* Stop is blocked only by an answer of the server that reviewed it.  Two  *)
(* servers review it only if the first had stopped after somebody denied   *)
(* that it had got the request.  (signed-client.mjs:545-567,               *)
(* stop-review.mjs:579-640.)                                               *)
OneReviewPerStop ==
    /\ \A i \in Instances : ran[i] <= 1
    /\ \A i, j \in Instances : ran[i] > 0 /\ ran[j] > 0 /\ i # j => misled
    /\ hook.outcome \in Blocking => ran[hook.server] = 1

(* The hook keeps to its budget, and never ends by being told that it      *)
(* should have waited longer.  (stop-review.mjs:566-640.)                  *)
EndsInBudget ==
    /\ hook.left >= 0
    /\ At("ended") => hook.outcome # "HOOK_LIMIT_STALE"

(* A review begins with the wait that the settings need, if that is left   *)
(* of the budget, unless the wait was outdated twice after the hook had    *)
(* been told it, by a hold or by a change of the settings: what it knew    *)
(* before does not matter, and one disturbance does not.                   *)
(* (stop-review.mjs:579-640, index.js:557-572.)                            *)
WaitIsEnough == hook.short => disturbed = 2
=============================================================================
