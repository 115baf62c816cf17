--------------------------- MODULE StopHookProofs ---------------------------
(***************************************************************************)
(* Proofs about StopHook for any budget, any tokens, any number of records *)
(* kept and any number of starts.  A Stop is reviewed once because only a  *)
(* request that has begun no review is repeated, and another server gets   *)
(* it only if the first cannot have it, or said so; it keeps to its budget *)
(* because no attempt waits longer than what is left, and is told to wait  *)
(* longer only while something is left; and the wait is enough because     *)
(* three attempts outlast one disturbance.                                 *)
(***************************************************************************)
EXTENDS StopHook, TokenStateProofs

Fields == {"pc", "token", "server", "attempt", "limit", "left", "timer",
           "sent", "final", "again", "short", "outcome"}

\* An attempt is under way; the hook has not begun its review.
Posted == {"sent", "unknown", "held"}
Before == {"idle", "selecting", "ready"} \cup Posted

HookTypeOK ==
    /\ needs \in Waits /\ disturbed \in 0 .. 2
    /\ instance \in Instances
    /\ ran \in [Instances -> Nat]
    /\ DOMAIN hook = Fields
    /\ hook.server \in Nat /\ hook.attempt \in Nat /\ hook.limit \in Nat
    /\ hook.left \in Int /\ hook.timer \in Int /\ hook.sent \in Int

\* An attempt waits no longer than what is left of the budget, and one that
\* may be followed by another leaves something of it.
Timing ==
    /\ 0 <= hook.left /\ hook.left <= Budget
    /\ hook.pc \in {"idle", "selecting"} => hook.left = Budget
    /\ hook.pc = "ready" => hook.limit \in Waits /\ hook.left > 0
    /\ hook.pc \in Posted \cup {"running"} =>
          /\ 0 <= hook.timer /\ hook.timer <= hook.left
          /\ ~hook.final => hook.sent > 1 /\ hook.timer > 0
    /\ hook.outcome # "HOOK_LIMIT_STALE"

\* A server that gets the request has not reviewed it, nor has one before
\* it, but for the server that was denied; the outcome follows the review.
Reviews ==
    /\ \A i \in Instances : ran[i] <= 1
    /\ hook.server <= instance
    /\ hook.pc \in {"idle", "selecting"} => hook.server = 0
    /\ \A i \in Instances : i > hook.server => ran[i] = 0
    /\ hook.pc \in {"ready", "sent", "held"} =>
          \A i \in Instances : i = hook.server => ran[i] = 0
    /\ hook.pc \in {"held", "running"} => hook.server = instance /\ up
    /\ hook.pc = "running" => ran[instance] = 1
    /\ ~misled =>
          /\ hook.pc \in Before => \A i \in Instances : ran[i] = 0
          /\ \A i, j \in Instances : ran[i] > 0 /\ ran[j] > 0 => i = j
    /\ hook.pc # "ended" => hook.outcome = "none"
    /\ hook.outcome \in Blocking =>
          hook.server \in Instances /\ ran[hook.server] = 1

\* The first attempt learns the wait, the second has it unless disturbed,
\* and so does the third unless disturbed again.
Asks ==
    /\ hook.pc \in {"idle", "selecting"} => hook.attempt = 0
    /\ hook.pc = "ready" =>
          /\ hook.attempt <= 2
          /\ hook.attempt = 0 => hook.left = Budget
          /\ hook.attempt = 1 => hook.limit = needs \/ disturbed >= 1
          /\ hook.attempt = 2 =>
                disturbed >= 1 /\ (hook.limit = needs \/ disturbed = 2)
    /\ hook.pc \in Posted \cup {"running"} =>
          /\ hook.attempt \in 1 .. 3
          /\ hook.attempt = 1 => ~hook.final
          /\ hook.attempt = 2 =>
                \/ disturbed >= 1
                \/ hook.timer = needs /\ ~hook.final
                \/ hook.timer = hook.left /\ hook.final
          /\ hook.attempt = 2 /\ hook.final => hook.timer = hook.left
          /\ hook.attempt = 3 =>
                /\ hook.final /\ disturbed >= 1
                /\ \/ hook.timer = hook.left \/ hook.timer = needs
                   \/ disturbed = 2
    /\ hook.short => disturbed = 2

HookInv == HookTypeOK /\ Timing /\ Reviews /\ Asks

-----------------------------------------------------------------------------
(* What a step does to the hook, field by field.                           *)

\* Fields outside F are kept.
KeepsBut(F) ==
    /\ DOMAIN hook' = Fields
    /\ \A f \in Fields \ F : hook'[f] = hook[f]

\* The end leaves everything but the state and the outcome.
LEMMA Ends ==
    ASSUME HookTypeOK, NEW o, End(o)
    PROVE  /\ KeepsBut({"pc", "outcome"})
           /\ hook'.pc = "ended" /\ hook'.outcome = o
BY DEF End, HookTypeOK, Fields, KeepsBut

\* A step to another state, with a token or a server.
LEMMA Moves ==
    ASSUME HookTypeOK, NEW s,
           \/ hook' = [hook EXCEPT !.pc = s]
           \/ \E t : hook' = [hook EXCEPT !.pc = s, !.token = t]
    PROVE  KeepsBut({"pc", "token"}) /\ hook'.pc = s
BY DEF HookTypeOK, Fields, KeepsBut

\* The attempt goes to another server.
LEMMA Resends ==
    ASSUME HookTypeOK, NEW i,
           hook' = [hook EXCEPT !.pc = "sent", !.server = i, !.again = TRUE]
    PROVE  /\ KeepsBut({"pc", "server", "again"})
           /\ hook'.pc = "sent" /\ hook'.server = i
BY DEF HookTypeOK, Fields, KeepsBut

\* A server is found, and the limit that it told.
LEMMA Selects ==
    ASSUME HookTypeOK, NEW i, NEW w,
           hook' = [hook EXCEPT !.pc = "ready", !.server = i, !.limit = w]
    PROVE  /\ KeepsBut({"pc", "server", "limit"})
           /\ hook'.pc = "ready" /\ hook'.server = i /\ hook'.limit = w
BY DEF HookTypeOK, Fields, KeepsBut

\* The server asks for another limit.
LEMMA Readies ==
    ASSUME HookTypeOK, NEW w,
           hook' = [hook EXCEPT !.pc = "ready", !.limit = w]
    PROVE  /\ KeepsBut({"pc", "limit"})
           /\ hook'.pc = "ready" /\ hook'.limit = w
BY DEF HookTypeOK, Fields, KeepsBut

\* An attempt waits for the lesser of its limit and what is left.
LEMMA Posts ==
    ASSUME HookTypeOK, hook.left # 0, Post
    PROVE  /\ KeepsBut({"pc", "attempt", "timer", "sent", "final", "again"})
           /\ hook'.pc = "sent"
           /\ hook'.attempt = hook.attempt + 1
           /\ hook'.timer = IF hook.limit < hook.left THEN hook.limit
                                                      ELSE hook.left
           /\ hook'.sent = hook'.timer
           /\ hook'.final <=> \/ hook.attempt + 1 = MaxAttempts
                              \/ hook.left < hook.limit
<1> DEFINE wait == IF hook.limit < hook.left THEN hook.limit ELSE hook.left
           last == hook.attempt + 1 = MaxAttempts \/ hook.left < hook.limit
<1>1. hook' = [hook EXCEPT !.pc = "sent", !.attempt = @ + 1,
                           !.timer = wait, !.sent = wait, !.again = FALSE,
                           !.final = last]
  BY DEF Post
<1> HIDE DEF wait, last
<1>2. /\ KeepsBut({"pc", "attempt", "timer", "sent", "final", "again"})
      /\ hook'.pc = "sent" /\ hook'.attempt = hook.attempt + 1
      /\ hook'.timer = wait /\ hook'.sent = wait /\ hook'.final = last
  BY <1>1 DEF HookTypeOK, Fields, KeepsBut
<1> QED
  BY <1>2 DEF wait, last

\* The review begins, with or without the wait it needs.
LEMMA Begins ==
    ASSUME HookTypeOK, NEW b,
           hook' = [hook EXCEPT !.pc = "running", !.short = b]
    PROVE  /\ KeepsBut({"pc", "short"})
           /\ hook'.pc = "running" /\ hook'.short = b
BY DEF HookTypeOK, Fields, KeepsBut

\* A review more is one of its server's.
LEMMA Counts ==
    ASSUME HookTypeOK, NEW i \in Instances, Began(i)
    PROVE  /\ ran' \in [Instances -> Nat]
           /\ ran'[i] = ran[i] + 1
           /\ \A j \in Instances : j # i => ran'[j] = ran[j]
BY DEF Began, HookTypeOK

\* Time comes off the budget and the attempt's wait alike.
LEMMA Ticks ==
    ASSUME HookTypeOK, Tick
    PROVE  /\ KeepsBut({"left", "timer"})
           /\ hook'.left = hook.left - 1 /\ hook'.timer = hook.timer - 1
BY DEF Tick, HookTypeOK, Fields, KeepsBut

-----------------------------------------------------------------------------
(* The invariant of the hook.                                              *)

\* Every end but being told to wait longer, which would be too late to do,
\* keeps the invariant.
LEMMA Ended ==
    ASSUME HookInv, NEW o, End(o), o # "HOOK_LIMIT_STALE",
           o \in Blocking => hook.pc = "running",
           UNCHANGED <<needs, instance, ran, misled, disturbed>>
    PROVE  HookInv'
<1>1. /\ KeepsBut({"pc", "outcome"})
      /\ hook'.pc = "ended" /\ hook'.outcome = o
  BY Ends DEF HookInv
<1> USE DEF HookInv, HookTypeOK, Before, Posted, Fields, KeepsBut
<1>2. HookTypeOK'
  BY <1>1
<1>3. Timing'
  BY <1>1 DEF Timing
<1>4. Reviews'
  BY <1>1 DEF Reviews
<1>5. Asks'
  BY <1>1 DEF Asks
<1> QED
  BY <1>2, <1>3, <1>4, <1>5

\* A step from one state of an attempt to another, which begins no review.
LEMMA Moved ==
    ASSUME HookInv, NEW s, hook' = [hook EXCEPT !.pc = s],
           hook.pc = "sent",
           \/ s = "unknown"
           \/ s = "held" /\ hook.server = instance /\ up,
           UNCHANGED <<shellVars, history>>
    PROVE  HookInv'
<1>1. KeepsBut({"pc", "token"}) /\ hook'.pc = s
  BY Moves DEF HookInv
<1> USE DEF HookInv, HookTypeOK, Before, Posted, Fields, KeepsBut, shellVars, history
<1>2. HookTypeOK'
  BY <1>1
<1>3. Timing'
  BY <1>1 DEF Timing
<1>4. Reviews'
  BY <1>1 DEF Reviews
<1>5. Asks'
  BY <1>1 DEF Asks
<1> QED
  BY <1>2, <1>3, <1>4, <1>5

\* The turn has not ended yet.
LEMMA HookInit == Init => HookInv
<1> SUFFICES ASSUME Init PROVE HookInv
  OBVIOUS
<1> USE BudgetAssumption, InstancesAssumption
    DEF Init, Idle, Waits, Fields, Before, Posted, Blocking, Instances
<1>1. HookTypeOK
  BY DEF HookTypeOK
<1>2. Timing
  BY DEF Timing
<1>3. Reviews
  BY DEF Reviews
<1>4. Asks
  BY DEF Asks
<1> QED
  BY <1>1, <1>2, <1>3, <1>4 DEF HookInv

\* The parts of the invariant hold together (stop-review.mjs:566-640,
\* signed-client.mjs:531-567, index.js:557-572).
LEMMA HookStep == HookInv /\ [Next]_vars => HookInv'
<1> SUFFICES ASSUME HookInv, [Next]_vars PROVE HookInv'
  OBVIOUS
<1> USE BudgetAssumption
    DEF HookInv, HookTypeOK, Posted, Before, Waits, At, shellVars, history,
        KeepsBut, Fields
<1>1. CASE ReadCredentials
  <2>1. CASE End("no_token")
    BY <1>1, <2>1, Ended DEF ReadCredentials, Blocking
  <2>2. CASE ~End("no_token")
    <3>1. PICK t : hook' = [hook EXCEPT !.pc = "selecting", !.token = t]
      BY <1>1, <2>2 DEF ReadCredentials
    <3>2. KeepsBut({"pc", "token"}) /\ hook'.pc = "selecting"
      BY <3>1, Moves
    <3>3. hook.pc = "idle" /\ UNCHANGED <<shellVars, history>>
      BY <1>1 DEF ReadCredentials
    <3>4. HookTypeOK' /\ Timing'
      BY <3>2, <3>3 DEF Timing
    <3>5. Reviews' /\ Asks'
      BY <3>2, <3>3 DEF Reviews, Asks
    <3> QED
      BY <3>4, <3>5
  <2> QED
    BY <2>1, <2>2
<1>2. CASE SelectServer
  <2>1. CASE End("no_server")
    BY <1>2, <2>1, Ended DEF SelectServer, Blocking
  <2>2. CASE ~End("no_server")
    <3>1. PICK w \in Waits :
             hook' = [hook EXCEPT !.pc = "ready", !.server = instance,
                                  !.limit = w]
      BY <1>2, <2>2 DEF SelectServer
    <3>2. /\ KeepsBut({"pc", "server", "limit"})
          /\ hook'.pc = "ready" /\ hook'.server = instance /\ hook'.limit = w
      BY <3>1, Selects
    <3>3. hook.pc = "selecting" /\ UNCHANGED <<shellVars, history>>
      BY <1>2 DEF SelectServer
    <3>4. HookTypeOK' /\ Timing'
      BY <3>2, <3>3 DEF Timing, Instances
    <3>5. Reviews'
      BY <3>2, <3>3 DEF Reviews, Instances
    <3>6. Asks'
      BY <3>2, <3>3 DEF Asks, Timing
    <3> QED
      BY <3>4, <3>5, <3>6
  <2> QED
    BY <2>1, <2>2
<1>3. CASE Post
  <2>1. hook.left # 0 /\ hook.pc = "ready" /\ UNCHANGED <<shellVars, history>>
    BY <1>3 DEF Post, Timing
  <2>2. HookTypeOK'
    BY <1>3, <2>1, Posts
  <2>3. Timing'
    BY <1>3, <2>1, Posts DEF Timing
  <2>4. Reviews'
    BY <1>3, <2>1, Posts DEF Reviews
  <2>5. Asks'
    BY <1>3, <2>1, Posts DEF Asks, Timing, MaxAttempts
  <2> QED
    BY <2>2, <2>3, <2>4, <2>5
<1>4. CASE Receive
  <2>1. CASE End("fetch_error")
    BY <1>4, <2>1, Ended DEF Receive, Blocking
  <2>2. CASE ~End("fetch_error")
    BY <1>4, <2>2, Moved DEF Receive
  <2> QED
    BY <2>1, <2>2
<1>5. CASE Denied
  <2>1. /\ hook.pc \in {"held", "running"} /\ misled'
        /\ UNCHANGED <<shellVars, disturbed>>
        /\ hook.server = instance
    BY <1>5 DEF Denied, Reviews
  <2>2. PICK s \in {"unknown", "ended"} :
           /\ hook'.pc = s /\ KeepsBut({"pc", "token", "outcome"})
           /\ s = "unknown" => hook'.outcome = hook.outcome
           /\ s = "ended" => hook'.outcome = "fetch_error"
    <3>1. CASE End("fetch_error")
      BY <3>1, Ends
    <3>2. CASE hook' = [hook EXCEPT !.pc = "unknown"]
      BY <3>2, Moves
    <3> QED
      BY <1>5, <3>1, <3>2 DEF Denied
  <2>3. /\ ran' \in [Instances -> Nat]
        /\ ran'[instance] <= 1
        /\ \A j \in Instances : j # instance => ran'[j] = ran[j]
    <3>1. CASE hook.pc = "held" /\ Began(instance)
      <4>1. ran[instance] = 0
        BY <2>1, <3>1 DEF Reviews
      <4> QED
        BY <3>1, <4>1, Counts
    <3>2. CASE UNCHANGED ran
      BY <3>2 DEF Reviews
    <3> QED
      BY <1>5, <3>1, <3>2 DEF Denied
  <2>4. HookTypeOK'
    BY <2>1, <2>2, <2>3
  <2>5. Timing'
    BY <2>1, <2>2 DEF Timing
  <2>6. Reviews'
    BY <2>1, <2>2, <2>3 DEF Reviews, Blocking, Instances
  <2>7. Asks'
    BY <2>1, <2>2 DEF Asks
  <2> QED
    BY <2>4, <2>5, <2>6, <2>7
<1>6. CASE Reselect
  <2>1. CASE End("fetch_error")
    BY <1>6, <2>1, Ended DEF Reselect, Blocking
  <2>2. CASE ~End("fetch_error")
    <3>1. /\ hook' = [hook EXCEPT !.pc = "sent", !.server = instance,
                                  !.again = TRUE]
          /\ instance # hook.server
          /\ hook.pc = "unknown" /\ UNCHANGED <<shellVars, history>>
      BY <1>6, <2>2 DEF Reselect
    <3>2. /\ KeepsBut({"pc", "server", "again"})
          /\ hook'.pc = "sent" /\ hook'.server = instance
      BY <3>1, Resends
    <3>3. instance > hook.server
      BY <3>1 DEF Reviews, Instances
    <3>4. HookTypeOK' /\ Timing'
      BY <3>1, <3>2 DEF Timing, Instances
    <3>5. Reviews'
      BY <3>1, <3>2, <3>3 DEF Reviews, Instances, Blocking
    <3>6. Asks'
      BY <3>1, <3>2 DEF Asks
    <3> QED
      BY <3>4, <3>5, <3>6
  <2> QED
    BY <2>1, <2>2
<1>7. CASE Admit
  <2>1. /\ hook.pc = "held" /\ UNCHANGED <<shellVars, misled, disturbed>>
        /\ hook.server = instance /\ ran[instance] = 0
    BY <1>7 DEF Admit, Reviews
  <2>2. CASE ~hook.final /\ hook.timer < needs
    <3>1. hook' = [hook EXCEPT !.pc = "ready", !.limit = needs] /\ ran' = ran
      BY <1>7, <2>2 DEF Admit
    <3>2. /\ KeepsBut({"pc", "limit"})
          /\ hook'.pc = "ready" /\ hook'.limit = needs
      BY <3>1, Readies
    <3>3. HookTypeOK' /\ Timing'
      BY <2>1, <2>2, <3>1, <3>2 DEF Timing
    <3>4. Reviews'
      BY <2>1, <3>1, <3>2 DEF Reviews
    <3>5. Asks'
      BY <2>1, <2>2, <3>1, <3>2 DEF Asks
    <3> QED
      BY <3>3, <3>4, <3>5
  <2>3. CASE ~(~hook.final /\ hook.timer < needs)
    <3> DEFINE short == hook.timer < needs /\ needs <= hook.left
    <3>1. hook' = [hook EXCEPT !.pc = "running", !.short = short]
      BY <1>7, <2>3 DEF Admit
    <3>2. Began(instance)
      BY <1>7, <2>3 DEF Admit
    <3>3. hook'.pc = "running" /\ hook'.short = short /\ KeepsBut({"pc", "short"})
      <4> HIDE DEF short
      <4> QED
        BY <3>1, Begins
    <3>4. /\ ran' \in [Instances -> Nat]
          /\ ran'[instance] = 1
          /\ \A j \in Instances : j # instance => ran'[j] = ran[j]
      BY <2>1, <3>2, Counts
    <3>5. HookTypeOK' /\ Timing'
      BY <2>1, <2>3, <3>3, <3>4 DEF Timing
    <3>6. Reviews'
      BY <2>1, <3>3, <3>4 DEF Reviews, Instances
    <3>7. short => disturbed = 2
      BY <2>1, <2>3 DEF Asks, Timing
    <3>8. /\ hook.attempt' = hook.attempt /\ hook.left' = hook.left
          /\ hook.timer' = hook.timer /\ hook.final' = hook.final
      BY <3>3
    <3>9. Asks'
      <4> HIDE DEF short
      <4> QED
        BY <2>1, <3>3, <3>7, <3>8 DEF Asks
    <3> QED
      BY <3>5, <3>6, <3>9
  <2> QED
    BY <2>2, <2>3
<1>8. CASE Answer
  <2>1. PICK o \in Blocking \cup Passing : End(o)
    BY <1>8 DEF Answer
  <2> QED
    BY <1>8, <2>1, Ended DEF Answer, Blocking, Passing
<1>9. CASE DeadlinePasses
  BY <1>9, Ended DEF DeadlinePasses, Blocking
<1>10. CASE Tick
  <2>1. /\ hook.pc \in {"held", "running"} /\ hook.timer > Margin
        /\ UNCHANGED <<shellVars, ran, misled>>
        /\ disturbed' = IF hook.attempt > 1 /\ disturbed < 2
                           THEN disturbed + 1 ELSE disturbed
    BY <1>10 DEF Tick, Due, Margin, Disturb, Told
  <2>2. HookTypeOK'
    BY <1>10, <2>1, Ticks
  <2>3. Timing'
    BY <1>10, <2>1, Ticks DEF Margin, Timing
  <2>4. Reviews'
    BY <1>10, <2>1, Ticks DEF Reviews
  <2>5. Asks'
    BY <1>10, <2>1, Ticks DEF Asks
  <2> QED
    BY <2>2, <2>3, <2>4, <2>5
<1>11. CASE ServerStops
  <2>1. CASE End("fetch_error")
    BY <1>11, <2>1, Ended DEF ServerStops, Blocking
  <2>2. CASE UNCHANGED hook /\ hook.pc \notin {"held", "running"}
    <3>1. UNCHANGED <<hook, instance, needs, history>>
      BY <1>11, <2>2 DEF ServerStops
    <3> QED
      BY <2>2, <3>1 DEF Timing, Reviews, Asks
  <2> QED
    BY <1>11, <2>1, <2>2 DEF ServerStops, ConnectionLost
<1>12. CASE ServerStarts
  <2>1. /\ UNCHANGED <<hook, needs, history>> /\ ~up
        /\ instance' = instance + 1 /\ instance' <= MaxInstances
    BY <1>12, InstancesAssumption DEF ServerStarts, Instances
  <2>2. HookTypeOK' /\ Timing' /\ Asks'
    BY <2>1, InstancesAssumption DEF Timing, Asks, Instances
  <2>3. Reviews'
    BY <2>1 DEF Reviews, Instances
  <2> QED
    BY <2>2, <2>3
<1>13. CASE UNCHANGED <<hook, shellVars, history>>
  BY <1>13 DEF Timing, Reviews, Asks
<1>14. CASE SetNeeds
  <2>1. /\ UNCHANGED <<hook, instance, up, ran, misled>> /\ needs' \in Waits
        /\ disturbed' = IF Told /\ disturbed < 2 THEN disturbed + 1 ELSE disturbed
    BY <1>14 DEF SetNeeds, Disturb
  <2>2. HookTypeOK' /\ Timing' /\ Reviews'
    BY <2>1 DEF Timing, Reviews
  <2>3. Asks'
    BY <2>1 DEF Asks, Told
  <2> QED
    BY <2>2, <2>3
<1> QED
  BY <1>1, <1>2, <1>3, <1>4, <1>5, <1>6, <1>7, <1>8, <1>9, <1>10, <1>11,
     <1>12, <1>13, <1>14
  DEF Next, Meanwhile, OtherRequest, vars

\* By induction over the steps.
LEMMA HookAlways == Spec => []HookInv
BY HookInit, HookStep, PTL DEF Spec

(* A server reviews a Stop at most once, another one only after a server   *)
(* that had got the request was said not to have, and the Stop is blocked  *)
(* only by the server that reviewed it (signed-client.mjs:531-567).        *)
THEOREM ReviewedOnce == Spec => []OneReviewPerStop
<1>1. HookInv => OneReviewPerStop
  BY DEF HookInv, Reviews, OneReviewPerStop
<1> QED
  BY HookAlways, <1>1, PTL

(* The hook keeps to its budget and is never told too late to have waited  *)
(* longer (stop-review.mjs:566-640).                                       *)
THEOREM KeepsBudget == Spec => []EndsInBudget
<1>1. HookInv => EndsInBudget
  BY DEF HookInv, Timing, EndsInBudget
<1> QED
  BY HookAlways, <1>1, PTL

(* Three attempts are enough for one disturbance: what begins without the  *)
(* wait that it needs, and that is left, was disturbed twice after the     *)
(* first answer (stop-review.mjs:579-640, index.js:557-572).               *)
THEOREM AsksEnough == Spec => []WaitIsEnough
<1>1. HookInv => WaitIsEnough
  BY DEF HookInv, Asks, WaitIsEnough
<1> QED
  BY HookAlways, <1>1, PTL

-----------------------------------------------------------------------------
(* The tokens.                                                             *)

\* What the file holds and the server knows is what TokenState says of it.
LEMMA TokenStep == TokenInv /\ [Next]_vars => TokenInv'
<1> SUFFICES ASSUME TokenInv, [Next]_vars PROVE TokenInv'
  OBVIOUS
<1>1. CASE Refresh /\ UNCHANGED <<grace, authVars>>
  BY <1>1, RefreshStep
<1>2. CASE UNCHANGED <<authVars, serverVars, grace>> /\ now' \in 0 .. MaxTime
  BY <1>2 DEF TokenInv, TokenTypeOK, RevokedInv, authVars, serverVars
<1>3. CASE UNCHANGED tokenVars
  BY <1>2, <1>3 DEF tokenVars, authVars, serverVars, TokenInv, TokenTypeOK
<1>4. CASE SelectServer \/ Receive \/ Reselect
  <2>1. CASE Refresh
    BY <1>1, <1>4, <2>1 DEF SelectServer, Receive, Reselect, authVars
  <2>2. CASE UNCHANGED serverVars
    BY <1>3, <1>4, <2>2
    DEF SelectServer, Receive, Reselect, tokenVars, authVars, serverVars
  <2> QED
    BY <1>4, <2>1, <2>2
    DEF SelectServer, Receive, Reselect, Proves, FailsToProve
<1>5. CASE ServerStarts
  BY <1>5, StartStep DEF ServerStarts
<1>6. CASE OtherRequest
  BY <1>1, <1>6 DEF OtherRequest
<1>7. CASE Tick
  BY <1>2, <1>7, TokenAssumption DEF Tick, TokenInv, TokenTypeOK
<1>8. CASE TokenEvent
  BY <1>8, TokenEventStep
<1> QED
  BY <1>3, <1>4, <1>5, <1>6, <1>7, <1>8
  DEF Next, Meanwhile, ReadCredentials, Post, Denied, Admit, Answer,
      DeadlinePasses, ServerStops, SetNeeds, vars

\* By induction over the steps.
LEMMA TokenAlways == Spec => []TokenInv
<1>1. Init => TokenInv
  BY TokenInitInv DEF Init
<1> QED
  BY <1>1, TokenStep, PTL DEF Spec

\* While it runs, the server begins to accept no token but the file's.
LEMMA StaysOut ==
    ASSUME TokenInv, [Next]_vars, up, up'
    PROVE  Accepted' \subseteq Accepted \cup {auth.token}
<1>1. CASE Refresh
  BY <1>1, RefreshKeepsOut DEF TokenInv
<1>2. CASE UNCHANGED serverVars /\ now' \in Nat /\ now' >= now
  <2>1. ASSUME NEW p \in previous', p.until > now'
        PROVE  p \in previous /\ p.until > now
    <3>1. p \in previous /\ p.until \in Nat /\ now \in Nat
      BY <1>2, <2>1, TokenAssumption
      DEF TokenInv, TokenTypeOK, Predecessor, serverVars
    <3> QED
      BY <1>2, <2>1, <3>1
  <2> QED
    BY <1>2, <2>1 DEF Accepted, serverVars
<1>3. now \in Nat
  BY TokenAssumption DEF TokenInv, TokenTypeOK
<1>4. CASE UNCHANGED <<now, serverVars>>
  BY <1>2, <1>3, <1>4
<1>5. CASE SelectServer \/ Receive \/ Reselect
  BY <1>1, <1>4, <1>5 DEF SelectServer, Receive, Reselect, Proves, FailsToProve
<1>6. CASE OtherRequest
  BY <1>1, <1>6 DEF OtherRequest
<1>7. CASE Tick
  <2>1. UNCHANGED serverVars /\ now' = now + 1
    BY <1>7 DEF Tick
  <2> QED
    BY <1>2, <1>3, <2>1
<1>8. CASE TokenEvent
  BY <1>4, <1>8, TokenEventStep
<1> QED
  BY <1>4, <1>5, <1>6, <1>7, <1>8
  DEF Next, Meanwhile, ReadCredentials, Post, Denied, Admit, Answer,
      DeadlinePasses, ServerStops, ServerStarts, SetNeeds, vars, tokenVars,
      serverVars

\* A request that the server takes bears no token that was revoked.
LEMMA TakesNoRevoked ==
    ASSUME TokenInv, HookTypeOK, [Next]_vars, auth.parses,
           hook.pc = "sent", hook'.pc = "held"
    PROVE  hook.token \notin revoked
<1>1. CASE Receive
  <2>1. ~End("fetch_error")
    BY Ends
  <2>2. hook' # [hook EXCEPT !.pc = "unknown"]
    BY Moves
  <2>3. Refresh /\ hook.token \in Accepted'
    BY <1>1, <2>1, <2>2 DEF Receive
  <2> QED
    BY <2>3, RefreshRevokes
<1>2. CASE UNCHANGED hook
  BY <1>2
<1>3. CASE ServerStops
  BY <1>2, <1>3 DEF ServerStops, ConnectionLost
<1> QED
  BY <1>1, <1>2, <1>3
  DEF Next, Meanwhile, ReadCredentials, SelectServer, Post, Denied, Reselect,
      Admit, Answer, DeadlinePasses, Tick, ServerStarts, OtherRequest,
      SetNeeds, At, vars

(* An old token stays out, whatever records the file has dropped, however  *)
(* many rotations the server missed and whatever the grace is set to       *)
(* (auth.js:54-146).                                                       *)
THEOREM OldTokensOut == Spec => OldTokensStayOut
<1>1. TokenInv /\ HookInv /\ [Next]_vars =>
         [/\ up /\ up' => Accepted' \subseteq Accepted \cup {auth.token}
          /\ hook.pc = "sent" /\ hook'.pc = "held" /\ auth.parses
             => hook.token \notin revoked]_vars
  BY StaysOut, TakesNoRevoked DEF HookInv
<1> QED
  BY <1>1, TokenAlways, HookAlways, PTL DEF Spec, OldTokensStayOut
=============================================================================
