----------------------------- MODULE ReviewQueue -----------------------------
(***************************************************************************)
(* How concurrent POST /review calls share and queue reviewer pipelines    *)
(* (server/src/core/review/review.js: handleReview, createReviewHandler).  *)
(*                                                                         *)
(* A review is one call of handleReview.  Its key stands for inflightKey   *)
(* (context, force, provider, review key, extras, core): a second call     *)
(* with the key of a live pipeline joins that pipeline; any other call     *)
(* starts a pipeline of its own, which waits behind the last pipeline of   *)
(* its context.  A pipeline is named by the review that created it, its    *)
(* owner.  A review with a deadline answers by then, whatever its pipeline *)
(* does.  What the pipeline itself does to the stored context is the       *)
(* subject of ReviewLoop; here it only runs and settles.                   *)
(*                                                                         *)
(* JavaScript runs one callback at a time, so every stretch of code        *)
(* between two awaits is one action.                                       *)
(***************************************************************************)
EXTENDS Integers

CONSTANTS
    Req,    \* the calls of handleReview
    Key,    \* the values of inflightKey
    Ctx,    \* the contexts, <repoRoot>|<branch>
    CtxOf,  \* the context a key belongs to
    Timed,  \* the calls with a deadline: those of Stop hooks
    None    \* no review

ASSUME NoneAssumption == None \notin Req
ASSUME CtxOfAssumption == CtxOf \in [Key -> Ctx]
ASSUME TimedAssumption == Timed \subseteq Req

VARIABLES
    phase,      \* phase[r]: how far handleReview of r has got
    answer,     \* answer[r]: what the caller was sent
    key,        \* key[r]: the key of r, once its context is resolved
    owner,      \* owner[r]: the pipeline r waits on
    pipe,       \* pipe[p]: the state of p's pipeline
    prev,       \* prev[p]: the tail p captured, which it runs after
    abandoned,  \* pipelines whose owner left the queue
    forgotten,  \* settled pipelines whose slot has been cleared
    inflight,   \* inflight[k]: the pipeline a new review with key k joins
    chain,      \* chain[c]: the last pipeline queued for context c
    joinCounts, \* joinCounts[p]: the reviews that joined p and still wait
    ahead       \* history: the pipelines of its context queued before p

reviews == <<phase, answer, key, owner>>
pipelines == <<pipe, prev, abandoned, forgotten, ahead>>
registry == <<inflight, chain, joinCounts>>
vars == <<phase, answer, key, owner, pipe, prev, abandoned, forgotten,
          inflight, chain, joinCounts, ahead>>

Phase == {"idle", "preparing", "waiting", "background", "returned"}
Answer == {"none", "result", "deadline", "invalid"}
Pipe == {"none", "queued", "running", "settled"}

\* The context of pipeline p.
CtxOfPipe(p) == CtxOf[key[p]]

\* A pipeline that may still run: someone can get a result from it.
Live(p) == pipe[p] \in {"queued", "running"} /\ p \notin abandoned

Settled(p) == pipe[p] = "settled"

\* The shell holds the admission of r until its handler returns.
Admitted(r) == phase[r] \in {"preparing", "waiting", "background"}

Joined(r) == phase[r] = "waiting" /\ owner[r] # r

\* The caller is answered once: a later outcome finds it answered.
Answered(r, a) == [answer EXCEPT ![r] = IF @ = "none" THEN a ELSE @]

TypeOK ==
    /\ phase \in [Req -> Phase]
    /\ answer \in [Req -> Answer]
    /\ key \in [Req -> Key \cup {None}]
    /\ owner \in [Req -> Req \cup {None}]
    /\ pipe \in [Req -> Pipe]
    /\ prev \in [Req -> Req \cup {None}]
    /\ abandoned \in SUBSET Req
    /\ forgotten \in SUBSET Req
    /\ inflight \in [Key -> Req \cup {None}]
    /\ chain \in [Ctx -> Req \cup {None}]
    /\ joinCounts \in [Req -> Int]
    /\ ahead \in [Req -> SUBSET Req]

Init ==
    /\ phase = [r \in Req |-> "idle"]
    /\ answer = [r \in Req |-> "none"]
    /\ key = [r \in Req |-> None]
    /\ owner = [r \in Req |-> None]
    /\ pipe = [r \in Req |-> "none"]
    /\ prev = [r \in Req |-> None]
    /\ abandoned = {}
    /\ forgotten = {}
    /\ inflight = [k \in Key |-> None]
    /\ chain = [c \in Ctx |-> None]
    /\ joinCounts = [r \in Req |-> 0]
    /\ ahead = [r \in Req |-> {}]

-----------------------------------------------------------------------------
(* A review comes in. *)
Arrive(r) ==
    /\ phase[r] = "idle"
    /\ phase' = [phase EXCEPT ![r] = "preparing"]
    /\ UNCHANGED <<answer, key, owner, pipelines, registry>>

(* No cwd, or its context cannot be resolved: answered without a pipeline. *)
Refuse(r) ==
    /\ phase[r] = "preparing"
    /\ phase' = [phase EXCEPT ![r] = "returned"]
    /\ answer' = Answered(r, "invalid")
    /\ UNCHANGED <<key, owner, pipelines, registry>>

(* The context is resolved and a pipeline with this key is registered:     *)
(* wait on that one.                                                       *)
Join(r, k) ==
    /\ phase[r] = "preparing"
    /\ inflight[k] # None
    /\ phase' = [phase EXCEPT ![r] = "waiting"]
    /\ key' = [key EXCEPT ![r] = k]
    /\ owner' = [owner EXCEPT ![r] = inflight[k]]
    /\ joinCounts' = [joinCounts EXCEPT ![inflight[k]] = @ + 1]
    /\ UNCHANGED <<answer, pipelines, inflight, chain>>

\* Fault: the tail is registered under the key instead of the context.
QueueTailByKey(r, k) ==
    /\ phase[r] = "preparing"
    /\ inflight[k] = None
    /\ phase' = [phase EXCEPT ![r] = "waiting"]
    /\ key' = [key EXCEPT ![r] = k]
    /\ owner' = [owner EXCEPT ![r] = r]
    /\ pipe' = [pipe EXCEPT ![r] = "queued"]
    /\ prev' = [prev EXCEPT ![r] = chain[CtxOf[k]]]
    /\ ahead' = ahead
    /\ inflight' = [inflight EXCEPT ![k] = r]
    /\ chain' = [c \in Ctx \cup {k} |-> IF c = k THEN r ELSE chain[c]]
    /\ UNCHANGED <<answer, abandoned, forgotten, joinCounts>>

(* Otherwise create a pipeline, which waits behind the context's tail (it  *)
(* runs next when there is none), and register it as the pipeline to join  *)
(* and as the new tail.                                                    *)
Queue(r, k) ==
    /\ phase[r] = "preparing"
    /\ inflight[k] = None
    /\ phase' = [phase EXCEPT ![r] = "waiting"]
    /\ key' = [key EXCEPT ![r] = k]
    /\ owner' = [owner EXCEPT ![r] = r]
    /\ pipe' = [pipe EXCEPT ![r] = "queued"]
    /\ prev' = [prev EXCEPT ![r] = chain[CtxOf[k]]]
    /\ ahead' = [ahead EXCEPT ![r] =
                    {q \in Req : pipe[q] # "none" /\ CtxOfPipe(q) = CtxOf[k]}]
    /\ inflight' = [inflight EXCEPT ![k] = r]
    /\ chain' = [chain EXCEPT ![CtxOf[k]] = r]
    /\ UNCHANGED <<answer, abandoned, forgotten, joinCounts>>

-----------------------------------------------------------------------------
(* The pipelines.  forget is the first reaction registered on a pipeline,  *)
(* so whatever else waits on it resumes after its slot is cleared.         *)

\* Fault: whoever finds nothing of its context running takes its turn.
MyTurnWhenFree(p) ==
    /\ pipe[p] = "queued"
    /\ ~ \E q \in Req : pipe[q] = "running" /\ CtxOfPipe(q) = CtxOfPipe(p)

\* Fault: an abandoned link counts as settled before its turn came.
MyTurnPastAbandoned(p) ==
    /\ pipe[p] = "queued"
    /\ prev[p] = None \/ prev[p] \in forgotten \cup abandoned

\* `await prevTail` returns.
MyTurn(p) ==
    /\ pipe[p] = "queued"
    /\ prev[p] = None \/ prev[p] \in forgotten

(* The pipeline reads the stored context and runs. *)
Start(p) ==
    /\ MyTurn(p)
    /\ p \notin abandoned
    /\ pipe' = [pipe EXCEPT ![p] = "running"]
    /\ UNCHANGED <<reviews, prev, abandoned, forgotten, ahead, registry>>

\* Fault: an abandoned pipeline never settles.
SkipWithoutSettling(p) == MyTurn(p) /\ p \in abandoned /\ UNCHANGED vars

(* Its owner left the queue: it settles without having run. *)
Skip(p) ==
    /\ MyTurn(p)
    /\ p \in abandoned
    /\ pipe' = [pipe EXCEPT ![p] = "settled"]
    /\ UNCHANGED <<reviews, prev, abandoned, forgotten, ahead, registry>>

(* The pipeline answers or throws. *)
Settle(p) ==
    /\ pipe[p] = "running"
    /\ pipe' = [pipe EXCEPT ![p] = "settled"]
    /\ UNCHANGED <<reviews, prev, abandoned, forgotten, ahead, registry>>

\* Fault: the slot is cleared although a newer pipeline has taken it.
ForgetAnySlot(p) ==
    /\ Settled(p)
    /\ p \notin forgotten
    /\ forgotten' = forgotten \cup {p}
    /\ inflight' = [inflight EXCEPT ![key[p]] = None]
    /\ chain' = [c \in Ctx |->
                      IF c = CtxOfPipe(p) /\ chain[c] = p THEN None ELSE chain[c]]
    /\ UNCHANGED <<reviews, pipe, prev, abandoned, ahead, joinCounts>>

\* Fault: the tail is cleared although a later pipeline has become it.
ForgetAnyTail(p) ==
    /\ Settled(p)
    /\ p \notin forgotten
    /\ forgotten' = forgotten \cup {p}
    /\ inflight' = [k \in Key |->
                      IF k = key[p] /\ inflight[k] = p THEN None ELSE inflight[k]]
    /\ chain' = [chain EXCEPT ![CtxOfPipe(p)] = None]
    /\ UNCHANGED <<reviews, pipe, prev, abandoned, ahead, joinCounts>>

(* Clear the slot and the tail, each only if it is still this pipeline's. *)
Forget(p) ==
    /\ Settled(p)
    /\ p \notin forgotten
    /\ forgotten' = forgotten \cup {p}
    /\ inflight' = [k \in Key |->
                      IF k = key[p] /\ inflight[k] = p THEN None ELSE inflight[k]]
    /\ chain' = [c \in Ctx |->
                      IF c = CtxOfPipe(p) /\ chain[c] = p THEN None ELSE chain[c]]
    /\ UNCHANGED <<reviews, pipe, prev, abandoned, ahead, joinCounts>>

-----------------------------------------------------------------------------
(* A waiter gets its pipeline's result.  A joiner stops counting. *)
GetResult(r) ==
    /\ phase[r] = "waiting"
    /\ owner[r] \in forgotten
    /\ phase' = [phase EXCEPT ![r] = "returned"]
    /\ answer' = Answered(r, "result")
    /\ joinCounts' = IF Joined(r) THEN [joinCounts EXCEPT ![owner[r]] = @ - 1]
                                  ELSE joinCounts
    /\ UNCHANGED <<key, owner, pipelines, inflight, chain>>

\* raceDeadline's timer fires: the pipeline has not settled (a settled one
\* has already resumed the waiter and cleared the timer).
DeadlinePasses(r) ==
    /\ phase[r] = "waiting"
    /\ r \in Timed
    /\ ~ Settled(owner[r])

\* Fault: joiners are not looked at.
MayAbandonJoined(r) == pipe[r] = "queued"

\* Nobody needs r's pipeline: it has not started and nobody joined it.
MayAbandon(r) == pipe[r] = "queued" /\ joinCounts[r] = 0

(* A joiner's deadline: only this waiter stops. *)
JoinerTimeout(r) ==
    /\ DeadlinePasses(r)
    /\ Joined(r)
    /\ phase' = [phase EXCEPT ![r] = "returned"]
    /\ answer' = Answered(r, "deadline")
    /\ joinCounts' = [joinCounts EXCEPT ![owner[r]] = @ - 1]
    /\ UNCHANGED <<key, owner, pipelines, inflight, chain>>

(* The owner's deadline while queued: leave the queue and never run.  The  *)
(* chain keeps the pipeline as a link.                                     *)
Abandon(r) ==
    /\ DeadlinePasses(r)
    /\ owner[r] = r
    /\ MayAbandon(r)
    /\ phase' = [phase EXCEPT ![r] = "returned"]
    /\ answer' = Answered(r, "deadline")
    /\ abandoned' = abandoned \cup {r}
    /\ inflight' = [k \in Key |->
                      IF k = key[r] /\ inflight[k] = r THEN None ELSE inflight[k]]
    /\ UNCHANGED <<key, owner, pipe, prev, forgotten, ahead, chain,
                   joinCounts>>

\* Fault: the handler returns, and the shell releases the review, while the
\* pipeline runs.
AnswerEarlyUnpinned(r) ==
    /\ DeadlinePasses(r)
    /\ owner[r] = r
    /\ ~ MayAbandon(r)
    /\ phase' = [phase EXCEPT ![r] = "returned"]
    /\ answer' = Answered(r, "deadline")
    /\ UNCHANGED <<key, owner, pipelines, registry>>

(* The owner's deadline otherwise: answer now, and stay admitted until the *)
(* pipeline settles.                                                       *)
AnswerEarly(r) ==
    /\ DeadlinePasses(r)
    /\ owner[r] = r
    /\ ~ MayAbandon(r)
    /\ phase' = [phase EXCEPT ![r] = "background"]
    /\ answer' = Answered(r, "deadline")
    /\ UNCHANGED <<key, owner, pipelines, registry>>

(* settleBackground: the pipeline left running has settled. *)
BackgroundDone(r) ==
    /\ phase[r] = "background"
    /\ owner[r] \in forgotten
    /\ phase' = [phase EXCEPT ![r] = "returned"]
    /\ UNCHANGED <<answer, key, owner, pipelines, registry>>

\* Fault: the deadline covers the wait on a pipeline only.
OnTimeWaiting(r) ==
    /\ r \in Timed
    /\ phase[r] = "waiting"
    /\ answer[r] = "none"
    /\ answer' = [answer EXCEPT ![r] = "deadline"]
    /\ UNCHANGED <<phase, key, owner, pipelines, registry>>

(* onTime, around all of handleReview: the caller is answered at the       *)
(* deadline while the review is still being prepared, or just before its   *)
(* own timer fires; the work goes on.                                      *)
OnTime(r) ==
    /\ r \in Timed
    /\ phase[r] \in {"preparing", "waiting"}
    /\ answer[r] = "none"
    /\ answer' = [answer EXCEPT ![r] = "deadline"]
    /\ UNCHANGED <<phase, key, owner, pipelines, registry>>

(* Every review that came in is over and every pipeline has settled. *)
Quiet ==
    /\ \A r \in Req : phase[r] = "returned"
    /\ \A p \in Req : pipe[p] # "none" => p \in forgotten
    /\ UNCHANGED vars

-----------------------------------------------------------------------------
Request(r) ==
    \/ Arrive(r)
    \/ Refuse(r)
    \/ \E k \in Key : Join(r, k) \/ Queue(r, k)

Pipeline(p) == Start(p) \/ Skip(p) \/ Settle(p) \/ Forget(p)

Outcome(r) ==
    \/ GetResult(r)
    \/ JoinerTimeout(r)
    \/ Abandon(r)
    \/ AnswerEarly(r)
    \/ BackgroundDone(r)
    \/ OnTime(r)

Next == (\E r \in Req : Request(r) \/ Pipeline(r) \/ Outcome(r)) \/ Quiet

Spec == Init /\ [][Next]_vars

(* A promise reaction that is ready runs, and timers fire.  Nothing makes  *)
(* a review arrive, a deadline pass before the result, or (here) a git     *)
(* call or a reviewer end.                                                 *)
Fairness ==
    \A r \in Req :
        /\ WF_vars(Start(r) \/ Skip(r) \/ Forget(r))
        /\ WF_vars(GetResult(r) \/ BackgroundDone(r))
        /\ WF_vars(OnTime(r))

FairSpec == Spec /\ Fairness

(* git calls and reviewers are killed at their timeouts. *)
ChildrenEnd ==
    \A r \in Req :
        /\ WF_vars(Refuse(r) \/ \E k \in Key : Join(r, k) \/ Queue(r, k))
        /\ WF_vars(Settle(r))

-----------------------------------------------------------------------------
(* The state a pipeline reads at its start and replaces at its end is safe *)
(* from every other pipeline of its context, however reviews join, queue,  *)
(* time out and leave: at most one of them is running.                     *)
OneRunningPerContext ==
    \A p, q \in Req :
        pipe[p] = "running" /\ pipe[q] = "running" /\ CtxOfPipe(p) = CtxOfPipe(q)
            => p = q

(* Reviews of a context run in the order they were asked for: whatever was *)
(* queued before a running pipeline is over, links that were abandoned     *)
(* included.                                                               *)
RunsInOrder ==
    \A p \in Req : pipe[p] = "running" => \A q \in ahead[p] : Settled(q)

(* Identical reviews share one pipeline: no two pipelines that may run     *)
(* have the same key, so a re-fired Stop hook never pays for a second      *)
(* reviewer run, also after an owner gave up and asked again.              *)
OneLivePerKey ==
    \A p, q \in Req : Live(p) /\ Live(q) /\ key[p] = key[q] => p = q

(* A pipeline is abandoned only when its owner was the only one waiting:   *)
(* nobody is told "abandoned while queued" by someone else's deadline.     *)
NobodyWaitsOnAbandoned ==
    \A r \in Req : phase[r] = "waiting" => owner[r] \notin abandoned

(* A running pipeline holds the admission of the review that started it,   *)
(* answered or not: the shell swaps the core only when nothing is          *)
(* admitted, so a reviewer never outlives the core it runs on.             *)
RunningIsAdmitted == \A p \in Req : pipe[p] = "running" => Admitted(p)

(* No admission leaks: if git and the reviewers end, every review that     *)
(* came in returns, answered.  An owner that leaves the queue, and the     *)
(* link it leaves in the chain, strand nobody behind it.                   *)
Released ==
    ChildrenEnd =>
        \A r \in Req : Admitted(r) ~> phase[r] = "returned" /\ answer[r] # "none"

(* A Stop hook is answered at its deadline even if its context never       *)
(* resolves or the reviewer it waits on never ends.                        *)
TimedAnswered == \A r \in Timed : phase[r] # "idle" ~> answer[r] # "none"

(* The pipelines of a context take turns as with a lock that serves its    *)
(* line in order; the abstract specification says what that promises.      *)
(* A pipeline stands in line from the call that queued it until it starts  *)
(* or its owner leaves, wherever the chain of promises still holds its     *)
(* link.                                                                   *)
Queued(p) == pipe[p] = "queued" /\ p \notin abandoned

InLine(c) == {p \in Req : Queued(p) /\ CtxOfPipe(p) = c}

Waiting == [c \in Ctx |-> InLine(c)]

Before ==
    [p \in Req |-> IF Queued(p) THEN {q \in ahead[p] : Queued(q)} ELSE {}]

Running(c) == {p \in Req : pipe[p] = "running" /\ CtxOfPipe(p) = c}

HolderOf(S) == IF S = {} THEN None ELSE CHOOSE p \in S : TRUE

Holder == [c \in Ctx |-> HolderOf(Running(c))]

Lock == INSTANCE ContextLock
            WITH Proc <- Req, waiting <- Waiting, before <- Before, holder <- Holder

(* Every step of the queue is a step of the first-come, first-served lock, *)
(* or leaves it alone: a pipeline starts only as the first of its line and *)
(* when its context is free, one whose owner leaves lets those behind it   *)
(* move up, and nobody else's place changes.                               *)
LockSafety == Lock!Spec

(* ... and the first of a line whose context is free does start, however   *)
(* many abandoned links stand between it and the last pipeline that ran,   *)
(* unless its owner leaves as well.  The reviewers need not end for that.  *)
LockServes == Lock!HeadIsServed
=============================================================================
