----------------------------- MODULE ReviewLoop ------------------------------
(***************************************************************************)
(* The review loop of one context: the pipeline of                         *)
(* server/src/core/review/review.js over the stored context of             *)
(* server/src/state.js, with everything that writes that context while a   *)
(* pipeline waits (change notifications, the exclusion list, resets) and   *)
(* everything that changes the repository under it.                        *)
(*                                                                         *)
(* One pipeline runs at a time (ReviewQueue).  It takes a snapshot of the  *)
(* stored context when it starts and gives it back, changed, when it ends. *)
(* It waits only for git and for the reviewer; the code between two waits  *)
(* is one action.  A crash loses the pipeline and keeps the stored         *)
(* context, which every save writes atomically.                            *)
(*                                                                         *)
(* A change is a file in one of its versions, version 0 being the one in   *)
(* HEAD; a finding is about a file, as is an exclusion.  A pass with notes *)
(* is a pass.  Times are kept only as far as the code compares them with   *)
(* zero; attemptsSincePass and lastChangeAt, which no decision reads, are  *)
(* left out.                                                               *)
(***************************************************************************)
EXTENDS Integers, FiniteSets

CONSTANTS
    File,       \* the files of the repository, numbered in git's order
    Versions,   \* a file's edits are numbered 1 .. Versions
    Terms,      \* review keys: provider, configuration and review code
    Extras,     \* callers' extra instructions, NoExtras among them
    NoExtras,
    MaxFiles,   \* limits.maxFiles: files shown besides flagged ones
    MaxRounds,  \* limits.maxCodexRounds
    MaxBlocks,  \* limits.maxBlocks
    Fallback,   \* payload.fallbackToHead
    None,       \* no baseline, no base commit, no answer
    MaxHead,    \* bound: commits made
    MaxForced,  \* bound: rounds past the cap, reached by forced reviews
    MaxChanges  \* bound: changes from outside while one pipeline runs

ASSUME FileAssumption == File \subseteq Nat
ASSUME VersionsAssumption == Versions \in Nat
ASSUME LimitsAssumption ==
    MaxFiles \in Nat /\ MaxRounds \in Nat /\ MaxBlocks \in Nat
ASSUME FallbackAssumption == Fallback \in BOOLEAN
ASSUME NoExtrasAssumption == NoExtras \in Extras

VARIABLES
    repo,       \* the repository
    store,      \* the stored context
    pc,         \* what the pipeline waits for, "idle" between requests
    req,        \* the request it serves
    snap,       \* its snapshot of the stored context
    relisted,   \* a file it saw excluded was taken off the list and put back
    payload,    \* the payload it builds, or built
    free,       \* the payload it builds without prior findings
    answer,     \* the last answer
    confirmed,  \* history: the fast path's conditions all held at one moment
    hist,       \* history: the last verdict, and counts since they were cleared
    outside     \* bound: changes from outside since the pipeline began

vars == <<repo, store, pc, req, snap, relisted, payload, free, answer,
          confirmed, hist, outside>>
rest == <<repo, store, req, snap, relisted, answer, confirmed, hist, outside>>
pipeline == <<pc, req, snap, payload, free, answer>>

Tree == [File -> 0 .. Versions]
Clean == [f \in File |-> 0]
Change == File \X (1 .. Versions)
ChangesIn(tree) == {<<f, tree[f]>> : f \in {g \in File : tree[g] # 0}}
PathsOf(changes) == {c[1] : c \in changes}

\* tree: the working tree against HEAD.  ahead: HEAD against its merge base.
Repository == [head : Nat, base : Nat, tree : Tree, ahead : Tree]

\* What a payload is made of.  listed: the files it names.  shown: the
\* changes it shows.  context: flagged files that did not change, shown
\* whole.  print: the listed and flagged files as they are on disk when they
\* are hashed, which is after the prompt was made.
Payload ==
    [head : Nat, base : Nat \cup {None}, listed : SUBSET File,
     shown : SUBSET Change, context : SUBSET File,
     print : SUBSET (File \X (0 .. Versions))]

Baseline == [of : Payload, key : Terms, extras : Extras, fast : BOOLEAN]

Context ==
    [rounds : Nat, blockCount : Nat, baseline : Baseline \cup {None},
     priors : SUBSET File, exclusions : SUBSET File, reviewed : BOOLEAN,
     status : {"none", "PASS", "ISSUES", "ESCALATE"}, dirty : BOOLEAN,
     notified : BOOLEAN]

\* What the reviewer judged, and under which exclusion list.
Judgement ==
    [status : {"PASS", "ISSUES", "ESCALATE"}, of : Payload, key : Terms,
     extras : Extras, exclusions : SUBSET File]

History ==
    [judged : Judgement \cup {None}, runs : Nat, blocks : Nat, toasts : Nat]

\* Nothing that is there is None.
ASSUME NoneAssumption == None \notin Payload \cup Baseline \cup Judgement

\* A Stop hook forces nothing and gives no instructions of its own.
Request ==
    {r \in [stop : BOOLEAN, force : BOOLEAN, key : Terms, extras : Extras] :
        r.stop => ~r.force /\ r.extras = NoExtras}

BlankContext ==
    [rounds |-> 0, blockCount |-> 0, baseline |-> None, priors |-> {},
     exclusions |-> {}, reviewed |-> FALSE, status |-> "none",
     dirty |-> TRUE, notified |-> FALSE]

PCs == {"idle", "head", "clean", "base", "build", "show", "print",
        "freeBuild", "freeShow", "freePrint", "review"}

NoHistory == [judged |-> None, runs |-> 0, blocks |-> 0, toasts |-> 0]

Init ==
    /\ repo = [head |-> 0, base |-> 0, tree |-> Clean, ahead |-> Clean]
    /\ store = BlankContext
    /\ pc = "idle"
    /\ req = None
    /\ snap = None
    /\ relisted = FALSE
    /\ payload = None
    /\ free = None
    /\ answer = None
    /\ confirmed = FALSE
    /\ hist = NoHistory
    /\ outside = 0
----------------------------------------------------------------------------
(* The stored context.                                                     *)

IdleReset(c) == [c EXCEPT !.rounds = 0, !.blockCount = 0, !.reviewed = FALSE]

Excluding(c, f) ==
    [c EXCEPT !.exclusions = @ \cup {f}, !.priors = @ \ {f},
              !.dirty = @ \/ f \notin c.exclusions,
              !.baseline = IF f \in c.exclusions THEN @ ELSE None]

Including(c, f) ==
    [c EXCEPT !.exclusions = @ \ {f}, !.dirty = TRUE, !.baseline = None]

\* A fault: the baseline of a review under another exclusion list stays.
SavedUnderAnyList(cur, s, w) ==
    [w EXCEPT !.exclusions = cur.exclusions, !.priors = @ \ cur.exclusions]

\* saveContext, writing w over the current context cur of a pipeline whose
\* snapshot is s: the exclusion list stays, and if it is not the one the
\* reviewer was given, the baseline does not count.
Saved(cur, s, w) ==
    LET drifted == relisted \/ cur.exclusions # s.exclusions
    IN  [w EXCEPT !.exclusions = cur.exclusions,
                  !.priors = @ \ cur.exclusions,
                  !.dirty = @ \/ drifted,
                  !.baseline = IF drifted THEN None ELSE @]

NotifyUser(r, s) == r.stop /\ ~s.notified

\* A fault: any verdict carries over to a request without extras.
ExtrasAcceptedUnlessGiven(b, extras, passing) ==
    b.extras = extras \/ extras = NoExtras

ExtrasAccepted(b, extras, passing) ==
    b.extras = extras \/ (extras = NoExtras /\ passing)

----------------------------------------------------------------------------
(* Payloads.  HEAD is read first, then the changes, then their hashes.     *)

Blank(head) == [head |-> head, base |-> None, listed |-> {}, shown |-> {},
                context |-> {}, print |-> {}]

InRange(head) == Fallback /\ repo.tree = Clean /\ repo.base # head

Shown(p, priors) ==
    LET changes == ChangesIn(IF InRange(p.head) THEN repo.ahead ELSE repo.tree)
        before(f) == {g \in PathsOf(changes) \ priors : g < f}
    IN  [p EXCEPT !.base = IF InRange(p.head) THEN repo.base ELSE None,
                  !.listed = PathsOf(changes),
                  !.shown = {c \in changes : \/ c[1] \in priors
                                              \/ Cardinality(before(c[1])) < MaxFiles},
                  !.context = priors \ PathsOf(changes)]

Printed(p) ==
    [p EXCEPT !.print = {<<f, repo.tree[f]>> : f \in p.listed \cup p.context}]

Empty(p) == p.listed \cup p.context = {}

SameRange(p, q) == p.head = q.head /\ p.base = q.base

\* progressHash covers the prompt and every listed file on disk.
SameProgress(p, q) ==
    /\ p.shown = q.shown /\ p.listed = q.listed /\ p.context = q.context
    /\ p.print = q.print

ShowsNothingUnreviewed(candidate, reviewed) ==
    /\ SameRange(candidate, reviewed)
    /\ candidate.shown \subseteq reviewed.shown
    /\ candidate.print \subseteq reviewed.print

BaselineOf(p, r) ==
    [of |-> p, key |-> r.key, extras |-> r.extras, fast |-> TRUE]

Unchanged(s, r, p) ==
    /\ ~r.force
    /\ s.baseline # None
    /\ SameProgress(s.baseline.of, p)
    /\ s.baseline.key = r.key
    /\ ExtrasAccepted(s.baseline, r.extras, s.status = "PASS")
    /\ SameRange(s.baseline.of, p)
----------------------------------------------------------------------------
(* Answers.                                                                *)

Told(h, r, kind, notify) ==
    [h EXCEPT !.blocks = IF r.stop /\ kind \in {"ISSUES", "NO_PROGRESS"}
                         THEN @ + 1 ELSE @,
              !.toasts = IF notify /\ @ < 2 THEN @ + 1 ELSE @]

\* The pipeline ends with an answer to r, the history being h.
Reply(h, r, kind, found, notify) ==
    /\ answer' = [kind |-> kind, found |-> found, notify |-> notify]
    /\ hist' = Told(h, r, kind, notify)
    /\ pc' = "idle"
    /\ req' = None /\ snap' = None /\ payload' = None /\ free' = None
    /\ relisted' = FALSE /\ confirmed' = FALSE /\ outside' = 0

\* One of the two caps is reached: the user is told once.
RefuseAtCap(h, cur, s, r, kind) ==
    LET notify == NotifyUser(r, s)
    IN  /\ store' = IF notify THEN Saved(cur, s, [s EXCEPT !.notified = TRUE])
                    ELSE cur
        /\ Reply(h, r, kind, {}, notify)

\* A fault: the cap is reached one block late.
BlockCapPassed(r, s) ==
    /\ ~r.force /\ r.stop
    /\ ~(s.status = "ISSUES" /\ s.priors = {})
    /\ s.blockCount > MaxBlocks

BlockCapReached(r, s) ==
    /\ ~r.force /\ r.stop
    /\ ~(s.status = "ISSUES" /\ s.priors = {})
    /\ s.blockCount >= MaxBlocks

\* Past the fast path: the block cap, then the payload.
PreCap(h, cur, s, r) ==
    IF BlockCapReached(r, s)
    THEN RefuseAtCap(h, cur, s, r, "MAX_BLOCKS")
    ELSE /\ store' = cur /\ hist' = h
         /\ pc' = "build" /\ req' = r /\ snap' = s
         /\ relisted' = (pc # "idle" /\ relisted)
         /\ confirmed' = FALSE
         /\ UNCHANGED <<payload, free, answer, outside>>

FastPathEligible(r, s) ==
    /\ ~r.force
    /\ ~s.dirty
    /\ s.baseline # None
    /\ s.baseline.fast
    /\ s.baseline.key = r.key
    /\ s.status = "PASS"
    /\ ExtrasAccepted(s.baseline, r.extras, TRUE)

\* The conditions of the fast path, on a repository rep.
Untouched(b, rep) ==
    /\ rep.head = b.of.head
    /\ rep.tree = Clean
    /\ Fallback => rep.base = b.of.base

(* A request's turn: the context is read, after an idle reset if it was    *)
(* not reviewed for long.                                                  *)
Begin ==
    \E r \in Request, idle \in BOOLEAN :
        LET s == IF idle THEN IdleReset(store) ELSE store
            h == IF idle THEN [hist EXCEPT !.runs = 0, !.blocks = 0] ELSE hist
        IN  /\ pc = "idle"
            /\ idle => store.reviewed
            /\ r.force => store.rounds < MaxRounds + MaxForced
            /\ UNCHANGED repo
            /\ IF FastPathEligible(r, s)
               THEN /\ pc' = "head" /\ req' = r /\ snap' = s /\ store' = s
                    /\ hist' = h /\ relisted' = FALSE
                    /\ confirmed' = Untouched(s.baseline, repo)
                    /\ UNCHANGED <<payload, free, answer, outside>>
               ELSE PreCap(h, s, s, r)

\* The fast path asks git three questions, one after the other.
FastPath(at, holds, next) ==
    /\ pc = at
    /\ UNCHANGED repo
    /\ \/ /\ holds
          /\ IF next = "done"
             THEN Reply(hist, req, "NO_CHANGES", {}, FALSE) /\ UNCHANGED store
             ELSE /\ pc' = next
                  /\ UNCHANGED <<store, req, snap, relisted, payload, free,
                                 answer, confirmed, hist, outside>>
       \/ PreCap(hist, store, snap, req)    \* no, or git could not say

HeadProbe == FastPath("head", repo.head = snap.baseline.of.head, "clean")

CleanProbe ==
    FastPath("clean", repo.tree = Clean, IF Fallback THEN "base" ELSE "done")

BaseProbe ==
    FastPath("base", /\ snap.baseline.of.base # None
                     /\ repo.base = snap.baseline.of.base, "done")

(* The payload: HEAD, then what changed, then its hashes and the decision. *)
BuildHead ==
    /\ pc = "build"
    /\ payload' = Blank(repo.head)
    /\ pc' = "show"
    /\ UNCHANGED <<rest, free>>

BuildPrompt ==
    /\ pc = "show"
    /\ payload' = Shown(payload, snap.priors)
    /\ pc' = "print"
    /\ UNCHANGED <<rest, free>>

NoProgress ==
    /\ store' = IF req.stop
                THEN Saved(store, snap, [snap EXCEPT !.blockCount = @ + 1,
                                                     !.reviewed = TRUE])
                ELSE store
    /\ Reply(hist, req, "NO_PROGRESS", snap.priors, FALSE)

ErrorCached ==
    LET notify == NotifyUser(req, snap)
    IN  /\ store' = IF req.stop
                    THEN Saved(store, snap,
                               [snap EXCEPT !.blockCount = @ + 1,
                                            !.reviewed = TRUE,
                                            !.notified = @ \/ notify])
                    ELSE store
        /\ Reply(hist, req, "CACHED_ERROR", {}, notify)

\* A fault: the cap is looked at only while findings are open.
RoundCapWithFindings ==
    ~req.force /\ snap.priors # {} /\ snap.rounds >= MaxRounds

RoundCapReached == ~req.force /\ snap.rounds >= MaxRounds

\* A review will run, after a build without the flagged files if any
\* shaped this one.
Launch(p) ==
    /\ payload' = p
    /\ pc' = IF snap.priors # {} THEN "freeBuild" ELSE "review"
    /\ UNCHANGED <<rest, free>>

BuildPrint ==
    LET p == Printed(payload)
        same == Unchanged(snap, req, p)
    IN  /\ pc = "print"
        /\ UNCHANGED repo
        /\ CASE Empty(p) ->
                    UNCHANGED store /\ Reply(hist, req, "EMPTY", {}, FALSE)
             [] ~Empty(p) /\ same /\ snap.status = "PASS" ->
                    UNCHANGED store /\ Reply(hist, req, "NO_CHANGES", {}, FALSE)
             [] ~Empty(p) /\ same /\ snap.status = "ISSUES"
                /\ snap.priors # {} ->
                    NoProgress
             [] ~Empty(p) /\ same /\ snap.status = "ESCALATE" ->
                    ErrorCached
             [] OTHER ->
                    IF RoundCapReached
                    THEN RefuseAtCap(hist, store, snap, req, "MAX_ROUNDS")
                    ELSE Launch(p)

(* The build without flagged files.                                        *)
FreeHead ==
    /\ pc = "freeBuild"
    /\ free' = Blank(repo.head)
    /\ pc' = "freeShow"
    /\ UNCHANGED <<rest, payload>>

FreePrompt ==
    /\ pc = "freeShow"
    /\ free' = Shown(free, {})
    /\ pc' = "freePrint"
    /\ UNCHANGED <<rest, payload>>

FreePrint ==
    /\ pc = "freePrint"
    /\ free' = Printed(free)
    /\ pc' = "review"
    /\ UNCHANGED <<rest, payload>>

\* Any failure of that build but a timeout does without it.
FreeFails ==
    /\ pc \in {"freeBuild", "freeShow", "freePrint"}
    /\ free' = None
    /\ pc' = "review"
    /\ UNCHANGED <<rest, payload>>

\* What a verdict was about.
Judged(status) ==
    [status |-> status, of |-> payload, key |-> req.key, extras |-> req.extras,
     exclusions |-> snap.exclusions]

\* A fault: the gate is left open for a failure that is not cached.
ReviewerFailsUngated ==
    \E transientAuth \in BOOLEAN :
        LET notify == NotifyUser(req, snap)
            run == [snap EXCEPT !.rounds = @ + 1, !.reviewed = TRUE]
            failed == [run EXCEPT !.baseline = BaselineOf(payload, req),
                                  !.status = "ESCALATE", !.notified = @ \/ notify]
        IN  /\ pc = "review"
            /\ store' = Saved(store, snap, IF transientAuth THEN run ELSE failed)
            /\ Reply([hist EXCEPT !.runs = @ + 1,
                                  !.judged = IF transientAuth THEN @
                                             ELSE Judged("ESCALATE")],
                     req, "ERROR", {}, notify)
            /\ UNCHANGED repo

(* The reviewer ran and failed.  An authentication failure is not cached.  *)
ReviewerFails ==
    \E transientAuth \in BOOLEAN :
        LET notify == NotifyUser(req, snap)
            run == [snap EXCEPT !.rounds = @ + 1, !.reviewed = TRUE,
                                !.notified = @ \/ notify]
            failed == [run EXCEPT !.baseline = BaselineOf(payload, req),
                                  !.status = "ESCALATE"]
        IN  /\ pc = "review"
            /\ store' = Saved(store, snap, IF transientAuth THEN run ELSE failed)
            /\ Reply([hist EXCEPT !.runs = @ + 1,
                                  !.judged = IF transientAuth THEN @
                                             ELSE Judged("ESCALATE")],
                     req, "ERROR", {}, notify)
            /\ UNCHANGED repo

\* A fault: the build without flagged files is cached whatever it shows.
PassedBaselineUnchecked ==
    CASE snap.priors = {} -> BaselineOf(payload, req)
      [] snap.priors # {} /\ free # None -> BaselineOf(free, req)
      [] OTHER -> [BaselineOf(payload, req) EXCEPT !.fast = FALSE]

\* What a pass caches: what the next request will build, if the reviewer
\* saw all of it.
PassedBaseline ==
    CASE snap.priors = {} -> BaselineOf(payload, req)
      [] /\ snap.priors # {}
         /\ free # None /\ ShowsNothingUnreviewed(free, payload) ->
            BaselineOf(free, req)
      [] OTHER -> [BaselineOf(payload, req) EXCEPT !.fast = FALSE]

\* A fault: the findings are filtered by the list the review began with.
KeptUnderSnapshot(found) ==
    (found \cap (payload.listed \cup payload.context)) \ snap.exclusions

(* The reviewer's findings, of which those about files it was shown and    *)
(* that nobody excluded meanwhile are kept.                                *)
Kept(found) ==
    (found \cap (payload.listed \cup payload.context)) \ store.exclusions

Passes(found) ==
    /\ Kept(found) = {}
    /\ store' = Saved(store, snap,
                      [snap EXCEPT !.rounds = 0, !.blockCount = 0, !.priors = {},
                                   !.baseline = PassedBaseline, !.status = "PASS",
                                   !.reviewed = TRUE, !.dirty = FALSE,
                                   !.notified = FALSE])
    /\ Reply([NoHistory EXCEPT !.judged = Judged("PASS")],
             req, "PASS", {}, FALSE)

FindsIssues(found) ==
    /\ Kept(found) # {}
    /\ store' = Saved(store, snap,
                      [snap EXCEPT !.rounds = @ + 1,
                                   !.blockCount = IF req.stop THEN @ + 1 ELSE @,
                                   !.priors = Kept(found),
                                   !.baseline = BaselineOf(payload, req),
                                   !.status = "ISSUES", !.reviewed = TRUE,
                                   !.notified = FALSE])
    /\ Reply([hist EXCEPT !.judged = Judged("ISSUES"), !.runs = @ + 1,
                          !.toasts = 0],
             req, "ISSUES", Kept(found), FALSE)

Verdict ==
    /\ pc = "review"
    /\ \E found \in SUBSET File : Passes(found) \/ FindsIssues(found)
    /\ UNCHANGED repo

(* Git hits its time limit, or fails outside the probes; or the reviewer   *)
(* cannot be started.  The request fails and nothing is saved.             *)
Fails ==
    /\ pc # "idle"
    /\ Reply(hist, req, "FAILED", {}, FALSE)
    /\ UNCHANGED <<repo, store>>

(* The server stops: the pipeline is lost, the stored context is not.      *)
Crash ==
    /\ pc # "idle"
    /\ pc' = "idle"
    /\ req' = None /\ snap' = None /\ payload' = None /\ free' = None
    /\ relisted' = FALSE /\ confirmed' = FALSE /\ outside' = 0
    /\ answer' = None
    /\ UNCHANGED <<repo, store, hist>>
----------------------------------------------------------------------------
(* What happens to the stored context meanwhile.                           *)

Disturbs ==
    /\ pc # "idle" => outside < MaxChanges
    /\ outside' = IF pc = "idle" THEN 0 ELSE outside + 1

Notify ==
    /\ Disturbs
    /\ store' = [store EXCEPT !.dirty = TRUE]
    /\ UNCHANGED <<repo, pipeline, relisted, confirmed, hist>>

Exclude ==
    /\ Disturbs
    /\ \E f \in File :
          /\ store' = Excluding(store, f)
          /\ relisted' = \/ relisted
                         \/ /\ pc # "idle" /\ f \in snap.exclusions
                            /\ f \notin store.exclusions
    /\ UNCHANGED <<repo, pipeline, confirmed, hist>>

Include ==
    /\ Disturbs
    /\ \E f \in store.exclusions : store' = Including(store, f)
    /\ UNCHANGED <<repo, pipeline, relisted, confirmed, hist>>

Reset ==
    /\ Disturbs
    /\ store' = [BlankContext EXCEPT !.exclusions = store.exclusions]
    /\ hist' = [hist EXCEPT !.runs = 0, !.blocks = 0, !.toasts = 0]
    /\ UNCHANGED <<repo, pipeline, relisted, confirmed>>

(* What happens to the repository meanwhile.                               *)
RepoChanges(new) ==
    /\ Disturbs
    /\ repo' = new
    /\ confirmed' = \/ confirmed
                    \/ /\ pc \in {"head", "clean", "base"}
                       /\ Untouched(snap.baseline, new)
    /\ UNCHANGED <<store, pipeline, relisted, hist>>

Edit ==
    \E f \in File, v \in 0 .. Versions :
        /\ repo.tree[f] # v
        /\ RepoChanges([repo EXCEPT !.tree[f] = v])

Commit ==
    /\ repo.tree # Clean
    /\ repo.head < MaxHead
    /\ RepoChanges([repo EXCEPT !.head = @ + 1, !.tree = Clean,
                                !.ahead = [f \in File |->
                                              IF repo.tree[f] # 0 THEN repo.tree[f]
                                              ELSE repo.ahead[f]]])

Push ==
    /\ repo.base # repo.head
    /\ RepoChanges([repo EXCEPT !.base = repo.head, !.ahead = Clean])

Pipeline ==
    \/ Begin \/ HeadProbe \/ CleanProbe \/ BaseProbe
    \/ BuildHead \/ BuildPrompt \/ BuildPrint
    \/ FreeHead \/ FreePrompt \/ FreePrint \/ FreeFails
    \/ ReviewerFails \/ Verdict \/ Fails \/ Crash

Meanwhile == Notify \/ Exclude \/ Include \/ Reset \/ Edit \/ Commit \/ Push

Next == Pipeline \/ Meanwhile

Spec == Init /\ [][Next]_vars
----------------------------------------------------------------------------
(* Properties.                                                             *)

\* Types of the state.  The rest of the pipeline's variables have a value
\* where pc says so.
TypeOK ==
    /\ repo \in Repository
    /\ store \in Context
    /\ pc \in PCs
    /\ pc # "idle" => req \in Request /\ snap \in Context
    /\ pc \in {"show", "print", "freeBuild", "freeShow", "freePrint", "review"} =>
          payload \in Payload
    /\ free \in Payload \cup {None}
    /\ relisted \in BOOLEAN
    /\ hist \in History

\* The pipeline answers its request in this step.
Answers(kind) ==
    pc # "idle" /\ pc' = "idle" /\ answer' # None /\ answer'.kind = kind

\* A cached answer (no changes, no progress, the reviewer's last failure) is
\* about what the reviewer last judged, with that verdict: all the prompt
\* would show now was shown to it, all that would be hashed is on disk as it
\* was then, and the commit range, the terms of the review, the extra
\* instructions and the exclusion list the request began with are the same.
\* The code compares hashes of two builds made minutes apart, some of them
\* without the flagged files, none at one moment.
CachedIsJudged ==
    [][\A kind \in {"NO_CHANGES", "NO_PROGRESS", "CACHED_ERROR"} :
         pc = "print" /\ Answers(kind) =>
            /\ hist.judged # None
            /\ hist.judged.status = CASE kind = "NO_CHANGES" -> "PASS"
                                      [] kind = "NO_PROGRESS" -> "ISSUES"
                                      [] kind = "CACHED_ERROR" -> "ESCALATE"
            /\ payload.shown \subseteq hist.judged.of.shown
            /\ \A f \in payload.listed \cup payload.context :
                  <<f, repo.tree[f]>> \in hist.judged.of.print
            /\ payload.head = hist.judged.of.head
            /\ payload.base = hist.judged.of.base
            /\ req.key = hist.judged.key
            /\ \/ req.extras = hist.judged.extras
               \/ kind = "NO_CHANGES" /\ req.extras = NoExtras
            /\ snap.exclusions = hist.judged.exclusions]_vars

\* A stored baseline stands for a verdict reached under the exclusion list
\* stored beside it, however the list changed while reviews ran
\* (saveContext, handleExclusionMutation).
BaselineMatchesExclusions ==
    store.baseline # None =>
        hist.judged # None /\ hist.judged.exclusions = store.exclusions

\* No excluded finding is kept for the next round, and none is reported by
\* a review that ends after it was excluded.
ExclusionsHold ==
    [][/\ store'.priors \cap store'.exclusions = {}
       /\ Answers("ISSUES") => answer'.found \cap store.exclusions = {}]_vars

\* The reviewer is started without force only if it gave fewer than
\* MaxRounds verdicts or failures since the counters were cleared, also if
\* resets or forced reviews came between.
RoundsCapped ==
    [][pc = "print" /\ pc' \in {"freeBuild", "review"} /\ ~req.force =>
          hist.runs < MaxRounds]_vars

\* Once MaxBlocks Stop hooks were blocked, the next is blocked only by a new
\* review of a context left with issues but no findings.
BlocksCapped ==
    [][hist'.blocks > hist.blocks =>
          \/ hist.blocks < MaxBlocks
          \/ /\ answer'.kind = "ISSUES"
             /\ snap.status = "ISSUES" /\ snap.priors = {}]_vars

\* The user is told of a run of failures once: until a reviewer gives a
\* verdict again, or the context is reset (computeNotifyUser).
NotifyOnce == hist.toasts <= 1

\* review.js (the fast path): no changes "only when git confirms HEAD hasn't
\* moved AND the working tree is clean": at some moment of the request both
\* held.
FastPathConfirmed ==
    [][Answers("NO_CHANGES") /\ pc \in {"clean", "base"} => confirmed]_vars
=============================================================================
