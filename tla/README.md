# Formal model of the review orchestrator

TLA+ specifications of the review orchestrator server, their TLC
configurations, and proofs that TLAPS checks. The server (`src/server/src`)
receives review requests from Stop hooks and MCP clients, runs a reviewer
program over the changes of a git repository, remembers per repository and
branch what was reviewed, and can replace its own code while it runs.

`PROJECT.json` lists every run, every theorem, the source lines behind each
definition, one plausible bug per property that makes the property fail, and
the hazards of the code with the properties that watch them.

## The system

| Component | State | Operations | What is hard |
|---|---|---|---|
| Review queue (`core/review/review.js`, `handleReview`) | in-flight map, tail of the promise chain per context, joiners of each pipeline | join, queue, run, settle, abandon, answer early | deadlines against a queue; slots that a later pipeline took over; requests that joined |
| Review loop (`review.js`, the pipeline) | the pipeline's snapshot of the stored context, payload, baseline | fast path, payload builds, cached answers, caps, verdict, failure | minutes pass between reading the context and writing it back; the repository moves; two payload builds |
| Stored context (`state.js`, `exclusions.js`, `reset.js`, `notify-change.js`) | counters, baseline, prior findings, exclusions, dirty flag | get with idle reset, save, exclude, include, reset, notify | written by others while a pipeline runs; crash |
| Payload (`diff.js`) | none | what changed, what is shown, what is hashed | several questions to git, at different moments; limits |
| Reload controller (`reload.js`) | current, previous and pending core, gate, hold, waiters, pins | admit, release, pin, trigger, prepare, swap, roll back | a swap waits for a lock; a loader runs beside it; reviews wait |
| Configuration store (`config-store.js`, `install/config-lock.mjs`) | configuration in force, `config.json` | mutate, commit, lock | edits by hand; several processes |
| Linked folders (`linked.js`) | links of a session | record, drop, settle, run folders, combine | three slots, one deadline, stale results |
| Processes of reviewers and git (`tools.js`, `codex.js`, `claude.js`, `gemini.js`) | a child, its pipes, what it printed | spawn, exit, limit, kill, parse | helpers that keep pipes; output cut off; replies that contradict themselves |
| Tokens and authentication (`auth.js`, `install/rotate-token.mjs`) | accepted tokens, records of rotations | refresh, challenge, rotate | grace period, several rotations at once, restart |
| Hook clients (`hooks/*.mjs`) | none | select a server, post with retries, limit handshake | one deadline for all attempts; sending twice |
| MCP sessions (`mcp.js`) | open sessions | open, close, close all | shutdown |
| Core loader (`core-loader.js`) | snapshots on disk | load a candidate | sources edited while copied |
| Archive, dashboard, other installers | files of other programs | | little or no control of their own |

A request is first admitted by the reload controller, which pins it to a core
and a configuration. The core's handler resolves the context and asks the
review queue for a pipeline; the pipeline runs the review loop over the stored
context. When the work of a request ends, which may be after its answer, the
controller is told, and the last request out may start a swap. Configuration
edits go through the configuration store, whose lock a swap takes too, as do
the programs that write `config.json` from outside. A Stop hook's request first
passes authentication and the limit handshake and then fans out: one request
of the kind the review queue knows per folder of the session.

## Modules

| Module | Models |
|---|---|
| `ReviewQueue` | the review queue |
| `ContextLock` | abstract: a first-come, first-served lock per context, whose line may be left |
| `ReviewQueueProofs` | theorems about `ReviewQueue` |
| `ReviewLoop` | the review loop, over the stored context and the repository |
| `ReviewLoopProofs` | theorems about `ReviewLoop` |
| `ReloadController` | the reload controller |
| `ReloadControllerProofs` | theorems about what `ReloadController` prepares and applies |
| `ReloadAdmissionProofs` | theorems about its reviews, cores and settings; extends the former |
| `LinkedFolders` | a session's folders: links, slots, answers; composes `ToolProcess` |
| `ToolProcess` | the processes of git and the reviewers, and their calls |
| `ReviewerReply` | what the adapters make of a reply: pure operators |
| `LinkedFoldersProofs` | theorems about these three |
| `ConfigFile` | the programs that write `config.json` |
| `ConfigRegister` | abstract: a register in which every save adds to those before |
| `ConfigFileProofs` | theorems about `ConfigFile` |
| `TokenState` | the tokens the server accepts, and the records of rotations |
| `StopHook` | a Stop hook and the server it finds; extends `TokenState` |
| `TokenStateProofs`, `StopHookProofs` | lemmas about `TokenState`, theorems about `StopHook` |
| `MC...` | instances, symmetry and views for TLC, one per component |

JavaScript runs one callback at a time, so in every module but `ConfigFile` an
action is the code between two `await`s, with all it calls; nothing else is
atomic. In `ConfigFile`, where processes of the operating system meet, it is one
read or write of a file.
Definitions whose comment begins with "Fault" or "A fault" are wrong
variants of the definition that follows them. They are used by no
specification; `PROJECT.json` pairs each with the property it breaks.

### ReviewQueue

A request of `handleReview` goes through the phases idle, preparing (it
resolves its context), waiting, background (answered, its work goes on) and
returned. `inflight` and `chain` are the maps of the same purpose, `joinCounts`
the joiners; a pipeline is named by the request that created it. `Queue`
captures the tail, becomes the tail and takes the slot, as the code does in one
callback. `Forget` is the `then(forget, forget)` reaction, which runs some time
after the pipeline settled, so that a new request may come between. A deadline
may pass in any phase: before the pipeline exists (`OnTime`), while it is
queued (`Abandon`, if nobody else joined) and while it runs (`AnswerEarly`).
`ahead` is a history variable: the pipelines queued before.

`ContextLock` is what this chain of promises amounts to: whoever asks for a
context stands behind all who wait for it (`before`), only the first of the line
takes the lock, and one that leaves the line moves the others up. The refinement
(`LockSafety`) maps the running pipeline of a context to the holder, the queued
ones that were not abandoned to the line, and those of them queued before to
`before`: mutual exclusion and order are one promise, which an abandoned link
must not break in either way. `LockServes` adds that a free lock is taken or left
by the first of the line, though abandoned links, which settle one after the
other, stand between.

Runs: `ReviewQueue` (safety; four requests, three with deadlines, two contexts,
two keys in one of them) and `ReviewQueueFair` (liveness and refinement; three
requests, one context, two keys). Four requests are enough for a running
pipeline, a queued one that is abandoned, a joiner of either and a newcomer
after the abandonment. Requests with the same kind of deadline are symmetric in
the safety run; the liveness run uses no symmetry.

Fairness: reactions of settled promises run, and timers fire. A reviewer and a
git call are processes that are killed at a time limit, which is the
assumption `ChildrenEnd` of `Released`; `TimedAnswered` holds without it.

### ReviewLoop

One context and one pipeline at a time, which is what `ReviewQueue` shows. The
pipeline waits in `pc` for git (`head`, `clean`, `base` on the fast path; HEAD,
changes and hashes of each build) or for the reviewer. Between any two steps
the exclusion list, the dirty flag and the whole context may be changed by
requests, the repository by edits, commits and pushes, and the server may stop.
A payload holds what the prompt shows (`shown`), what is listed, flagged files
shown whole (`context`), and the hashes (`print`), which are taken later than
the prompt. `Saved` is `saveContext`, with the exclusion list and the
invalidation that survive a review. `hist` keeps what the reviewer last judged
and counts verdicts, blocks and notifications since they were cleared.

Runs: `ReviewLoop` (two files, room for one, exclusions), `ReviewLoopRange`
(commits, pushes, extra instructions, head-fallback, two rounds, notifications),
`ReviewLoopFastPath` (see Findings).

Bounds: `MaxChanges`, changes from outside while one pipeline runs (one, any
number between pipelines); `MaxHead`, commits; `MaxForced`, forced reviews
past the cap. One change in the middle of a pipeline is enough to separate any
two of its reads; that more add nothing, and that a
baseline under another review key is not used, is in the proofs. The view
`MCView` leaves out the last answer, which no step reads and which properties
read in the step that gives it, the merge base without head-fallback, and the
last verdict once no baseline can refer to it. Every run allows more reviewer
runs than the cap by resets.

Abstractions: the changes are read at one moment, between HEAD and the hashes;
byte limits, ignored paths, binary files, renames and submodules are left out;
a pass with notes is a pass and a finding is identified by its file;
`attemptsSincePass` and `lastChangeAt`, which no decision reads, are left out.

### ReloadController

Reviews wait in `waiters`, in order, or hold a `ticket`; other requests hold a
pin (`visit`). A trigger that finds the gate closed is `parked`; a loader that
runs is `preparing`; the gate is open, closed with the swap waiting for the
lock (`locking`), or closed with the swap over (`ran`). A configuration is a
value for each setting, with the core whose schema accepted it; `config.json` has
such values too, and `WaitOf` says what wait any settings make hooks need, since
it follows from several of them (a pinned wait, the provider's limit, codex's). A
core instance may be used again once it was disposed of. When the lock is refused,
the gate opens before the pending reload is dropped: `failing` is that gap. A
command may run in it, which the few callbacks of the real gap allow only for
commands that already waited, so the model allows more than the code does.
A rollback decides for each setting (`Reverts`): one edited in force, or in the
file, since the reload is kept; the others go back, in both (`Restored`,
`FileOut`); and settings that the older schema rejects go back whatever was
edited, which may be any (`MayBeRejected`). The mixture is put in force unless
that schema rejects it, and nobody asks what wait it needs.
Everything that can stop a reload (unreadable file, schema, restart-only key, a
check that throws) is the one action `PrepareFails` or `SwapFails`.

Runs: `ReloadController` (two reviews, another request, one place at the gate,
three cores, one value of one setting; safety and `WaitersServed`),
`ReloadSettings` (no reviews; three settings of two values: a limit, a pinned wait
that hides it, and one that the dashboard edits) and `ReloadGate` (see Findings).
Three cores are enough for current, previous and pending to differ; three settings
for a rollback to keep one, restore one and be forced to restore one. Settings and
reviews meet in a ticket only, which is pinned in one step, so they are in runs of
their own; the proofs have both.

`WaitWasPublished` is about reloads, also of a file that was edited while they
waited, and about rollbacks with nothing edited since the reload. For a rollback
that meets an edit it is false, and without that premise TLC says so:
`reload.js:241-242` says that the published wait covers the running configuration
and the one a pending change would apply, a rollback's being the one it restores,
but a rollback restores key by key (`reload.js:518-541`). A reload of an edited
file lowers the limit and unpins the wait, the file's pin is edited again, and the
rollback takes the limit back and leaves the wait unpinned, which needs longer
than either configuration did. A hook that the server finds too short is told so
and asks again (`StopHook`).

Fairness: a closed gate ends in a swap or a failure and opens, a failed swap is
dropped, and hold timers fire. Nobody is assumed to finish a review or to give
a command, and request deadlines need not pass.

### LinkedFolders, ToolProcess, ReviewerReply

`LinkedFolders` is `reviewSessionFolders` with `runFolders`: a Stop hook's
request resolves the session's folder (`Arrive`), takes the live links and
starts as many reviews as there are slots (`FanOut`, or `ReviewAlone` when git
failed). A folder is `queued`, then in a slot: git runs, then git says that
there is nothing new (`FastPath`) or what is stored answers (`FromCache`),
another request's review is joined, or a reviewer runs.
Its review may be answered for at the deadline and go on (`TaskTimesOut`); the
slot is free when the work is over (`Finish`). `Respond` combines the answers
and settles the links, `Return` ends the admission. Links are made by
change notifications and by agents that ask for a review, also while the request
runs, and go idle between requests. `dirty` is the stored mark of an edit, which a
review that passes takes off whatever was edited while it ran (`Ends`). `unread`
is history: the folders with an edit that their review has not read, where a
review has read an edit when its payload was built after it (an edit that was
committed by then is in it only with `fallbackToHead`, and is nothing to review
otherwise). `slipped` is history too: the folders of `unread` that the fast path
took for unchanged because the edits were committed between its two questions.

Each folder's programs are those of `ToolProcess`, one after the other. A
reviewer's call ends with its program *and* its pipes, which a helper may keep;
git's call also ends when its grace period does. The output is chosen when the
program ends from everything that reviewer may print (`Replies`), and
`ReviewerReply` says what the adapter makes of it. In that module a reply is its
form (one object, one in prose, several, one and a part of another, none, an
error, nothing), the status and the findings of its first object, and the loop
warning, which is what the parsers tell apart. `VerdictIsRead` says how much a
verdict is worth, over salvaging, coercing, relabelling, deriving and killing:
it is what the findings of the first object say, of a program that nobody cut
off; codex's reply must be that object and no more; gemini's must if it reports a
loop; and only claude's adapter may give a verdict that the status it read
denies.

It does not say that a verdict is what the reviewer meant. Claude's and gemini's
adapters take the first balanced object of a reply that does not parse as a
whole (`claude.js:79-118,357-381`, `gemini.js:383-391`): prose that quotes the
object of an example before it gives its own is judged by the example. And
claude's adapter derives the status from the findings (`claude.js:407-409`), so
that `ISSUES` without findings passes. Both are said of the code, in comments,
as its intention.

Run `LinkedFolders`: the session's folder with gemini as its reviewer, one linked
folder with codex that is edited meanwhile and leaves helpers, one
that is answered without a reviewer, and two slots. The named bounds `Touched`,
`Talkative`, `Nesting` and `Reviewer` say which folder can do what: each
behaviour happens in one folder, beside the others. Two slots for three folders
make one wait, as four folders do with the three slots of the code. Claude's
adapter is in no run, only in the proof.

Fairness: reactions of the event loop run before the next event is seen, and
timers fire. That git answers, or that a reviewer, a helper or a review that was
joined ends by itself, is not assumed; `WorkEnds` takes it as a premise that
helpers let go of the pipes and joined reviews end. Without it the property is
false of the code: unlike git's call, a reviewer's call never destroys its ends
of the pipes.

Three choices of the code show in the properties. A git failure that is no
timeout is answered 400, which counts as "cannot be reviewed" and drops the link
(`GONE`, `context.js:33-43`). And a review that was joined may have read the
folder before an edit that was notified before the fan-out: such a link is
dropped although the edit was in no review, so `LinksEndReviewed` counts, for
joined reviews, edits from the join on. Last, the fast path's gap (see Findings)
reaches here: an edit notified while a passing review runs keeps the link but not
the mark; at the next stop the fast path is open, and if the edit is committed
between its two questions the folder has no changes, passes, and the link ends
with the edit unread. `LinksEndReviewed` excepts folders that slipped so, and
without the exception TLC finds that history.

`StopIsEarned` is about the combined answer: a passing one needs a pass of the
session's own folder, and any that does not block hides no findings and forgets
no linked folder. A stop is let through for other reasons as well, which are no
answers: the hook is silent about an `ESCALATE` without `notifyUser`
(`stop-review.mjs:451-457`, which `StopIsEarned` counts among the answers that do
not block) and about HTTP errors and lost connections
(`stop-review.mjs:341-366`), of which nothing is claimed.

Left out: a second Stop hook of the same session, and a crash of the server.

### ConfigFile, ConfigRegister

Programs that each make one change: saves of the server's store, its refreshes
of the credentials, rotations, installers. A program takes the lock, reads,
stages the new contents, compares, renames, reads again and refreshes the
credentials; a rotation then updates Codex's entry, all before it releases the
lock. A name stands for a program and for its change, so `file.holds` is the set
of changes that the file contains and `file.token` the program whose token it
has. People edit the file at any step, from its present or from an old state,
and may save something that does not parse. A program in `Mortal` may be killed
anywhere, which frees its lock (`flock`).

An edit by hand between the last comparison and the rename is lost. `undone`
remembers what each edit since the last save replaced, and the abstract
`ConfigRegister` allows a save to build on one of those, and on nothing else:
`SavesAreKept` is that refinement.

Run `ConfigFile`: one program of each of the four kinds and any number of edits
by hand. Each program changes the file once; that more of a kind add nothing is
what the proofs show. The attempts of the server's store and those of
`updateConfigFile` are both in the run, three in all.

Fairness: a program that was started goes on, and one that waits for the lock
gives up in the end (`GiveUp`). Editors need neither save nor rest.

Not here: the write of a rollback, which goes through the store and is in
`ReloadController`; a new installation, which creates the file; and the merge of
Codex's entry that `install.sh` does after the lock was released
(`merge-codex-mcp.mjs`), which may put an old token back into that entry. When
the installer found no token it writes one even if somebody added one by hand
since (`LookForToken`).

### TokenState, StopHook

`TokenState` has the token and the records of `config.json`, and what the server
made of them when it last looked (`Refresh`, before every check). Rotations,
edits by hand, half-saved files and changes of the setting come at any time, so
that the server may first hear of several rotations at once. `revoked` is
history: the tokens that a `--revoke-now` rotation put out. `StopHook` adds the
hook: it reads a token, finds a server that proves it, posts with a wait, and is
refused, told of a longer wait, held, reviewed or answered at the deadline. The
server may stop and start as another instance at any step. Signatures, proofs
and the instance in a signed request are modelled by the token and the instance
they were made with.

The answer that a server does not know the instance is not signed. It comes from
another instance (`Receive`), or from whatever is between the hook and the server
although the request was passed on (`Denied`; `signed-client.mjs:559-561` names a
relay): then the review runs, or a request that is held may still be let in, while
the hook asks who listens and, if that is the same instance, gives up
(`Reselect`). If the instance has been replaced meanwhile, it sends the request
to the new one. Three history variables: `ran` counts the reviews that each
instance began for this Stop, `misled` says that a request was denied so, and
`disturbed` counts, up to two, how often time passed or the settings changed
since a server first told the hook what wait it needs.

Runs: `StopHook` (two tokens, so one rotation, two instances, a budget of five and
a clock that could outrun it: three attempts can have three different waits and a
fourth be needed, which is what it takes to begin a review short of a wait that is
left) and `StopHookTokens` (three tokens, so two rotations, graces of one and two
units, two records kept, two instances, two units of time). Tokens are symmetric.
The views leave out what cannot matter any more. `MCView`: all but the outcome
after the turn, tokens once nobody can deny the review under way, what a server
that is down knew, and the old limit. `TokensView` leaves out of the rest what
cannot matter to the tokens: what was reviewed, and tokens during any review, as
they change before in the same ways.

Only safety is stated. What must happen is in `EndsInBudget`: the clock does not
pass the end of the budget while a hook waits, and it never ends by being told to
wait longer.

Abstractions: messages take no time; what does is being held and being reviewed.
`EndsInBudget` rests on this in one place: after the answer "unknown instance"
the request is sent again with the whole limit of its attempt
(`signed-client.mjs:545-567`), which fits the budget because that answer comes
at once: `Denied` too is enabled only while no time of the attempt has passed.
One that came later would let the second sending outlast the budget. The margin
`min(5 s, limit / 10)` is one unit of a wait of two or more; the tolerance of
the handshake is zero. Nonces and timestamps are left out, and of what may stand
between the hook and the server all but the denial of a request that was passed
on. A token that was revoked while the file cannot be read is still accepted
until it can: the server keeps the last state that it could read, so
`OldTokensStayOut` speaks of requests checked while the file parses.

An observation: after a rotation with `--revoke-now` that the server did not see,
and then an edit of the token by hand, the predecessor it knows gets the grace of
an unscripted change, although a record revoked it. `docs/hot-reload-plan.md:1730`
reads as if it did not; lines 1307 and 1329 say that hand edits fall back to the
time of notice. The model does what the code does: `EditToken` empties `revoked`.

## Findings

Two runs show the code doing what its text says it does not. Both are
`violation` runs, and TLC prints the history.

- `ReviewLoopFastPath`: `review.js:838-841` allows the fast path only when HEAD
  has not moved and the tree is clean. They are asked one after the other: a
  commit between makes both answers good, and `NO_CHANGES` is returned at a
  commit that was not reviewed.
- `ReloadGate`: `docs/hot-reload-plan.md:684-685` says no review is admitted on
  the old core between the idle decision and the swap. A hold timer admits one
  while the swap waits for the lock. It keeps its own core and configuration,
  so nothing else breaks (`ConfigFitsCore`, `CoresLive` hold).

## What is proved

`ReviewQueueProofs` proves for every set of requests, keys and contexts, under
the three assumptions `ReviewQueue` states about its constants: type correctness
(`TypeCorrect`), mutual exclusion (`MutualExclusion`), order (`InOrder`),
sharing (`SharedPipeline`), no waiter on an abandoned pipeline
(`NoStrandedWaiter`), the pin of a running pipeline (`RunningPinsOwner`), and
that the queue implements `ContextLock`, order included (`ImplementsLock`).

None of these but the types is inductive. That two pipelines of a context do not
run at once depends on the shape of the whole chain: `IInv` says that the
pipelines of a context are in one line (`Line`), that the line is settled up to
whatever has started (`Prefix`), that a queued pipeline waits on the place just
before its own (`Links`) and that the map's tail is the end of the line or, if
there is none, all are settled (`Tails`). `Slots` says that the in-flight slot
holds the only pipeline with its key that may run, `Ownership`, `Endings` and
`Admission` tie pipelines to the requests that created them, and `Counting` says
that `joinCounts` is the number of joiners, by which an owner knows whether it
may abandon its pipeline. Each conjunct has a lemma with a step per action. The
refinement maps a running pipeline to the holder and queued ones that were not
abandoned to the line; every step is a step of the lock or changes neither.

`ReloadControllerProofs` proves, for every set of requests, cores, places at the
gate, settings and their values, under the five assumptions `ReloadController`
states (that `First` is a core, that the dashboard edits settings, that any
settings need a wait that is a number, that `None` is neither a core nor one of
the records a variable holds instead of it): a waiting reload was prepared
against the core in force (`Freshness`), a review's core and configuration
belong together (`Pairing`), and a swap applies what was pending when the gate
closed (`FrozenAtGate`). The first is not inductive. A swap changes the core in
force, so one must know that nothing is pending after it, and that a trigger
which runs while the gate is closed, or opens it, cannot replace what is
pending: `GateState` relates the gate to what is pending and to its mark. A
reload that was prepared while a swap ran is compared with the core in force
when it is finished, which `PreparedIsFresh` and `CandidateSwapping` carry.
`Pairing` needs that tickets come from one place: `IssuedStep` shows that no
step gives a review a pair that was not in force together, and `RunningStep`
that a configuration changes only with the core that accepted it.

`ReloadAdmissionProofs` extends these proofs, under the same assumptions, to the
reviews that wait and those that run, and what they run on: `TypesHold`, that
cores live exactly as long as something refers to them (`CoresAreKept`), that a
pending reload is not left waiting for nobody (`PendingMoves`), that with the
gate open no review is in the queue without a reload that holds it
(`NobodyLeftBehind`), and the two properties of the settings (`WaitIsPublished`,
`SettingsStayInStep`). The second rests on one fact about a rollback: what it
restores it restores in force and in the file alike. The first has a premise for
rollbacks, and with it the lemma `UneditedRollback`: where nothing was edited
every setting the reload changed goes back, and the mixture is the configuration
from before. No set of requests is assumed finite; that finitely many
are admitted at a time is part of the invariant. The code decides by two
numbers: a swap starts when `active` is zero, a core is disposed of when its
`pins` are. `Counted` says what they count, the admitted reviews, and the
reviews and other requests that run on a core, so that a core whose pins are
zero is one that nobody uses. `Queued` says that the queue holds each waiting
review once, which is what makes `dropWaiter`, that removes at most one, enough.
`HoldState` orders the queue: once a hold begins, reviews that are held stand
behind those that are not. A dispatch stops at the first review that is held,
and only because of this order is nobody else left behind. `WaitersHaveAReason`
follows from it with the gate open.

`ReviewLoopProofs` proves the six properties of the runs `ReviewLoop` and
`ReviewLoopRange`, and that every variable has its type (`TypesHold`), for any
files, versions, review keys, instructions, limits and number of changes from
outside, under the assumptions `ReviewLoop` states (files are numbers and can be
put in order; limits and versions are numbers; `None` is no record). A pipeline
works for minutes on a snapshot and writes it back, while the stored context is
reset, excluded from or notified. So what the history says must hold of both:
`Backed` is stated of the stored context, and of the snapshot while a pipeline
runs. It has two parts. `Stands`: a baseline is part of what was judged last,
under the terms and exclusions that are stored beside it. `Counts`: the stored
numbers are at least the numbers of verdicts, blocks and notifications since the
context was cleared. A reset clears the history with the stored context, after
which the snapshot counts more than happened, never less. From `Stands` follow
`BaselinesMatch` and `CachedAnswers`; the latter needs that a payload that
hashes the same as a baseline and shows no more of it is part of what was
judged, though two builds, with and without the flagged files, were compared.
From `Counts` follow `ToldOnce`, `RoundsAreCapped` and `BlocksAreCapped`; for
the last, the cap is looked at before the payload is built and used when the
pipeline ends, so `IInv` carries the decision between (`PastCap`).
`ExcludedStaysOut` rests on `Apart`: what is stored as a finding is not
excluded.

`LinkedFoldersProofs` proves the four safety properties of a session's folders
for any folders, reviewers, slots and helpers, under the assumptions of
`LinkedFolders`. `Calls` says of each call that a program that was killed has no
verdict, and that one that ended by itself has the verdict of what it printed;
with one lemma about what each adapter takes for a verdict, whatever the reply,
`VerdictsAreRead` follows. `SlotBound` speaks of running programs, and a program
may outlive its answer, so `SlotsTaken` counts the slots that are in use instead
and says that a program runs in one of them, or is the git of a request that has
no slots yet (`SlotsBound`). That the links under review are live while the
request runs (`RequestState`) makes an unreviewed folder one that is still
linked (`StopsAreEarned`). `EditsRead` is the invariant behind the links: a
folder with an edit older than the request that its review has not read has no
reviewer running and no pass, unless it slipped; an edit that comes later keeps
its link by `since` (`NoLinkEndsUnread`).

`ConfigFileProofs` proves, for any number of programs of each kind, any of which
may be stopped anywhere, under the two assumptions that `ConfigFile` states:
type correctness, that one program at a time is inside its lock (`OneInLock`),
that the file implements `ConfigRegister` (`SavesAreKeptAlways`) and that what
is derived from the file follows it (`MirrorsFollowTheFile`). `Invariance` needs
three parts. A program inside the lock is the holder, so nobody else changes the
file but by hand. What such a program read contains either all that the file
holds, or what it held before one of the edits since the last save (`undone`);
that is what makes its rename a step of the register. And the credentials: from
the moment a program that saved last has read the file again, and no edit came
since, what it read, then what it wrote, is the file's token.

`StopHookProofs` proves the four properties of the Stop hook for any budget, any
tokens, any number of records kept and any number of starts, under the
assumptions of `StopHook` and `TokenState`: a budget of more than one unit,
grace periods that are numbers, and at least one record kept. `HookInv` is about
the hook. The wait of an attempt is never more than what is left of the budget,
and an attempt that is not the last leaves something (`Timing`), so being told
to wait longer always comes while there is time (`KeepsBudget`). A request goes
only to an instance newer than those it went to, of which no review is known, and
unless the hook was misled none of the older ones began any (`Reviews`,
`ReviewedOnce`). And the first attempt learns the wait, the second has it unless
disturbed, the third unless disturbed again (`Asks`, `AsksEnough`). `TokenInv`
is about the tokens: of a revoked token's rotation, if the file still has its
record, this record or a later one says so, and the last record is the file's
own token's (`RevokedInv`). It survives the dropping of old records because
those that revoke are newer than those they revoke. With it, reading the file
accepts no revoked token (`RefreshRevokes`), whatever the server knew
(`OldTokensOut`).

Every invariant and every action property of the passing runs is proved, and so
are both refinements. Only model-checked are the seven liveness properties
(`Released`, `TimedAnswered`, `LockServes`, `WaitersServed`, `AnsweredInTime`,
`WorkEnds`, `WritersEnd`): liveness under fairness and `ENABLED` are out of
reach of the prover. No theorem uses a specification's fairness. Beside the
assumptions on constants the proofs rest on the library's facts about finite
sets, sequences and the order of the natural numbers.

## Not modelled

Archive, dashboard, logging and the OpenCode plugin have no control of their own
beyond what the modules above need of them. The prompts and arguments of the
reviewers are text; their containment profile is a file of rules for another
program. Host and address checks are matching of strings. The installers other
than those that write `config.json` edit other programs' files once. MCP sessions
and the core loader are planned.

A reviewer that ends before it has read its prompt breaks the pipe to it; the
error of that stream has no listener in `codex.js`, `claude.js` and `gemini.js`.
What follows from it is decided outside the modelled code.

## Plan

1. `McpSessions`: sessions over reloads and at shutdown; the core loader's
   snapshots beside it.
2. `Payload`: the slots of a prompt as pure operators, checked against a
   reference definition and used to justify `Shown`.
3. Nonces and timestamps of signed requests, with clocks that differ.
