---------------------------- MODULE LinkedFolders ----------------------------
(***************************************************************************)
(* A session that works in more than one repository                        *)
(* (server/src/core/review/linked.js, reviewSessionFolders in review.js).  *)
(* An edit in another repository links its folder to the session's own     *)
(* (core/notify-change.js), as does an agent that asks for its review      *)
(* (core/review/mcp.js).  A Stop hook then reviews the session's own       *)
(* folder and every linked one, a few at a time, and answers once for all  *)
(* by its deadline; a review that goes on keeps its slot.                  *)
(*                                                                         *)
(* Each folder's review runs git, then a reviewer, as ToolProcess says, or *)
(* answers from what is stored, or waits for a review that another request *)
(* began.  One Stop hook at a time is modelled, and its next one.          *)
(***************************************************************************)
EXTENDS Naturals, FiniteSets

CONSTANTS
    Own,        \* the session's own folder
    Linked,     \* the folders that can be linked to it
    Limit,      \* MAX_PARALLEL_REVIEWS
    Touched,    \* the folders that are edited, also while the hook waits
    Reviewer,   \* Reviewer[f]: the reviewers that f may be given to
    Talkative, Nesting  \* see ToolProcess

ASSUME OwnAssumption == Own \notin Linked
ASSUME TouchedAssumption == Touched \subseteq Linked
ASSUME LimitAssumption == Limit \in Nat \ {0}

Folder == {Own} \cup Linked

ASSUME ProgramsAssumption ==
    /\ \A f \in Folder : Reviewer[f] \subseteq {"codex", "claude", "gemini"}
    /\ Talkative \cup Nesting \subseteq Folder

VARIABLES
    link,       \* link[f]: "none", "live", or "idle" for twelve hours
    since,      \* folders linked again since the request's startedAt
    phase,      \* the request: "idle", "resolving", "running", "answered"
    late,       \* whether the deadline passed and the request is unanswered
    slot,       \* slot[f]: what f's review does
    answer,     \* answer[f]: the answer for f
    dirty,      \* linked folders edited since a review of theirs passed, as
                \* their dirtySinceLastReview says
    unread,     \* history: linked folders with an edit that their review has
                \* not read
    slipped,    \* history: those of them that were told of no changes since
    tool, child, pipes, cause, said, result     \* see ToolProcess

processVars == <<tool, child, pipes, cause, said, result>>
linkVars == <<link, since, dirty, unread, slipped>>
requestVars == <<phase, late>>
folderVars == <<slot, answer>>
vars == <<linkVars, requestVars, folderVars, processVars>>

P == INSTANCE ToolProcess WITH
        Call <- Folder, Provider <- UNION {Reviewer[f] : f \in Folder}

Passing == {"GOOD_TO_GO", "GOOD_TO_GO_WITH_NOTES", "NO_CHANGES"}
Blocking == {"ISSUES", "NO_PROGRESS"}

\* GONE is an ESCALATE that says the folder cannot be reviewed.
Unreviewed == {"ESCALATE", "GONE"}
Answer == Passing \cup Blocking \cup Unreviewed

\* queued: waits for a slot; git, reviewer, joined: what its review waits
\* for, in a slot; over: done, or too late for a slot.
Busy == {"git", "reviewer", "joined"}
BusyFolders == {f \in Folder : slot[f] \in Busy}

\* The folders of this request.
Entries == {f \in Folder : slot[f] # "none"}

Init ==
    /\ link = [f \in Linked |-> "none"]
    /\ since = {} /\ dirty = {} /\ unread = {} /\ slipped = {}
    /\ phase = "idle" /\ late = FALSE
    /\ slot = [f \in Folder |-> "none"]
    /\ answer = [f \in Folder |-> "none"]
    /\ P!ProcessInit

-----------------------------------------------------------------------------
(* Links.                                                                  *)

\* Made, or its last change noted.
RecordLink(f) ==
    /\ link' = [link EXCEPT ![f] = "live"]
    /\ since' = IF phase = "running" THEN since \cup {f} ELSE since

(* A file of the linked repository was edited, and the session's hook says *)
(* so.                                                                     *)
NotifyChange(f) ==
    /\ f \in Touched
    /\ RecordLink(f)
    /\ dirty' = dirty \cup {f}
    /\ unread' = unread \cup {f} /\ slipped' = slipped \ {f}
    /\ UNCHANGED <<requestVars, folderVars, processVars>>

(* The agent asked for a review of the folder.                             *)
LinkToSession(f) ==
    /\ phase = "idle" \/ f \in Touched
    /\ RecordLink(f)
    /\ UNCHANGED <<dirty, unread, slipped, requestVars, folderVars, processVars>>

(* Twelve hours without an edit, which is longer than a request lasts.     *)
GoesIdle(f) ==
    /\ phase = "idle" /\ link[f] = "live"
    /\ link' = [link EXCEPT ![f] = "idle"]
    /\ UNCHANGED <<since, dirty, unread, slipped, requestVars, folderVars,
                   processVars>>

(* A review of the folder that has nothing to do with this session passed. *)
PassesElsewhere(f) ==
    /\ f \in dirty
    /\ dirty' = dirty \ {f}
    /\ UNCHANGED <<link, since, unread, slipped, requestVars, folderVars,
                   processVars>>

Live == {f \in Linked : link[f] = "live"}

\* Fault: any pass ends the link.
SettledLinksOnPass ==
    {f \in Live \cap Entries : answer[f] \in Passing \cup {"GONE"}}

\* Links that the answers end: the folder passed with no edit since, or it
\* cannot be reviewed any more.
SettledLinks ==
    {f \in Live \cap Entries :
        \/ answer[f] = "GONE"
        \/ answer[f] \in Passing /\ f \notin since}

DropLinks(fs) == [f \in Linked |-> IF f \in fs THEN "none" ELSE link[f]]

-----------------------------------------------------------------------------
(* The request.                                                            *)

(* A Stop hook's request: git is asked for the session's own repository.   *)
Arrive ==
    /\ phase = "idle"
    /\ phase' = "resolving"
    /\ P!SpawnGit(Own)
    /\ UNCHANGED <<late, linkVars, folderVars>>

\* The folders fs begin their reviews and the folders gs wait for a slot.
Begin(fs, gs) ==
    /\ phase' = "running"
    /\ since' = {}
    /\ slot' = [f \in Folder |-> IF f \in fs THEN "git"
                                 ELSE IF f \in gs THEN "queued" ELSE "none"]
    /\ P!SpawnGits(fs)
    /\ UNCHANGED <<late, answer, dirty, unread, slipped>>

(* The repository is known: links that were idle are dropped, and the      *)
(* first folders take the slots, the session's own before the others.      *)
FanOut ==
    /\ phase = "resolving" /\ result[Own] = "ok"
    /\ link' = DropLinks({f \in Linked : link[f] = "idle"})
    /\ \E fs \in SUBSET Live :
          /\ Cardinality(fs) = Limit - 1
                \/ (fs = Live /\ Cardinality(fs) < Limit)
          /\ Begin(fs \cup {Own}, Live \ fs)

(* It is not: the review of the session's own folder says why.             *)
ReviewAlone ==
    /\ phase = "resolving" /\ result[Own] = "failed"
    /\ link' = link
    /\ Begin({Own}, {})

(* The deadline passes before git answered: the request is answered, and   *)
(* stays admitted until git has ended.                                     *)
ResolveTimesOut ==
    /\ phase = "resolving" /\ late
    /\ phase' = "answered" /\ late' = FALSE
    /\ UNCHANGED <<linkVars, folderVars, processVars>>

DeadlinePasses ==
    /\ phase \in {"resolving", "running"} /\ ~late
    /\ late' = TRUE
    /\ UNCHANGED <<phase, linkVars, folderVars, processVars>>

\* Fault: a folder gives back its slot with its answer.
TakeAnsweredSlot(f) ==
    /\ slot[f] = "queued"
    /\ Cardinality({g \in BusyFolders : answer[g] = "none"}) < Limit
    /\ slot' = [slot EXCEPT ![f] = "git"]
    /\ P!SpawnGit(f)
    /\ UNCHANGED <<linkVars, requestVars, answer>>

(* A slot is free for the next folder.                                     *)
TakeSlot(f) ==
    /\ slot[f] = "queued"
    /\ Cardinality(BusyFolders) < Limit
    /\ slot' = [slot EXCEPT ![f] = "git"]
    /\ P!SpawnGit(f)
    /\ UNCHANGED <<linkVars, requestVars, answer>>

\* Fault: queued folders keep waiting for a slot.
SkipNone ==
    /\ late
    /\ \E f \in Folder : slot[f] = "queued"
    /\ UNCHANGED vars

(* At the deadline the folders that wait are answered.                     *)
SkipQueued ==
    /\ late
    /\ \E f \in Folder : slot[f] = "queued"
    /\ slot' = [f \in Folder |-> IF slot[f] = "queued" THEN "over"
                                                       ELSE slot[f]]
    /\ answer' = [f \in Folder |-> IF slot[f] = "queued" THEN "ESCALATE"
                                                         ELSE answer[f]]
    /\ UNCHANGED <<linkVars, requestVars, processVars>>

(* And so are those whose review goes on.                                  *)
TaskTimesOut(f) ==
    /\ phase = "running" /\ late
    /\ slot[f] \in Busy /\ answer[f] = "none"
    /\ answer' = [answer EXCEPT ![f] = "ESCALATE"]
    /\ UNCHANGED <<linkVars, requestVars, slot, processVars>>

-----------------------------------------------------------------------------
(* The review of one folder.                                               *)

\* It is over and would answer a; its slot is free again.
Finish(f, a) ==
    /\ slot' = [slot EXCEPT ![f] = "over"]
    /\ answer' = IF phase = "running" /\ answer[f] = "none"
                 THEN [answer EXCEPT ![f] = a] ELSE answer
    /\ P!Returned(f)

(* git failed.  When it did not just take too long, the folder may be one  *)
(* that cannot be reviewed.                                                *)
GitFails(f) ==
    /\ slot[f] = "git" /\ result[f] = "failed"
    /\ \E a \in IF cause[f] = "timeout" THEN {"ESCALATE"} ELSE Unreviewed :
          Finish(f, a)
    /\ UNCHANGED <<linkVars, requestVars>>

\* What there is to review of f is read: the edits before are in it, or, if
\* commits are not reviewed, were committed and are no more to review.
Reads(f) == unread' = unread \ {f} /\ slipped' = slipped \ {f}

(* The changes are read, and what is stored answers: they are not new, or  *)
(* as much was reviewed as may be.                                         *)
FromCache(f) ==
    /\ slot[f] = "git" /\ result[f] = "ok"
    /\ \E a \in {"NO_CHANGES", "NO_PROGRESS", "ESCALATE"} : Finish(f, a)
    /\ Reads(f)
    /\ UNCHANGED <<link, since, dirty, requestVars>>

(* The folder is not marked as edited, and git says that HEAD is where it  *)
(* was and the tree is clean: no changes.  Or so it seems, when the edits  *)
(* are committed between the two questions (ReviewLoop): they stay unread. *)
FastPath(f) ==
    /\ slot[f] = "git" /\ result[f] = "ok"
    /\ f \notin dirty
    /\ Finish(f, "NO_CHANGES")
    /\ \/ Reads(f)
       \/ slipped' = slipped \cup ({f} \cap unread) /\ UNCHANGED unread
    /\ UNCHANGED <<link, since, dirty, requestVars>>

(* A review of the same folder is running: its answer is waited for.  It   *)
(* may have read the folder before an edit, which is not held against it   *)
(* here: history forgets the edits before.                                 *)
Join(f) ==
    /\ slot[f] = "git" /\ result[f] = "ok"
    /\ slot' = [slot EXCEPT ![f] = "joined"]
    /\ Reads(f)
    /\ P!Returned(f)
    /\ UNCHANGED <<link, since, dirty, requestVars, answer>>

(* The changes are read and given to a reviewer.                           *)
RunReviewer(f) ==
    /\ slot[f] = "git" /\ result[f] = "ok"
    /\ slot' = [slot EXCEPT ![f] = "reviewer"]
    /\ Reads(f)
    /\ \E p \in Reviewer[f] : P!SpawnReviewer(f, p)
    /\ UNCHANGED <<link, since, dirty, requestVars, answer>>

\* What the findings that concern the changes make of a verdict.
Public(v) ==
    CASE v = "GOOD_TO_GO" -> {"GOOD_TO_GO"}
      [] v = "ISSUES" -> {"ISSUES", "GOOD_TO_GO_WITH_NOTES", "GOOD_TO_GO"}
      [] OTHER -> {"ESCALATE"}

\* A review of f that ends with answer a takes its mark off when it passes,
\* also for edits that were made while it ran.
Ends(f, a) ==
    /\ Finish(f, a)
    /\ dirty' = IF a \in {"GOOD_TO_GO", "GOOD_TO_GO_WITH_NOTES"}
                THEN dirty \ {f} ELSE dirty
    /\ UNCHANGED <<link, since, unread, slipped, requestVars>>

(* The reviewer's call settled.                                            *)
ReviewerEnds(f) ==
    /\ slot[f] = "reviewer" /\ result[f] # "pending"
    /\ \E a \in Public(result[f]) : Ends(f, a)

(* The review that was joined is over.                                     *)
JoinedEnds(f) ==
    /\ slot[f] = "joined"
    /\ \E a \in Answer \ {"GONE"} : Ends(f, a)

-----------------------------------------------------------------------------
(* The answer.                                                             *)

\* The best of the passes; a linked folder without a verdict is not counted.
BestPass(as) ==
    IF "GOOD_TO_GO_WITH_NOTES" \in as THEN "GOOD_TO_GO_WITH_NOTES"
    ELSE IF "GOOD_TO_GO" \in as THEN "GOOD_TO_GO" ELSE "NO_CHANGES"

\* Fault: findings count when they are the session's own.
CombineOwn(as) ==
    IF answer[Own] \in Passing THEN BestPass(as)
    ELSE IF answer[Own] \in Blocking THEN answer[Own] ELSE "ESCALATE"

\* One answer of the folders' answers as: findings of any folder, or the
\* session's own failure, or the best pass.
Combine(as) ==
    IF "ISSUES" \in as THEN "ISSUES"
    ELSE IF as \cap Blocking # {} THEN "NO_PROGRESS"
    ELSE IF answer[Own] \in Unreviewed THEN "ESCALATE" ELSE BestPass(as)

\* What the hook is told.
Response == Combine({answer[f] : f \in Entries})

(* Every folder has an answer: the links are settled and the request is    *)
(* answered.                                                               *)
Respond ==
    /\ phase = "running"
    /\ \A f \in Entries : answer[f] # "none"
    /\ phase' = "answered"
    /\ link' = DropLinks(SettledLinks)
    /\ answer' = [f \in Folder |-> "none"]
    /\ since' = {}
    /\ late' = FALSE
    /\ UNCHANGED <<dirty, unread, slipped, slot, processVars>>

(* All the work is over: the request is no longer admitted.                *)
Return ==
    /\ phase = "answered"
    /\ BusyFolders = {}
    /\ \A f \in Folder : ~P!Pending(f)
    /\ phase' = "idle"
    /\ slot' = [f \in Folder |-> "none"]
    /\ P!SpawnGits({})
    /\ UNCHANGED <<late, linkVars, answer>>

-----------------------------------------------------------------------------
\* What happens to the programs, as the server notices it.
ProgramStep(f) ==
    /\ P!ProcessStep(f)
    /\ UNCHANGED <<linkVars, requestVars, folderVars>>

\* Reactions to what has happened.
FolderReaction(f) ==
    \/ TakeSlot(f)
    \/ GitFails(f) \/ FromCache(f) \/ FastPath(f) \/ Join(f) \/ RunReviewer(f)
    \/ ReviewerEnds(f)

Reaction ==
    \/ FanOut \/ ReviewAlone \/ Respond \/ Return
    \/ \E f \in Folder : FolderReaction(f)

\* There is a reaction to run: a call settled, a folder can have a slot, the
\* last folder was answered or its work ended.
Ready ==
    \/ \E f \in Folder : slot[f] # "none" /\ result[f] # "pending"
    \/ \E f \in Folder : slot[f] = "queued" /\ Cardinality(BusyFolders) < Limit
    \/ phase = "resolving" /\ result[Own] # "pending"
    \/ phase = "running" /\ \A f \in Entries : answer[f] # "none"
    \/ phase = "answered" /\ BusyFolders = {} /\ ~P!Pending(Own)

\* What comes from outside: timers, requests, other reviews.
Event ==
    \/ Arrive \/ DeadlinePasses \/ ResolveTimesOut \/ SkipQueued
    \/ \E f \in Linked :
          NotifyChange(f) \/ LinkToSession(f) \/ GoesIdle(f) \/ PassesElsewhere(f)
    \/ \E f \in Folder : TaskTimesOut(f) \/ JoinedEnds(f) \/ ProgramStep(f)

\* Reactions run before the next event is seen.
Next == Reaction \/ (~Ready /\ Event)

\* Reactions run and timers fire.  That git answers, that a reviewer, a
\* helper or a review that was joined ends by itself is not assumed.
FolderTimers(f) ==
    \/ TaskTimesOut(f)
    \/ (P!LimitPasses(f) \/ P!Kill(f) \/ P!KillGit(f))
        /\ UNCHANGED <<linkVars, requestVars, folderVars>>

Fairness ==
    /\ WF_vars(Reaction)
    /\ WF_vars(~Ready /\ (DeadlinePasses \/ ResolveTimesOut \/ SkipQueued))
    /\ \A f \in Folder : WF_vars(~Ready /\ FolderTimers(f))

Spec == Init /\ [][Next]_vars /\ Fairness

-----------------------------------------------------------------------------
(* A verdict is what the findings of the first object in a reviewer's      *)
(* reply say, of a program that nobody cut off; ToolProcess says which     *)
(* reviewers' replies may hold more than the object or deny it in their    *)
(* status (runCodex and its likes, and their parsers).                     *)
VerdictIsRead == P!VerdictIsRead

(* No more folders than slots have a program running, also when reviews    *)
(* outlive their answers at the deadline (runFolders holds the slot until  *)
(* the work is settled).                                                   *)
SlotBound ==
    Cardinality({f \in Folder : child[f] = "running"}) <= Limit

(* An answer that passes is one in which the session's own folder passed.  *)
(* And whatever an answer lets the stop through, a pass or an ESCALATE     *)
(* that the hook is silent about: no folder has findings, and each linked  *)
(* folder passed, cannot be reviewed, or is still linked for the next      *)
(* stop, so that none is forgotten for want of a verdict and findings in   *)
(* one are not outvoted by others (settleLinks, combineResults).           *)
StopIsEarned ==
    [][phase = "running" /\ phase' = "answered" =>
        /\ Response \in Passing => answer[Own] \in Passing
        /\ Response \notin Blocking =>
              \A f \in Entries :
                 /\ answer[f] \notin Blocking
                 /\ \/ f = Own \/ answer[f] \in Passing \cup {"GONE"}
                    \/ link'[f] = "live"]_vars

(* A link ends with a pass only if the review that passed read every edit  *)
(* that was notified, those made while it ran included; for a review that  *)
(* another request had begun, every edit since it was joined (settleLinks, *)
(* startedAt).  The exception is the fast path's: a folder that was told   *)
(* of no changes while the edits were being committed (review.js:874).     *)
LinksEndReviewed ==
    [][\A f \in Linked :
          phase = "running" /\ phase' = "answered"
          /\ link[f] = "live" /\ link'[f] = "none" =>
              answer[f] = "GONE" \/ f \notin unread \/ f \in slipped]_vars

(* A Stop hook's request is answered once its deadline has passed, though  *)
(* git hang, a reviewer ignore its signal or a helper keep its pipes open  *)
(* (onTime, runFolders).                                                   *)
AnsweredInTime == (phase \in {"resolving", "running"}) ~> (phase = "answered")

(* If helpers let go of the pipes and reviews that were joined end, so     *)
(* does a request's work, and it gives back its admission: it waits for no *)
(* child that nothing will end (killChild, settleBackground).              *)
WorkEnds ==
    (\A f \in Folder : []<>(~pipes[f] /\ slot[f] # "joined")) =>
        (phase = "answered" ~> phase = "idle")
=============================================================================
