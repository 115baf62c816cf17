----------------------------- MODULE ToolProcess -----------------------------
(***************************************************************************)
(* The programs a review runs: git (server/src/tools.js, execTool) and the *)
(* reviewers (core/review/codex.js, claude.js, gemini.js).  A call runs    *)
(* one program at a time.  The server reads its output through pipes,      *)
(* which a helper it started may inherit and keep open after it.  At its   *)
(* limit the program is asked to end (SIGTERM) and, when a grace period is *)
(* over, killed.  A reviewer that prints too much is killed too.           *)
(*                                                                         *)
(* A reviewer's call settles when the program is gone and all pipes are    *)
(* closed; a git call settles at the end of the grace period whatever      *)
(* happens to them.                                                        *)
(***************************************************************************)
EXTENDS Naturals, ReviewerReply

CONSTANTS
    Call,       \* the calls
    Provider,   \* the reviewer programs in use: codex, claude, gemini
    Talkative,  \* calls whose reviewer may print too much
    Nesting     \* calls whose programs may leave helpers behind

VARIABLES
    tool,       \* tool[c]: the program c waits for, "none" when it is done
    child,      \* child[c]: "none", "running" or "gone"
    pipes,      \* pipes[c]: whether a helper holds the pipes
    cause,      \* cause[c]: why c's program was asked to end, or "none"
    said,       \* said[c]: what is to be had from the program's output
    result      \* result[c]: what the call settled with

processVars == <<tool, child, pipes, cause, said, result>>

\* Nothing was printed, or what was is worth nothing, and the exit code.
Nothing(x) == [judged |-> "nothing", status |-> "nothing", whole |-> FALSE,
               looped |-> FALSE, parsed |-> "invalid", code |-> x]

NoOutput == Nothing(1)

\* The output with reply r and exit code x: what the findings of its first
\* object say and what its status stands for, whether it is that object and
\* no more, and what the adapter takes it for.
Printed(p, r, x) ==
    IF Parse(p, r) = "invalid" THEN Nothing(x)
    ELSE [judged |-> Judgement(r), status |-> Coerced(r.status),
          whole |-> r.form = "object", looped |-> r.loop,
          parsed |-> Parse(p, r), code |-> x]

Output == [p \in Provider |-> {Printed(p, r, x) : r \in Replies(p), x \in {0, 1}}]

\* git's output is its callers' business: it ends well or it does not.
Outputs(t) ==
    IF t = "git"
    THEN {Nothing(x) : x \in {0, 1}}
    ELSE Output[t]

\* Whether a helper of c lives on.
Left(c) == IF c \in Nesting THEN BOOLEAN ELSE {FALSE}

Pending(c) == tool[c] # "none" /\ result[c] = "pending"

ProcessInit ==
    /\ tool = [c \in Call |-> "none"]
    /\ child = [c \in Call |-> "none"]
    /\ pipes = [c \in Call |-> FALSE]
    /\ cause = [c \in Call |-> "none"]
    /\ said = [c \in Call |-> NoOutput]
    /\ result = [c \in Call |-> "pending"]

-----------------------------------------------------------------------------
Start(c, t, r) ==
    /\ tool' = [tool EXCEPT ![c] = t]
    /\ child' = [child EXCEPT ![c] = IF r = "pending" THEN "running"
                                                      ELSE "none"]
    /\ pipes' = [pipes EXCEPT ![c] = FALSE]
    /\ cause' = [cause EXCEPT ![c] = "none"]
    /\ said' = [said EXCEPT ![c] = NoOutput]
    /\ result' = [result EXCEPT ![c] = r]

(* git is started.                                                         *)
SpawnGit(c) == Start(c, "git", "pending")

(* A reviewer is started and given its prompt, or it cannot be: its        *)
(* executable is missing, is Node itself, or the configuration it comes    *)
(* from was not issued.                                                    *)
SpawnReviewer(c, p) == Start(c, p, "pending") \/ Start(c, p, "rejected")

\* What the end of the program means to the call.
Result(t, o, why) ==
    IF t = "git"
    THEN IF why = "none" /\ o.code = 0 THEN "ok" ELSE "failed"
    ELSE Outcome(t, why, o.code, o.parsed)

\* The program is gone, all pipes are closed and o was read from them: the
\* call settles.  The output is kept for a verdict only.
Settle(c, o) ==
    LET r == Result(tool[c], o, cause[c])
    IN  /\ result' = [result EXCEPT ![c] = r]
        /\ said' = [said EXCEPT ![c] = IF r = "ESCALATE" THEN NoOutput ELSE o]

\* The program is gone with output o, and a helper keeps the pipes or not.
Ends(c, o, helper) ==
    /\ child' = [child EXCEPT ![c] = "gone"]
    /\ pipes' = [pipes EXCEPT ![c] = helper]
    /\ IF helper
       THEN said' = [said EXCEPT ![c] = o] /\ UNCHANGED result
       ELSE Settle(c, o)
    /\ UNCHANGED <<tool, cause>>

(* The program ends, by itself or because it was asked to.                 *)
Exit(c) ==
    /\ Pending(c) /\ child[c] = "running"
    /\ \E o \in Outputs(tool[c]), helper \in Left(c) : Ends(c, o, helper)

(* The helper ends or closes the pipes.                                    *)
HelperEnds(c) ==
    /\ Pending(c) /\ pipes[c]
    /\ pipes' = [pipes EXCEPT ![c] = FALSE]
    /\ Settle(c, said[c])
    /\ UNCHANGED <<tool, child, cause>>

(* A reviewer printed more than it may: the surplus is dropped and the     *)
(* program is asked to end.                                                *)
Overflow(c) ==
    /\ c \in Talkative
    /\ Pending(c) /\ tool[c] # "git" /\ child[c] = "running"
    /\ cause[c] = "none"
    /\ cause' = [cause EXCEPT ![c] = "oversize"]
    /\ UNCHANGED <<tool, child, pipes, said, result>>

(* The limit of the program passes while its call waits.                   *)
LimitPasses(c) ==
    /\ Pending(c) /\ cause[c] # "timeout"
    /\ cause' = [cause EXCEPT ![c] = "timeout"]
    /\ UNCHANGED <<tool, child, pipes, said, result>>

\* Fault: the reviewer is asked to end once more instead.
AskAgain(c) ==
    /\ Pending(c) /\ cause[c] # "none"
    /\ tool[c] # "git" /\ child[c] = "running"
    /\ UNCHANGED processVars

(* The grace period is over and the program is killed, if it still runs.   *)
Kill(c) ==
    /\ Pending(c) /\ cause[c] # "none"
    /\ tool[c] # "git" /\ child[c] = "running"
    /\ \E helper \in Left(c) : Ends(c, NoOutput, helper)

(* And git's: its call destroys its ends of the pipes and fails at once.   *)
KillGit(c) ==
    /\ Pending(c) /\ cause[c] = "timeout" /\ tool[c] = "git"
    /\ child' = [child EXCEPT ![c] = "gone"]
    /\ pipes' = [pipes EXCEPT ![c] = FALSE]
    /\ result' = [result EXCEPT ![c] = "failed"]
    /\ said' = [said EXCEPT ![c] = NoOutput]
    /\ UNCHANGED <<tool, cause>>

(* The caller has the result.                                              *)
Returned(c) ==
    /\ tool' = [tool EXCEPT ![c] = "none"]
    /\ child' = [child EXCEPT ![c] = "none"]
    /\ pipes' = [pipes EXCEPT ![c] = FALSE]
    /\ cause' = [cause EXCEPT ![c] = "none"]
    /\ said' = [said EXCEPT ![c] = NoOutput]
    /\ result' = [result EXCEPT ![c] = "pending"]

(* git is started for the calls cs at once, with all calls idle.           *)
SpawnGits(cs) ==
    /\ tool' = [c \in Call |-> IF c \in cs THEN "git" ELSE "none"]
    /\ child' = [c \in Call |-> IF c \in cs THEN "running" ELSE "none"]
    /\ pipes' = [c \in Call |-> FALSE]
    /\ cause' = [c \in Call |-> "none"]
    /\ said' = [c \in Call |-> NoOutput]
    /\ result' = [c \in Call |-> "pending"]

\* What happens to a program once it was started.
ProcessStep(c) ==
    \/ Exit(c) \/ HelperEnds(c) \/ Overflow(c)
    \/ LimitPasses(c) \/ Kill(c) \/ KillGit(c)

-----------------------------------------------------------------------------
(* A verdict that a reviewer's call settles with is what the findings of   *)
(* the first object in its reply say, of a program that ended by itself.   *)
(* Only claude's and gemini's replies may hold more than that object, and  *)
(* not one that the program says it cut off in a loop; and only claude's   *)
(* verdict may go against the status, which its adapter derives from the   *)
(* findings.                                                               *)
VerdictIsRead ==
    \A c \in Call :
        result[c] \in {"GOOD_TO_GO", "ISSUES"} =>
            /\ said[c].judged = result[c]
            /\ tool[c] # "claude" => said[c].status = result[c]
            /\ said[c].whole \/ (tool[c] # "codex" /\ ~said[c].looped)
            /\ cause[c] = "none"
            /\ child[c] = "gone"
=============================================================================
