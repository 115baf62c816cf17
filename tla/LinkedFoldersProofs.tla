------------------------- MODULE LinkedFoldersProofs -------------------------
(***************************************************************************)
(* Proofs about LinkedFolders, for every number of folders, slots and      *)
(* reviewers: what a verdict is, how many programs run at once, which      *)
(* stops are let through and which links end.  Spec's fairness is not used.*)
(*                                                                         *)
(* No folder set is assumed finite: only so many links exist at any time   *)
(* as were made.                                                           *)
(***************************************************************************)
EXTENDS LinkedFolders, FiniteSetTheorems, TLAPS

Programs == UNION {Reviewer[f] : f \in Folder}
Parsed == {"GOOD_TO_GO", "ISSUES", "invalid"}
Verdict == {"GOOD_TO_GO", "ISSUES"}
Said == [judged : Verdict \cup {"nothing"}, status : P!Status \cup {"nothing"},
         whole : BOOLEAN, looped : BOOLEAN, parsed : Parsed, code : {0, 1}]

\* A verdict v of program t: what its output says, and what it may hold.
SaysSo(t, v, judged, status, whole, looped) ==
    /\ judged = v
    /\ t # "claude" => status = v
    /\ whole \/ (t # "codex" /\ ~looped)

\* What was parsed of t's output is what it says, if it is a verdict.
Faithful(t, o) ==
    /\ o \in Said
    /\ o.parsed \in Verdict =>
          SaysSo(t, o.parsed, o.judged, o.status, o.whole, o.looped)

CallTypes ==
    /\ tool \in [Folder -> {"none", "git"} \cup Programs]
    /\ child \in [Folder -> {"none", "running", "gone"}]
    /\ pipes \in [Folder -> BOOLEAN]
    /\ cause \in [Folder -> {"none", "oversize", "timeout"}]
    /\ said \in [Folder -> Said]
    /\ result \in [Folder -> {"pending", "ok", "failed", "rejected", "ESCALATE"}
                                \cup Verdict]

\* A helper outlives its program, and only a program that ended by itself
\* has a verdict.
CallState(c) ==
    /\ Faithful(tool[c], said[c])
    /\ pipes[c] => child[c] = "gone"
    /\ result[c] \in Verdict =>
          /\ said[c].parsed = result[c]
          /\ cause[c] = "none" /\ child[c] = "gone"

Calls == CallTypes /\ \A c \in Folder : CallState(c)

FolderTypes ==
    /\ link \in [Linked -> {"none", "live", "idle"}]
    /\ phase \in {"idle", "resolving", "running", "answered"}
    /\ slot \in [Folder -> {"none", "queued", "over"} \cup Busy]
    /\ answer \in [Folder -> Answer \cup {"none"}]
    /\ unread \subseteq Linked

\* Before the repository is known there is no review; then the session's own
\* folder and live links are reviewed.  Answers are kept until the request's,
\* and a folder that waits for a slot has none.
RequestState ==
    /\ phase \in {"idle", "resolving"} => Entries = {}
    /\ phase = "running" => Own \in Entries
    /\ phase = "running" => \A f \in Entries \ {Own} : link[f] = "live"
    /\ phase # "running" => \A f \in Folder : answer[f] = "none"
    /\ \A f \in Folder : slot[f] = "queued" => phase = "running" /\ answer[f] = "none"

\* A program runs in a slot, or is the git of a request without a review.
SlotsTaken ==
    /\ IsFiniteSet({f \in Linked : link[f] # "none"})
    /\ IsFiniteSet(BusyFolders) /\ Cardinality(BusyFolders) <= Limit
    /\ \A f \in Folder : child[f] = "running" =>
          slot[f] \in Busy \/ (f = Own /\ Entries = {})

Missed == (unread \ since) \ slipped

\* A folder with an edit that its review did not read has no pass, unless
\* the edit came after the request began, or it slipped past the fast path.
EditsRead ==
    phase = "running" =>
        \A f \in Missed :
            slot[f] \notin {"reviewer", "joined"} /\ answer[f] \notin Passing

LInv == Calls /\ FolderTypes /\ RequestState /\ SlotsTaken /\ EditsRead
----------------------------------------------------------------------------
(* Replies and programs.                                                   *)

\* What an adapter takes for a verdict is what the reply says.
IsFaithful(t, r) ==
    /\ P!Parse(t, r) \in Parsed
    /\ P!Parse(t, r) \in Verdict =>
          SaysSo(t, P!Parse(t, r), P!Judgement(r), P!Coerced(r.status),
                 r.form = "object", r.loop)

LEMMA CodexIsFaithful ==
    ASSUME NEW r \in P!Replies("codex")
    PROVE  IsFaithful("codex", r)
<1>1. /\ r \in P!Reply
      /\ "codex" # "gemini" => ~r.loop
  BY DEF P!Replies
<1>2. P!Parse("codex", r) = P!ParseCodex(r)
  BY DEF P!Parse
<1>3. /\ r.status \in P!Status /\ r.findings \in P!Findings
      /\ r.form \in P!Form /\ r.loop \in BOOLEAN
  BY <1>1 DEF P!Reply
<1>4. P!ParseCodex(r) \in Parsed
  BY <1>3 DEF P!ParseCodex, P!Checked, P!Conforms, Parsed, P!Status, P!Findings
<1>5. ASSUME P!ParseCodex(r) \in Verdict
      PROVE  SaysSo("codex", P!ParseCodex(r), P!Judgement(r), P!Coerced(r.status),
                    r.form = "object", r.loop)
  <2>1. P!ParseCodex(r) # "invalid"
    BY <1>5 DEF Verdict
  <2> QED
    BY <1>1, <1>3, <2>1 DEF SaysSo, P!Judgement, P!Coerced, P!ParseCodex, P!Checked,
       P!Conforms, P!Status, P!Findings, P!Form
<1> QED
  BY <1>2, <1>4, <1>5 DEF IsFaithful

LEMMA ClaudeIsFaithful ==
    ASSUME NEW r \in P!Replies("claude")
    PROVE  IsFaithful("claude", r)
<1>1. /\ r \in P!Reply
      /\ "claude" # "gemini" => ~r.loop
  BY DEF P!Replies
<1>2. P!Parse("claude", r) = P!ParseClaude(r)
  BY DEF P!Parse
<1>3. /\ r.status \in P!Status /\ r.findings \in P!Findings
      /\ r.form \in P!Form /\ r.loop \in BOOLEAN
  BY <1>1 DEF P!Reply
<1>4. P!ParseClaude(r) \in Parsed
  BY <1>3 DEF P!ParseClaude, P!Checked, P!Conforms, Parsed, P!Status, P!Findings, P!HasObject, P!Relabelled
<1>5. ASSUME P!ParseClaude(r) \in Verdict
      PROVE  SaysSo("claude", P!ParseClaude(r), P!Judgement(r), P!Coerced(r.status),
                    r.form = "object", r.loop)
  <2>1. P!ParseClaude(r) # "invalid"
    BY <1>5 DEF Verdict
  <2> QED
    BY <1>1, <1>3, <2>1 DEF SaysSo, P!Judgement, P!Coerced, P!ParseClaude, P!Checked,
       P!Conforms, P!Status, P!Findings, P!Form, P!HasObject, P!Relabelled
<1> QED
  BY <1>2, <1>4, <1>5 DEF IsFaithful

LEMMA GeminiIsFaithful ==
    ASSUME NEW r \in P!Replies("gemini")
    PROVE  IsFaithful("gemini", r)
<1>1. /\ r \in P!Reply
      /\ "gemini" # "gemini" => ~r.loop
  BY DEF P!Replies
<1>2. P!Parse("gemini", r) = P!ParseGemini(r)
  BY DEF P!Parse
<1>3. /\ r.status \in P!Status /\ r.findings \in P!Findings
      /\ r.form \in P!Form /\ r.loop \in BOOLEAN
  BY <1>1 DEF P!Reply
<1>4. P!ParseGemini(r) \in Parsed
  BY <1>3 DEF P!ParseGemini, P!Checked, P!Conforms, Parsed, P!Status, P!Findings, P!HasObject, P!Relabelled, P!Coerced
<1>5. ASSUME P!ParseGemini(r) \in Verdict
      PROVE  SaysSo("gemini", P!ParseGemini(r), P!Judgement(r), P!Coerced(r.status),
                    r.form = "object", r.loop)
  <2>1. P!ParseGemini(r) # "invalid"
    BY <1>5 DEF Verdict
  <2> QED
    BY <1>1, <1>3, <2>1 DEF SaysSo, P!Judgement, P!Coerced, P!ParseGemini, P!Checked,
       P!Conforms, P!Status, P!Findings, P!Form, P!HasObject, P!Relabelled
<1> QED
  BY <1>2, <1>4, <1>5 DEF IsFaithful

LEMMA ProgramsAre == Programs \subseteq {"codex", "claude", "gemini"}
BY ProgramsAssumption DEF Programs

LEMMA NoOutputIsFaithful ==
    ASSUME NEW t, NEW x \in {0, 1}
    PROVE  Faithful(t, P!Nothing(x)) /\ Faithful(t, P!NoOutput)
BY DEF P!Nothing, P!NoOutput, Faithful, Said, Parsed, Verdict

LEMMA OutputIsFaithful ==
    ASSUME NEW t \in {"git"} \cup Programs, NEW o \in P!Outputs(t)
    PROVE  Faithful(t, o)
<1>1. CASE t = "git"
  <2>1. PICK x \in {0, 1} : o = P!Nothing(x)
    BY <1>1 DEF P!Outputs
  <2> QED
    BY <2>1, NoOutputIsFaithful
<1>2. CASE t # "git"
  <2>1. t \in Programs /\ t \in {"codex", "claude", "gemini"}
    BY <1>2, ProgramsAre
  <2>2. o \in P!Output[t]
    BY <1>2 DEF P!Outputs
  <2>3. PICK r \in P!Replies(t), x \in {0, 1} : o = P!Printed(t, r, x)
    BY <2>1, <2>2 DEF P!Output, Programs
  <2>4. IsFaithful(t, r) /\ r \in P!Reply
    BY <2>1, CodexIsFaithful, ClaudeIsFaithful, GeminiIsFaithful DEF P!Replies
  <2>5. CASE P!Parse(t, r) = "invalid"
    BY <2>3, <2>5, NoOutputIsFaithful DEF P!Printed
  <2>6. CASE P!Parse(t, r) # "invalid"
    <3> DEFINE v == P!Parse(t, r)
               j == P!Judgement(r)
               s == P!Coerced(r.status)
               w == r.form = "object"
    <3>1. o = [judged |-> j, status |-> s, whole |-> w, looped |-> r.loop,
               parsed |-> v, code |-> x]
      BY <2>3, <2>6 DEF P!Printed
    <3>2. v \in Verdict /\ SaysSo(t, v, j, s, w, r.loop)
      BY <2>4, <2>6 DEF IsFaithful, Parsed, Verdict
    <3>3. /\ j \in Verdict /\ s \in P!Status /\ w \in BOOLEAN /\ r.loop \in BOOLEAN
          /\ v \in Parsed
      BY <2>4, <3>2 DEF P!Judgement, P!Coerced, P!Reply, P!Status, Parsed, Verdict
    <3> HIDE DEF v, j, s, w
    <3>4. o \in Said
      BY <3>1, <3>3 DEF Said
    <3> QED
      BY <3>1, <3>2, <3>4 DEF Faithful
  <2> QED
    BY <2>5, <2>6
<1> QED
  BY <1>1, <1>2

\* A verdict is of a program that nobody cut off.
LEMMA ResultIs ==
    ASSUME NEW t \in {"git"} \cup Programs, NEW o, Faithful(t, o),
           NEW w \in {"none", "oversize", "timeout"}
    PROVE  /\ P!Result(t, o, w) \in {"ok", "failed", "ESCALATE"} \cup Verdict
           /\ P!Result(t, o, w) \in Verdict =>
                 o.parsed = P!Result(t, o, w) /\ w = "none"
<1>1. CASE t = "git"
  BY <1>1 DEF P!Result, Verdict
<1>2. CASE t # "git"
  <2>1. t \in {"codex", "claude", "gemini"}
    BY <1>2, ProgramsAre
  <2>2. P!Result(t, o, w) = P!Outcome(t, w, o.code, o.parsed)
    BY <1>2 DEF P!Result
  <2>3. P!Outcome(t, w, o.code, o.parsed) \in {"ESCALATE", P!Verdict(o.parsed)}
    BY <2>1 DEF P!Outcome, P!CodexOutcome, P!ClaudeOutcome, P!GeminiOutcome
  <2>4. w # "none" => P!Outcome(t, w, o.code, o.parsed) = "ESCALATE"
    BY <2>1 DEF P!Outcome, P!CodexOutcome, P!ClaudeOutcome, P!GeminiOutcome
  <2>5. o.parsed \in Parsed
    BY DEF Faithful, Said
  <2>6. /\ P!Verdict(o.parsed) \in {"ESCALATE"} \cup Verdict
        /\ P!Verdict(o.parsed) \in Verdict => o.parsed = P!Verdict(o.parsed)
    BY <2>5 DEF P!Verdict, Parsed, Verdict
  <2> QED
    BY <2>2, <2>3, <2>4, <2>6 DEF Verdict
<1> QED
  BY <1>1, <1>2
----------------------------------------------------------------------------
(* One call at a time.                                                     *)

\* A call changes, and the others do not.
LEMMA OneCall ==
    ASSUME Calls, NEW c \in Folder,
           NEW t \in {"none", "git"} \cup Programs,
           NEW k \in {"none", "running", "gone"}, NEW h \in BOOLEAN,
           NEW w \in {"none", "oversize", "timeout"}, NEW o, Faithful(t, o),
           NEW r \in {"pending", "ok", "failed", "rejected", "ESCALATE"} \cup Verdict,
           tool' = [tool EXCEPT ![c] = t], child' = [child EXCEPT ![c] = k],
           pipes' = [pipes EXCEPT ![c] = h], cause' = [cause EXCEPT ![c] = w],
           said' = [said EXCEPT ![c] = o], result' = [result EXCEPT ![c] = r],
           h => k = "gone",
           r \in Verdict => o.parsed = r /\ w = "none" /\ k = "gone"
    PROVE  Calls'
<1>1. o \in Said
  BY DEF Faithful
<1>2. CallTypes'
  <2>1. CallTypes
    BY DEF Calls
  <2> QED
    BY <1>1, <2>1 DEF CallTypes
<1>3. /\ tool'[c] = t /\ child'[c] = k /\ pipes'[c] = h
      /\ cause'[c] = w /\ said'[c] = o /\ result'[c] = r
  BY DEF Calls, CallTypes
<1>4. \A d \in Folder \ {c} :
         /\ tool'[d] = tool[d] /\ child'[d] = child[d] /\ pipes'[d] = pipes[d]
         /\ cause'[d] = cause[d] /\ said'[d] = said[d] /\ result'[d] = result[d]
  BY DEF Calls, CallTypes
<1>5. CallState(c)'
  BY <1>3 DEF CallState
<1>6. \A d \in Folder \ {c} : CallState(d)'
  BY <1>4 DEF Calls, CallState
<1> QED
  BY <1>2, <1>5, <1>6 DEF Calls

\* Programs that run did so before, but for those of cs.
Starts(cs) == \A d \in Folder : child'[d] = "running" => d \in cs \/ child[d] = "running"

LEMMA SameCall ==
    ASSUME Calls, NEW c \in Folder
    PROVE  /\ tool = [tool EXCEPT ![c] = tool[c]]
           /\ child = [child EXCEPT ![c] = child[c]]
           /\ pipes = [pipes EXCEPT ![c] = pipes[c]]
           /\ cause = [cause EXCEPT ![c] = cause[c]]
           /\ said = [said EXCEPT ![c] = said[c]]
           /\ result = [result EXCEPT ![c] = result[c]]
BY DEF Calls, CallTypes

LEMMA StartSafe ==
    ASSUME Calls, NEW c \in Folder, NEW t \in {"git"} \cup Programs,
           NEW r \in {"pending", "rejected"}, P!Start(c, t, r)
    PROVE  Calls' /\ Starts({c})
<1> DEFINE k == IF r = "pending" THEN "running" ELSE "none"
<1>1. /\ tool' = [tool EXCEPT ![c] = t] /\ child' = [child EXCEPT ![c] = k]
      /\ pipes' = [pipes EXCEPT ![c] = FALSE] /\ cause' = [cause EXCEPT ![c] = "none"]
      /\ said' = [said EXCEPT ![c] = P!NoOutput]
      /\ result' = [result EXCEPT ![c] = r]
  BY DEF P!Start
<1>2. k \in {"none", "running", "gone"} /\ FALSE \in BOOLEAN /\ r \notin Verdict
  BY DEF Verdict
<1> HIDE DEF k
<1>3. Calls'
  BY <1>1, <1>2, NoOutputIsFaithful, OneCall
<1>4. Starts({c})
  BY <1>1 DEF Starts, Calls, CallTypes
<1> QED
  BY <1>3, <1>4

LEMMA ReturnedSafe ==
    ASSUME Calls, NEW c \in Folder, P!Returned(c)
    PROVE  Calls' /\ Starts({}) /\ child'[c] # "running"
<1>1. /\ tool' = [tool EXCEPT ![c] = "none"] /\ child' = [child EXCEPT ![c] = "none"]
      /\ pipes' = [pipes EXCEPT ![c] = FALSE] /\ cause' = [cause EXCEPT ![c] = "none"]
      /\ said' = [said EXCEPT ![c] = P!NoOutput]
      /\ result' = [result EXCEPT ![c] = "pending"]
  BY DEF P!Returned
<1>2. FALSE \in BOOLEAN /\ "pending" \notin Verdict
  BY DEF Verdict
<1>3. Calls'
  BY <1>1, <1>2, NoOutputIsFaithful, OneCall
<1>4. Starts({}) /\ child'[c] # "running"
  BY <1>1 DEF Starts, Calls, CallTypes
<1> QED
  BY <1>3, <1>4

LEMMA GitsSafe ==
    ASSUME NEW cs, P!SpawnGits(cs)
    PROVE  Calls' /\ \A d \in Folder : child'[d] = "running" => d \in cs
<1>1. \A d \in Folder :
         /\ child'[d] = IF d \in cs THEN "running" ELSE "none"
         /\ pipes'[d] = FALSE /\ said'[d] = P!NoOutput /\ result'[d] = "pending"
  BY DEF P!SpawnGits
<1>2. P!NoOutput \in Said
  BY NoOutputIsFaithful DEF Faithful
<1>3. CallTypes'
  BY <1>2 DEF CallTypes, P!SpawnGits
<1>4. \A d \in Folder : CallState(d)'
  BY <1>1, NoOutputIsFaithful DEF CallState, Verdict
<1> QED
  BY <1>1, <1>3, <1>4 DEF Calls

\* The program of a call that waits is gone.
LEMMA EndsSafe ==
    ASSUME Calls, NEW c \in Folder, tool[c] # "none", result[c] = "pending",
           NEW o, Faithful(tool[c], o), NEW helper \in BOOLEAN, P!Ends(c, o, helper)
    PROVE  Calls' /\ Starts({})
<1>1. /\ child' = [child EXCEPT ![c] = "gone"] /\ pipes' = [pipes EXCEPT ![c] = helper]
      /\ UNCHANGED <<tool, cause>>
  BY DEF P!Ends
<1>2. /\ tool[c] \in {"git"} \cup Programs /\ tool[c] \in {"none", "git"} \cup Programs
      /\ cause[c] \in {"none", "oversize", "timeout"}
  BY DEF Calls, CallTypes
<1>3. /\ tool' = [tool EXCEPT ![c] = tool[c]] /\ cause' = [cause EXCEPT ![c] = cause[c]]
  BY <1>1, SameCall
<1>4. CASE helper
  <2>1. /\ said' = [said EXCEPT ![c] = o]
        /\ result' = [result EXCEPT ![c] = "pending"]
    BY <1>4, SameCall DEF P!Ends
  <2>2. "pending" \notin Verdict
    BY DEF Verdict
  <2>3. Calls'
    BY <1>1, <1>2, <1>3, <2>1, <2>2, OneCall
  <2> QED
    BY <1>1, <2>3 DEF Starts, Calls, CallTypes
<1>5. CASE ~helper
  <2> DEFINE r == P!Result(tool[c], o, cause[c])
             s == IF r = "ESCALATE" THEN P!NoOutput ELSE o
  <2>1. said' = [said EXCEPT ![c] = s] /\ result' = [result EXCEPT ![c] = r]
    BY <1>5 DEF P!Ends, P!Settle
  <2>2. /\ r \in {"ok", "failed", "ESCALATE"} \cup Verdict
        /\ r \in Verdict => o.parsed = r /\ cause[c] = "none"
    BY <1>2, ResultIs
  <2> HIDE DEF r
  <2>3. Faithful(tool[c], s) /\ (r \in Verdict => s.parsed = r)
    BY <2>2, NoOutputIsFaithful DEF Verdict
  <2> HIDE DEF s
  <2>4. Calls'
    BY <1>1, <1>2, <1>3, <2>1, <2>2, <2>3, OneCall
  <2> QED
    BY <1>1, <2>4 DEF Starts, Calls, CallTypes
<1> QED
  BY <1>4, <1>5

LEMMA ProcessSafe ==
    ASSUME Calls, NEW c \in Folder, P!ProcessStep(c)
    PROVE  Calls' /\ Starts({})
<1>1. P!Pending(c)
  BY DEF P!ProcessStep, P!Exit, P!HelperEnds, P!Overflow, P!LimitPasses, P!Kill, P!KillGit
<1>2. tool[c] \in {"git"} \cup Programs /\ tool[c] # "none" /\ result[c] = "pending"
  BY <1>1 DEF P!Pending, Calls, CallTypes
<1>3. /\ tool[c] \in {"none", "git"} \cup Programs
      /\ child[c] \in {"none", "running", "gone"} /\ pipes[c] \in BOOLEAN
      /\ cause[c] \in {"none", "oversize", "timeout"} /\ Faithful(tool[c], said[c])
      /\ pipes[c] => child[c] = "gone"
      /\ "pending" \notin Verdict /\ "failed" \notin Verdict
  BY DEF Calls, CallTypes, CallState, Verdict
<1>4. \A helper \in P!Left(c) : helper \in BOOLEAN
  BY DEF P!Left
<1>5. CASE P!Exit(c)
  <2>1. PICK o \in P!Outputs(tool[c]), helper \in P!Left(c) : P!Ends(c, o, helper)
    BY <1>5 DEF P!Exit
  <2>2. Faithful(tool[c], o)
    BY <1>2, OutputIsFaithful
  <2> QED
    BY <1>2, <1>4, <2>1, <2>2, EndsSafe
<1>6. CASE P!Kill(c)
  <2>1. PICK helper \in P!Left(c) : P!Ends(c, P!NoOutput, helper)
    BY <1>6 DEF P!Kill
  <2> QED
    BY <1>2, <1>4, <2>1, NoOutputIsFaithful, EndsSafe
<1>7. CASE P!HelperEnds(c)
  <2>1. /\ pipes[c] /\ child[c] = "gone"
        /\ pipes' = [pipes EXCEPT ![c] = FALSE] /\ UNCHANGED <<tool, child, cause>>
        /\ P!Settle(c, said[c])
    BY <1>3, <1>7 DEF P!HelperEnds
  <2>2. /\ child' = [child EXCEPT ![c] = "gone"]
        /\ UNCHANGED <<tool, cause>>
    BY <2>1, SameCall
  <2>3. P!Ends(c, said[c], FALSE)
    BY <2>1, <2>2 DEF P!Ends
  <2>4. FALSE \in BOOLEAN
    OBVIOUS
  <2> QED
    BY <1>2, <1>3, <2>3, <2>4, EndsSafe
<1>8. CASE P!Overflow(c) \/ P!LimitPasses(c)
  <2>1. PICK w \in {"oversize", "timeout"} :
           cause' = [cause EXCEPT ![c] = w] /\ UNCHANGED <<tool, child, pipes, said, result>>
    BY <1>8 DEF P!Overflow, P!LimitPasses
  <2>2. CallTypes'
    BY <2>1 DEF Calls, CallTypes
  <2>3. \A d \in Folder : cause'[d] = IF d = c THEN w ELSE cause[d]
    BY <2>1 DEF Calls, CallTypes
  <2>4. \A d \in Folder : CallState(d)'
    BY <1>2, <1>3, <2>1, <2>3 DEF Calls, CallState
  <2> QED
    BY <2>1, <2>2, <2>4 DEF Calls, Starts
<1>9. CASE P!KillGit(c)
  <2>1. /\ child' = [child EXCEPT ![c] = "gone"] /\ pipes' = [pipes EXCEPT ![c] = FALSE]
        /\ result' = [result EXCEPT ![c] = "failed"]
        /\ said' = [said EXCEPT ![c] = P!NoOutput] /\ UNCHANGED <<tool, cause>>
    BY <1>9 DEF P!KillGit
  <2>2. /\ tool' = [tool EXCEPT ![c] = tool[c]] /\ cause' = [cause EXCEPT ![c] = cause[c]]
        /\ FALSE \in BOOLEAN
    BY <2>1, SameCall
  <2>3. Calls'
    BY <1>3, <2>1, <2>2, NoOutputIsFaithful, OneCall
  <2> QED
    BY <2>1, <2>3 DEF Starts, Calls, CallTypes
<1> QED
  BY <1>5, <1>6, <1>7, <1>8, <1>9 DEF P!ProcessStep
----------------------------------------------------------------------------
(* The review of a folder.                                                 *)

\* What the steps keep, besides Calls.
Folders == FolderTypes /\ RequestState /\ SlotsTaken /\ EditsRead

\* The review of f goes on, takes a slot that is free, or is over.
LEMMA FolderStep ==
    ASSUME Folders, NEW f \in Folder, UNCHANGED <<phase, link, since>>,
           slot[f] \in Busy \/ (slot[f] = "queued" /\ Cardinality(BusyFolders) < Limit),
           NEW s \in Busy \cup {"over"}, slot' = [slot EXCEPT ![f] = s],
           NEW b \in Answer \cup {"none"}, answer' = [answer EXCEPT ![f] = b],
           phase # "running" => b = answer[f],
           unread' \subseteq unread, Missed' \subseteq Missed,
           phase = "running" /\ f \in Missed' =>
              s \notin {"reviewer", "joined"} /\ b \notin Passing,
           \A d \in Folder : child'[d] = "running" =>
              (d = f /\ s \in Busy) \/ (d # f /\ child[d] = "running")
    PROVE  Folders'
<1> USE DEF Folders
<1>1. /\ \A g \in Folder : slot'[g] = IF g = f THEN s ELSE slot[g]
      /\ \A g \in Folder : answer'[g] = IF g = f THEN b ELSE answer[g]
  BY DEF FolderTypes
<1>2. FolderTypes'
  BY DEF FolderTypes, Busy
<1>3. Entries' = Entries /\ f \in Entries
  BY <1>1 DEF Entries, Busy
<1>4. RequestState'
  BY <1>1, <1>3 DEF RequestState, Busy
<1>5. IsFiniteSet(BusyFolders') /\ Cardinality(BusyFolders') <= Limit
  <2>1. IsFiniteSet(BusyFolders) /\ Cardinality(BusyFolders) \in Nat
        /\ Cardinality(BusyFolders) <= Limit /\ Limit \in Nat
    BY FS_CardinalityType, LimitAssumption DEF SlotsTaken
  <2>2. CASE f \in BusyFolders
    <3>1. BusyFolders' \in SUBSET BusyFolders
      BY <1>1, <2>2 DEF BusyFolders
    <3>2. /\ IsFiniteSet(BusyFolders')
          /\ Cardinality(BusyFolders') <= Cardinality(BusyFolders)
          /\ Cardinality(BusyFolders') \in Nat
      BY <2>1, <3>1, FS_Subset, FS_CardinalityType
    <3> QED
      BY <2>1, <3>2
  <2>3. CASE f \notin BusyFolders
    <3>1. Cardinality(BusyFolders) < Limit
      BY <2>3 DEF BusyFolders
    <3>2. BusyFolders' = BusyFolders \/ BusyFolders' = BusyFolders \cup {f}
      BY <1>1, <2>3 DEF BusyFolders
    <3>3. /\ IsFiniteSet(BusyFolders \cup {f})
          /\ Cardinality(BusyFolders \cup {f}) = Cardinality(BusyFolders) + 1
      BY <2>1, <2>3, FS_AddElement
    <3>4. Cardinality(BusyFolders) + 1 <= Limit
      BY <2>1, <3>1
    <3>5. CASE BusyFolders' = BusyFolders
      BY <2>1, <3>5
    <3>6. CASE BusyFolders' = BusyFolders \cup {f}
      BY <3>3, <3>4, <3>6
    <3> QED
      BY <3>2, <3>5, <3>6
  <2> QED
    BY <2>2, <2>3
<1>6. SlotsTaken'
  <2>1. ASSUME NEW d \in Folder, child'[d] = "running"
        PROVE  slot'[d] \in Busy \/ (d = Own /\ Entries' = {})
    BY <1>1, <1>3, <2>1 DEF SlotsTaken
  <2> QED
    BY <1>5, <2>1 DEF SlotsTaken
<1>7. EditsRead'
  <2>1. \A g \in Missed : g \in Folder
    BY DEF FolderTypes, Folder, Missed
  <2> QED
    BY <1>1, <2>1 DEF EditsRead
<1> QED
  BY <1>2, <1>4, <1>6, <1>7

\* The review of f is over, with answer a.
LEMMA FinishStep ==
    ASSUME Calls, Folders, NEW f \in Folder, slot[f] \in Busy,
           NEW a \in Answer, Finish(f, a), UNCHANGED <<phase, link, since>>,
           unread' \subseteq unread, Missed' \subseteq Missed,
           phase = "running" /\ f \in Missed' => a \notin Passing
    PROVE  Calls' /\ Folders'
<1> DEFINE b == IF phase = "running" /\ answer[f] = "none" THEN a ELSE answer[f]
<1>1. answer \in [Folder -> Answer \cup {"none"}]
  BY DEF Folders, FolderTypes
<1>2. b \in Answer \cup {"none"} /\ answer' = [answer EXCEPT ![f] = b]
  BY <1>1 DEF Finish
<1>3. phase # "running" => b = answer[f]
  OBVIOUS
<1>4. phase = "running" /\ f \in Missed' => b \notin Passing
  BY DEF Folders, EditsRead
<1> HIDE DEF b
<1>5. Calls' /\ Starts({}) /\ child'[f] # "running"
  BY ReturnedSafe DEF Finish
<1>6. \A d \in Folder : child'[d] = "running" => d # f /\ child[d] = "running"
  BY <1>5 DEF Starts
<1> DEFINE s == "over"
<1>7. slot' = [slot EXCEPT ![f] = s] /\ s \in Busy \cup {"over"}
      /\ s \notin {"reviewer", "joined"}
  BY DEF Finish
<1> HIDE DEF s
<1>8. phase = "running" /\ f \in Missed' =>
         s \notin {"reviewer", "joined"} /\ b \notin Passing
  BY <1>4, <1>7
<1>9. \A d \in Folder : child'[d] = "running" =>
         (d = f /\ s \in Busy) \/ (d # f /\ child[d] = "running")
  BY <1>6
<1>10. Folders'
  BY <1>2, <1>3, <1>7, <1>8, <1>9, FolderStep
<1> QED
  BY <1>5, <1>10

\* The review of f goes on, with program t or none.
LEMMA GoesOn ==
    ASSUME Folders, NEW f \in Folder, UNCHANGED <<phase, link, since, answer>>,
           slot[f] \in Busy \/ (slot[f] = "queued" /\ Cardinality(BusyFolders) < Limit),
           NEW s \in Busy, slot' = [slot EXCEPT ![f] = s],
           unread' \subseteq unread, Missed' \subseteq Missed,
           phase = "running" /\ f \in Missed' => s = "git",
           Starts({f})
    PROVE  Folders'
<1>1. answer \in [Folder -> Answer \cup {"none"}]
  BY DEF Folders, FolderTypes
<1> DEFINE b == answer[f]
<1>2. /\ b \in Answer \cup {"none"} /\ answer' = [answer EXCEPT ![f] = b]
      /\ b = answer[f] /\ s \in Busy \cup {"over"}
  BY <1>1
<1>3. phase = "running" /\ f \in Missed' =>
         s \notin {"reviewer", "joined"} /\ b \notin Passing
  BY DEF Folders, EditsRead
<1> HIDE DEF b
<1>4. \A d \in Folder : child'[d] = "running" =>
         (d = f /\ s \in Busy) \/ (d # f /\ child[d] = "running")
  BY DEF Starts
<1> QED
  BY <1>2, <1>3, <1>4, FolderStep

LEMMA ReviewStep ==
    ASSUME Calls, Folders, NEW f \in Folder,
           \/ TakeSlot(f) \/ GitFails(f) \/ FromCache(f) \/ FastPath(f) \/ Join(f)
           \/ RunReviewer(f) \/ ReviewerEnds(f) \/ JoinedEnds(f) \/ TaskTimesOut(f)
    PROVE  Calls' /\ Folders'
<1> USE DEF linkVars, requestVars, folderVars
<1>1. CASE TakeSlot(f)
  <2>1. /\ UNCHANGED <<phase, link, since, unread, slipped, answer>>
        /\ slot[f] = "queued" /\ Cardinality(BusyFolders) < Limit
        /\ slot' = [slot EXCEPT ![f] = "git"] /\ "git" \in Busy
        /\ P!Start(f, "git", "pending")
    BY <1>1 DEF TakeSlot, P!SpawnGit, Busy
  <2>2. Calls' /\ Starts({f})
    BY <2>1, StartSafe
  <2>3. Missed' = Missed
    BY <2>1 DEF Missed
  <2> DEFINE s == "git"
  <2>4. s \in Busy /\ s = "git" /\ slot' = [slot EXCEPT ![f] = s]
    BY <2>1
  <2> HIDE DEF s
  <2> QED
    BY <2>1, <2>2, <2>3, <2>4, GoesOn
<1>2. CASE GitFails(f)
  <2>1. PICK a \in Unreviewed : Finish(f, a)
    BY <1>2 DEF GitFails, Unreviewed
  <2>2. a \in Answer /\ a \notin Passing /\ slot[f] \in Busy
    BY <1>2 DEF GitFails, Busy, Answer, Unreviewed, Passing
  <2>3. UNCHANGED <<phase, link, since, unread>> /\ Missed' = Missed
    BY <1>2 DEF GitFails, Missed
  <2> QED
    BY <2>1, <2>2, <2>3, FinishStep
<1>3. CASE FromCache(f)
  <2>1. PICK a \in {"NO_CHANGES", "NO_PROGRESS", "ESCALATE"} : Finish(f, a)
    BY <1>3 DEF FromCache
  <2>2. a \in Answer /\ slot[f] \in Busy
    BY <1>3 DEF FromCache, Busy, Answer, Unreviewed, Passing, Blocking
  <2>3. UNCHANGED <<phase, link, since>> /\ unread' \subseteq unread
        /\ f \notin Missed' /\ Missed' \subseteq Missed
    BY <1>3 DEF FromCache, Reads, Missed
  <2> QED
    BY <2>1, <2>2, <2>3, FinishStep
<1>4. CASE Join(f)
  <2> DEFINE s == "joined"
  <2>1. /\ UNCHANGED <<phase, link, since, answer>> /\ unread' \subseteq unread
        /\ f \notin Missed' /\ Missed' \subseteq Missed /\ slot[f] \in Busy /\ s \in Busy
        /\ slot' = [slot EXCEPT ![f] = s] /\ P!Returned(f)
    BY <1>4 DEF Join, Reads, Missed, Busy
  <2> HIDE DEF s
  <2>2. Calls' /\ Starts({f})
    BY <2>1, ReturnedSafe DEF Starts
  <2> QED
    BY <2>1, <2>2, GoesOn
<1>5. CASE RunReviewer(f)
  <2> DEFINE s == "reviewer"
  <2>1. /\ UNCHANGED <<phase, link, since, answer>> /\ unread' \subseteq unread
        /\ f \notin Missed' /\ Missed' \subseteq Missed /\ slot[f] \in Busy /\ s \in Busy
        /\ slot' = [slot EXCEPT ![f] = s]
    BY <1>5 DEF RunReviewer, Reads, Missed, Busy
  <2> HIDE DEF s
  <2>2. PICK p \in Reviewer[f] : P!SpawnReviewer(f, p)
    BY <1>5 DEF RunReviewer
  <2>3. p \in {"git"} \cup Programs
    BY DEF Programs
  <2>4. Calls' /\ Starts({f})
    BY <2>2, <2>3, StartSafe DEF P!SpawnReviewer
  <2> QED
    BY <2>1, <2>4, GoesOn
<1>6. CASE ReviewerEnds(f)
  <2>1. PICK a \in Public(result[f]) : Finish(f, a)
    BY <1>6 DEF ReviewerEnds, Ends
  <2>2. a \in Answer /\ slot[f] = "reviewer" /\ slot[f] \in Busy
    BY <1>6 DEF ReviewerEnds, Public, Busy, Answer, Unreviewed, Passing, Blocking
  <2>3. UNCHANGED <<phase, link, since, unread>> /\ Missed' = Missed
    BY <1>6 DEF ReviewerEnds, Ends, Missed
  <2>4. phase = "running" => f \notin Missed
    BY <2>2 DEF Folders, EditsRead
  <2> QED
    BY <2>1, <2>2, <2>3, <2>4, FinishStep
<1>7. CASE JoinedEnds(f)
  <2>1. PICK a \in Answer : Finish(f, a)
    BY <1>7 DEF JoinedEnds, Ends
  <2>2. slot[f] = "joined" /\ slot[f] \in Busy
    BY <1>7 DEF JoinedEnds, Busy
  <2>3. UNCHANGED <<phase, link, since, unread>> /\ Missed' = Missed
    BY <1>7 DEF JoinedEnds, Ends, Missed
  <2>4. phase = "running" => f \notin Missed
    BY <2>2 DEF Folders, EditsRead
  <2> QED
    BY <2>1, <2>2, <2>3, <2>4, FinishStep
<1>8. CASE TaskTimesOut(f)
  <2> DEFINE b == "ESCALATE"
             s == slot[f]
  <2>1. /\ UNCHANGED <<phase, link, since>> /\ unread' \subseteq unread
        /\ Missed' = Missed /\ phase = "running" /\ slot[f] \in Busy
    BY <1>8 DEF TaskTimesOut, Missed
  <2>2. /\ s \in Busy \cup {"over"} /\ b \in Answer \cup {"none"} /\ b \notin Passing
        /\ answer' = [answer EXCEPT ![f] = b]
    BY <1>8 DEF TaskTimesOut, Answer, Unreviewed, Passing
  <2>3. slot' = [slot EXCEPT ![f] = s]
    BY <1>8 DEF TaskTimesOut, Folders, FolderTypes
  <2>4. phase = "running" /\ f \in Missed' =>
           s \notin {"reviewer", "joined"} /\ b \notin Passing
    BY <2>1, <2>2 DEF Folders, EditsRead
  <2>5. Calls' /\ child' = child
    BY <1>8 DEF TaskTimesOut, processVars, Calls, CallTypes, CallState
  <2>6. \A d \in Folder : child'[d] = "running" =>
           (d = f /\ s \in Busy) \/ (d # f /\ child[d] = "running")
    BY <2>1, <2>5
  <2>7. phase # "running" => b = answer[f]
    BY <2>1
  <2> HIDE DEF b, s
  <2>8. Folders'
    BY <2>1, <2>2, <2>3, <2>4, <2>6, <2>7, FolderStep
  <2> QED
    BY <2>5, <2>8
<1>9. CASE FastPath(f)
  <2> DEFINE a == "NO_CHANGES"
  <2>1. Finish(f, a) /\ a \in Answer /\ slot[f] \in Busy
    BY <1>9 DEF FastPath, Busy, Answer, Passing
  <2>2. UNCHANGED <<phase, link, since>> /\ unread' \subseteq unread
        /\ f \notin Missed' /\ Missed' \subseteq Missed
    BY <1>9 DEF FastPath, Reads, Missed
  <2> HIDE DEF a
  <2> QED
    BY <2>1, <2>2, FinishStep
<1> QED
  BY <1>1, <1>2, <1>3, <1>4, <1>5, <1>6, <1>7, <1>8, <1>9
----------------------------------------------------------------------------
(* The request and the links.                                              *)

LEMMA SameCalls ==
    ASSUME Calls, UNCHANGED processVars
    PROVE  Calls' /\ child' = child
BY DEF processVars, Calls, CallTypes, CallState

\* No review begins or ends.
LEMMA SameSlots ==
    ASSUME SlotsTaken, UNCHANGED slot, Starts({}),
           IsFiniteSet({f \in Linked : link'[f] # "none"})
    PROVE  SlotsTaken'
<1>1. Entries' = Entries /\ BusyFolders' = BusyFolders
  BY DEF Entries, BusyFolders
<1> QED
  BY <1>1 DEF SlotsTaken, Starts

\* A link is made or noted, or becomes idle.
LEMMA LinkStep ==
    ASSUME Calls, Folders, NEW f \in Linked,
           NotifyChange(f) \/ LinkToSession(f) \/ GoesIdle(f)
    PROVE  Calls' /\ Folders'
<1> USE DEF Folders
<1>1. /\ UNCHANGED <<phase, slot, answer>> /\ UNCHANGED processVars
  BY DEF NotifyChange, LinkToSession, GoesIdle, requestVars, folderVars
<1>2. Calls' /\ Starts({}) /\ Entries' = Entries
  BY <1>1, SameCalls DEF Starts, Entries
<1>3. PICK l \in {"live", "idle"} :
         /\ link' = [link EXCEPT ![f] = l]
         /\ l = "live" \/ phase = "idle"
  BY DEF NotifyChange, LinkToSession, GoesIdle, RecordLink
<1>4. \A g \in Linked : link'[g] = IF g = f THEN l ELSE link[g]
  BY <1>3 DEF FolderTypes
<1>5. unread' \subseteq Linked
  BY DEF NotifyChange, LinkToSession, GoesIdle, FolderTypes
<1>6. phase = "running" => Missed' \subseteq Missed
  BY DEF NotifyChange, LinkToSession, GoesIdle, RecordLink, Missed
<1>7. FolderTypes'
  BY <1>1, <1>3, <1>5 DEF FolderTypes
<1>8. RequestState'
  <2>1. phase = "running" => \A g \in Entries \ {Own} : link'[g] = "live"
    <3>1. \A g \in Entries \ {Own} : g \in Linked
      BY DEF Entries, Folder
    <3> QED
      BY <1>3, <1>4, <3>1 DEF RequestState
  <2> QED
    BY <1>1, <1>2, <2>1 DEF RequestState
<1>9. SlotsTaken'
  <2> DEFINE S == {g \in Linked : link[g] # "none"}
             T == {g \in Linked : link'[g] # "none"}
  <2>1. T = S \cup {f}
    BY <1>3, <1>4
  <2>2. IsFiniteSet(S)
    BY DEF SlotsTaken
  <2> HIDE DEF S
  <2>3. IsFiniteSet(T)
    BY <2>1, <2>2, FS_AddElement
  <2> QED
    BY <1>1, <1>2, <2>3, SameSlots
<1>10. EditsRead'
  BY <1>1, <1>6 DEF EditsRead
<1> QED
  BY <1>2, <1>7, <1>8, <1>9, <1>10

\* Nothing changes but the programs, or the deadline passes.
LEMMA TimeStep ==
    ASSUME Calls, Folders,
           \/ DeadlinePasses
           \/ \E f \in Linked : PassesElsewhere(f)
           \/ \E f \in Folder : ProgramStep(f)
           \/ UNCHANGED vars
    PROVE  Calls' /\ Folders'
<1>1. UNCHANGED <<link, since, unread, slipped, slot, answer, phase>>
  BY DEF DeadlinePasses, PassesElsewhere, ProgramStep, vars, linkVars, requestVars, folderVars
<1>2. Calls' /\ Starts({})
  <2>1. CASE UNCHANGED processVars
    BY <2>1, SameCalls DEF Starts
  <2>2. ASSUME NEW f \in Folder, ProgramStep(f) PROVE Calls' /\ Starts({})
    BY <2>2, ProcessSafe DEF ProgramStep
  <2> QED
    BY <2>1, <2>2 DEF DeadlinePasses, PassesElsewhere, vars
<1>3. FolderTypes' /\ RequestState' /\ EditsRead'
  BY <1>1 DEF Folders, FolderTypes, RequestState, Entries, EditsRead, Missed
<1>4. SlotsTaken'
  BY <1>1, <1>2, SameSlots DEF Folders, SlotsTaken
<1> QED
  BY <1>2, <1>3, <1>4 DEF Folders

LEMMA ArriveStep ==
    ASSUME Calls, Folders, Arrive
    PROVE  Calls' /\ Folders'
<1> USE DEF Folders
<1>1. /\ phase = "idle" /\ phase' = "resolving"
      /\ UNCHANGED <<link, since, unread, slipped, slot, answer>>
      /\ P!Start(Own, "git", "pending")
  BY DEF Arrive, linkVars, folderVars, P!SpawnGit
<1>2. Own \in Folder
  BY DEF Folder
<1>3. Calls' /\ Starts({Own})
  BY <1>1, <1>2, StartSafe
<1>4. FolderTypes' /\ RequestState' /\ EditsRead'
  BY <1>1 DEF FolderTypes, RequestState, Entries, EditsRead, Missed
<1>5. SlotsTaken'
  <2>1. Entries = {} /\ Entries' = {} /\ BusyFolders' = BusyFolders
    BY <1>1 DEF RequestState, Entries, BusyFolders
  <2> QED
    BY <1>1, <1>3, <2>1 DEF SlotsTaken, Starts
<1> QED
  BY <1>3, <1>4, <1>5

\* The reviews begin: the own folder's, with as many others as slots allow.
LEMMA BeginStep ==
    ASSUME Folders, phase = "resolving", NEW fs \in SUBSET Linked, NEW gs \in SUBSET Linked,
           IsFiniteSet(fs), Cardinality(fs) < Limit,
           Begin(fs \cup {Own}, gs),
           link' \in [Linked -> {"none", "live", "idle"}],
           \A f \in fs \cup gs : link'[f] = "live",
           \A f \in Linked : link'[f] # "none" => link[f] # "none"
    PROVE  Calls' /\ Folders'
<1> USE DEF Folders
<1>1. /\ phase' = "running" /\ since' = {} /\ answer' = answer
      /\ unread' = unread /\ slipped' = slipped
      /\ slot' = [f \in Folder |-> IF f \in fs \cup {Own} THEN "git"
                                   ELSE IF f \in gs THEN "queued" ELSE "none"]
  BY DEF Begin
<1>2. Calls' /\ \A d \in Folder : child'[d] = "running" => d \in fs \cup {Own}
  BY GitsSafe DEF Begin
<1>3. FolderTypes'
  BY <1>1 DEF FolderTypes, Busy
<1>4. \A f \in Folder : answer[f] = "none"
  BY DEF RequestState
<1>5. RequestState'
  BY <1>1 DEF RequestState, Entries, Folder
<1>6. EditsRead'
  <2>1. \A f \in unread : f \in Folder
    BY DEF FolderTypes, Folder
  <2> QED
    BY <1>1, <1>4, <2>1 DEF EditsRead, Missed, Passing
<1>7. SlotsTaken'
  <2>1. BusyFolders' = fs \cup {Own} /\ Own \notin fs
    BY <1>1, OwnAssumption DEF BusyFolders, Busy, Folder
  <2>2. /\ IsFiniteSet(fs \cup {Own})
        /\ Cardinality(fs \cup {Own}) = Cardinality(fs) + 1
    BY <2>1, FS_AddElement
  <2>3. Cardinality(fs) + 1 <= Limit
    BY FS_CardinalityType, LimitAssumption
  <2>4. IsFiniteSet({f \in Linked : link'[f] # "none"})
    <3> DEFINE S == {f \in Linked : link[f] # "none"}
               T == {f \in Linked : link'[f] # "none"}
    <3>1. T \in SUBSET S /\ IsFiniteSet(S)
      BY DEF SlotsTaken
    <3> HIDE DEF S
    <3> QED
      BY <3>1, FS_Subset
  <2>5. \A d \in Folder : child'[d] = "running" => slot'[d] \in Busy
    BY <1>1, <1>2 DEF Busy
  <2> QED
    BY <2>1, <2>2, <2>3, <2>4, <2>5 DEF SlotsTaken
<1> QED
  BY <1>2, <1>3, <1>5, <1>6, <1>7

LEMMA FanOutStep ==
    ASSUME Folders, FanOut
    PROVE  Calls' /\ Folders'
<1>1. link \in [Linked -> {"none", "live", "idle"}]
  BY DEF Folders, FolderTypes
<1>2. PICK fs \in SUBSET Live :
         /\ \/ Cardinality(fs) = Limit - 1
            \/ Cardinality(fs) < Limit
         /\ Begin(fs \cup {Own}, Live \ fs)
  BY DEF FanOut
<1>3. /\ link' = [f \in Linked |-> IF link[f] = "idle" THEN "none" ELSE link[f]]
      /\ phase = "resolving"
  BY DEF FanOut, DropLinks
<1>4. fs \in SUBSET Linked /\ Live \ fs \in SUBSET Linked
  BY DEF Live
<1>5. IsFiniteSet(fs)
  <2> DEFINE S == {f \in Linked : link[f] # "none"}
  <2>1. fs \in SUBSET S /\ IsFiniteSet(S)
    BY DEF Live, Folders, SlotsTaken
  <2> HIDE DEF S
  <2> QED
    BY <2>1, FS_Subset
<1>6. Cardinality(fs) < Limit
  BY <1>2, <1>5, FS_CardinalityType, LimitAssumption
<1>7. link' \in [Linked -> {"none", "live", "idle"}]
  BY <1>1, <1>3
<1>8. \A f \in fs \cup (Live \ fs) : link'[f] = "live"
  BY <1>3 DEF Live
<1>9. \A f \in Linked : link'[f] # "none" => link[f] # "none"
  BY <1>3
<1> QED
  BY <1>2, <1>3, <1>4, <1>5, <1>6, <1>7, <1>8, <1>9, BeginStep

LEMMA ReviewAloneStep ==
    ASSUME Folders, ReviewAlone
    PROVE  Calls' /\ Folders'
<1> DEFINE none == {}
<1>1. link' = link /\ phase = "resolving" /\ Begin(none \cup {Own}, none)
  BY DEF ReviewAlone
<1>2. none \in SUBSET Linked /\ IsFiniteSet(none) /\ Cardinality(none) < Limit
  BY FS_EmptySet, LimitAssumption
<1>3. link' \in [Linked -> {"none", "live", "idle"}]
  BY <1>1 DEF Folders, FolderTypes
<1>4. \A f \in none \cup none : link'[f] = "live"
  OBVIOUS
<1> HIDE DEF none
<1> QED
  BY <1>1, <1>2, <1>3, <1>4, BeginStep

\* Whoever waits for a slot at the deadline is answered.
LEMMA SkipStep ==
    ASSUME Calls, Folders, SkipQueued
    PROVE  Calls' /\ Folders'
<1> USE DEF Folders
<1>1. /\ UNCHANGED <<link, since, unread, slipped, phase>> /\ UNCHANGED processVars
      /\ slot' = [f \in Folder |-> IF slot[f] = "queued" THEN "over" ELSE slot[f]]
      /\ answer' = [f \in Folder |-> IF slot[f] = "queued" THEN "ESCALATE" ELSE answer[f]]
      /\ \E f \in Folder : slot[f] = "queued"
  BY DEF SkipQueued, linkVars, requestVars
<1>2. Calls' /\ child' = child
  BY <1>1, SameCalls
<1>3. FolderTypes'
  BY <1>1 DEF FolderTypes, Busy, Answer, Unreviewed
<1>4. Entries' = Entries /\ BusyFolders' = BusyFolders
  BY <1>1 DEF Entries, BusyFolders, Busy
<1>5. RequestState'
  <2>1. phase = "running"
    BY <1>1 DEF RequestState
  <2> QED
    BY <1>1, <1>4, <2>1 DEF RequestState
<1>6. SlotsTaken'
  BY <1>1, <1>2, <1>4 DEF SlotsTaken, Entries, Busy
<1>7. EditsRead'
  <2>1. \A f \in unread : f \in Folder
    BY DEF FolderTypes, Folder
  <2> QED
    BY <1>1, <2>1 DEF EditsRead, Missed, Passing
<1> QED
  BY <1>2, <1>3, <1>5, <1>6, <1>7

LEMMA ResolveTimesOutStep ==
    ASSUME Calls, Folders, ResolveTimesOut
    PROVE  Calls' /\ Folders'
<1>1. /\ UNCHANGED <<link, since, unread, slipped, slot, answer>> /\ UNCHANGED processVars
      /\ phase = "resolving" /\ phase' = "answered"
  BY DEF ResolveTimesOut, linkVars, folderVars
<1>2. Calls' /\ child' = child
  BY <1>1, SameCalls
<1>3. FolderTypes' /\ RequestState' /\ EditsRead'
  BY <1>1 DEF Folders, FolderTypes, RequestState, Entries, EditsRead, Missed
<1>4. SlotsTaken'
  BY <1>1, <1>2, SameSlots DEF Folders, SlotsTaken, Starts
<1> QED
  BY <1>2, <1>3, <1>4 DEF Folders

LEMMA RespondStep ==
    ASSUME Calls, Folders, Respond
    PROVE  Calls' /\ Folders'
<1>1. /\ UNCHANGED <<unread, slipped, slot>> /\ UNCHANGED processVars
      /\ phase = "running" /\ phase' = "answered"
      /\ link' = [f \in Linked |-> IF f \in SettledLinks THEN "none" ELSE link[f]]
      /\ answer' = [f \in Folder |-> "none"]
  BY DEF Respond, DropLinks
<1>2. Calls' /\ child' = child
  BY <1>1, SameCalls
<1>3. FolderTypes' /\ RequestState' /\ EditsRead'
  <2>1. \A f \in Folder : slot[f] # "queued"
    BY DEF Respond, Folders, RequestState, Entries
  <2> QED
    BY <1>1, <2>1 DEF Folders, FolderTypes, RequestState, Entries, EditsRead, Missed
<1>4. IsFiniteSet({f \in Linked : link'[f] # "none"})
  <2> DEFINE S == {f \in Linked : link[f] # "none"}
             T == {f \in Linked : link'[f] # "none"}
  <2>1. T \in SUBSET S /\ IsFiniteSet(S)
    BY <1>1 DEF Folders, SlotsTaken
  <2> HIDE DEF S
  <2> QED
    BY <2>1, FS_Subset
<1>5. SlotsTaken'
  BY <1>1, <1>2, <1>4, SameSlots DEF Folders, Starts
<1> QED
  BY <1>2, <1>3, <1>5 DEF Folders

LEMMA ReturnStep ==
    ASSUME Folders, Return
    PROVE  Calls' /\ Folders'
<1> DEFINE none == {}
<1>1. /\ UNCHANGED <<link, since, unread, slipped, answer>>
      /\ phase = "answered" /\ phase' = "idle"
      /\ slot' = [f \in Folder |-> "none"] /\ P!SpawnGits(none)
  BY DEF Return, linkVars
<1> HIDE DEF none
<1>2. Calls' /\ \A d \in Folder : child'[d] = "running" => d \in none
  BY <1>1, GitsSafe
<1>3. FolderTypes' /\ RequestState' /\ EditsRead'
  BY <1>1 DEF Folders, FolderTypes, RequestState, Entries, EditsRead, Missed
<1>4. SlotsTaken'
  <2>1. BusyFolders' = {}
    BY <1>1 DEF BusyFolders, Busy
  <2>2. IsFiniteSet({}) /\ Cardinality({}) <= Limit
    BY FS_EmptySet, LimitAssumption
  <2> QED
    BY <1>1, <1>2, <2>1, <2>2 DEF Folders, SlotsTaken, none
<1> QED
  BY <1>2, <1>3, <1>4 DEF Folders
----------------------------------------------------------------------------
(* The invariant.                                                          *)

(* No request, no link, no program.                                        *)
LEMMA LInvInit == Init => LInv
<1> SUFFICES ASSUME Init PROVE LInv
  OBVIOUS
<1>1. /\ link = [f \in Linked |-> "none"] /\ unread = {} /\ phase = "idle"
      /\ slot = [f \in Folder |-> "none"] /\ answer = [f \in Folder |-> "none"]
      /\ P!ProcessInit
  BY DEF Init
<1>2. Calls
  <2>1. P!NoOutput \in Said /\ \A t : Faithful(t, P!NoOutput)
    BY NoOutputIsFaithful DEF Faithful
  <2>2. CallTypes
    BY <1>1, <2>1 DEF CallTypes, P!ProcessInit
  <2>3. \A c \in Folder : CallState(c)
    BY <1>1, <2>1 DEF CallState, P!ProcessInit, Verdict
  <2> QED
    BY <2>2, <2>3 DEF Calls
<1>3. FolderTypes /\ RequestState /\ EditsRead
  BY <1>1 DEF FolderTypes, RequestState, EditsRead, Entries
<1>4. SlotsTaken
  <2>1. BusyFolders = {} /\ {f \in Linked : link[f] # "none"} = {}
    BY <1>1 DEF BusyFolders, Busy
  <2>2. \A f \in Folder : child[f] # "running"
    BY <1>1 DEF P!ProcessInit
  <2>3. IsFiniteSet({}) /\ Cardinality({}) <= Limit
    BY FS_EmptySet, LimitAssumption
  <2> QED
    BY <2>1, <2>2, <2>3 DEF SlotsTaken
<1> QED
  BY <1>2, <1>3, <1>4 DEF LInv

(* Every step keeps the invariant, whether the reactions ran first or not. *)
LEMMA LInvStep == LInv /\ [Next]_vars => LInv'
<1> SUFFICES ASSUME LInv, [Next]_vars PROVE LInv'
  OBVIOUS
<1>1. Calls /\ Folders
  BY DEF LInv, Folders
<1> SUFFICES Calls' /\ Folders'
  BY DEF LInv, Folders
<1>2. CASE FanOut \/ ReviewAlone
  BY <1>1, <1>2, FanOutStep, ReviewAloneStep
<1>3. CASE Respond \/ Return
  BY <1>1, <1>3, RespondStep, ReturnStep
<1>4. ASSUME NEW f \in Folder,
             FolderReaction(f) \/ TaskTimesOut(f) \/ JoinedEnds(f)
      PROVE  Calls' /\ Folders'
  BY <1>1, <1>4, ReviewStep DEF FolderReaction
<1>5. ASSUME NEW f \in Linked, NotifyChange(f) \/ LinkToSession(f) \/ GoesIdle(f)
      PROVE  Calls' /\ Folders'
  BY <1>1, <1>5, LinkStep
<1>6. CASE Arrive \/ ResolveTimesOut \/ SkipQueued
  BY <1>1, <1>6, ArriveStep, ResolveTimesOutStep, SkipStep
<1>7. CASE DeadlinePasses \/ (\E f \in Linked : PassesElsewhere(f)) \/ UNCHANGED vars
  BY <1>1, <1>7, TimeStep
<1>8. ASSUME NEW f \in Folder, ProgramStep(f) PROVE Calls' /\ Folders'
  BY <1>1, <1>8, TimeStep
<1> QED
  BY <1>2, <1>3, <1>4, <1>5, <1>6, <1>7, <1>8 DEF Next, Reaction, Event

(* The inductive invariant.                                                *)
THEOREM FoldersInvariance == Spec => []LInv
BY LInvInit, LInvStep, PTL DEF Spec
----------------------------------------------------------------------------
(* What follows from it.                                                   *)

(* A verdict is what the findings of the first object in a reviewer's      *)
(* reply say, of a program that nobody cut off, and its status says no     *)
(* other thing but in claude's case; only claude's and gemini's reply may  *)
(* hold more, and not one that was cut off in a loop (codex.js, claude.js, *)
(* gemini.js).                                                             *)
THEOREM VerdictsAreRead == Spec => []VerdictIsRead
<1>1. LInv => VerdictIsRead
  BY DEF LInv, Calls, CallState, Faithful, SaysSo, VerdictIsRead, P!VerdictIsRead, Verdict
<1> QED
  BY <1>1, FoldersInvariance, PTL

(* No more folders than slots have a program running, however many are     *)
(* linked and however many reviews outlive their answers (runFolders).     *)
THEOREM SlotsBound == Spec => []SlotBound
<1>1. LInv => SlotBound
  <2> SUFFICES ASSUME LInv PROVE SlotBound
    OBVIOUS
  <2> DEFINE R == {f \in Folder : child[f] = "running"}
  <2> USE DEF LInv
  <2>1. IsFiniteSet(BusyFolders) /\ Cardinality(BusyFolders) <= Limit /\ Limit \in Nat
        /\ Limit >= 1 /\ Cardinality(BusyFolders) \in Nat
    BY FS_CardinalityType, LimitAssumption DEF SlotsTaken
  <2>2. CASE Entries = {}
    <3>1. R \in SUBSET {Own}
      BY <2>2 DEF SlotsTaken, Entries, Busy
    <3>2. IsFiniteSet({Own}) /\ Cardinality({Own}) = 1
      BY FS_Singleton
    <3> HIDE DEF R
    <3>3. Cardinality(R) <= 1 /\ Cardinality(R) \in Nat
      BY <3>1, <3>2, FS_Subset, FS_CardinalityType
    <3> QED
      BY <2>1, <3>3 DEF SlotBound, R
  <2>3. CASE Entries # {}
    <3>1. R \in SUBSET BusyFolders
      BY <2>3 DEF SlotsTaken, BusyFolders
    <3> HIDE DEF R
    <3>2. Cardinality(R) <= Cardinality(BusyFolders) /\ Cardinality(R) \in Nat
      BY <2>1, <3>1, FS_Subset, FS_CardinalityType
    <3> QED
      BY <2>1, <3>2 DEF SlotBound, R
  <2> QED
    BY <2>2, <2>3
<1> QED
  BY <1>1, FoldersInvariance, PTL
----------------------------------------------------------------------------
(* The answer of a request.                                                *)

\* Only the answer to every folder ends the reviews of a request.
LEMMA OnlyRespond ==
    ASSUME [Next]_vars, phase = "running", phase' = "answered"
    PROVE  Respond
<1> USE DEF linkVars, requestVars, folderVars
<1>1. ~UNCHANGED vars
  BY DEF vars
<1>2. ~(FanOut \/ ReviewAlone \/ Return \/ Arrive \/ ResolveTimesOut)
  BY DEF FanOut, ReviewAlone, Return, Arrive, ResolveTimesOut
<1>3. ~(DeadlinePasses \/ SkipQueued)
  BY DEF DeadlinePasses, SkipQueued
<1>4. ASSUME NEW f \in Folder PROVE ~FolderReaction(f)
  BY DEF FolderReaction, TakeSlot, GitFails, FromCache, FastPath, Join, RunReviewer,
         ReviewerEnds, Ends
<1>5. ASSUME NEW f \in Folder PROVE ~(TaskTimesOut(f) \/ JoinedEnds(f) \/ ProgramStep(f))
  BY DEF TaskTimesOut, JoinedEnds, Ends, ProgramStep
<1>6. ASSUME NEW f \in Linked PROVE ~(NotifyChange(f) \/ LinkToSession(f) \/ GoesIdle(f)
                                      \/ PassesElsewhere(f))
  BY DEF NotifyChange, LinkToSession, GoesIdle, PassesElsewhere
<1> QED
  BY <1>1, <1>2, <1>3, <1>4, <1>5, <1>6 DEF Next, Reaction, Event

\* What an answer that lets the stop through says, and what it leaves.
Earned ==
    phase = "running" /\ phase' = "answered" =>
        /\ Response \in Passing => answer[Own] \in Passing
        /\ Response \notin Blocking =>
              \A f \in Entries :
                 /\ answer[f] \notin Blocking
                 /\ \/ f = Own \/ answer[f] \in Passing \cup {"GONE"}
                    \/ link'[f] = "live"

\* No link ends unreviewed.
Reviewed ==
    \A f \in Linked :
        phase = "running" /\ phase' = "answered"
        /\ link[f] = "live" /\ link'[f] = "none" =>
            answer[f] = "GONE" \/ f \notin unread \/ f \in slipped

LEMMA EarnedStep ==
    ASSUME LInv, [Next]_vars
    PROVE  Earned
<1> SUFFICES ASSUME phase = "running", phase' = "answered"
             PROVE  Earned
  BY DEF Earned
<1>1. Respond
  BY OnlyRespond
<1>2. /\ \A f \in Entries : answer[f] \in Answer
      /\ Own \in Entries
      /\ \A f \in Entries \ {Own} : f \in Linked /\ link[f] = "live"
  BY <1>1 DEF LInv, FolderTypes, RequestState, Respond, Entries, Folder
<1> DEFINE as == {answer[f] : f \in Entries}
<1>3. ASSUME Response \notin Blocking, NEW f \in Entries PROVE answer[f] \notin Blocking
  <2>1. as \cap Blocking = {}
    BY <1>3 DEF Response, Combine, Blocking
  <2> QED
    BY <2>1
<1>4. ASSUME Response \in Passing PROVE answer[Own] \in Passing
  <2>1. Response \notin Blocking /\ Response # "ESCALATE"
    BY <1>4 DEF Passing, Blocking
  <2>2. answer[Own] \notin Blocking
    BY <1>2, <1>3, <2>1
  <2>3. answer[Own] \notin Unreviewed
    BY <2>1 DEF Response, Combine, Blocking
  <2> QED
    BY <1>2, <2>2, <2>3 DEF Answer
<1>5. ASSUME Response \notin Blocking, NEW f \in Entries \ {Own},
             answer[f] \notin Passing \cup {"GONE"}
      PROVE  link'[f] = "live"
  <2>1. answer[f] = "ESCALATE"
    BY <1>2, <1>3, <1>5 DEF Answer, Unreviewed
  <2>2. f \notin SettledLinks
    BY <2>1 DEF SettledLinks, Passing
  <2>3. link'[f] = link[f]
    BY <1>1, <1>2, <2>2 DEF Respond, DropLinks
  <2> QED
    BY <1>2, <2>3
<1> QED
  BY <1>3, <1>4, <1>5 DEF Earned

LEMMA ReviewedStep ==
    ASSUME LInv, [Next]_vars
    PROVE  Reviewed
<1> SUFFICES ASSUME phase = "running", phase' = "answered", NEW f \in Linked,
                    link[f] = "live", link'[f] = "none", answer[f] # "GONE"
             PROVE  f \notin unread \/ f \in slipped
  BY DEF Reviewed
<1>1. Respond
  BY OnlyRespond
<1>2. f \in SettledLinks
  BY <1>1 DEF Respond, DropLinks
<1>3. answer[f] \in Passing /\ f \notin since
  BY <1>2 DEF SettledLinks
<1> QED
  BY <1>3 DEF LInv, EditsRead, Missed

(* An answer passes only if the session's own folder does; and when an     *)
(* answer does not block, no folder has findings and each linked folder    *)
(* passed, cannot be reviewed or stays linked for the next stop            *)
(* (settleLinks, combineResults).                                          *)
THEOREM StopsAreEarned == Spec => StopIsEarned
<1>1. LInv /\ [Next]_vars => [Earned]_vars
  BY EarnedStep
<1> QED
  BY <1>1, FoldersInvariance, PTL DEF Spec, StopIsEarned, Earned

(* A link ends with a pass only if the review that passed read every edit  *)
(* that was notified, those made while it ran included, or the edits were  *)
(* committed between the fast path's two questions (settleLinks).          *)
THEOREM NoLinkEndsUnread == Spec => LinksEndReviewed
<1>1. LInv /\ [Next]_vars => [Reviewed]_vars
  BY ReviewedStep
<1> QED
  BY <1>1, FoldersInvariance, PTL DEF Spec, LinksEndReviewed, Reviewed
=============================================================================
