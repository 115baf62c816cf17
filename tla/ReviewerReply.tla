---------------------------- MODULE ReviewerReply ----------------------------
(***************************************************************************)
(* What the three adapters (server/src/core/review/codex.js, claude.js,    *)
(* gemini.js) make of what a reviewer printed.  A reply is described by    *)
(* its shape, by the status and the findings of its first object, and by   *)
(* the loop warning of the gemini program.                                 *)
(*                                                                         *)
(* Claude's and gemini's adapters judge a reply that is more than an       *)
(* object by the first complete object in it, whatever follows.            *)
(***************************************************************************)

\* The reviewers' own verdicts, and what else models write as a status:
\* the server's public statuses and anything else.
Status == {"GOOD_TO_GO", "ISSUES", "GOOD_TO_GO_WITH_NOTES", "NO_CHANGES",
           "NO_PROGRESS_WITH_OPEN_ISSUES", "ESCALATE", "unknown"}

\* Findings with a label outside the schema, and with any other defect.
Findings == {"none", "listed", "mislabelled", "malformed"}

\* object   the reply is one JSON object
\* wrapped  one JSON object with prose around it
\* several  a complete object, then others that may say something else
\* cut      a complete object, then one that is not complete
\* broken   text that does not begin with a complete object
\* error    an envelope that reports an error
\* empty    no reply, or nothing at all
Form == {"object", "wrapped", "several", "cut", "broken", "error", "empty"}

HasObject(form) == form \in {"object", "wrapped", "several", "cut"}

\* The bundled schema: two statuses, and findings if and only if ISSUES.
Conforms(status, findings) ==
    /\ status \in {"GOOD_TO_GO", "ISSUES"}
    /\ findings \in {"none", "listed"}
    /\ status = "GOOD_TO_GO" <=> findings = "none"

Reply == [form : Form, status : Status, findings : Findings, loop : BOOLEAN]

\* What the programs print.  Codex prints its reply as it is, the other two
\* put it in an envelope; only gemini detects loops.
Replies(provider) ==
    CASE provider = "codex" -> {r \in Reply : r.form # "error" /\ ~r.loop}
      [] provider = "claude" -> {r \in Reply : ~r.loop}
      [] provider = "gemini" -> Reply

\* What the findings of the first object say.
Judgement(r) == IF r.findings = "none" THEN "GOOD_TO_GO" ELSE "ISSUES"

\* A label outside the schema becomes "other".
Relabelled(findings) ==
    IF findings = "mislabelled" THEN "listed" ELSE findings

\* What a status that is not the reviewers' stands for.
Coerced(status) ==
    CASE status \in {"GOOD_TO_GO_WITH_NOTES", "NO_PROGRESS_WITH_OPEN_ISSUES",
                     "ESCALATE"} -> "ISSUES"
      [] status = "NO_CHANGES" -> "GOOD_TO_GO"
      [] OTHER -> status

Checked(status, findings) ==
    IF Conforms(status, findings) THEN status ELSE "invalid"

ParseCodex(r) ==
    IF r.form = "object" THEN Checked(r.status, r.findings) ELSE "invalid"

\* The status is derived from the findings, whatever it was.
ParseClaude(r) ==
    LET findings == Relabelled(r.findings)
    IN  IF HasObject(r.form)
        THEN Checked(IF findings = "none" THEN "GOOD_TO_GO" ELSE "ISSUES",
                     findings)
        ELSE "invalid"

\* Fault: a reply that was cut short is salvaged like any other.
ParseGeminiSalvagingLoops(r) ==
    IF HasObject(r.form)
    THEN Checked(Coerced(r.status), Relabelled(r.findings))
    ELSE "invalid"

\* With a loop warning the reply has to be an object as it stands.
ParseGemini(r) ==
    IF r.form = "object" \/ (HasObject(r.form) /\ ~r.loop)
    THEN Checked(Coerced(r.status), Relabelled(r.findings))
    ELSE "invalid"

Parse(provider, r) ==
    CASE provider = "codex" -> ParseCodex(r)
      [] provider = "claude" -> ParseClaude(r)
      [] provider = "gemini" -> ParseGemini(r)

Verdict(parsed) == IF parsed = "invalid" THEN "ESCALATE" ELSE parsed

\* cause is why the server killed the program ("none": it did not), code the
\* program's exit code.
CodexOutcome(cause, code, parsed) ==
    IF cause # "none" \/ code # 0 THEN "ESCALATE" ELSE Verdict(parsed)

\* Claude and gemini exit with an error now and then after a good answer.
ClaudeOutcome(cause, code, parsed) ==
    IF cause # "none" THEN "ESCALATE" ELSE Verdict(parsed)

GeminiOutcome(cause, code, parsed) ==
    IF cause # "none" THEN "ESCALATE" ELSE Verdict(parsed)

Outcome(provider, cause, code, parsed) ==
    CASE provider = "codex" -> CodexOutcome(cause, code, parsed)
      [] provider = "claude" -> ClaudeOutcome(cause, code, parsed)
      [] provider = "gemini" -> GeminiOutcome(cause, code, parsed)
=============================================================================
