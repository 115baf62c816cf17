----------------------------- MODULE ConfigFile ------------------------------
(***************************************************************************)
(* The programs that write config.json: the server's configuration store   *)
(* (server/src/config-store.js), the rotation of the token                 *)
(* (install/rotate-token.mjs) and the installer (install/ensure-token.mjs).*)
(* Each holds the lock of install/config-lock.mjs while it reads, changes  *)
(* and replaces the file, and while it refreshes what is derived from it:  *)
(* the hooks' credentials and Codex's entry.  People edit the file with    *)
(* programs that know nothing of the lock.                                 *)
(*                                                                         *)
(* Processes of an operating system interleave: every read and write of a  *)
(* file is a step of its own, and a program may stop between any two,      *)
(* which frees the lock.  A program makes one change and then ends; a name *)
(* stands for the program and for its change.  Backups and temporary files *)
(* are left out: nothing reads them.                                       *)
(***************************************************************************)
EXTENDS Naturals

CONSTANTS
    Save,       \* saves of the dashboard's settings, by the server
    Sync,       \* the server's refreshes of the credentials, at its start
    Rotate,     \* rotations of the token
    Install,    \* runs of the installer
    Hand,       \* edits by hand
    Mortal,     \* the programs that may be stopped
    NoOne       \* no program; no token

Program == Save \cup Sync \cup Rotate \cup Install
Server == Save \cup Sync

ASSUME NamesAssumption ==
    /\ Hand \notin Program /\ NoOne \notin Program \cup {Hand}
    /\ Mortal \subseteq Program
ASSUME KindsAssumption ==
    /\ Save \cap Sync = {} /\ Save \cap Rotate = {} /\ Save \cap Install = {}
    /\ Sync \cap Rotate = {} /\ Sync \cap Install = {}
    /\ Rotate \cap Install = {}

MaxAttempts == 3

VARIABLES
    file,       \* config.json: the changes it holds, its token, its syntax
    cache,      \* hook-credentials.json: the token it holds
    codex,      \* the token in Codex's entry
    holder,     \* the program that holds the lock
    pc,         \* pc[p]: how far program p has got
    text,       \* text[p]: the file as p read it last
    attempt,    \* attempt[p]: how often p has begun its change
    last,       \* history: the program that replaced the file last
    undone      \* history: what edits by hand replaced since it did

fileVars == <<file, last, undone>>
mirrors == <<cache, codex>>
progress == <<text, attempt>>
vars == <<file, cache, codex, holder, pc, text, attempt, last, undone>>

\* The token: Hand is the one it begins with, NoOne that there is none.
Contents == [holds : SUBSET (Program \cup {Hand}),
             token : Program \cup {Hand, NoOne}, parses : BOOLEAN]

\* started: waits for the lock, or will; looking: an installer that looks for
\* a token; locked: reads the file; read: has it; staged: wrote the temporary file; checked: saw the file unchanged; saved:
\* replaced it; sourced: read it again; cached: refreshed the credentials.  A
\* program that did not do all it should, or was stopped, ends as failed.
Ended == {"done", "failed"}
InLock == {"looking", "locked", "read", "staged", "checked", "saved", "sourced", "cached"}
Pc == {"started"} \cup InLock \cup Ended

TypeOK ==
    /\ file \in Contents
    /\ cache \in Program \cup {Hand, NoOne}
    /\ codex \in Program \cup {Hand, NoOne}
    /\ holder \in Program \cup {NoOne}
    /\ pc \in [Program -> Pc]
    /\ text \in [Program -> Contents]
    /\ attempt \in [Program -> Nat]
    /\ last \in Program \cup {NoOne}
    /\ undone \in SUBSET SUBSET Program

Installed == [holds |-> {}, token |-> Hand, parses |-> TRUE]

Init ==
    /\ file = Installed
    /\ cache = Hand /\ codex = Hand
    /\ holder = NoOne
    /\ pc = [p \in Program |-> "started"]
    /\ text = [p \in Program |-> Installed]
    /\ attempt = [p \in Program |-> 0]
    /\ last = NoOne
    /\ undone = {}

\* The programs' changes among all that the file holds.
SavesIn(c) == c.holds \cap Program

At(p, s) == pc[p] = s
Goto(p, s) == pc' = [pc EXCEPT ![p] = s]

-----------------------------------------------------------------------------
(* The lock.                                                               *)

\* What a program begins with: a refresh changes nothing before it reads.
First(p) ==
    IF p \in Sync THEN "saved" ELSE IF p \in Install THEN "looking" ELSE "locked"

\* Fault: a lock that was held too long is taken over.
AcquireOrTakeOver(p) ==
    /\ At(p, "started")
    /\ holder' = p
    /\ Goto(p, First(p))
    /\ UNCHANGED <<fileVars, mirrors, progress>>

(* The lock is free.                                                       *)
Acquire(p) ==
    /\ At(p, "started")
    /\ holder = NoOne
    /\ holder' = p
    /\ Goto(p, First(p))
    /\ UNCHANGED <<fileVars, mirrors, progress>>

(* It was held for too long.  The server's store runs one of its own at a  *)
(* time, so these never wait for each other.                               *)
GiveUp(p) ==
    /\ At(p, "started")
    /\ holder # NoOne
    /\ p \in Server => holder \notin Server
    /\ Goto(p, "failed")
    /\ UNCHANGED <<fileVars, mirrors, progress, holder>>

\* p ends as s says, which releases the lock and forgets what it read.
Release(p, s) ==
    /\ Goto(p, s)
    /\ text' = [text EXCEPT ![p] = Installed]
    /\ attempt' = [attempt EXCEPT ![p] = 0]
    /\ holder' = IF holder = p THEN NoOne ELSE holder

(* A stopped program's lock is released by the kernel.                     *)
Stop(p) ==
    /\ p \in Mortal
    /\ pc[p] \in InLock \cup {"started"}
    /\ Release(p, "failed")
    /\ UNCHANGED <<fileVars, mirrors>>

-----------------------------------------------------------------------------
(* The change.                                                             *)

Read(p, s) ==
    /\ text' = [text EXCEPT ![p] = file]
    /\ Goto(p, s)

\* What is to become of the contents c.
Changed(p, c) ==
    [c EXCEPT !.holds = @ \cup {p},
              !.token = IF p \in Rotate \cup Install THEN p ELSE @]

\* A rotation has nothing to do when there is no token.
Wanted(p, c) == c.parses /\ (p \in Rotate => c.token # NoOne)

(* The installer has nothing to do when there is a token.  Once it found   *)
(* none it writes its own, whatever it reads when it begins to.            *)
LookForToken(p) ==
    /\ At(p, "looking")
    /\ IF file.parses
       THEN /\ Goto(p, IF file.token = NoOne THEN "locked" ELSE "saved")
            /\ UNCHANGED <<progress, holder>>
       ELSE Release(p, "failed")
    /\ UNCHANGED <<fileVars, mirrors>>

(* The file is read, for the first time or again.                          *)
ReadFile(p) ==
    /\ At(p, "locked")
    /\ attempt' = [attempt EXCEPT ![p] = @ + 1]
    /\ Read(p, "read")
    /\ UNCHANGED <<fileVars, mirrors, holder>>

(* It cannot be changed, or its change is refused: nothing is written.     *)
Refuse(p) ==
    /\ At(p, "read")
    /\ ~Wanted(p, text[p]) \/ p \in Save
    /\ Release(p, "failed")
    /\ UNCHANGED <<fileVars, mirrors>>

\* Fault: the attempts are not counted.
RetryForever(p) ==
    /\ Goto(p, "locked")
    /\ attempt' = [attempt EXCEPT ![p] = 0]
    /\ UNCHANGED <<text, holder>>

\* The file changed: p begins again, up to three times in all.
Retry(p) ==
    IF attempt[p] < MaxAttempts
    THEN Goto(p, "locked") /\ UNCHANGED <<progress, holder>>
    ELSE Release(p, "failed")

(* The new contents are written beside the file, and a backup.  The server *)
(* looks first whether the file is as it was read.                         *)
Stage(p) ==
    /\ At(p, "read")
    /\ Wanted(p, text[p])
    /\ IF p \in Save /\ file # text[p]
       THEN Retry(p)
       ELSE Goto(p, "staged") /\ UNCHANGED <<progress, holder>>
    /\ UNCHANGED <<fileVars, mirrors>>

(* The file is compared with what was read.                                *)
Check(p) ==
    /\ At(p, "staged")
    /\ IF file # text[p]
       THEN Retry(p)
       ELSE Goto(p, "checked") /\ UNCHANGED <<progress, holder>>
    /\ UNCHANGED <<fileVars, mirrors>>

(* A write fails: its files are removed and nothing else happened.         *)
WriteFails(p) ==
    /\ pc[p] \in {"read", "staged", "checked"}
    /\ Release(p, "failed")
    /\ UNCHANGED <<fileVars, mirrors>>

Replace(p) ==
    /\ file' = Changed(p, text[p])
    /\ last' = p
    /\ undone' = {}

\* Fault: the lock is held for the change only.
RenameAndRelease(p) ==
    /\ At(p, "checked")
    /\ Replace(p)
    /\ holder' = NoOne
    /\ Goto(p, "saved")
    /\ UNCHANGED <<mirrors, progress>>

(* The new contents replace the file.  An edit since the comparison goes   *)
(* unseen.                                                                 *)
Rename(p) ==
    /\ At(p, "checked")
    /\ Replace(p)
    /\ Goto(p, "saved")
    /\ UNCHANGED <<mirrors, progress, holder>>

-----------------------------------------------------------------------------
(* What is derived from the file.                                          *)

(* The file is read again for the credentials.                             *)
ReadSource(p) ==
    /\ At(p, "saved")
    /\ Read(p, "sourced")
    /\ UNCHANGED <<fileVars, mirrors, attempt, holder>>

(* They are replaced, unless the file made no sense.                       *)
RefreshHookCredentials(p) ==
    /\ At(p, "sourced")
    /\ text[p].parses /\ text[p].token # NoOne
    /\ cache' = text[p].token
    /\ IF p \in Rotate
       THEN Goto(p, "cached") /\ UNCHANGED <<progress, holder>>
       ELSE Release(p, "done")
    /\ UNCHANGED <<fileVars, codex>>

(* They could not be replaced, or should not.  The installer and a         *)
(* rotation say so and end; Codex's entry is updated in any case.          *)
RefreshFails(p) ==
    /\ pc[p] \in {"saved", "sourced"}
    /\ IF p \in Rotate
       THEN \E c \in {p, codex} : codex' = c
       ELSE UNCHANGED codex
    /\ Release(p, "failed")
    /\ UNCHANGED <<fileVars, cache>>

(* A rotation gives Codex's entry its token, if it can.                    *)
UpdateCodexEntry(p) ==
    /\ At(p, "cached")
    /\ \/ codex' = p /\ Release(p, "done")
       \/ codex' = codex /\ Release(p, "failed")
    /\ UNCHANGED <<fileVars, cache>>

-----------------------------------------------------------------------------
(* An edit by hand: what it was based on may be as old as the installation *)
(* and what is saved may be without a token or no configuration at all.    *)
EditByHand ==
    /\ \E base \in {file, Installed} :
       LET edited == [base EXCEPT !.holds = @ \cup {Hand}, !.parses = TRUE]
       IN  file' \in {edited, [edited EXCEPT !.token = NoOne],
                     [file EXCEPT !.parses = FALSE]}
    /\ file' # file
    /\ undone' = undone \cup {SavesIn(file)}
    /\ UNCHANGED <<last, mirrors, progress, holder, pc>>

Step(p) ==
    \/ Acquire(p) \/ GiveUp(p)
    \/ LookForToken(p) \/ ReadFile(p) \/ Refuse(p) \/ Stage(p) \/ Check(p) \/ Rename(p)
    \/ ReadSource(p) \/ RefreshHookCredentials(p) \/ UpdateCodexEntry(p)
    \/ WriteFails(p) \/ RefreshFails(p)

Next ==
    \/ \E p \in Program : Step(p) \/ Stop(p)
    \/ EditByHand

\* A program that was started goes on; no editor has to save or to rest.
Fairness == \A p \in Program : WF_vars(Step(p))

Spec == Init /\ [][Next]_vars /\ Fairness

-----------------------------------------------------------------------------
(* Properties.                                                             *)

Register == INSTANCE ConfigRegister WITH value <- SavesIn(file)

(* No program undoes what another saved: config.json is a register in      *)
(* which every save adds to all saves before it, whatever the programs'    *)
(* reads, writes and retries interleave with, and whichever of them stop.  *)
(* Only what people edit meanwhile may be lost.  (config-lock.mjs:7-11 and *)
(* :176-211, config-store.js:177-191.)                                     *)
SavesAreKept == Register!Spec

(* When the program that saved last has ended well, what is derived from   *)
(* the file says what the file says, unless it was edited since; and       *)
(* Codex's entry has the token of that program, if it rotated the token:   *)
(* a program that saved earlier never leaves its own there.                *)
(* (config-lock.mjs:230-261, rotate-token.mjs:72-120.)                     *)
MirrorsFollow ==
    last # NoOne /\ pc[last] = "done" =>
        /\ undone = {} => cache = file.token
        /\ last \in Rotate => codex = last

(* A program that was started ends, even if somebody edits the file again  *)
(* and again and the others are stopped in the middle of their change.     *)
(* (acquireConfigLock and the attempts of updateConfigFile and saveDelta.) *)
WritersEnd == \A p \in Program : At(p, "started") ~> pc[p] \in Ended
=============================================================================
