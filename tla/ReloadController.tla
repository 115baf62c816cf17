--------------------------- MODULE ReloadController --------------------------
(***************************************************************************)
(* The reload controller (server/src/reload.js): which core is current, the *)
(* rollback target and the pending reload; the admission of reviews, which *)
(* are each pinned to a core and a configuration; and the swap gate.       *)
(*                                                                         *)
(* A core is an instance of the reloadable code.  A configuration gives    *)
(* each setting a value, and `by` is the core whose schema accepted it;    *)
(* config.json holds a value of each setting too.  The wait that Stop      *)
(* hooks need follows from several settings together (a pinned wait, or    *)
(* the reviewers' time limits).  Anything in the file or in a core that    *)
(* stops a reload (bad JSON, a schema error, a restart-only key, a         *)
(* self-check that throws) is a reload that may fail.  Timers may fire at  *)
(* any time.                                                               *)
(*                                                                         *)
(* JavaScript runs one callback at a time, so every stretch of code        *)
(* between two awaits is one action.  A command that finds the gate closed *)
(* waits for it; a reload awaits its loader; a swap awaits config.json's   *)
(* lock, then runs at once; and the gate opens a few callbacks after.      *)
(***************************************************************************)
EXTENDS Integers, Sequences, FiniteSets

CONSTANTS
    Review,     \* review requests
    Visitor,    \* other requests, which pin a core and are not counted
    Slot,       \* places for a command that waits for the gate
    Core,       \* core instances; one that was disposed of may come again
    First,      \* the core the server starts with
    Setting,    \* the settings a reload applies
    Editable,   \* those that the dashboard edits
    Value,      \* the values of a setting
    WaitOf,     \* the wait that settings make Stop hooks need
    None

ASSUME FirstAssumption == First \in Core
ASSUME NoneAssumption == None \notin Core
ASSUME EditableAssumption == Editable \subseteq Setting
ASSUME WaitOfAssumption == WaitOf \in [[Setting -> Value] -> Nat]

VARIABLES
    current,    \* the core that runs new requests
    previous,   \* the rollback target, with what its swap changed
    pending,    \* the reload or rollback to apply; `base`, which the code
                \* does not keep, is the core it was prepared against
    preparing,  \* the reload being prepared
    gate,       \* "open", or "locking" or "ran": closed for a swap
    failing,    \* the pending one did not get the lock and will be dropped
    active,     \* reviews admitted and not released
    holding,    \* new reviews are held back
    armed,      \* the timer that starts a hold is set
    waiters,    \* reviews waiting to be admitted, in arrival order
    phase,      \* phase[r]: how far review r has got
    ticket,     \* ticket[r]: the core and configuration pinned for r
    visit,      \* visit[v]: the core pinned for v
    pins,       \* pins[c]: requests pinned to core c
    alive,      \* the cores that exist
    parked,     \* parked[s]: the command that waits in place s
    running,    \* the configuration in force
    file        \* the settings in config.json

admission == <<active, waiters, phase, ticket>>
cores == <<current, previous, alive>>
configs == <<running, file>>
vars == <<current, previous, pending, preparing, gate, failing, active, holding,
          armed, waiters, phase, ticket, visit, pins, alive, parked, running, file>>

Settings == [Setting -> Value]
Config == [settings : Settings, by : Core]
Previous == [core : Core, before : Settings, applied : Settings, raw : Settings]
Ticket == [core : Core, config : Config]
Pending == [kind : {"reload", "rollback"}, core : Core \cup {None},
            wait : Nat \cup {None}, base : Core, swapping : BOOLEAN]
Attempts == 3   \* PREPARE_ATTEMPTS
Preparing == [base : Core \cup {None}, tries : 1 .. Attempts, now : BOOLEAN]
Command == [kind : {"reload", "rollback", "cancel"}, now : BOOLEAN]
Phase == {"idle", "waiting", "admitted"}

ASSUME NoRecordAssumption == None \notin Previous \cup Pending \cup Ticket

Init ==
    /\ current = First
    /\ previous = None /\ pending = None /\ preparing = None
    /\ gate = "open" /\ failing = FALSE
    /\ active = 0 /\ holding = FALSE /\ armed = FALSE
    /\ waiters = <<>>
    /\ phase = [r \in Review |-> "idle"]
    /\ ticket = [r \in Review |-> None]
    /\ visit = [v \in Visitor |-> None]
    /\ pins = [c \in Core |-> 0]
    /\ alive = {First}
    /\ parked = [s \in Slot |-> None]
    /\ file \in Settings
    /\ running = [settings |-> file, by |-> First]
----------------------------------------------------------------------------
Larger(a, b) == IF a >= b THEN a ELSE b

\* The wait that the configuration in force makes hooks need.
WaitInForce == WaitOf[running.settings]

\* Fault: the wait that a rollback would restore is not published.
PublishedReload ==
    IF pending = None \/ pending.kind = "rollback" THEN WaitInForce
    ELSE Larger(WaitInForce, pending.wait)

\* The wait published to the hooks, less the hold.
Published ==
    IF pending = None THEN WaitInForce
    ELSE Larger(WaitInForce, IF pending.kind = "reload" THEN pending.wait
                             ELSE WaitOf[previous.before])

Referenced(c) ==
    \/ c = current
    \/ previous # None /\ previous.core = c
    \/ pending # None /\ pending.core = c

\* Fault: a core goes with its last reference, whoever runs on it.
DisposePinned(S, made) ==
    alive' = (alive \cup made) \ {c \in S : ~Referenced(c)'}

\* maybeDispose, at the end of a step, of the cores in S, of which `made`
\* were created in it.
Dispose(S, made) ==
    alive' = (alive \cup made) \ {c \in S : ~Referenced(c)' /\ pins'[c] = 0}

\* issue, for each review of rs: the current core and configuration are
\* pinned for it.
Admit(rs) ==
    /\ phase' = [r \in Review |-> IF r \in rs THEN "admitted" ELSE phase[r]]
    /\ ticket' = [r \in Review |->
                     IF r \in rs THEN [core |-> current', config |-> running']
                     ELSE ticket[r]]
    /\ active' = active + Cardinality(rs)
    /\ pins' = [pins EXCEPT ![current'] = @ + Cardinality(rs)]

Held(i) == waiters[i].held

\* dispatchWaiters, with holding and gate as the step leaves them: waiters
\* are admitted from the head, up to one that is to be held.
Ready ==
    {i \in DOMAIN waiters : \A j \in 1 .. i : ~(holding' /\ Held(j))}

Dispatch ==
    IF gate' = "open"
    THEN /\ Admit({waiters[i].review : i \in Ready})
         /\ waiters' = SubSeq(waiters, Cardinality(Ready) + 1, Len(waiters))
    ELSE UNCHANGED <<admission, pins>>

\* Fault: the end of a hold lets nobody in.
EndHoldQuietly ==
    holding' = FALSE /\ armed' = FALSE /\ UNCHANGED <<admission, pins>>

\* endHold.
EndHold == holding' = FALSE /\ armed' = FALSE /\ Dispatch

CoreOfPending == IF pending = None THEN {} ELSE {pending.core} \cap Core

\* dropPending: nothing is pending any more.
DropPending ==
    /\ pending' = None
    /\ failing' = FALSE
    /\ EndHold
    /\ Dispose(CoreOfPending, {})

\* applyPending of p: the gate closes.
Close(p) ==
    /\ pending' = [p EXCEPT !.swapping = TRUE]
    /\ gate' = "locking"
----------------------------------------------------------------------------
(* Admission.                                                              *)

(* admitReview: at once, or wait at entry. *)
Arrive(r) ==
    /\ phase[r] = "idle"
    /\ UNCHANGED <<pending, preparing, gate, failing, holding, armed, visit,
                   cores, parked, configs>>
    /\ IF gate = "open" /\ ~holding
       THEN Admit({r}) /\ UNCHANGED waiters
       ELSE /\ phase' = [phase EXCEPT ![r] = "waiting"]
            /\ waiters' = Append(waiters, [review |-> r, held |-> holding])
            /\ UNCHANGED <<ticket, active, pins>>

\* dropWaiter.
Leave(r) ==
    \E i \in DOMAIN waiters :
        /\ waiters[i].review = r
        /\ waiters' = SubSeq(waiters, 1, i - 1)
                         \o SubSeq(waiters, i + 1, Len(waiters))

(* A waiter's request deadline. *)
DeadlinePasses(r) ==
    /\ phase[r] = "waiting"
    /\ Leave(r)
    /\ phase' = [phase EXCEPT ![r] = "idle"]
    /\ UNCHANGED <<pending, preparing, gate, failing, active, holding, armed,
                   ticket, visit, pins, cores, parked, configs>>

(* A held waiter's hold deadline: it runs on the current core. *)
HoldPasses(r) ==
    /\ \E i \in DOMAIN waiters : waiters[i].review = r /\ Held(i)
    /\ Leave(r)
    /\ UNCHANGED <<pending, preparing, gate, failing, holding, armed, visit,
                   cores, parked, configs>>
    /\ Admit({r})

(* The review is over.  The last one out applies the pending reload. *)
Release(r) ==
    /\ phase[r] = "admitted"
    /\ phase' = [phase EXCEPT ![r] = "idle"]
    /\ ticket' = [ticket EXCEPT ![r] = None]
    /\ active' = active - 1
    /\ pins' = [pins EXCEPT ![ticket[r].core] = @ - 1]
    /\ IF active' = 0 /\ pending # None /\ ~pending.swapping /\ gate = "open"
       THEN Close(pending)
       ELSE UNCHANGED <<pending, gate>>
    /\ UNCHANGED <<current, previous>>
    /\ Dispose({ticket[r].core}, {})
    /\ UNCHANGED <<preparing, failing, holding, armed, waiters, visit, parked, configs>>

(* Other requests pin the current core and are never held. *)
Visit(v) ==
    /\ visit[v] = None
    /\ visit' = [visit EXCEPT ![v] = current]
    /\ pins' = [pins EXCEPT ![current] = @ + 1]
    /\ UNCHANGED <<pending, preparing, gate, failing, holding, armed, admission,
                   cores, parked, configs>>

EndVisit(v) ==
    /\ visit[v] # None
    /\ visit' = [visit EXCEPT ![v] = None]
    /\ pins' = [pins EXCEPT ![visit[v]] = @ - 1]
    /\ UNCHANGED <<current, previous, pending>>
    /\ Dispose({visit[v]}, {})
    /\ UNCHANGED <<preparing, gate, failing, holding, armed, admission, parked, configs>>

(* startHoldTimer's timer: the reload has been pending for too long. *)
HoldBegins ==
    /\ armed
    /\ armed' = FALSE
    /\ holding' = (pending # None)
    /\ UNCHANGED <<pending, preparing, gate, failing, admission, visit, pins,
                   cores, parked, configs>>
----------------------------------------------------------------------------
(* Commands.                                                               *)

\* Fault: a reload prepared when no review runs waits for a release.
AtOnceIfAsked(now) == now

AtOnce(now) == now \/ active = 0

\* The new pending reload or rollback takes the place of any other, and is
\* applied now or when the last review is over.
SetPending(p, now, made) ==
    /\ IF AtOnce(now)
       THEN Close(p) /\ UNCHANGED armed
       ELSE /\ pending' = p
            /\ armed' = (armed \/ ~holding)
            /\ UNCHANGED gate
    /\ failing' = FALSE
    /\ UNCHANGED <<current, previous, holding, admission, pins>>
    /\ Dispose(CoreOfPending, made)

Cancel ==
    /\ UNCHANGED <<preparing, current, previous, gate, visit, configs>>
    /\ IF pending = None
       THEN UNCHANGED <<pending, failing, holding, armed, admission, pins, alive>>
       ELSE DropPending

Refuse ==
    /\ UNCHANGED <<pending, preparing, gate, failing, holding, armed, admission,
                   visit, pins, cores, configs>>

ApplyNow ==
    /\ IF pending.swapping THEN UNCHANGED <<pending, gate>> ELSE Close(pending)
    /\ UNCHANGED <<preparing, failing, holding, armed, admission, visit, pins,
                   cores, configs>>

AskRollback(now) ==
    /\ SetPending([kind |-> "rollback", core |-> None, wait |-> None,
                   base |-> current, swapping |-> FALSE], now, {})
    /\ UNCHANGED <<preparing, visit, configs>>

Prepare(now) ==
    /\ preparing' = [base |-> current, tries |-> 1, now |-> now]
    /\ UNCHANGED <<pending, gate, failing, holding, armed, admission, visit,
                   pins, cores, configs>>

\* trigger, from the moment it finds the gate open.
Act(cmd) ==
    IF cmd.kind = "cancel" THEN Cancel
    ELSE IF preparing # None THEN Refuse
    ELSE IF cmd.now /\ pending # None /\ cmd.kind = "reload" THEN ApplyNow
    ELSE IF cmd.kind = "rollback" /\ previous = None THEN Refuse
    ELSE IF cmd.kind = "rollback" THEN AskRollback(cmd.now)
    ELSE Prepare(cmd.now)

Trigger(cmd) ==
    /\ gate = "open"
    /\ Act(cmd)
    /\ UNCHANGED parked

TriggerParked(s, cmd) ==
    /\ gate # "open"
    /\ parked[s] = None
    /\ parked' = [parked EXCEPT ![s] = cmd]
    /\ UNCHANGED <<pending, preparing, gate, failing, holding, armed, admission,
                   visit, pins, cores, configs>>

GateOpened(s) ==
    /\ parked[s] # None
    /\ gate = "open"
    /\ parked' = [parked EXCEPT ![s] = None]
    /\ Act(parked[s])

\* Fault: only a swap that is under way is noticed.
MovedGate == gate # "open"

\* Fault: only a swap that is over is noticed.
MovedCore == current # preparing.base

\* The core or the gate moved while the loader ran.
Moved ==
    \/ gate # "open"
    \/ current # preparing.base
    \/ pending # None /\ pending.swapping

\* Fault: one try too many.
LastTryPassed == preparing.tries > Attempts

LastTry == preparing.tries = Attempts

(* The candidate is discarded and prepared again, once the gate is open;   *)
(* the third time the command fails.                                       *)
Discard ==
    /\ preparing # None /\ preparing.base # None
    /\ Moved
    /\ IF LastTry
       THEN preparing' = None
       ELSE preparing' = [base |-> None, tries |-> preparing.tries + 1,
                            now |-> preparing.now]
    /\ UNCHANGED <<parked, pending, gate, failing, holding, armed, admission, visit,
                   pins, cores, configs>>

PrepareAgain ==
    /\ preparing # None /\ preparing.base = None
    /\ gate = "open"
    /\ preparing' = [preparing EXCEPT !.base = current]
    /\ UNCHANGED <<pending, gate, failing, holding, armed, admission, visit,
                   pins, cores, parked, configs>>

(* The loader fails, or the file or the candidate does. *)
PrepareFails ==
    /\ preparing # None /\ preparing.base # None
    /\ preparing' = None
    /\ UNCHANGED <<parked, pending, gate, failing, holding, armed, admission, visit,
                   pins, cores, configs>>

Prepared ==
    /\ preparing # None /\ preparing.base # None
    /\ ~Moved
    /\ preparing' = None
    /\ UNCHANGED parked

Candidate(c) ==
    [kind |-> "reload", core |-> c, wait |-> WaitOf[file],
     base |-> preparing.base, swapping |-> FALSE]

(* A new core, of changed sources. *)
PreparedCore ==
    /\ Prepared
    /\ \E c \in Core \ alive : SetPending(Candidate(c), preparing.now, {c})
    /\ UNCHANGED <<visit, configs>>

(* The same core under a changed configuration. *)
PreparedConfig ==
    /\ Prepared
    /\ file # running.settings
    /\ SetPending(Candidate(current), preparing.now, {})
    /\ UNCHANGED <<visit, configs>>

(* Nothing changed: whatever was pending is dropped. *)
PreparedNothing ==
    /\ Prepared
    /\ file = running.settings
    /\ UNCHANGED <<current, previous, gate, visit, configs>>
    /\ IF pending = None
       THEN UNCHANGED <<pending, failing, holding, armed, admission, pins, alive>>
       ELSE DropPending
----------------------------------------------------------------------------
(* The gate.                                                               *)

(* swapTo: the file is read again, and its wait must be one published.     *)
Swap ==
    /\ gate = "locking"
    /\ pending.kind = "reload"
    /\ WaitOf[file] <= Published
    /\ previous' = [core |-> current, before |-> running.settings,
                    applied |-> file, raw |-> file]
    /\ current' = pending.core
    /\ running' = [settings |-> file, by |-> pending.core]
    /\ gate' = "ran"
    /\ pending' = None
    /\ EndHold
    /\ Dispose(IF previous = None THEN {} ELSE {previous.core}, {})
    /\ UNCHANGED <<preparing, failing, visit, parked, file>>

\* rollBack's choice for setting k: back to what it was before the reload,
\* if the reload changed it and it was not edited since, in force or in the
\* file.
Reverts(k) ==
    /\ previous.before[k] # previous.applied[k]
    /\ running.settings[k] = previous.applied[k]
    /\ file[k] = previous.raw[k]

\* Settings the older core's schema may not know: their values are not those
\* of before the reload.
MayBeRejected == {k \in Setting : running.settings[k] # previous.before[k]}

\* s, with the settings of K back at what they were before the reload.
Back(K, s) == [k \in Setting |-> IF k \in K THEN previous.before[k] ELSE s[k]]

\* Fault: what is restored is not put through the older core's schema.
RestoredUnchecked(K) == [settings |-> Back(K, running.settings), by |-> running.by]

Restored(K) == [settings |-> Back(K, running.settings), by |-> previous.core]

\* Fault: what the older schema rejects goes back in force, not in the file.
FileOutUnedited(K) == Back({k \in K : Reverts(k)}, file)

FileOut(K) == Back(K, file)

(* rollBack, setting by setting: those it reverts, and those the older     *)
(* schema rejects, go back in force and in the file; edited ones are kept. *)
Rollback ==
    /\ gate = "locking"
    /\ pending.kind = "rollback"
    /\ \E rejected \in SUBSET MayBeRejected :
          LET K == {k \in Setting : Reverts(k)} \cup rejected
          IN  /\ file' = FileOut(K)
              /\ running' = Restored(K)
    /\ previous' = [core |-> current, before |-> running.settings,
                    applied |-> running'.settings, raw |-> file']
    /\ current' = previous.core
    /\ gate' = "ran"
    /\ pending' = None
    /\ EndHold
    /\ UNCHANGED <<preparing, failing, visit, alive, parked>>

(* The swap or the rollback throws: no change but the pending one dropped. *)
SwapFails ==
    /\ gate = "locking"
    /\ gate' = "ran"
    /\ UNCHANGED <<current, previous, preparing, visit, parked, configs>>
    /\ DropPending

\* Fault: the gate opens and nobody is called in.
ReopenQuietly ==
    /\ gate = "ran"
    /\ gate' = "open"
    /\ UNCHANGED <<pending, preparing, failing, holding, armed, visit, cores,
                   parked, configs, admission, pins>>

(* The gate opens after the swap, and waiting reviews go in. *)
Reopen ==
    /\ gate = "ran"
    /\ gate' = "open"
    /\ UNCHANGED <<pending, preparing, failing, holding, armed, visit, cores,
                   parked, configs>>
    /\ Dispatch

(* Another process has the lock: the gate opens, and the pending reload is *)
(* dropped a moment later.                                                 *)
LockFails ==
    /\ gate = "locking"
    /\ gate' = "open"
    /\ failing' = TRUE
    /\ UNCHANGED <<pending, preparing, holding, armed, visit, cores, parked, configs>>
    /\ Dispatch

Failed ==
    /\ failing
    /\ UNCHANGED <<current, previous, preparing, gate, visit, parked, configs>>
    /\ DropPending
----------------------------------------------------------------------------
(* The configuration changes in other ways.                                *)

EditFile ==
    /\ file' \in Settings \ {file}
    /\ UNCHANGED <<pending, preparing, gate, failing, holding, armed, admission,
                   visit, pins, cores, parked, running>>

\* s, with the settings of K as in e.
Edited(K, s, e) == [k \in Setting |-> IF k \in K THEN e[k] ELSE s[k]]

(* A dashboard edit (config-store.js mutate) that the current core accepts: *)
(* the same settings in the file and in force, the others as they are.      *)
Mutate ==
    /\ \E K \in SUBSET Editable \ {{}}, e \in Settings :
          /\ file' = Edited(K, file, e)
          /\ running' = [settings |-> Edited(K, running.settings, e), by |-> current]
    /\ UNCHANGED <<pending, preparing, gate, failing, holding, armed, admission,
                   visit, pins, cores, parked>>

Next ==
    \/ \E r \in Review :
          Arrive(r) \/ DeadlinePasses(r) \/ HoldPasses(r) \/ Release(r)
    \/ \E v \in Visitor : Visit(v) \/ EndVisit(v)
    \/ \E cmd \in Command :
          Trigger(cmd) \/ \E s \in Slot : TriggerParked(s, cmd)
    \/ \E s \in Slot : GateOpened(s)
    \/ HoldBegins
    \/ Discard \/ PrepareAgain \/ PrepareFails
    \/ PreparedCore \/ PreparedConfig \/ PreparedNothing
    \/ Swap \/ Rollback \/ SwapFails \/ Reopen \/ LockFails \/ Failed
    \/ EditFile \/ Mutate

Spec == Init /\ [][Next]_vars

(* Once the gate is closed the swap runs or fails, the gate opens, and a    *)
(* swap that failed is dropped; and a timer that is set fires.  Nothing     *)
(* makes a review end, an operator act or a request deadline pass.          *)
Fairness ==
    /\ WF_vars(Swap \/ Rollback \/ SwapFails \/ LockFails)
    /\ WF_vars(Reopen)
    /\ WF_vars(Failed)
    /\ \A r \in Review : WF_vars(HoldPasses(r))

FairSpec == Spec /\ Fairness
----------------------------------------------------------------------------
(* Properties.                                                             *)

Waiter == [review : Review, held : BOOLEAN]

(* Every variable has its type, and nobody waits twice. *)
TypeOK ==
    /\ current \in Core
    /\ previous \in Previous \cup {None}
    /\ pending \in Pending \cup {None}
    /\ preparing \in Preparing \cup {None}
    /\ gate \in {"open", "locking", "ran"}
    /\ failing \in BOOLEAN /\ holding \in BOOLEAN /\ armed \in BOOLEAN
    /\ active \in Nat
    /\ waiters \in Seq(Waiter)
    /\ phase \in [Review -> Phase]
    /\ ticket \in [Review -> Ticket \cup {None}]
    /\ visit \in [Visitor -> Core \cup {None}]
    /\ pins \in [Core -> Nat]
    /\ alive \subseteq Core
    /\ parked \in [Slot -> Command \cup {None}]
    /\ running \in Config
    /\ file \in Settings

InUse(c) ==
    \/ \E r \in Review : ticket[r] # None /\ ticket[r].core = c
    \/ \E v \in Visitor : visit[v] = c

(* A core lives exactly as long as it is current, the rollback target or    *)
(* pending, or some request still runs on it: no request and no rollback    *)
(* finds its core disposed of, and no core is forgotten (maybeDispose).     *)
CoresLive == alive = {c \in Core : Referenced(c) \/ InUse(c)}

(* When no review runs, no reload is left waiting for reviews to end: it is *)
(* being applied, or its failure is about to drop it (release, trigger).    *)
PendingIsApplied ==
    pending # None /\ (\A r \in Review : phase[r] # "admitted")
        => gate = "locking" \/ failing

(* No review runs a core with a configuration that another core's schema    *)
(* accepted, even one admitted while a swap waited for the lock (issue).    *)
ConfigFitsCore ==
    /\ running.by = current
    /\ \A r \in Review : ticket[r] # None => ticket[r].config.by = ticket[r].core

(* With the gate open, a review waits only because a pending reload holds   *)
(* new reviews back; a swap or a dropped reload leaves nobody behind        *)
(* (dispatchWaiters, endHold).                                              *)
WaitersHaveAReason ==
    gate = "open" /\ waiters # <<>> =>
        /\ holding
        /\ pending # None
        /\ \A i \in DOMAIN waiters : Held(i)

(* A reload waits to be applied to the very core it was prepared against,   *)
(* whatever swaps ran while its loader did (the loop in trigger).           *)
CandidateIsFresh == pending # None => pending.base = current

(* While a swap waits for the lock no command and no loader changes what it *)
(* will apply, nor the core and rollback target it will apply it to.        *)
CandidateFrozen ==
    [][gate = "locking" /\ gate' = "locking"
        => <<pending, current, previous>>' = <<pending, current, previous>>]_vars

\* Since the last swap nobody has edited a setting, in force or in the file.
NothingEdited == running.settings = previous.applied /\ file = previous.raw

(* A reload, however the file was edited while it waited, and a rollback    *)
(* after no edit put in force no wait longer than the hooks had been told   *)
(* to allow for while it was pending (HOOK_TIMEOUT_RAISED).                 *)
WaitWasPublished ==
    [][/\ pending # None /\ pending' = None
       /\ pending.kind = "rollback" => NothingEdited
       => WaitOf[running'.settings] <= Published]_vars

(* A setting that is in force as config.json has it stays so: a reload, a   *)
(* rollback that keeps some settings and restores others, and a dashboard   *)
(* edit change it in both or in neither.                                    *)
SettingsInStep ==
    [][\A k \in Setting :
          file[k] = running.settings[k] /\ file'[k] # running'.settings[k]
            => running'.settings[k] = running.settings[k]]_vars

(* A review that waits to be admitted is admitted, or told that its time is *)
(* up, even if no review ever ends and no deadline passes.                  *)
WaitersServed == \A r \in Review : phase[r] = "waiting" ~> phase[r] # "waiting"

(* What the reload plan says of the swap gate: a swap that starts when no   *)
(* review runs has none running while it waits for the lock.                *)
NoneAdmittedAtGate ==
    [][gate = "locking" /\ active = 0 /\ gate' # "open" => active' = 0]_vars
=============================================================================
