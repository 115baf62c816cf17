----------------------- MODULE ReloadControllerProofs -----------------------
(***************************************************************************)
(* Proofs about ReloadController, for every set of requests, cores and     *)
(* waits: what a pending reload was prepared against, that a swap applies  *)
(* what was pending when the gate closed, and that a review's core and     *)
(* configuration belong together.                                          *)
(***************************************************************************)
EXTENDS ReloadController, TLAPS

\* The part of the type invariant the proofs rest on.
CoreTypes ==
    /\ current \in Core
    /\ previous \in Previous \cup {None}
    /\ pending \in Pending \cup {None}
    /\ preparing \in Preparing \cup {None}
    /\ gate \in {"open", "locking", "ran"}
    /\ failing \in BOOLEAN
    /\ parked \in [Slot -> Command \cup {None}]
    /\ running \in Config
    /\ file \in Settings

TicketTypes == ticket \in [Review -> Ticket \cup {None}]

\* While the gate is closed for a swap there is one to apply, marked so; a
\* pending one is marked only then, or when it failed and will be dropped.
GateState ==
    /\ gate = "locking" => pending # None /\ pending.swapping /\ ~failing
    /\ gate = "ran" => pending = None /\ ~failing
    /\ failing => pending # None /\ pending.swapping
    /\ gate = "open" /\ pending # None /\ pending.swapping => failing
    /\ pending # None /\ pending.kind = "rollback" => previous # None
    /\ pending # None /\ pending.kind = "reload" =>
          pending.core \in Core /\ pending.wait \in Nat

\* What the swap gate needs, which says nothing of reviews.
Swapping == CoreTypes /\ GateState /\ CandidateIsFresh

IInv == Swapping /\ TicketTypes /\ ConfigFitsCore
----------------------------------------------------------------------------
(* Tickets.                                                                *)

\* Reviews keep their tickets, give them back, or get the core and the
\* configuration in force after the step.
Issued ==
    /\ ticket' = [r \in Review |-> ticket'[r]]
    /\ \A r \in Review : \/ ticket'[r] = ticket[r]
                          \/ ticket'[r] = None
                          \/ ticket'[r] = [core |-> current', config |-> running']

LEMMA KeepIssues == TicketTypes /\ UNCHANGED ticket => Issued
BY DEF TicketTypes, Issued

LEMMA AdmitIssues ==
    ASSUME TicketTypes, NEW rs, Admit(rs)
    PROVE  Issued
BY DEF TicketTypes, Admit, Issued

LEMMA DispatchIssues ==
    ASSUME TicketTypes, Dispatch
    PROVE  Issued
<1>1. CASE gate' = "open"
  BY <1>1, AdmitIssues DEF Dispatch
<1>2. CASE gate' # "open"
  BY <1>2, KeepIssues DEF Dispatch, admission
<1>3. QED
  BY <1>1, <1>2

LEMMA DropIssues ==
    ASSUME TicketTypes, DropPending
    PROVE  Issued
BY DispatchIssues DEF DropPending, EndHold

LEMMA SetIssues ==
    ASSUME TicketTypes, NEW p, NEW now, NEW made, SetPending(p, now, made)
    PROVE  Issued
BY KeepIssues DEF SetPending, admission

LEMMA ActIssues ==
    ASSUME TicketTypes, NEW cmd, Act(cmd)
    PROVE  Issued
<1>1. CASE Cancel
  BY <1>1, DropIssues, KeepIssues DEF Cancel, admission
<1>2. CASE Refuse \/ ApplyNow \/ Prepare(cmd.now)
  BY <1>2, KeepIssues DEF Refuse, ApplyNow, Prepare, admission
<1>3. CASE AskRollback(cmd.now)
  BY <1>3, SetIssues DEF AskRollback
<1>4. QED
  BY <1>1, <1>2, <1>3 DEF Act

(* No step gives a review a pair that was not in force together.           *)
LEMMA IssuedStep == TicketTypes /\ [Next]_vars => Issued
<1> SUFFICES ASSUME TicketTypes, [Next]_vars PROVE Issued
  OBVIOUS
<1> USE DEF admission
<1>1. ASSUME NEW r \in Review, Arrive(r) PROVE Issued
  BY <1>1, AdmitIssues, KeepIssues DEF Arrive
<1>2. ASSUME NEW r \in Review, DeadlinePasses(r) PROVE Issued
  BY <1>2, KeepIssues DEF DeadlinePasses
<1>3. ASSUME NEW r \in Review, HoldPasses(r) PROVE Issued
  BY <1>3, AdmitIssues DEF HoldPasses
<1>4. ASSUME NEW r \in Review, Release(r) PROVE Issued
  BY <1>4 DEF Release, TicketTypes, Issued
<1>5. ASSUME NEW v \in Visitor, Visit(v) \/ EndVisit(v) PROVE Issued
  BY <1>5, KeepIssues DEF Visit, EndVisit
<1>6. ASSUME NEW cmd \in Command, Trigger(cmd) PROVE Issued
  BY <1>6, ActIssues DEF Trigger
<1>7. ASSUME NEW cmd \in Command, NEW s \in Slot, TriggerParked(s, cmd) PROVE Issued
  BY <1>7, KeepIssues DEF TriggerParked
<1>8. ASSUME NEW s \in Slot, GateOpened(s) PROVE Issued
  BY <1>8, ActIssues DEF GateOpened
<1>9. CASE HoldBegins \/ Discard \/ PrepareAgain \/ PrepareFails
  BY <1>9, KeepIssues DEF HoldBegins, Discard, PrepareAgain, PrepareFails
<1>10. CASE PreparedCore \/ PreparedConfig
  BY <1>10, SetIssues DEF PreparedCore, PreparedConfig
<1>11. CASE PreparedNothing
  BY <1>11, DropIssues, KeepIssues DEF PreparedNothing
<1>12. CASE Swap \/ Rollback
  BY <1>12, DispatchIssues DEF Swap, Rollback, EndHold
<1>13. CASE SwapFails \/ Failed
  BY <1>13, DropIssues DEF SwapFails, Failed
<1>14. CASE Reopen \/ LockFails
  BY <1>14, DispatchIssues DEF Reopen, LockFails
<1>15. CASE EditFile \/ Mutate \/ UNCHANGED vars
  BY <1>15, KeepIssues DEF EditFile, Mutate, vars
<1>16. QED
  BY <1>1, <1>2, <1>3, <1>4, <1>5, <1>6, <1>7, <1>8, <1>9, <1>10, <1>11,
     <1>12, <1>13, <1>14, <1>15 DEF Next
----------------------------------------------------------------------------
(* The swap gate.                                                          *)

LEMMA DropSwapping ==
    ASSUME Swapping, DropPending, gate' \in {"open", "ran"},
           UNCHANGED <<current, previous, running, file>>,
           preparing' \in Preparing \cup {None},
           parked' \in [Slot -> Command \cup {None}]
    PROVE  Swapping'
BY DEF Swapping, CoreTypes, GateState, CandidateIsFresh, DropPending

LEMMA SetSwapping ==
    ASSUME Swapping, gate = "open",
           NEW p \in Pending, NEW now, NEW made, SetPending(p, now, made),
           p.base = current, ~p.swapping,
           p.kind = "rollback" => previous # None,
           p.kind = "reload" => p.core \in Core /\ p.wait \in Nat,
           UNCHANGED <<running, file>>, preparing' \in Preparing \cup {None},
           parked' \in [Slot -> Command \cup {None}]
    PROVE  Swapping'
<1> USE DEF Swapping, CoreTypes, GateState, CandidateIsFresh, Pending
<1>1. UNCHANGED <<current, previous>> /\ failing' = FALSE
  BY DEF SetPending
<1>2. CASE AtOnce(now)
  <2>1. pending' = [p EXCEPT !.swapping = TRUE] /\ gate' = "locking"
    BY <1>2 DEF SetPending, Close
  <2>2. pending' \in Pending /\ pending'.swapping
    BY <2>1
  <2>3. /\ pending'.base = p.base /\ pending'.kind = p.kind
        /\ pending'.core = p.core /\ pending'.wait = p.wait
    BY <2>1
  <2>4. QED
    BY <1>1, <2>1, <2>2, <2>3, NoRecordAssumption
<1>3. CASE ~AtOnce(now)
  <2>1. pending' = p /\ gate' = "open"
    BY <1>3 DEF SetPending
  <2>2. QED
    BY <1>1, <2>1
<1>4. QED
  BY <1>2, <1>3

\* A command that finds the gate open.
LEMMA ActSwapping ==
    ASSUME Swapping, gate = "open", NEW cmd \in Command, Act(cmd),
           parked' \in [Slot -> Command \cup {None}]
    PROVE  Swapping'
<1>1. CASE cmd.kind = "cancel"
  <2>1. Cancel
    BY <1>1 DEF Act
  <2>2. UNCHANGED <<preparing, current, previous, gate, running, file>>
    BY <2>1 DEF Cancel, configs
  <2>3. CASE pending = None
    BY <2>1, <2>2, <2>3
       DEF Cancel, Swapping, CoreTypes, GateState, CandidateIsFresh
  <2>4. CASE pending # None
    <3>1. DropPending
      BY <2>1, <2>4 DEF Cancel
    <3>2. QED
      BY <2>2, <3>1, DropSwapping DEF Swapping, CoreTypes
  <2>5. QED
    BY <2>3, <2>4
<1>2. CASE Refuse
  BY <1>2 DEF Refuse, Swapping, CoreTypes, GateState, CandidateIsFresh, cores, configs
<1>3. CASE ApplyNow /\ pending # None
  <2>1. UNCHANGED <<preparing, failing, current, previous, running, file>>
    BY <1>3 DEF ApplyNow, cores, configs
  <2>2. CASE pending.swapping
    BY <1>3, <2>1, <2>2
       DEF ApplyNow, Swapping, CoreTypes, GateState, CandidateIsFresh
  <2>3. CASE ~pending.swapping
    <3>1. pending' = [pending EXCEPT !.swapping = TRUE] /\ gate' = "locking"
      BY <1>3, <2>3 DEF ApplyNow, Close
    <3>2. pending \in Pending
      BY <1>3 DEF Swapping, CoreTypes
    <3>3. /\ pending' \in Pending /\ pending'.swapping
          /\ pending'.base = pending.base /\ pending'.kind = pending.kind
          /\ pending'.core = pending.core /\ pending'.wait = pending.wait
      BY <3>1, <3>2 DEF Pending
    <3>4. QED
      BY <1>3, <2>1, <2>3, <3>1, <3>3, NoRecordAssumption
         DEF Swapping, CoreTypes, GateState, CandidateIsFresh
  <2>4. QED
    BY <2>2, <2>3
<1>4. CASE AskRollback(cmd.now) /\ previous # None
  <2> DEFINE p == [kind |-> "rollback", core |-> None, wait |-> None,
                   base |-> current, swapping |-> FALSE]
  <2>1. p \in Pending
    BY DEF Swapping, CoreTypes, Pending
  <2>2. SetPending(p, cmd.now, {}) /\ UNCHANGED <<preparing, running, file>>
    BY <1>4 DEF AskRollback, configs
  <2>3. preparing' \in Preparing \cup {None}
    BY <2>2 DEF Swapping, CoreTypes
  <2>4. p.base = current /\ ~p.swapping /\ p.kind = "rollback"
    OBVIOUS
  <2> HIDE DEF p
  <2>5. QED
    BY <1>4, <2>1, <2>2, <2>3, <2>4, SetSwapping
<1>5. CASE Prepare(cmd.now)
  <2>1. preparing' \in Preparing
    BY <1>5 DEF Prepare, Preparing, Attempts, Swapping, CoreTypes, Command
  <2>2. QED
    BY <1>5, <2>1
       DEF Prepare, Swapping, CoreTypes, GateState, CandidateIsFresh, cores, configs
<1>6. QED
  BY <1>1, <1>2, <1>3, <1>4, <1>5 DEF Act

\* What a loader that was not overtaken prepared.
LEMMA PreparedIsFresh ==
    ASSUME Swapping, Prepared
    PROVE  /\ gate = "open" /\ preparing.base = current
           /\ preparing' \in Preparing \cup {None}
           /\ parked' \in [Slot -> Command \cup {None}]
           /\ \A c \in Core :
                 /\ Candidate(c) \in Pending
                 /\ Candidate(c).base = current /\ ~Candidate(c).swapping
                 /\ Candidate(c).kind = "reload"
                 /\ Candidate(c).core = c /\ Candidate(c).wait \in Nat
BY WaitOfAssumption DEF Swapping, CoreTypes, Prepared, Moved, Candidate, Pending, Settings

LEMMA CandidateSwapping ==
    ASSUME Swapping, Prepared, UNCHANGED configs, NEW c \in Core, NEW made,
           SetPending(Candidate(c), preparing.now, made)
    PROVE  Swapping'
BY PreparedIsFresh, SetSwapping DEF configs

\* The swap and the rollback leave nothing pending and a closed gate.
LEMMA SwapSwapping == ASSUME Swapping, Swap PROVE Swapping'
<1> USE DEF Swapping, CoreTypes
<1>1. gate' = "ran" /\ pending' = None /\ failing' = failing /\ ~failing
  BY DEF Swap, GateState
<1>2. current' = pending.core /\ pending.core \in Core
  BY DEF Swap, GateState
<1>3. previous' \in Previous
  BY DEF Swap, Previous, Config
<1>4. running' \in Config
  BY <1>2 DEF Swap, Config
<1>5. UNCHANGED <<preparing, parked, file>>
  BY DEF Swap
<1>6. QED
  BY <1>1, <1>2, <1>3, <1>4, <1>5 DEF GateState, CandidateIsFresh

\* What a rollback restores is again a value of each setting.
LEMMA BackSettings ==
    ASSUME previous \in Previous, NEW s \in Settings, NEW K
    PROVE  Back(K, s) \in Settings
BY DEF Back, Previous, Settings

LEMMA RollbackSettings ==
    ASSUME previous \in Previous, running \in Config, file \in Settings, Rollback
    PROVE  /\ file' \in Settings
           /\ running'.settings \in Settings
           /\ running' = [settings |-> running'.settings, by |-> previous.core]
<1>1. PICK rejected \in SUBSET MayBeRejected :
          LET K == {k \in Setting : Reverts(k)} \cup rejected
          IN  file' = FileOut(K) /\ running' = Restored(K)
  BY DEF Rollback
<1> DEFINE K == {k \in Setting : Reverts(k)} \cup rejected
<1>2. Back(K, file) \in Settings /\ Back(K, running.settings) \in Settings
  BY BackSettings DEF Config
<1>3. QED
  BY <1>1, <1>2 DEF FileOut, Restored

LEMMA RollbackSwapping == ASSUME Swapping, Rollback PROVE Swapping'
<1> USE DEF Swapping, CoreTypes
<1>1. gate' = "ran" /\ pending' = None /\ failing' = failing /\ ~failing
  BY DEF Rollback, GateState
<1>2. previous \in Previous
  BY DEF Rollback, GateState
<1>3. /\ file' \in Settings
      /\ running'.settings \in Settings
      /\ running' = [settings |-> running'.settings, by |-> previous.core]
  BY <1>2, RollbackSettings
<1>4. file' \in Settings
  BY <1>3
<1>5. current' \in Core /\ running' \in Config
  BY <1>2, <1>3 DEF Rollback, Previous, Config
<1>6. previous' \in Previous
  BY <1>3 DEF Rollback, Previous, Config
<1>7. UNCHANGED <<preparing, parked>>
  BY DEF Rollback
<1>8. QED
  BY <1>1, <1>4, <1>5, <1>6, <1>7 DEF GateState, CandidateIsFresh

(* Every step keeps the gate, and what waits at it, as the swap needs it.  *)
LEMMA SwappingStep == Swapping /\ [Next]_vars => Swapping'
<1> SUFFICES ASSUME Swapping, [Next]_vars PROVE Swapping'
  OBVIOUS
<1> DEFINE Same == UNCHANGED <<current, previous, pending, preparing, gate,
                               failing, parked, running, file>>
<1>0. Same => Swapping'
  BY DEF Swapping, CoreTypes, GateState, CandidateIsFresh
<1> HIDE DEF Same
<1>1. ASSUME NEW r \in Review,
             Arrive(r) \/ DeadlinePasses(r) \/ HoldPasses(r)
      PROVE  Swapping'
  BY <1>0, <1>1 DEF Same, Arrive, DeadlinePasses, HoldPasses, cores, configs
<1>2. ASSUME NEW r \in Review, Release(r) PROVE Swapping'
  <2>1. UNCHANGED <<current, previous, preparing, failing, parked, running, file>>
    BY <1>2 DEF Release, configs
  <2>2. CASE UNCHANGED <<pending, gate>>
    BY <1>0, <2>1, <2>2 DEF Same
  <2>3. CASE pending # None /\ ~pending.swapping /\ gate = "open" /\ Close(pending)
    <3>1. pending \in Pending
      BY <2>3 DEF Swapping, CoreTypes
    <3>2. pending' = [pending EXCEPT !.swapping = TRUE] /\ gate' = "locking"
      BY <2>3 DEF Close
    <3>3. /\ pending' \in Pending /\ pending'.swapping
          /\ pending'.base = pending.base /\ pending'.kind = pending.kind
          /\ pending'.core = pending.core /\ pending'.wait = pending.wait
      BY <3>1, <3>2 DEF Pending
    <3>4. QED
      BY <2>1, <2>3, <3>2, <3>3, NoRecordAssumption
         DEF Swapping, CoreTypes, GateState, CandidateIsFresh
  <2>4. QED
    BY <1>2, <2>2, <2>3 DEF Release
<1>3. ASSUME NEW v \in Visitor, Visit(v) \/ EndVisit(v) PROVE Swapping'
  BY <1>0, <1>3 DEF Same, Visit, EndVisit, cores, configs
<1>4. ASSUME NEW cmd \in Command, Trigger(cmd) PROVE Swapping'
  BY <1>4, ActSwapping DEF Trigger, Swapping, CoreTypes
<1>5. ASSUME NEW cmd \in Command, NEW s \in Slot, TriggerParked(s, cmd)
      PROVE  Swapping'
  BY <1>5 DEF TriggerParked, cores, configs,
              Swapping, CoreTypes, GateState, CandidateIsFresh
<1>6. ASSUME NEW s \in Slot, GateOpened(s) PROVE Swapping'
  <2>1. parked[s] \in Command /\ gate = "open" /\ Act(parked[s])
    BY <1>6 DEF GateOpened, Swapping, CoreTypes
  <2>2. parked' \in [Slot -> Command \cup {None}]
    BY <1>6 DEF GateOpened, Swapping, CoreTypes
  <2>3. QED
    BY <2>1, <2>2, ActSwapping
<1>7. CASE HoldBegins
  BY <1>0, <1>7 DEF Same, HoldBegins, cores, configs
<1>8. CASE Discard \/ PrepareAgain \/ PrepareFails
  <2>1. preparing \in Preparing
    BY <1>8 DEF Discard, PrepareAgain, PrepareFails, Swapping, CoreTypes
  <2>2. preparing' \in Preparing \cup {None}
    BY <1>8, <2>1 DEF Discard, PrepareAgain, PrepareFails, LastTry, Attempts,
                      Preparing, Swapping, CoreTypes
  <2>3. QED
    BY <1>8, <2>2 DEF Discard, PrepareAgain, PrepareFails, cores, configs,
                      Swapping, CoreTypes, GateState, CandidateIsFresh
<1>9. CASE PreparedCore
  BY <1>9, CandidateSwapping DEF PreparedCore, configs
<1>10. CASE PreparedConfig
  BY <1>10, CandidateSwapping DEF PreparedConfig, configs, Swapping, CoreTypes
<1>11. CASE PreparedNothing
  <2>1. UNCHANGED <<current, previous, gate, running, file>> /\ Prepared
    BY <1>11 DEF PreparedNothing, configs
  <2>2. /\ gate' = "open" /\ preparing' \in Preparing \cup {None}
        /\ parked' \in [Slot -> Command \cup {None}]
    BY <2>1, PreparedIsFresh
  <2>3. CASE DropPending
    BY <2>1, <2>2, <2>3, DropSwapping
  <2>4. CASE UNCHANGED <<pending, failing>>
    BY <2>1, <2>2, <2>4 DEF Swapping, CoreTypes, GateState, CandidateIsFresh
  <2>5. QED
    BY <1>11, <2>3, <2>4 DEF PreparedNothing
<1>12. CASE Swap
  BY <1>12, SwapSwapping
<1>13. CASE Rollback
  BY <1>13, RollbackSwapping
<1>14. CASE SwapFails
  BY <1>14, DropSwapping DEF SwapFails, configs, Swapping, CoreTypes
<1>15. CASE Reopen
  BY <1>15 DEF Reopen, cores, configs,
               Swapping, CoreTypes, GateState, CandidateIsFresh
<1>16. CASE LockFails
  BY <1>16 DEF LockFails, cores, configs,
               Swapping, CoreTypes, GateState, CandidateIsFresh
<1>17. CASE Failed
  <2>1. gate' \in {"open", "ran"}
    BY <1>17 DEF Failed, Swapping, CoreTypes, GateState
  <2>2. QED
    BY <1>17, <2>1, DropSwapping DEF Failed, configs, Swapping, CoreTypes
<1>18. CASE EditFile \/ Mutate
  <2>1. ASSUME NEW s \in Settings, NEW e \in Settings, NEW K PROVE Edited(K, s, e) \in Settings
    BY <2>1 DEF Edited, Settings
  <2>2. file' \in Settings /\ running' \in Config
    BY <1>18, <2>1 DEF EditFile, Mutate, Config, Swapping, CoreTypes
  <2>3. QED
    BY <1>18, <2>2 DEF EditFile, Mutate, cores,
                       Swapping, CoreTypes, GateState, CandidateIsFresh
<1>19. CASE UNCHANGED vars
  BY <1>0, <1>19 DEF Same, vars
<1>20. QED
  BY <1>1, <1>2, <1>3, <1>4, <1>5, <1>6, <1>7, <1>8, <1>9, <1>10, <1>11, <1>12,
     <1>13, <1>14, <1>15, <1>16, <1>17, <1>18, <1>19 DEF Next
----------------------------------------------------------------------------
(* Reviews and the configuration in force.                                 *)

\* A configuration changes together with the core it was accepted by.
LEMMA RunningStep ==
    ASSUME [Next]_vars, running.by = current
    PROVE  running'.by = current'
<1> USE DEF cores, configs, DropPending, SetPending
<1>1. ASSUME NEW r \in Review,
             Arrive(r) \/ DeadlinePasses(r) \/ HoldPasses(r) \/ Release(r)
      PROVE  running'.by = current'
  BY <1>1 DEF Arrive, DeadlinePasses, HoldPasses, Release
<1>2. ASSUME NEW v \in Visitor, Visit(v) \/ EndVisit(v)
      PROVE  running'.by = current'
  BY <1>2 DEF Visit, EndVisit
<1>3. ASSUME NEW cmd, Act(cmd) PROVE running'.by = current'
  BY <1>3 DEF Act, Cancel, Refuse, ApplyNow, AskRollback, Prepare
<1>4. ASSUME NEW s \in Slot, NEW cmd \in Command, TriggerParked(s, cmd)
      PROVE  running'.by = current'
  BY <1>4 DEF TriggerParked
<1>5. ASSUME NEW cmd \in Command, Trigger(cmd) PROVE running'.by = current'
  BY <1>3, <1>5 DEF Trigger
<1>6. ASSUME NEW s \in Slot, GateOpened(s) PROVE running'.by = current'
  BY <1>3, <1>6 DEF GateOpened
<1>7. CASE HoldBegins \/ Discard \/ PrepareAgain \/ PrepareFails
  BY <1>7 DEF HoldBegins, Discard, PrepareAgain, PrepareFails
<1>8. CASE PreparedCore \/ PreparedConfig \/ PreparedNothing
  BY <1>8 DEF PreparedCore, PreparedConfig, PreparedNothing
<1>9. CASE Swap \/ Rollback
  <2>1. \A K : Restored(K).by = previous.core
    BY DEF Restored
  <2>2. CASE Rollback
    <3>1. PICK K : running' = Restored(K)
      BY <2>2 DEF Rollback
    <3>2. QED
      BY <2>1, <2>2, <3>1 DEF Rollback
  <2>3. CASE Swap
    BY <2>3 DEF Swap
  <2>4. QED
    BY <1>9, <2>2, <2>3
<1>10. CASE SwapFails \/ Reopen \/ LockFails \/ Failed
  BY <1>10 DEF SwapFails, Reopen, LockFails, Failed
<1>11. CASE EditFile \/ Mutate \/ UNCHANGED vars
  BY <1>11 DEF EditFile, Mutate, vars
<1>12. QED
  BY <1>1, <1>2, <1>4, <1>5, <1>6, <1>7, <1>8, <1>9, <1>10, <1>11 DEF Next

LEMMA PairStep ==
    ASSUME IInv, [Next]_vars
    PROVE  TicketTypes' /\ ConfigFitsCore'
<1>1. running'.by = current'
  BY RunningStep DEF IInv, ConfigFitsCore
<1>2. Issued
  BY IssuedStep DEF IInv
<1>3. current' \in Core /\ running' \in Config
  BY SwappingStep DEF IInv, Swapping, CoreTypes
<1>4. \A r \in Review :
         /\ ticket'[r] \in Ticket \cup {None}
         /\ ticket'[r] # None => ticket'[r].config.by = ticket'[r].core
  BY <1>1, <1>2, <1>3 DEF Issued, IInv, TicketTypes, Ticket, ConfigFitsCore
<1>5. QED
  BY <1>1, <1>2, <1>4 DEF Issued, TicketTypes, ConfigFitsCore

LEMMA IInvInit == Init => IInv
<1> SUFFICES ASSUME Init PROVE IInv
  OBVIOUS
<1>1. running \in Config /\ running.by = First /\ file \in Settings
  BY FirstAssumption DEF Init, Config
<1>2. parked \in [Slot -> Command \cup {None}]
  BY DEF Init
<1>3. Swapping
  BY <1>1, <1>2, FirstAssumption
     DEF Init, Swapping, CoreTypes, GateState, CandidateIsFresh
<1>4. ticket \in [Review -> {None}]
  BY DEF Init
<1>5. TicketTypes /\ ConfigFitsCore
  BY <1>1, <1>4 DEF Init, TicketTypes, ConfigFitsCore
<1>6. QED
  BY <1>3, <1>5 DEF IInv

(* The inductive invariant.                                                *)
THEOREM Invariance == Spec => []IInv
<1>1. IInv /\ [Next]_vars => IInv'
  BY SwappingStep, PairStep DEF IInv
<1>2. QED
  BY IInvInit, <1>1, PTL DEF Spec

(* Whatever swaps ran while a loader prepared a reload, the reload waits   *)
(* to be applied to the core it was prepared against.                      *)
THEOREM Freshness == Spec => []CandidateIsFresh
BY Invariance, PTL DEF IInv, Swapping

(* Every review runs its core under a configuration that this very core's  *)
(* schema accepted.                                                        *)
THEOREM Pairing == Spec => []ConfigFitsCore
BY Invariance, PTL DEF IInv
----------------------------------------------------------------------------
(* While the gate waits for the lock.                                      *)

\* What a swap will apply, and to what.
Frozen == gate = "locking" /\ gate' = "locking"
              => <<pending, current, previous>>' = <<pending, current, previous>>

LEMMA FrozenStep ==
    ASSUME Swapping, [Next]_vars
    PROVE  Frozen
<1> SUFFICES ASSUME gate = "locking", gate' = "locking"
             PROVE  UNCHANGED <<pending, current, previous>>
  BY DEF Frozen
<1> DEFINE Same == UNCHANGED <<pending, current, previous>>
<1>0. pending.swapping /\ pending # None /\ ~failing
  BY DEF Swapping, GateState
<1> USE DEF cores
<1>1. ASSUME NEW r \in Review,
             Arrive(r) \/ DeadlinePasses(r) \/ HoldPasses(r) \/ Release(r)
      PROVE  Same
  BY <1>0, <1>1 DEF Arrive, DeadlinePasses, HoldPasses, Release
<1>2. ASSUME NEW v \in Visitor, Visit(v) \/ EndVisit(v) PROVE Same
  BY <1>2 DEF Visit, EndVisit
<1>3. ASSUME NEW cmd \in Command, Trigger(cmd) PROVE Same
  BY <1>3 DEF Trigger
<1>4. ASSUME NEW cmd \in Command, NEW s \in Slot, TriggerParked(s, cmd) PROVE Same
  BY <1>4 DEF TriggerParked
<1>5. ASSUME NEW s \in Slot, GateOpened(s) PROVE Same
  BY <1>5 DEF GateOpened
<1>6. CASE HoldBegins \/ Discard \/ PrepareAgain \/ PrepareFails
  BY <1>6 DEF HoldBegins, Discard, PrepareAgain, PrepareFails
<1>7. CASE PreparedCore \/ PreparedConfig \/ PreparedNothing
  BY <1>7 DEF PreparedCore, PreparedConfig, PreparedNothing, Prepared, Moved
<1>8. CASE Swap \/ Rollback \/ SwapFails \/ Reopen \/ LockFails
  BY <1>8 DEF Swap, Rollback, SwapFails, Reopen, LockFails
<1>9. CASE Failed
  BY <1>0, <1>9 DEF Failed
<1>10. CASE EditFile \/ Mutate \/ UNCHANGED vars
  BY <1>10 DEF EditFile, Mutate, vars
<1>11. QED
  BY <1>1, <1>2, <1>3, <1>4, <1>5, <1>6, <1>7, <1>8, <1>9, <1>10 DEF Next

(* From the moment the gate closes to the swap nothing changes what is     *)
(* applied, nor the core and the rollback target it is applied to.         *)
THEOREM FrozenAtGate == Spec => CandidateFrozen
<1>1. IInv /\ [Next]_vars => Frozen
  BY FrozenStep DEF IInv
<1>2. IInv /\ [Next]_vars => [Frozen]_vars
  BY <1>1
<1>3. QED
  BY <1>2, Invariance, PTL DEF Spec, CandidateFrozen, Frozen
=============================================================================
