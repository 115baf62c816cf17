-------------------------- MODULE ReviewQueueProofs --------------------------
(***************************************************************************)
(* Proofs about ReviewQueue, for every set of reviews, keys and contexts:  *)
(* the type invariant, and an inductive invariant from which the safety    *)
(* properties of the queue follow.                                         *)
(***************************************************************************)
EXTENDS ReviewQueue, FiniteSetTheorems, TLAPS

-----------------------------------------------------------------------------
(* Every step keeps the types. *)
LEMMA TypeStep == TypeOK /\ [Next]_vars => TypeOK'
<1> USE NoneAssumption, CtxOfAssumption DEF TypeOK, Phase, Answer, Pipe
<1> SUFFICES ASSUME TypeOK, [Next]_vars PROVE TypeOK'
  OBVIOUS
<1> USE DEF reviews, pipelines, registry, Answered
<1>1. ASSUME NEW r \in Req, Arrive(r) PROVE TypeOK'
  BY <1>1 DEF Arrive
<1>2. ASSUME NEW r \in Req, Refuse(r) PROVE TypeOK'
  BY <1>2 DEF Refuse
<1>3. ASSUME NEW r \in Req, NEW k \in Key, Join(r, k) PROVE TypeOK'
  BY <1>3 DEF Join
<1>4. ASSUME NEW r \in Req, NEW k \in Key, Queue(r, k) PROVE TypeOK'
  BY <1>4 DEF Queue
<1>5. ASSUME NEW p \in Req, Start(p) \/ Skip(p) \/ Settle(p) PROVE TypeOK'
  BY <1>5 DEF Start, Skip, Settle
<1>6. ASSUME NEW p \in Req, Forget(p) PROVE TypeOK'
  BY <1>6 DEF Forget
<1>7. ASSUME NEW r \in Req, GetResult(r) PROVE TypeOK'
  <2>1. CASE owner[r] \in Req
    BY <1>7, <2>1 DEF GetResult
  <2>2. CASE owner[r] \notin Req
    <3>1. joinCounts' = joinCounts
      BY <1>7, <2>2 DEF GetResult
    <3>2. QED
      BY <1>7, <3>1 DEF GetResult
  <2>3. QED
    BY <2>1, <2>2
<1>8. ASSUME NEW r \in Req, JoinerTimeout(r) PROVE TypeOK'
  <2>1. CASE owner[r] \in Req
    BY <1>8, <2>1 DEF JoinerTimeout
  <2>2. CASE owner[r] \notin Req
    <3>1. joinCounts' = joinCounts
      BY <1>8, <2>2 DEF JoinerTimeout
    <3>2. QED
      BY <1>8, <3>1 DEF JoinerTimeout
  <2>3. QED
    BY <2>1, <2>2
<1>9. ASSUME NEW r \in Req, Abandon(r) PROVE TypeOK'
  BY <1>9 DEF Abandon
<1>10. ASSUME NEW r \in Req, AnswerEarly(r) \/ BackgroundDone(r) \/ OnTime(r)
       PROVE TypeOK'
  BY <1>10 DEF AnswerEarly, BackgroundDone, OnTime
<1>11. CASE UNCHANGED vars \/ Quiet
  BY <1>11 DEF vars, Quiet
<1>12. QED
  BY <1>1, <1>2, <1>3, <1>4, <1>5, <1>6, <1>7, <1>8, <1>9, <1>10, <1>11
     DEF Next, Request, Pipeline, Outcome

(* Type correctness: every variable keeps its type, in particular a chain  *)
(* and an in-flight slot always name a review or nothing.                  *)
THEOREM TypeCorrect == Spec => []TypeOK
<1>1. Init => TypeOK
  BY NoneAssumption, CtxOfAssumption DEF Init, TypeOK, Phase, Answer, Pipe
<1>2. QED
  BY <1>1, TypeStep, PTL DEF Spec

-----------------------------------------------------------------------------
(* The inductive invariant.  OneRunningPerContext alone is not inductive:  *)
(* it needs to know that the pipelines of a context form one line, that    *)
(* prev is the place just before in that line, and that the line is        *)
(* settled up to whatever runs.                                            *)

Exists(p) == pipe[p] # "none"

\* The pipelines that exist in context c.
PipesOf(c) == {q \in Req : Exists(q) /\ CtxOfPipe(q) = c}

AllSettled(S) == \A q \in S : Settled(q)

Joiners(p) == {r \in Req : Joined(r) /\ owner[r] = p}

\* A pipeline belongs to a review that has its key and waits on it.
Ownership ==
    /\ \A p \in Req : Exists(p) => key[p] \in Key /\ owner[p] = p
    /\ \A r \in Req : phase[r] \in {"idle", "preparing"} => ~ Exists(r)
    /\ \A r \in Req : phase[r] = "waiting" =>
            owner[r] \in Req /\ Exists(owner[r])
    /\ \A r \in Req : phase[r] = "background" => owner[r] = r

\* Only settled pipelines are forgotten, and abandoned ones never run.
Endings ==
    /\ \A p \in forgotten : Settled(p)
    /\ \A p \in abandoned : pipe[p] \in {"queued", "settled"}

\* The pipelines of a context are in a line ...
Line ==
    /\ \A p \in Req : Exists(p) => ahead[p] \subseteq PipesOf(CtxOfPipe(p))
    /\ \A p, q \in Req :
            Exists(p) /\ Exists(q) /\ CtxOfPipe(p) = CtxOfPipe(q) /\ p # q
                => p \in ahead[q] \/ q \in ahead[p]

\* ... settled up to the ones that have started ...
Prefix ==
    \A p \in Req : pipe[p] \in {"running", "settled"} => AllSettled(ahead[p])

\* ... in which prev is the place before a queued pipeline ...
Links ==
    \A p \in Req : pipe[p] = "queued" =>
        IF prev[p] = None THEN AllSettled(ahead[p])
        ELSE prev[p] \in Req /\ ahead[p] = ahead[prev[p]] \cup {prev[p]}

\* ... and chain is the end.
Tails ==
    \A c \in Ctx :
        IF chain[c] = None THEN AllSettled(PipesOf(c))
        ELSE /\ chain[c] \in PipesOf(c)
             /\ PipesOf(c) = ahead[chain[c]] \cup {chain[c]}

\* A key's slot holds the one pipeline with that key that may run.
Slots ==
    /\ \A p \in Req : Live(p) => inflight[key[p]] = p
    /\ \A k \in Key : inflight[k] # None =>
            /\ Exists(inflight[k]) /\ key[inflight[k]] = k
            /\ inflight[k] \notin abandoned

\* The owner of a pipeline that may run has not returned.
Admission == \A p \in Req : Live(p) => phase[p] \in {"waiting", "background"}

\* joinCounts is the number of joiners.
Counting ==
    \A p \in Req :
        IsFiniteSet(Joiners(p)) /\ joinCounts[p] = Cardinality(Joiners(p))

IInv ==
    /\ TypeOK
    /\ Ownership
    /\ Endings
    /\ Line
    /\ Prefix
    /\ Links
    /\ Tails
    /\ Slots
    /\ Admission
    /\ Counting
    /\ NobodyWaitsOnAbandoned

-----------------------------------------------------------------------------
(* A pipeline is created with its key, by the review that then waits on it. *)
LEMMA OwnershipStep == IInv /\ [Next]_vars => Ownership'
<1> SUFFICES ASSUME IInv, [Next]_vars PROVE Ownership'
  OBVIOUS
<1> USE NoneAssumption, CtxOfAssumption
    DEF TypeOK, Phase, Pipe, Ownership, Exists, reviews, pipelines, registry
<1>0. TypeOK /\ Ownership /\ Slots
  BY DEF IInv
<1>1. ASSUME NEW r \in Req, Arrive(r) PROVE Ownership'
  BY <1>0, <1>1 DEF Arrive
<1>2. ASSUME NEW r \in Req, Refuse(r) PROVE Ownership'
  BY <1>0, <1>2 DEF Refuse
<1>3. ASSUME NEW r \in Req, NEW k \in Key, Join(r, k) PROVE Ownership'
  BY <1>0, <1>3 DEF Join, Slots, Exists
<1>4. ASSUME NEW r \in Req, NEW k \in Key, Queue(r, k) PROVE Ownership'
  BY <1>0, <1>4 DEF Queue
<1>5. ASSUME NEW p \in Req, Start(p) PROVE Ownership'
  BY <1>0, <1>5 DEF Start, MyTurn
<1>6. ASSUME NEW p \in Req, Skip(p) PROVE Ownership'
  BY <1>0, <1>6 DEF Skip, MyTurn
<1>7. ASSUME NEW p \in Req, Settle(p) PROVE Ownership'
  BY <1>0, <1>7 DEF Settle
<1>8. ASSUME NEW p \in Req, Forget(p) PROVE Ownership'
  BY <1>0, <1>8 DEF Forget
<1>9. ASSUME NEW r \in Req, GetResult(r) PROVE Ownership'
  BY <1>0, <1>9 DEF GetResult
<1>10. ASSUME NEW r \in Req, JoinerTimeout(r) PROVE Ownership'
  BY <1>0, <1>10 DEF JoinerTimeout, DeadlinePasses
<1>11. ASSUME NEW r \in Req, Abandon(r) PROVE Ownership'
  BY <1>0, <1>11 DEF Abandon, DeadlinePasses, MayAbandon
<1>12. ASSUME NEW r \in Req, AnswerEarly(r) PROVE Ownership'
  BY <1>0, <1>12 DEF AnswerEarly, DeadlinePasses, MayAbandon
<1>13. ASSUME NEW r \in Req, BackgroundDone(r) PROVE Ownership'
  BY <1>0, <1>13 DEF BackgroundDone
<1>14. ASSUME NEW r \in Req, OnTime(r) PROVE Ownership'
  BY <1>0, <1>14 DEF OnTime
<1>15. CASE UNCHANGED vars \/ Quiet
  BY <1>0, <1>15 DEF vars, Quiet
<1>16. QED
  BY <1>1, <1>2, <1>3, <1>4, <1>5, <1>6, <1>7, <1>8, <1>9, <1>10, <1>11, <1>12, <1>13, <1>14, <1>15
     DEF Next, Request, Pipeline, Outcome

(* Only a settled pipeline is forgotten; an abandoned one is still queued, and is skipped. *)
LEMMA EndingsStep == IInv /\ [Next]_vars => Endings'
<1> SUFFICES ASSUME IInv, [Next]_vars PROVE Endings'
  OBVIOUS
<1> USE NoneAssumption, CtxOfAssumption
    DEF TypeOK, Pipe, Endings, Settled, Exists, reviews, pipelines, registry
<1>0. TypeOK /\ Ownership /\ Endings
  BY DEF IInv
<1>1. ASSUME NEW r \in Req, Arrive(r) PROVE Endings'
  BY <1>0, <1>1 DEF Arrive
<1>2. ASSUME NEW r \in Req, Refuse(r) PROVE Endings'
  BY <1>0, <1>2 DEF Refuse
<1>3. ASSUME NEW r \in Req, NEW k \in Key, Join(r, k) PROVE Endings'
  BY <1>0, <1>3 DEF Join
<1>4. ASSUME NEW r \in Req, NEW k \in Key, Queue(r, k) PROVE Endings'
  BY <1>0, <1>4 DEF Queue, Ownership
<1>5. ASSUME NEW p \in Req, Start(p) PROVE Endings'
  BY <1>0, <1>5 DEF Start, MyTurn
<1>6. ASSUME NEW p \in Req, Skip(p) PROVE Endings'
  BY <1>0, <1>6 DEF Skip, MyTurn
<1>7. ASSUME NEW p \in Req, Settle(p) PROVE Endings'
  BY <1>0, <1>7 DEF Settle
<1>8. ASSUME NEW p \in Req, Forget(p) PROVE Endings'
  BY <1>0, <1>8 DEF Forget
<1>9. ASSUME NEW r \in Req, GetResult(r) PROVE Endings'
  BY <1>0, <1>9 DEF GetResult
<1>10. ASSUME NEW r \in Req, JoinerTimeout(r) PROVE Endings'
  BY <1>0, <1>10 DEF JoinerTimeout, DeadlinePasses
<1>11. ASSUME NEW r \in Req, Abandon(r) PROVE Endings'
  BY <1>0, <1>11 DEF Abandon, DeadlinePasses, MayAbandon
<1>12. ASSUME NEW r \in Req, AnswerEarly(r) PROVE Endings'
  BY <1>0, <1>12 DEF AnswerEarly, DeadlinePasses, MayAbandon
<1>13. ASSUME NEW r \in Req, BackgroundDone(r) PROVE Endings'
  BY <1>0, <1>13 DEF BackgroundDone
<1>14. ASSUME NEW r \in Req, OnTime(r) PROVE Endings'
  BY <1>0, <1>14 DEF OnTime
<1>15. CASE UNCHANGED vars \/ Quiet
  BY <1>0, <1>15 DEF vars, Quiet
<1>16. QED
  BY <1>1, <1>2, <1>3, <1>4, <1>5, <1>6, <1>7, <1>8, <1>9, <1>10, <1>11, <1>12, <1>13, <1>14, <1>15
     DEF Next, Request, Pipeline, Outcome

(* A new pipeline goes behind all those of its context. *)
LEMMA LineStep == IInv /\ [Next]_vars => Line'
<1> SUFFICES ASSUME IInv, [Next]_vars PROVE Line'
  OBVIOUS
<1> USE NoneAssumption, CtxOfAssumption
    DEF TypeOK, Pipe, Line, Exists, PipesOf, CtxOfPipe, reviews, pipelines, registry
<1>0. TypeOK /\ Ownership /\ Line
  BY DEF IInv
<1>1. ASSUME NEW r \in Req, Arrive(r) PROVE Line'
  BY <1>0, <1>1 DEF Arrive
<1>2. ASSUME NEW r \in Req, Refuse(r) PROVE Line'
  BY <1>0, <1>2 DEF Refuse
<1>3. ASSUME NEW r \in Req, NEW k \in Key, Join(r, k) PROVE Line'
  BY <1>0, <1>3 DEF Join, Ownership
<1>4. ASSUME NEW r \in Req, NEW k \in Key, Queue(r, k) PROVE Line'
  BY <1>0, <1>4 DEF Queue, Ownership
<1>5. ASSUME NEW p \in Req, Start(p) PROVE Line'
  BY <1>0, <1>5 DEF Start, MyTurn
<1>6. ASSUME NEW p \in Req, Skip(p) PROVE Line'
  BY <1>0, <1>6 DEF Skip, MyTurn
<1>7. ASSUME NEW p \in Req, Settle(p) PROVE Line'
  BY <1>0, <1>7 DEF Settle
<1>8. ASSUME NEW p \in Req, Forget(p) PROVE Line'
  BY <1>0, <1>8 DEF Forget
<1>9. ASSUME NEW r \in Req, GetResult(r) PROVE Line'
  BY <1>0, <1>9 DEF GetResult
<1>10. ASSUME NEW r \in Req, JoinerTimeout(r) PROVE Line'
  BY <1>0, <1>10 DEF JoinerTimeout, DeadlinePasses
<1>11. ASSUME NEW r \in Req, Abandon(r) PROVE Line'
  BY <1>0, <1>11 DEF Abandon, DeadlinePasses, MayAbandon
<1>12. ASSUME NEW r \in Req, AnswerEarly(r) PROVE Line'
  BY <1>0, <1>12 DEF AnswerEarly, DeadlinePasses, MayAbandon
<1>13. ASSUME NEW r \in Req, BackgroundDone(r) PROVE Line'
  BY <1>0, <1>13 DEF BackgroundDone
<1>14. ASSUME NEW r \in Req, OnTime(r) PROVE Line'
  BY <1>0, <1>14 DEF OnTime
<1>15. CASE UNCHANGED vars \/ Quiet
  BY <1>0, <1>15 DEF vars, Quiet
<1>16. QED
  BY <1>1, <1>2, <1>3, <1>4, <1>5, <1>6, <1>7, <1>8, <1>9, <1>10, <1>11, <1>12, <1>13, <1>14, <1>15
     DEF Next, Request, Pipeline, Outcome

(* A pipeline starts or is skipped when the place before it is settled, and so is everything before that. *)
LEMMA PrefixStep == IInv /\ [Next]_vars => Prefix'
<1> SUFFICES ASSUME IInv, [Next]_vars PROVE Prefix'
  OBVIOUS
<1> USE NoneAssumption, CtxOfAssumption
    DEF TypeOK, Pipe, Prefix, AllSettled, Settled, Exists, reviews, pipelines, registry
<1>0. TypeOK /\ Ownership /\ Endings /\ Line /\ Prefix /\ Links
  BY DEF IInv
<1>1. ASSUME NEW r \in Req, Arrive(r) PROVE Prefix'
  BY <1>0, <1>1 DEF Arrive
<1>2. ASSUME NEW r \in Req, Refuse(r) PROVE Prefix'
  BY <1>0, <1>2 DEF Refuse
<1>3. ASSUME NEW r \in Req, NEW k \in Key, Join(r, k) PROVE Prefix'
  BY <1>0, <1>3 DEF Join
<1>4. ASSUME NEW r \in Req, NEW k \in Key, Queue(r, k) PROVE Prefix'
  BY <1>0, <1>4 DEF Queue, Ownership
<1>5. ASSUME NEW p \in Req, Start(p) PROVE Prefix'
  BY <1>0, <1>5 DEF Start, MyTurn, Links, Endings
<1>6. ASSUME NEW p \in Req, Skip(p) PROVE Prefix'
  BY <1>0, <1>6 DEF Skip, MyTurn, Links, Endings
<1>7. ASSUME NEW p \in Req, Settle(p) PROVE Prefix'
  BY <1>0, <1>7 DEF Settle
<1>8. ASSUME NEW p \in Req, Forget(p) PROVE Prefix'
  BY <1>0, <1>8 DEF Forget
<1>9. ASSUME NEW r \in Req, GetResult(r) PROVE Prefix'
  BY <1>0, <1>9 DEF GetResult
<1>10. ASSUME NEW r \in Req, JoinerTimeout(r) PROVE Prefix'
  BY <1>0, <1>10 DEF JoinerTimeout, DeadlinePasses
<1>11. ASSUME NEW r \in Req, Abandon(r) PROVE Prefix'
  BY <1>0, <1>11 DEF Abandon, DeadlinePasses, MayAbandon
<1>12. ASSUME NEW r \in Req, AnswerEarly(r) PROVE Prefix'
  BY <1>0, <1>12 DEF AnswerEarly, DeadlinePasses, MayAbandon
<1>13. ASSUME NEW r \in Req, BackgroundDone(r) PROVE Prefix'
  BY <1>0, <1>13 DEF BackgroundDone
<1>14. ASSUME NEW r \in Req, OnTime(r) PROVE Prefix'
  BY <1>0, <1>14 DEF OnTime
<1>15. CASE UNCHANGED vars \/ Quiet
  BY <1>0, <1>15 DEF vars, Quiet
<1>16. QED
  BY <1>1, <1>2, <1>3, <1>4, <1>5, <1>6, <1>7, <1>8, <1>9, <1>10, <1>11, <1>12, <1>13, <1>14, <1>15
     DEF Next, Request, Pipeline, Outcome

(* prev stays the place before: what it names is never queued again. *)
LEMMA LinksStep == IInv /\ [Next]_vars => Links'
<1> SUFFICES ASSUME IInv, [Next]_vars PROVE Links'
  OBVIOUS
<1> USE NoneAssumption, CtxOfAssumption
    DEF TypeOK, Pipe, Links, AllSettled, Settled, Exists, reviews, pipelines, registry
<1>0. TypeOK /\ Ownership /\ Line /\ Links /\ Tails
  BY DEF IInv
<1>1. ASSUME NEW r \in Req, Arrive(r) PROVE Links'
  BY <1>0, <1>1 DEF Arrive
<1>2. ASSUME NEW r \in Req, Refuse(r) PROVE Links'
  BY <1>0, <1>2 DEF Refuse
<1>3. ASSUME NEW r \in Req, NEW k \in Key, Join(r, k) PROVE Links'
  BY <1>0, <1>3 DEF Join
<1>4. ASSUME NEW r \in Req, NEW k \in Key, Queue(r, k) PROVE Links'
  BY <1>0, <1>4 DEF Queue, Ownership, Line, Tails, PipesOf, CtxOfPipe
<1>5. ASSUME NEW p \in Req, Start(p) PROVE Links'
  BY <1>0, <1>5 DEF Start, MyTurn
<1>6. ASSUME NEW p \in Req, Skip(p) PROVE Links'
  BY <1>0, <1>6 DEF Skip, MyTurn
<1>7. ASSUME NEW p \in Req, Settle(p) PROVE Links'
  BY <1>0, <1>7 DEF Settle
<1>8. ASSUME NEW p \in Req, Forget(p) PROVE Links'
  BY <1>0, <1>8 DEF Forget
<1>9. ASSUME NEW r \in Req, GetResult(r) PROVE Links'
  BY <1>0, <1>9 DEF GetResult
<1>10. ASSUME NEW r \in Req, JoinerTimeout(r) PROVE Links'
  BY <1>0, <1>10 DEF JoinerTimeout, DeadlinePasses
<1>11. ASSUME NEW r \in Req, Abandon(r) PROVE Links'
  BY <1>0, <1>11 DEF Abandon, DeadlinePasses, MayAbandon
<1>12. ASSUME NEW r \in Req, AnswerEarly(r) PROVE Links'
  BY <1>0, <1>12 DEF AnswerEarly, DeadlinePasses, MayAbandon
<1>13. ASSUME NEW r \in Req, BackgroundDone(r) PROVE Links'
  BY <1>0, <1>13 DEF BackgroundDone
<1>14. ASSUME NEW r \in Req, OnTime(r) PROVE Links'
  BY <1>0, <1>14 DEF OnTime
<1>15. CASE UNCHANGED vars \/ Quiet
  BY <1>0, <1>15 DEF vars, Quiet
<1>16. QED
  BY <1>1, <1>2, <1>3, <1>4, <1>5, <1>6, <1>7, <1>8, <1>9, <1>10, <1>11, <1>12, <1>13, <1>14, <1>15
     DEF Next, Request, Pipeline, Outcome

(* The tail is cleared only when it is settled, hence when all of its line is. *)
LEMMA TailsStep == IInv /\ [Next]_vars => Tails'
<1> SUFFICES ASSUME IInv, [Next]_vars PROVE Tails'
  OBVIOUS
<1> USE NoneAssumption, CtxOfAssumption
    DEF TypeOK, Pipe, Tails, PipesOf, CtxOfPipe, AllSettled, Settled, Exists, reviews, pipelines, registry
<1>0. TypeOK /\ Ownership /\ Prefix /\ Tails
  BY DEF IInv
<1>1. ASSUME NEW r \in Req, Arrive(r) PROVE Tails'
  BY <1>0, <1>1 DEF Arrive
<1>2. ASSUME NEW r \in Req, Refuse(r) PROVE Tails'
  BY <1>0, <1>2 DEF Refuse
<1>3. ASSUME NEW r \in Req, NEW k \in Key, Join(r, k) PROVE Tails'
  BY <1>0, <1>3 DEF Join, Ownership
<1>4. ASSUME NEW r \in Req, NEW k \in Key, Queue(r, k) PROVE Tails'
  BY <1>0, <1>4 DEF Queue, Ownership
<1>5. ASSUME NEW p \in Req, Start(p) PROVE Tails'
  BY <1>0, <1>5 DEF Start, MyTurn
<1>6. ASSUME NEW p \in Req, Skip(p) PROVE Tails'
  BY <1>0, <1>6 DEF Skip, MyTurn
<1>7. ASSUME NEW p \in Req, Settle(p) PROVE Tails'
  BY <1>0, <1>7 DEF Settle
<1>8. ASSUME NEW p \in Req, Forget(p) PROVE Tails'
  BY <1>0, <1>8 DEF Forget, Prefix, Ownership
<1>9. ASSUME NEW r \in Req, GetResult(r) PROVE Tails'
  BY <1>0, <1>9 DEF GetResult
<1>10. ASSUME NEW r \in Req, JoinerTimeout(r) PROVE Tails'
  BY <1>0, <1>10 DEF JoinerTimeout, DeadlinePasses
<1>11. ASSUME NEW r \in Req, Abandon(r) PROVE Tails'
  BY <1>0, <1>11 DEF Abandon, DeadlinePasses, MayAbandon
<1>12. ASSUME NEW r \in Req, AnswerEarly(r) PROVE Tails'
  BY <1>0, <1>12 DEF AnswerEarly, DeadlinePasses, MayAbandon
<1>13. ASSUME NEW r \in Req, BackgroundDone(r) PROVE Tails'
  BY <1>0, <1>13 DEF BackgroundDone
<1>14. ASSUME NEW r \in Req, OnTime(r) PROVE Tails'
  BY <1>0, <1>14 DEF OnTime
<1>15. CASE UNCHANGED vars \/ Quiet
  BY <1>0, <1>15 DEF vars, Quiet
<1>16. QED
  BY <1>1, <1>2, <1>3, <1>4, <1>5, <1>6, <1>7, <1>8, <1>9, <1>10, <1>11, <1>12, <1>13, <1>14, <1>15
     DEF Next, Request, Pipeline, Outcome

(* A slot is taken when it is empty and cleared by the pipeline that holds it. *)
LEMMA SlotsStep == IInv /\ [Next]_vars => Slots'
<1> SUFFICES ASSUME IInv, [Next]_vars PROVE Slots'
  OBVIOUS
<1> USE NoneAssumption, CtxOfAssumption
    DEF TypeOK, Pipe, Slots, Live, Settled, Exists, reviews, pipelines, registry
<1>0. TypeOK /\ Ownership /\ Endings /\ Slots
  BY DEF IInv
<1>1. ASSUME NEW r \in Req, Arrive(r) PROVE Slots'
  BY <1>0, <1>1 DEF Arrive
<1>2. ASSUME NEW r \in Req, Refuse(r) PROVE Slots'
  BY <1>0, <1>2 DEF Refuse
<1>3. ASSUME NEW r \in Req, NEW k \in Key, Join(r, k) PROVE Slots'
  BY <1>0, <1>3 DEF Join, Ownership
<1>4. ASSUME NEW r \in Req, NEW k \in Key, Queue(r, k) PROVE Slots'
  BY <1>0, <1>4 DEF Queue, Ownership, Endings
<1>5. ASSUME NEW p \in Req, Start(p) PROVE Slots'
  BY <1>0, <1>5 DEF Start, MyTurn
<1>6. ASSUME NEW p \in Req, Skip(p) PROVE Slots'
  BY <1>0, <1>6 DEF Skip, MyTurn
<1>7. ASSUME NEW p \in Req, Settle(p) PROVE Slots'
  BY <1>0, <1>7 DEF Settle
<1>8. ASSUME NEW p \in Req, Forget(p) PROVE Slots'
  BY <1>0, <1>8 DEF Forget, Ownership
<1>9. ASSUME NEW r \in Req, GetResult(r) PROVE Slots'
  BY <1>0, <1>9 DEF GetResult
<1>10. ASSUME NEW r \in Req, JoinerTimeout(r) PROVE Slots'
  BY <1>0, <1>10 DEF JoinerTimeout, DeadlinePasses
<1>11. ASSUME NEW r \in Req, Abandon(r) PROVE Slots'
  BY <1>0, <1>11 DEF Abandon, DeadlinePasses, MayAbandon, Ownership
<1>12. ASSUME NEW r \in Req, AnswerEarly(r) PROVE Slots'
  BY <1>0, <1>12 DEF AnswerEarly, DeadlinePasses, MayAbandon
<1>13. ASSUME NEW r \in Req, BackgroundDone(r) PROVE Slots'
  BY <1>0, <1>13 DEF BackgroundDone
<1>14. ASSUME NEW r \in Req, OnTime(r) PROVE Slots'
  BY <1>0, <1>14 DEF OnTime
<1>15. CASE UNCHANGED vars \/ Quiet
  BY <1>0, <1>15 DEF vars, Quiet
<1>16. QED
  BY <1>1, <1>2, <1>3, <1>4, <1>5, <1>6, <1>7, <1>8, <1>9, <1>10, <1>11, <1>12, <1>13, <1>14, <1>15
     DEF Next, Request, Pipeline, Outcome

(* An owner returns once its pipeline is settled, or by abandoning it. *)
LEMMA AdmissionStep == IInv /\ [Next]_vars => Admission'
<1> SUFFICES ASSUME IInv, [Next]_vars PROVE Admission'
  OBVIOUS
<1> USE NoneAssumption, CtxOfAssumption
    DEF TypeOK, Phase, Pipe, Admission, Live, Settled, Exists, reviews, pipelines, registry
<1>0. TypeOK /\ Ownership /\ Endings /\ Admission
  BY DEF IInv
<1>1. ASSUME NEW r \in Req, Arrive(r) PROVE Admission'
  BY <1>0, <1>1 DEF Arrive
<1>2. ASSUME NEW r \in Req, Refuse(r) PROVE Admission'
  BY <1>0, <1>2 DEF Refuse, Ownership
<1>3. ASSUME NEW r \in Req, NEW k \in Key, Join(r, k) PROVE Admission'
  BY <1>0, <1>3 DEF Join
<1>4. ASSUME NEW r \in Req, NEW k \in Key, Queue(r, k) PROVE Admission'
  BY <1>0, <1>4 DEF Queue
<1>5. ASSUME NEW p \in Req, Start(p) PROVE Admission'
  BY <1>0, <1>5 DEF Start, MyTurn
<1>6. ASSUME NEW p \in Req, Skip(p) PROVE Admission'
  BY <1>0, <1>6 DEF Skip, MyTurn
<1>7. ASSUME NEW p \in Req, Settle(p) PROVE Admission'
  BY <1>0, <1>7 DEF Settle
<1>8. ASSUME NEW p \in Req, Forget(p) PROVE Admission'
  BY <1>0, <1>8 DEF Forget
<1>9. ASSUME NEW r \in Req, GetResult(r) PROVE Admission'
  BY <1>0, <1>9 DEF GetResult, Ownership, Endings
<1>10. ASSUME NEW r \in Req, JoinerTimeout(r) PROVE Admission'
  BY <1>0, <1>10 DEF JoinerTimeout, DeadlinePasses, Joined, Ownership
<1>11. ASSUME NEW r \in Req, Abandon(r) PROVE Admission'
  BY <1>0, <1>11 DEF Abandon, DeadlinePasses, MayAbandon
<1>12. ASSUME NEW r \in Req, AnswerEarly(r) PROVE Admission'
  BY <1>0, <1>12 DEF AnswerEarly, DeadlinePasses, MayAbandon
<1>13. ASSUME NEW r \in Req, BackgroundDone(r) PROVE Admission'
  BY <1>0, <1>13 DEF BackgroundDone, Ownership, Endings
<1>14. ASSUME NEW r \in Req, OnTime(r) PROVE Admission'
  BY <1>0, <1>14 DEF OnTime
<1>15. CASE UNCHANGED vars \/ Quiet
  BY <1>0, <1>15 DEF vars, Quiet
<1>16. QED
  BY <1>1, <1>2, <1>3, <1>4, <1>5, <1>6, <1>7, <1>8, <1>9, <1>10, <1>11, <1>12, <1>13, <1>14, <1>15
     DEF Next, Request, Pipeline, Outcome

(* joinCounts follows the joiners that come and go. *)
LEMMA CountingStep == IInv /\ [Next]_vars => Counting'
<1> SUFFICES ASSUME IInv, [Next]_vars, NEW p \in Req
             PROVE (IsFiniteSet(Joiners(p)) /\ joinCounts[p] = Cardinality(Joiners(p)))'
  BY DEF Counting
<1> USE NoneAssumption DEF reviews, pipelines, registry
<1>0. TypeOK /\ Ownership /\ Slots /\ Counting
  BY DEF IInv
<1>1. /\ IsFiniteSet(Joiners(p)) /\ joinCounts[p] = Cardinality(Joiners(p))
      /\ Cardinality(Joiners(p)) \in Nat
  BY <1>0, FS_CardinalityType DEF Counting
<1>2. CASE Joiners(p)' = Joiners(p) /\ joinCounts'[p] = joinCounts[p]
  BY <1>1, <1>2
<1>3. ASSUME NEW r \in Req, NEW k \in Key, Join(r, k), inflight[k] = p
      PROVE (IsFiniteSet(Joiners(p)) /\ joinCounts[p] = Cardinality(Joiners(p)))'
  <2>1. r \notin Joiners(p) /\ Joiners(p)' = Joiners(p) \cup {r}
    BY <1>0, <1>3 DEF Join, Joiners, Joined, TypeOK, Ownership, Slots, Exists
  <2>2. joinCounts'[p] = joinCounts[p] + 1
    BY <1>0, <1>3 DEF Join, TypeOK
  <2>3. QED
    BY <1>1, <2>1, <2>2, FS_AddElement
<1>4. ASSUME NEW r \in Req, GetResult(r) \/ JoinerTimeout(r), r \in Joiners(p)
      PROVE (IsFiniteSet(Joiners(p)) /\ joinCounts[p] = Cardinality(Joiners(p)))'
  <2>1. Joiners(p)' = Joiners(p) \ {r}
    BY <1>0, <1>4 DEF GetResult, JoinerTimeout, Joiners, Joined, TypeOK
  <2>2. joinCounts'[p] = joinCounts[p] - 1
    BY <1>0, <1>4 DEF GetResult, JoinerTimeout, Joiners, TypeOK
  <2>3. QED
    BY <1>1, <1>4, <2>1, <2>2, FS_RemoveElement
<1> DEFINE Same == Joiners(p)' = Joiners(p) /\ joinCounts'[p] = joinCounts[p]
<1> HIDE DEF Same
<1>5. ASSUME NEW r \in Req, NEW k \in Key, Join(r, k), inflight[k] # p PROVE Same
  BY <1>0, <1>5 DEF Join, Joiners, Joined, TypeOK, Same
<1>6. ASSUME NEW r \in Req, NEW k \in Key, Queue(r, k) PROVE Same
  BY <1>0, <1>6 DEF Queue, Joiners, Joined, TypeOK, Same
<1>7. ASSUME NEW r \in Req, GetResult(r) \/ JoinerTimeout(r), r \notin Joiners(p)
      PROVE Same
  <2>1. Joiners(p)' = Joiners(p)
    BY <1>0, <1>7 DEF GetResult, JoinerTimeout, Joiners, Joined, TypeOK
  <2>2. joinCounts'[p] = joinCounts[p]
    <3>1. CASE owner[r] = p
      BY <1>0, <1>7, <3>1
         DEF GetResult, JoinerTimeout, DeadlinePasses, Joiners, Joined, TypeOK
    <3>2. CASE owner[r] # p
      BY <1>0, <1>7, <3>2 DEF GetResult, JoinerTimeout, TypeOK
    <3>3. QED
      BY <3>1, <3>2
  <2>3. QED
    BY <2>1, <2>2 DEF Same
<1>8. ASSUME NEW r \in Req,
             Abandon(r) \/ AnswerEarly(r) \/ BackgroundDone(r) \/ OnTime(r)
      PROVE Same
  BY <1>0, <1>8
     DEF Abandon, AnswerEarly, BackgroundDone, OnTime, Joiners, Joined, TypeOK, Same
<1>9. ASSUME NEW r \in Req, Arrive(r) \/ Refuse(r) PROVE Same
  BY <1>0, <1>9 DEF Arrive, Refuse, Joiners, Joined, TypeOK, Same
<1>10. ASSUME NEW q \in Req, Pipeline(q) PROVE Same
  BY <1>0, <1>10 DEF Pipeline, Start, Skip, Settle, Forget, Joiners, Joined, Same
<1>11. CASE UNCHANGED vars \/ Quiet
  BY <1>2, <1>11 DEF vars, Quiet, Joiners, Joined
<1>12. QED
  <2> USE DEF Same
  <2>1. ASSUME NEW r \in Req, Request(r)
        PROVE (IsFiniteSet(Joiners(p)) /\ joinCounts[p] = Cardinality(Joiners(p)))'
    BY <1>2, <1>3, <1>5, <1>6, <1>9, <2>1 DEF Request
  <2>2. ASSUME NEW r \in Req, Outcome(r)
        PROVE (IsFiniteSet(Joiners(p)) /\ joinCounts[p] = Cardinality(Joiners(p)))'
    BY <1>2, <1>4, <1>7, <1>8, <2>2 DEF Outcome
  <2>3. QED
    BY <1>2, <1>10, <1>11, <2>1, <2>2 DEF Next

(* Whoever still waits on a pipeline its owner abandons has joined it, and then joinCounts is not 0. *)
LEMMA WaitersStep == IInv /\ [Next]_vars => NobodyWaitsOnAbandoned'
<1> SUFFICES ASSUME IInv, [Next]_vars PROVE NobodyWaitsOnAbandoned'
  OBVIOUS
<1> USE NoneAssumption, CtxOfAssumption
    DEF TypeOK, Pipe, NobodyWaitsOnAbandoned, Exists, reviews, pipelines, registry
<1>0. TypeOK /\ Ownership /\ Endings /\ Slots /\ Counting /\ NobodyWaitsOnAbandoned
  BY DEF IInv
<1>1. ASSUME NEW r \in Req, Arrive(r) PROVE NobodyWaitsOnAbandoned'
  BY <1>0, <1>1 DEF Arrive
<1>2. ASSUME NEW r \in Req, Refuse(r) PROVE NobodyWaitsOnAbandoned'
  BY <1>0, <1>2 DEF Refuse
<1>3. ASSUME NEW r \in Req, NEW k \in Key, Join(r, k) PROVE NobodyWaitsOnAbandoned'
  BY <1>0, <1>3 DEF Join, Slots
<1>4. ASSUME NEW r \in Req, NEW k \in Key, Queue(r, k) PROVE NobodyWaitsOnAbandoned'
  BY <1>0, <1>4 DEF Queue, Ownership, Endings
<1>5. ASSUME NEW p \in Req, Start(p) PROVE NobodyWaitsOnAbandoned'
  BY <1>0, <1>5 DEF Start, MyTurn
<1>6. ASSUME NEW p \in Req, Skip(p) PROVE NobodyWaitsOnAbandoned'
  BY <1>0, <1>6 DEF Skip, MyTurn
<1>7. ASSUME NEW p \in Req, Settle(p) PROVE NobodyWaitsOnAbandoned'
  BY <1>0, <1>7 DEF Settle
<1>8. ASSUME NEW p \in Req, Forget(p) PROVE NobodyWaitsOnAbandoned'
  BY <1>0, <1>8 DEF Forget
<1>9. ASSUME NEW r \in Req, GetResult(r) PROVE NobodyWaitsOnAbandoned'
  BY <1>0, <1>9 DEF GetResult
<1>10. ASSUME NEW r \in Req, JoinerTimeout(r) PROVE NobodyWaitsOnAbandoned'
  BY <1>0, <1>10 DEF JoinerTimeout, DeadlinePasses
<1>11. ASSUME NEW r \in Req, Abandon(r) PROVE NobodyWaitsOnAbandoned'
  <2>1. Joiners(r) = {}
    BY <1>0, <1>11, FS_EmptySet DEF Abandon, MayAbandon, Counting
  <2>2. QED
    BY <1>0, <1>11, <2>1 DEF Abandon, Joiners, Joined
<1>12. ASSUME NEW r \in Req, AnswerEarly(r) PROVE NobodyWaitsOnAbandoned'
  BY <1>0, <1>12 DEF AnswerEarly, DeadlinePasses, MayAbandon
<1>13. ASSUME NEW r \in Req, BackgroundDone(r) PROVE NobodyWaitsOnAbandoned'
  BY <1>0, <1>13 DEF BackgroundDone
<1>14. ASSUME NEW r \in Req, OnTime(r) PROVE NobodyWaitsOnAbandoned'
  BY <1>0, <1>14 DEF OnTime
<1>15. CASE UNCHANGED vars \/ Quiet
  BY <1>0, <1>15 DEF vars, Quiet
<1>16. QED
  BY <1>1, <1>2, <1>3, <1>4, <1>5, <1>6, <1>7, <1>8, <1>9, <1>10, <1>11, <1>12, <1>13, <1>14, <1>15
     DEF Next, Request, Pipeline, Outcome

-----------------------------------------------------------------------------
LEMMA IInvInit == Init => IInv
<1> SUFFICES ASSUME Init PROVE IInv
  OBVIOUS
<1> USE NoneAssumption, CtxOfAssumption DEF Init, Exists
<1>1. TypeOK
  BY DEF TypeOK, Phase, Answer, Pipe
<1>2. Ownership /\ Endings /\ Line /\ Prefix /\ Links
  BY DEF Ownership, Endings, Line, Prefix, Links
<1>3. Tails /\ Slots /\ Admission /\ NobodyWaitsOnAbandoned
  BY DEF Tails, AllSettled, PipesOf, Slots, Live, Admission, NobodyWaitsOnAbandoned
<1>4. Counting
  <2>1. \A p \in Req : Joiners(p) = {}
    BY DEF Joiners, Joined
  <2>2. QED
    BY <2>1, FS_EmptySet DEF Counting
<1>5. QED
  BY <1>1, <1>2, <1>3, <1>4 DEF IInv

LEMMA IInvStep == IInv /\ [Next]_vars => IInv'
<1> SUFFICES ASSUME IInv, [Next]_vars PROVE IInv'
  OBVIOUS
<1>1. TypeOK'
  BY TypeStep DEF IInv
<1>2. Ownership' /\ Endings' /\ Line' /\ Prefix' /\ Links' /\ Tails'
  BY OwnershipStep, EndingsStep, LineStep, PrefixStep, LinksStep, TailsStep
<1>3. Slots' /\ Admission' /\ Counting' /\ NobodyWaitsOnAbandoned'
  BY SlotsStep, AdmissionStep, CountingStep, WaitersStep
<1>4. QED
  BY <1>1, <1>2, <1>3 DEF IInv

(* The inductive invariant holds in every state the queue can reach. *)
THEOREM Invariance == Spec => []IInv
  BY IInvInit, IInvStep, PTL DEF Spec

(* What the invariant says of any two pipelines of a context: the one      *)
(* before in the line is settled once the other has started.               *)
LEMMA Exclusion == IInv => OneRunningPerContext
<1> SUFFICES ASSUME IInv, NEW p \in Req, NEW q \in Req,
                    pipe[p] = "running", pipe[q] = "running",
                    CtxOfPipe(p) = CtxOfPipe(q), p # q
             PROVE FALSE
  BY DEF OneRunningPerContext
<1>1. p \in ahead[q] \/ q \in ahead[p]
  BY DEF IInv, Line, Exists
<1>2. QED
  BY <1>1 DEF IInv, Prefix, AllSettled, Settled

(* At most one pipeline of a context runs: the read of the stored context  *)
(* at its start and the write at its end are never interleaved with those  *)
(* of another review, for any number of reviews, keys and contexts.        *)
THEOREM MutualExclusion == Spec => []OneRunningPerContext
  BY Invariance, Exclusion, PTL

(* Pipelines of a context run in the order they were queued. *)
THEOREM InOrder == Spec => []RunsInOrder
<1>1. IInv => RunsInOrder
  BY DEF IInv, Prefix, AllSettled, RunsInOrder
<1>2. QED
  BY <1>1, Invariance, PTL

(* At most one pipeline with a given key may run. *)
THEOREM SharedPipeline == Spec => []OneLivePerKey
<1>1. IInv => OneLivePerKey
  BY DEF IInv, Slots, OneLivePerKey
<1>2. QED
  BY <1>1, Invariance, PTL

(* No waiter is stranded on a pipeline that was abandoned. *)
THEOREM NoStrandedWaiter == Spec => []NobodyWaitsOnAbandoned
<1>1. IInv => NobodyWaitsOnAbandoned
  BY DEF IInv
<1>2. QED
  BY <1>1, Invariance, PTL

(* A running pipeline keeps its owner admitted, so no core swap overtakes it. *)
THEOREM RunningPinsOwner == Spec => []RunningIsAdmitted
<1>1. IInv => RunningIsAdmitted
  BY DEF IInv, Admission, Endings, Live, Admitted, RunningIsAdmitted
<1>2. QED
  BY <1>1, Invariance, PTL

-----------------------------------------------------------------------------
(* The refinement.  With mutual exclusion, Holder is the running pipeline. *)
LEMMA HolderIs ==
    ASSUME TypeOK, OneRunningPerContext, NEW c \in Ctx
    PROVE  /\ \A p \in Running(c) : Holder[c] = p /\ p # None
           /\ Running(c) = {} => Holder[c] = None
<1>1. ASSUME NEW p \in Running(c) PROVE Running(c) = {p}
  BY <1>1 DEF OneRunningPerContext, Running
<1>2. ASSUME NEW p \in Running(c) PROVE Holder[c] = p /\ p # None
  BY <1>1, <1>2, NoneAssumption DEF Holder, HolderOf, Running
<1>3. QED
  BY <1>2 DEF Holder, HolderOf

(* A step that moves no pipeline leaves the lock alone. *)
LEMMA LockStutter ==
    ASSUME TypeOK,
           UNCHANGED ahead,
           \A p \in Req : Queued(p)' = Queued(p),
           \A c \in Ctx : InLine(c)' = InLine(c),
           \A c \in Ctx : Running(c)' = Running(c)
    PROVE  UNCHANGED Lock!vars
<1>1. Waiting' = Waiting /\ Holder' = Holder
  BY DEF Waiting, Holder
<1>2. Before' = Before
  <2>1. \A p \in Req : {q \in ahead'[p] : Queued(q)'} = {q \in ahead[p] : Queued(q)}
    BY DEF TypeOK
  <2>2. QED
    BY <2>1 DEF Before
<1>3. QED
  BY <1>1, <1>2 DEF Lock!vars

(* A pipeline that stops being queued leaves its line, and everyone behind *)
(* it moves up.                                                            *)
LEMMA LockLeave ==
    ASSUME TypeOK, NEW c \in Ctx, NEW p \in InLine(c),
           UNCHANGED <<ahead, key>>,
           ~ Queued(p)',
           \A q \in Req : q # p => Queued(q)' = Queued(q)
    PROVE  Lock!Leave(p, c)
<1> USE DEF InLine
<1>1. p \in Req /\ p \in Waiting[c]
  BY DEF Waiting
<1>2. Waiting' = [Waiting EXCEPT ![c] = @ \ {p}]
  <2>1. InLine(c)' = InLine(c) \ {p}
    BY DEF CtxOfPipe
  <2>2. \A d \in Ctx : d # c => InLine(d)' = InLine(d)
    BY DEF CtxOfPipe
  <2>3. QED
    BY <2>1, <2>2 DEF Waiting
<1>3. Before' = [q \in Req |-> IF q = p THEN {} ELSE Before[q] \ {p}]
  <2>1. \A q \in Req :
            {x \in ahead'[q] : Queued(x)'} = {x \in ahead[q] : Queued(x)} \ {p}
    BY <1>1 DEF TypeOK
  <2>2. \A q \in Req : Before'[q] = IF q = p THEN {} ELSE Before[q] \ {p}
    BY <1>1, <2>1 DEF Before
  <2>3. QED
    BY <2>2 DEF Before
<1>4. QED
  BY <1>1, <1>2, <1>3 DEF Lock!Leave

(* Queueing asks for the lock at the end of the line, starting acquires it *)
(* as the first, settling releases it, abandoning gives up; every other    *)
(* step stutters.                                                          *)
LEMMA LockStep ==
    /\ IInv /\ OneRunningPerContext
    /\ (IInv /\ OneRunningPerContext)'
    /\ [Next]_vars
    => [Lock!Next]_Lock!vars
<1> SUFFICES ASSUME IInv, OneRunningPerContext, IInv', OneRunningPerContext',
                    [Next]_vars
             PROVE [Lock!Next]_Lock!vars
  OBVIOUS
<1> USE NoneAssumption, CtxOfAssumption DEF reviews, pipelines, registry
<1>0. /\ TypeOK /\ TypeOK' /\ Ownership /\ Ownership' /\ Endings /\ Line /\ Prefix'
      /\ OneRunningPerContext /\ OneRunningPerContext'
  BY DEF IInv
<1>a. ASSUME NEW p \in Req, Exists(p) PROVE CtxOfPipe(p) \in Ctx
  BY <1>0, <1>a DEF Ownership, CtxOfPipe
<1>1. ASSUME NEW r \in Req, NEW k \in Key, Queue(r, k) PROVE Lock!Next
  <2> DEFINE c == CtxOf[k]
  <2>1. ~ Exists(r) /\ c \in Ctx
    BY <1>0, <1>1 DEF Queue, Ownership
  <2>a. Queued(r)' /\ ~ Queued(r) /\ \A q \in Req : q # r => Queued(q)' = Queued(q)
    <3>1. r \notin abandoned
      BY <1>0, <2>1 DEF Endings, Exists
    <3>2. QED
      BY <1>0, <1>1, <2>1, <3>1 DEF Queue, Queued, TypeOK, Exists
  <2>b. \A q \in Req : q # r => CtxOfPipe(q)' = CtxOfPipe(q)
    BY <1>0, <1>1 DEF Queue, CtxOfPipe, TypeOK
  <2>c. CtxOfPipe(r)' = c
    BY <1>0, <1>1 DEF Queue, CtxOfPipe, TypeOK
  <2>2. Waiting' = [Waiting EXCEPT ![c] = @ \cup {r}]
    <3>2. InLine(c)' = InLine(c) \cup {r}
      BY <2>a, <2>b, <2>c DEF InLine
    <3>3. \A d \in Ctx : d # c => InLine(d)' = InLine(d)
      BY <2>a, <2>b, <2>c DEF InLine
    <3>4. QED
      BY <2>1, <3>2, <3>3 DEF Waiting
  <2>d. Before' = [Before EXCEPT ![r] = Waiting[c]]
    <3>1. {q \in ahead'[r] : Queued(q)'} = InLine(c)
      <4>1. ahead'[r] = {q \in Req : pipe[q] # "none" /\ CtxOfPipe(q) = c}
        BY <1>0, <1>1 DEF Queue, TypeOK
      <4>2. r \notin ahead'[r]
        BY <2>1, <4>1 DEF Exists
      <4>3. QED
        BY <2>a, <4>1, <4>2 DEF InLine, Queued
    <3>2. ASSUME NEW p \in Req, p # r
          PROVE Before'[p] = Before[p]
      <4>1. CASE ~ Queued(p)
        BY <2>a, <3>2, <4>1 DEF Before
      <4>2. CASE Queued(p)
        <5>1. ahead'[p] = ahead[p]
          BY <1>0, <1>1, <3>2 DEF Queue, TypeOK
        <5>2. ahead[p] \subseteq Req /\ r \notin ahead[p]
          BY <1>0, <2>1, <4>2 DEF Line, PipesOf, Queued, Exists
        <5>3. {q \in ahead'[p] : Queued(q)'} = {q \in ahead[p] : Queued(q)}
          BY <2>a, <5>1, <5>2
        <5>4. QED
          BY <2>a, <3>2, <4>2, <5>3 DEF Before
      <4>3. QED
        BY <4>1, <4>2
    <3>3. Before'[r] = Waiting[c]
      BY <2>1, <2>a, <3>1 DEF Before, Waiting
    <3>4. QED
      BY <3>2, <3>3 DEF Before
  <2>3. Holder' = Holder
    <3>1. \A d \in Ctx : Running(d)' = Running(d)
      BY <1>0, <1>1, <2>1 DEF Queue, Running, TypeOK, Exists, CtxOfPipe
    <3>2. QED
      BY <3>1 DEF Holder
  <2>4. \A d \in Ctx : r \notin Waiting[d] /\ Holder[d] # r
    <3>1. ASSUME NEW d \in Ctx PROVE r \notin Waiting[d] /\ r \notin Running(d)
      BY <2>1, <2>a DEF Waiting, InLine, Running, Exists
    <3>2. ASSUME NEW d \in Ctx PROVE Holder[d] # r
      <4>1. CASE Running(d) = {}
        BY <4>1, <1>0, HolderIs
      <4>2. ASSUME NEW q \in Running(d) PROVE Holder[d] = q
        BY <4>2, <1>0, HolderIs
      <4>3. QED
        BY <3>1, <4>1, <4>2
    <3>3. QED
      BY <3>1, <3>2
  <2>5. Lock!Ask(r, c)
    BY <2>2, <2>3, <2>4, <2>d DEF Lock!Ask
  <2>6. QED
    BY <2>1, <2>5 DEF Lock!Next
<1>2. ASSUME NEW p \in Req, Start(p) PROVE Lock!Next
  <2>1. PICK c \in Ctx : c = CtxOfPipe(p)
    BY <1>a, <1>2 DEF Start, MyTurn, Exists
  <2>2. Running(c)' = Running(c) \cup {p} /\ p \notin Running(c)
    BY <1>0, <1>2, <2>1 DEF Start, MyTurn, Running, TypeOK, CtxOfPipe
  <2>3. Running(c) = {}
    BY <1>0, <2>2 DEF OneRunningPerContext, Running
  <2>4. Holder[c] = None /\ Holder'[c] = p
    <3>1. Running(c)' = {p}
      BY <2>2, <2>3
    <3>2. QED
      BY <1>0, <2>1, <2>3, <3>1, NoneAssumption DEF Holder, HolderOf
  <2>5. Holder' = [Holder EXCEPT ![c] = p]
    <3>1. \A d \in Ctx : d # c => Running(d)' = Running(d)
      BY <1>0, <1>2, <2>1 DEF Start, Running, TypeOK, CtxOfPipe
    <3>2. QED
      BY <2>1, <2>4, <3>1 DEF Holder
  <2>6. Lock!Leave(p, c)
    <3>1. p \in InLine(c)
      BY <1>2, <2>1 DEF Start, MyTurn, InLine, Queued
    <3>2. UNCHANGED <<ahead, key>>
      BY <1>2 DEF Start
    <3>3. ~ Queued(p)' /\ \A q \in Req : q # p => Queued(q)' = Queued(q)
      BY <1>0, <1>2 DEF Start, Queued, TypeOK
    <3>4. QED
      BY <1>0, <3>1, <3>2, <3>3, LockLeave
  <2>7. Before[p] = {}
    <3>1. AllSettled(ahead[p])'
      BY <1>0, <1>2 DEF Start, Prefix, TypeOK
    <3>2. \A q \in ahead[p] : Settled(q)
      <4>1. p \notin ahead[p]
        BY <1>0, <1>2, <3>1 DEF Start, AllSettled, Settled, TypeOK
      <4>2. ahead[p] \subseteq Req
        BY <1>0 DEF TypeOK
      <4>3. QED
        BY <1>0, <1>2, <3>1, <4>1, <4>2 DEF Start, AllSettled, Settled, TypeOK
    <3>3. QED
      BY <3>2 DEF Before, Queued, Settled
  <2>8. Lock!Acquire(p, c)
    BY <2>4, <2>5, <2>6, <2>7 DEF Lock!Acquire
  <2>9. QED
    BY <2>1, <2>8 DEF Lock!Next
<1>3. ASSUME NEW p \in Req, Settle(p) PROVE Lock!Next
  <2>1. PICK c \in Ctx : c = CtxOfPipe(p)
    BY <1>a, <1>3 DEF Settle, Exists
  <2>2. p \in Running(c) /\ Running(c)' = Running(c) \ {p}
    BY <1>0, <1>3, <2>1 DEF Settle, Running, TypeOK, CtxOfPipe
  <2>3. Running(c)' = {}
    BY <1>0, <2>2 DEF OneRunningPerContext, Running
  <2>4. Holder[c] # None /\ Holder'[c] = None
    BY <1>0, <2>1, <2>2, <2>3, HolderIs DEF Holder, HolderOf
  <2>5. Holder' = [Holder EXCEPT ![c] = None]
    <3>1. \A d \in Ctx : d # c => Running(d)' = Running(d)
      BY <1>0, <1>3, <2>1 DEF Settle, Running, TypeOK, CtxOfPipe
    <3>2. QED
      BY <2>1, <2>4, <3>1 DEF Holder
  <2>6. Waiting' = Waiting /\ Before' = Before
    <3>1. \A q \in Req : Queued(q)' = Queued(q)
      BY <1>0, <1>3 DEF Settle, Queued, TypeOK
    <3>2. \A q \in Req : {x \in ahead'[q] : Queued(x)'} = {x \in ahead[q] : Queued(x)}
      BY <1>0, <1>3, <3>1 DEF Settle, TypeOK
    <3>3. QED
      BY <1>3, <3>1, <3>2 DEF Settle, Waiting, InLine, CtxOfPipe, Before
  <2>7. Lock!Release(c)
    BY <2>4, <2>5, <2>6 DEF Lock!Release
  <2>8. QED
    BY <2>1, <2>7 DEF Lock!Next
<1>4. ASSUME NEW r \in Req, Abandon(r) PROVE Lock!Next \/ UNCHANGED Lock!vars
  <2>0. pipe[r] = "queued"
    BY <1>4 DEF Abandon, MayAbandon
  <2>1. PICK c \in Ctx : c = CtxOfPipe(r)
    BY <1>a, <2>0 DEF Exists
  <2>2. \A d \in Ctx : Running(d)' = Running(d)
    BY <1>4 DEF Abandon, Running, CtxOfPipe
  <2>3. Holder' = Holder
    BY <2>2 DEF Holder
  <2>4. Lock!Leave(r, c)
    <3>1. r \in InLine(c)
      BY <1>4, <1>0, <2>0, <2>1 DEF Abandon, DeadlinePasses, InLine, Queued, IInv,
                              NobodyWaitsOnAbandoned
    <3>2. UNCHANGED <<ahead, key>>
      BY <1>4 DEF Abandon
    <3>3. ~ Queued(r)' /\ \A q \in Req : q # r => Queued(q)' = Queued(q)
      BY <1>4 DEF Abandon, Queued
    <3>4. QED
      BY <1>0, <3>1, <3>2, <3>3, LockLeave
  <2>6. Lock!GiveUp(r, c)
    BY <2>3, <2>4 DEF Lock!GiveUp
  <2>7. QED
    BY <2>1, <2>6 DEF Lock!Next
<1>5. ASSUME NEW r \in Req, NEW k \in Key, Join(r, k) PROVE UNCHANGED Lock!vars
  <2>1. ~ Exists(r)
    BY <1>0, <1>5 DEF Join, Ownership
  <2>2. /\ UNCHANGED ahead
        /\ \A p \in Req : Queued(p)' = Queued(p)
        /\ \A c \in Ctx : InLine(c)' = InLine(c)
        /\ \A c \in Ctx : Running(c)' = Running(c)
    BY <1>0, <1>5, <2>1 DEF Join, Queued, InLine, Running, TypeOK, Exists, CtxOfPipe
  <2>3. QED
    BY <1>0, <2>2, LockStutter
<1>6. ASSUME NEW p \in Req, Skip(p) \/ Forget(p) PROVE UNCHANGED Lock!vars
  <2>1. /\ UNCHANGED ahead
        /\ \A q \in Req : Queued(q)' = Queued(q)
        /\ \A c \in Ctx : Running(c)' = Running(c)
    BY <1>0, <1>6 DEF Skip, MyTurn, Forget, Queued, Running, TypeOK, CtxOfPipe
  <2>2. \A c \in Ctx : InLine(c)' = InLine(c)
    BY <1>6, <2>1 DEF Skip, Forget, InLine, CtxOfPipe
  <2>3. QED
    BY <1>0, <2>1, <2>2, LockStutter
<1>7. ASSUME UNCHANGED <<pipe, key, abandoned, ahead>> PROVE UNCHANGED Lock!vars
  <2>1. /\ \A q \in Req : Queued(q)' = Queued(q)
        /\ \A c \in Ctx : InLine(c)' = InLine(c)
        /\ \A c \in Ctx : Running(c)' = Running(c)
    BY <1>7 DEF Queued, InLine, Running, CtxOfPipe
  <2>2. QED
    BY <1>0, <1>7, <2>1, LockStutter
<1>8. ASSUME NEW r \in Req,
             \/ Arrive(r) \/ Refuse(r) \/ GetResult(r) \/ JoinerTimeout(r)
             \/ AnswerEarly(r) \/ BackgroundDone(r) \/ OnTime(r)
      PROVE UNCHANGED <<pipe, key, abandoned, ahead>>
  BY <1>8 DEF Arrive, Refuse, GetResult, JoinerTimeout, AnswerEarly,
              BackgroundDone, OnTime
<1>9. CASE UNCHANGED vars \/ Quiet
  BY <1>7, <1>9 DEF vars, Quiet
<1>10. QED
  BY <1>1, <1>2, <1>3, <1>4, <1>5, <1>6, <1>7, <1>8, <1>9
     DEF Next, Request, Pipeline, Outcome

(* The promise chain implements the lock: for every instance, a pipeline   *)
(* holds its context alone and gets it as the first of its line, in which  *)
(* everyone keeps the place they asked for but for those who leave.        *)
THEOREM ImplementsLock == Spec => LockSafety
<1>1. Init => Lock!Init
  <2> SUFFICES ASSUME Init PROVE Lock!Init
    OBVIOUS
  <2>1. Waiting = [c \in Ctx |-> {}] /\ \A c \in Ctx : Running(c) = {}
    BY DEF Init, Waiting, InLine, Running, Queued
  <2>2. Before = [p \in Req |-> {}]
    BY DEF Init, Before, Queued
  <2>3. QED
    BY <2>1, <2>2 DEF Lock!Init, Holder, HolderOf
<1>2. QED
  BY <1>1, Invariance, MutualExclusion, LockStep, PTL DEF Spec, LockSafety, Lock!Spec
=============================================================================
