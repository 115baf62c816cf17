------------------------ MODULE ReloadAdmissionProofs ------------------------
(***************************************************************************)
(* Proofs about ReloadController that follow the reviews: who waits and    *)
(* who runs, how many run on which core, and so which cores must live and  *)
(* when a pending reload is applied.  The two numbers the code keeps, the  *)
(* active reviews and each core's pins, are the sizes of sets of requests; *)
(* everything else rests on that.                                          *)
(***************************************************************************)
EXTENDS ReloadControllerProofs, FiniteSetTheorems, SequenceTheorems

Admitted == {r \in Review : phase[r] = "admitted"}
RunningOn(c) == {r \in Review : ticket[r] # None /\ ticket[r].core = c}
VisitingOn(c) == {v \in Visitor : visit[v] = c}

\* The numbers are the sizes of sets.
Counted ==
    /\ phase \in [Review -> Phase]
    /\ visit \in [Visitor -> Core \cup {None}]
    /\ pins \in [Core -> Nat]
    /\ \A r \in Review : phase[r] = "admitted" <=> ticket[r] # None
    /\ IsFiniteSet(Admitted)
    /\ active = Cardinality(Admitted)
    /\ \A c \in Core :
          /\ IsFiniteSet(VisitingOn(c))
          /\ pins[c] = Cardinality(RunningOn(c)) + Cardinality(VisitingOn(c))

InQueue(r) == \E i \in DOMAIN waiters : waiters[i].review = r

\* The queue holds every waiting review, once.
Queued ==
    /\ waiters \in Seq(Waiter)
    /\ \A i, j \in DOMAIN waiters :
          waiters[i].review = waiters[j].review => i = j
    /\ \A r \in Review : phase[r] = "waiting" <=> InQueue(r)

\* Who is held waits behind whoever is not.
Sorted == \A i, j \in DOMAIN waiters : i <= j /\ Held(i) => Held(j)

\* A hold has a reload it holds for; once it began, everyone who comes is
\* held, and with the gate open nobody else is left.
HoldState ==
    /\ holding \in BOOLEAN /\ armed \in BOOLEAN
    /\ holding => pending # None
    /\ holding => Sorted
    /\ ~holding /\ armed => \A i \in DOMAIN waiters : ~Held(i)
    /\ gate = "open" =>
          \A i \in DOMAIN waiters : holding /\ Held(i)

\* A rollback brings no core of its own.
NoCoreToRollBack ==
    pending # None /\ pending.kind = "rollback" => pending.core = None

AInv ==
    /\ IInv /\ Counted /\ Queued /\ HoldState /\ NoCoreToRollBack
    /\ CoresLive /\ PendingIsApplied
----------------------------------------------------------------------------
(* Sets and numbers.                                                       *)

LEMMA LeastOf ==
    ASSUME NEW S \in SUBSET Nat, S # {}
    PROVE  \E m \in S : \A k \in S : m <= k
<1>1. PICK m \in S : \A k \in S : ~(<<k, m>> \in OpToRel(<, Nat))
  BY WFMin, NatLessThanWellFounded
<1>2. \A k \in S : ~(k < m)
  BY <1>1 DEF OpToRel
<1> QED
  BY <1>2

\* A core is pinned by nobody if no set of those who pin it has a member.
LEMMA NobodyPins ==
    ASSUME NEW S, NEW T, IsFiniteSet(S), IsFiniteSet(T)
    PROVE  Cardinality(S) + Cardinality(T) = 0 <=> S = {} /\ T = {}
BY FS_EmptySet, FS_CardinalityType

LEMMA DisjointUnion ==
    ASSUME NEW S, NEW T, IsFiniteSet(S), IsFiniteSet(T), S \cap T = {}
    PROVE  /\ IsFiniteSet(S \cup T)
           /\ Cardinality(S \cup T) = Cardinality(S) + Cardinality(T)
BY FS_Union, FS_EmptySet, FS_CardinalityType

----------------------------------------------------------------------------
(* Admission.                                                              *)

\* Whoever ran on a core still does, and whoever is new runs on the current.
Grows ==
    \A c \in Core :
        /\ InUse(c) => InUse(c)'
        /\ InUse(c)' => InUse(c) \/ c = current'

\* No review is over.
NoneOver == \A r \in Review : phase[r] = "admitted" => phase'[r] = "admitted"

\* Reviews that do not run are admitted (issue, for each of them).
LEMMA AdmitCounts ==
    ASSUME TicketTypes, Counted, NEW rs \in SUBSET Review, IsFiniteSet(rs),
           \A r \in rs : phase[r] # "admitted",
           Admit(rs), visit' = visit, current' \in Core, running' \in Config
    PROVE  Counted' /\ Grows /\ NoneOver
<1> DEFINE new == [core |-> current', config |-> running']
<1>1. /\ \A r \in Review : phase'[r] = IF r \in rs THEN "admitted" ELSE phase[r]
      /\ \A r \in Review : ticket'[r] = IF r \in rs THEN new ELSE ticket[r]
      /\ phase' \in [Review -> Phase]
  BY DEF Admit, Counted, Phase
<1>2. new # None /\ new.core = current'
  <2>1. new \in Ticket
    BY DEF Ticket
  <2> QED
    BY <2>1, NoRecordAssumption
<1> HIDE DEF new
<1>3. \A r \in rs : ticket[r] = None
  BY DEF Counted
<1>4. Admitted' = Admitted \cup rs /\ Admitted \cap rs = {}
  BY <1>1 DEF Admitted
<1>5. /\ IsFiniteSet(Admitted')
      /\ active' = Cardinality(Admitted')
  <2>1. /\ IsFiniteSet(Admitted \cup rs)
        /\ Cardinality(Admitted \cup rs) = Cardinality(Admitted) + Cardinality(rs)
    BY <1>4, DisjointUnion DEF Counted
  <2> QED
    BY <1>4, <2>1 DEF Counted, Admit
<1>6. \A r \in Review : phase'[r] = "admitted" <=> ticket'[r] # None
  BY <1>1, <1>2 DEF Counted
<1>7. Cardinality(rs) \in Nat
  BY FS_CardinalityType
<1>8. pins' \in [Core -> Nat]
  BY <1>7 DEF Admit, Counted
<1>9. ASSUME NEW c \in Core
      PROVE  /\ IsFiniteSet(VisitingOn(c)')
             /\ pins'[c] = Cardinality(RunningOn(c)') + Cardinality(VisitingOn(c)')
  <2>1. VisitingOn(c)' = VisitingOn(c) /\ IsFiniteSet(VisitingOn(c))
    BY DEF VisitingOn, Counted
  <2>2. IsFiniteSet(RunningOn(c)) /\ RunningOn(c) \cap rs = {}
    <3>1. RunningOn(c) \in SUBSET Admitted
      BY DEF RunningOn, Admitted, Counted
    <3> QED
      BY <1>3, <3>1, FS_Subset DEF RunningOn, Counted
  <2>3. CASE c = current'
    <3>1. RunningOn(c)' = RunningOn(c) \cup rs
      BY <1>1, <1>2, <2>3 DEF RunningOn
    <3>2. Cardinality(RunningOn(c) \cup rs) =
            Cardinality(RunningOn(c)) + Cardinality(rs)
      BY <2>2, DisjointUnion
    <3>3. pins'[c] = pins[c] + Cardinality(rs)
      BY <2>3 DEF Admit, Counted
    <3>4. Cardinality(RunningOn(c)) \in Nat /\ Cardinality(VisitingOn(c)) \in Nat
      BY <2>1, <2>2, FS_CardinalityType
    <3> QED
      BY <1>7, <2>1, <3>1, <3>2, <3>3, <3>4 DEF Counted
  <2>4. CASE c # current'
    <3>1. RunningOn(c)' = RunningOn(c)
      BY <1>1, <1>2, <1>3, <2>4 DEF RunningOn
    <3>2. pins'[c] = pins[c]
      BY <2>4 DEF Admit, Counted
    <3> QED
      BY <2>1, <3>1, <3>2 DEF Counted
  <2> QED
    BY <2>3, <2>4
<1>10. visit' \in [Visitor -> Core \cup {None}]
  BY DEF Counted
<1>11. Counted'
  BY <1>1, <1>5, <1>6, <1>8, <1>9, <1>10 DEF Counted
<1>12. Grows
  BY <1>1, <1>2, <1>3 DEF Grows, InUse
<1>13. NoneOver
  BY <1>1 DEF NoneOver
<1> QED
  BY <1>11, <1>12, <1>13

\* Nobody comes or goes.
LEMMA SameCounts ==
    ASSUME Counted, UNCHANGED <<phase, ticket, active, pins, visit>>
    PROVE  Counted' /\ Grows /\ NoneOver
BY DEF Counted, Admitted, RunningOn, VisitingOn, Grows, InUse, NoneOver

\* A review begins or ends to wait.
LEMMA WaitCounts ==
    ASSUME Counted, UNCHANGED <<ticket, active, pins, visit>>,
           NEW r \in Review, phase[r] # "admitted",
           NEW s \in {"idle", "waiting"}, phase' = [phase EXCEPT ![r] = s]
    PROVE  Counted' /\ Grows /\ NoneOver
<1>1. phase' \in [Review -> Phase] /\ Admitted' = Admitted
  BY DEF Counted, Admitted, Phase
<1>2. \A q \in Review : phase'[q] = "admitted" <=> phase[q] = "admitted"
  BY DEF Counted
<1> QED
  BY <1>1, <1>2 DEF Counted, RunningOn, VisitingOn, Grows, InUse, NoneOver

\* A review is over.
LEMMA ReleaseCounts ==
    ASSUME TicketTypes, Counted, NEW r \in Review, Release(r)
    PROVE  /\ Counted'
           /\ \A c \in Core :
                 /\ InUse(c) => InUse(c)' \/ c = ticket[r].core
                 /\ InUse(c)' => InUse(c)
           /\ active' # 0 => \E q \in Review : phase'[q] = "admitted"
<1>1. /\ phase[r] = "admitted" /\ ticket[r] # None /\ ticket[r].core \in Core
      /\ phase' = [phase EXCEPT ![r] = "idle"]
      /\ ticket' = [ticket EXCEPT ![r] = None]
      /\ active' = active - 1
      /\ pins' = [pins EXCEPT ![ticket[r].core] = @ - 1]
      /\ visit' = visit
  BY DEF Release, Counted, TicketTypes, Ticket
<1> DEFINE k == ticket[r].core
<1>2. \A q \in Review : /\ phase'[q] = IF q = r THEN "idle" ELSE phase[q]
                        /\ ticket'[q] = IF q = r THEN None ELSE ticket[q]
  BY <1>1 DEF Counted, TicketTypes
<1>3. phase' \in [Review -> Phase] /\ visit' \in [Visitor -> Core \cup {None}]
  BY <1>1 DEF Counted, Phase
<1>4. \A q \in Review : phase'[q] = "admitted" <=> ticket'[q] # None
  BY <1>2 DEF Counted
<1>5. Admitted' = Admitted \ {r} /\ r \in Admitted
  BY <1>1, <1>2 DEF Admitted
<1>6. /\ IsFiniteSet(Admitted')
      /\ active' = Cardinality(Admitted')
  <2>1. /\ IsFiniteSet(Admitted \ {r})
        /\ Cardinality(Admitted \ {r}) = Cardinality(Admitted) - 1
    BY <1>5, FS_RemoveElement DEF Counted
  <2> QED
    BY <1>1, <1>5, <2>1 DEF Counted
<1>7. ASSUME NEW c \in Core
      PROVE  /\ IsFiniteSet(VisitingOn(c)')
             /\ pins'[c] \in Nat
             /\ pins'[c] = Cardinality(RunningOn(c)') + Cardinality(VisitingOn(c)')
  <2>1. VisitingOn(c)' = VisitingOn(c) /\ IsFiniteSet(VisitingOn(c))
    BY <1>1 DEF VisitingOn, Counted
  <2>2. IsFiniteSet(RunningOn(c))
    <3>1. RunningOn(c) \in SUBSET Admitted
      BY DEF RunningOn, Admitted, Counted
    <3> QED
      BY <3>1, FS_Subset DEF Counted
  <2>3. Cardinality(RunningOn(c)) \in Nat /\ Cardinality(VisitingOn(c)) \in Nat
    BY <2>1, <2>2, FS_CardinalityType
  <2>4. RunningOn(c)' = RunningOn(c) \ {r}
    BY <1>2 DEF RunningOn
  <2>5. CASE c = k
    <3>1. r \in RunningOn(c)
      BY <1>1, <2>5 DEF RunningOn
    <3>2. /\ Cardinality(RunningOn(c) \ {r}) = Cardinality(RunningOn(c)) - 1
          /\ Cardinality(RunningOn(c) \ {r}) \in Nat
      BY <2>2, <3>1, FS_RemoveElement, FS_CardinalityType
    <3>3. pins'[c] = pins[c] - 1
      BY <1>1, <2>5 DEF Counted
    <3> QED
      BY <2>1, <2>3, <2>4, <3>2, <3>3 DEF Counted
  <2>6. CASE c # k
    <3>1. RunningOn(c)' = RunningOn(c)
      BY <2>4, <2>6 DEF RunningOn
    <3>2. pins'[c] = pins[c]
      BY <1>1, <2>6 DEF Counted
    <3> QED
      BY <2>1, <3>1, <3>2 DEF Counted
  <2> QED
    BY <2>5, <2>6
<1>8. pins' \in [Core -> Nat]
  BY <1>1, <1>7 DEF Counted
<1>9. Counted'
  BY <1>3, <1>4, <1>6, <1>7, <1>8 DEF Counted
<1>10. \A c \in Core : /\ InUse(c) => InUse(c)' \/ c = k
                       /\ InUse(c)' => InUse(c)
  BY <1>1, <1>2 DEF InUse
<1>11. active' # 0 => \E q \in Review : phase'[q] = "admitted"
  BY <1>6, FS_EmptySet DEF Admitted
<1> QED
  BY <1>9, <1>10, <1>11

\* Another request begins or ends.
LEMMA VisitCounts ==
    ASSUME Counted, current \in Core, None \notin Core,
           NEW v \in Visitor, Visit(v) \/ EndVisit(v)
    PROVE  /\ Counted'
           /\ \A c \in Core :
                 /\ InUse(c) => InUse(c)' \/ c = visit[v]
                 /\ InUse(c)' => InUse(c) \/ c = current
<1>1. UNCHANGED <<phase, ticket, active>>
  BY DEF Visit, EndVisit, admission
<1>2. PICK k \in Core :
        \/ /\ visit[v] = None /\ k = current
           /\ visit' = [visit EXCEPT ![v] = k]
           /\ pins' = [pins EXCEPT ![k] = @ + 1]
        \/ /\ visit[v] = k
           /\ visit' = [visit EXCEPT ![v] = None]
           /\ pins' = [pins EXCEPT ![k] = @ - 1]
  <2>1. CASE Visit(v)
    BY <2>1 DEF Visit
  <2>2. CASE EndVisit(v)
    BY <2>2 DEF EndVisit, Counted
  <2> QED
    BY <2>1, <2>2
<1>3. visit' \in [Visitor -> Core \cup {None}]
  BY <1>2 DEF Counted
<1>4. \A u \in Visitor : u # v => visit'[u] = visit[u]
  BY <1>2 DEF Counted
<1>5. \/ visit[v] = None /\ visit'[v] = k /\ k = current
      \/ visit[v] = k /\ visit'[v] = None
  BY <1>2 DEF Counted
<1>6. ASSUME NEW c \in Core
      PROVE  /\ IsFiniteSet(VisitingOn(c)')
             /\ pins'[c] \in Nat
             /\ pins'[c] = Cardinality(RunningOn(c)') + Cardinality(VisitingOn(c)')
  <2>1. RunningOn(c)' = RunningOn(c) /\ IsFiniteSet(VisitingOn(c))
    BY <1>1 DEF RunningOn, Counted
  <2>2. IsFiniteSet(RunningOn(c))
    <3>1. RunningOn(c) \in SUBSET Admitted
      BY DEF RunningOn, Admitted, Counted
    <3> QED
      BY <3>1, FS_Subset DEF Counted
  <2>3. Cardinality(RunningOn(c)) \in Nat /\ Cardinality(VisitingOn(c)) \in Nat
    BY <2>1, <2>2, FS_CardinalityType
  <2>4. CASE c # k
    <3>1. VisitingOn(c)' = VisitingOn(c)
      BY <1>4, <1>5, <2>4 DEF VisitingOn
    <3>2. pins'[c] = pins[c]
      BY <1>2, <2>4 DEF Counted
    <3> QED
      BY <2>1, <3>1, <3>2 DEF Counted
  <2>5. CASE c = k /\ visit[v] = None
    <3>1. VisitingOn(c)' = VisitingOn(c) \cup {v} /\ v \notin VisitingOn(c)
      BY <1>4, <1>5, <2>5 DEF VisitingOn
    <3>2. /\ IsFiniteSet(VisitingOn(c) \cup {v})
          /\ Cardinality(VisitingOn(c) \cup {v}) = Cardinality(VisitingOn(c)) + 1
      BY <2>1, <3>1, FS_AddElement
    <3>3. pins'[c] = pins[c] + 1
      BY <1>2, <2>5 DEF Counted
    <3> QED
      BY <2>1, <2>3, <3>1, <3>2, <3>3 DEF Counted
  <2>6. CASE c = k /\ visit[v] = k
    <3>1. VisitingOn(c)' = VisitingOn(c) \ {v} /\ v \in VisitingOn(c)
      BY <1>4, <1>5, <2>6 DEF VisitingOn
    <3>2. /\ IsFiniteSet(VisitingOn(c) \ {v})
          /\ Cardinality(VisitingOn(c) \ {v}) = Cardinality(VisitingOn(c)) - 1
          /\ Cardinality(VisitingOn(c) \ {v}) \in Nat
      BY <2>1, <3>1, FS_RemoveElement, FS_CardinalityType
    <3>3. pins'[c] = pins[c] - 1
      BY <1>2, <2>6 DEF Counted
    <3> QED
      BY <2>1, <2>3, <3>1, <3>2, <3>3 DEF Counted
  <2> QED
    BY <1>5, <2>4, <2>5, <2>6
<1>7. pins' \in [Core -> Nat]
  BY <1>2, <1>6 DEF Counted
<1>8. Counted'
  BY <1>1, <1>3, <1>6, <1>7 DEF Counted, Admitted
<1>9. \A c \in Core : /\ InUse(c) => InUse(c)' \/ c = visit[v]
                      /\ InUse(c)' => InUse(c) \/ c = current
  BY <1>1, <1>4, <1>5 DEF InUse
<1> QED
  BY <1>8, <1>9

\* Who is ready is a stretch at the head of the queue.
LEMMA ReadyIsPrefix ==
    ASSUME waiters \in Seq(Waiter), holding' \in BOOLEAN
    PROVE  \E n \in 0 .. Len(waiters) :
              /\ Ready = 1 .. n
              /\ IsFiniteSet(1 .. n) /\ Cardinality(1 .. n) = n
              /\ n < Len(waiters) => holding' /\ Held(n + 1)
<1> DEFINE stops == {i \in 1 .. Len(waiters) : holding' /\ Held(i)}
<1>1. Len(waiters) \in Nat /\ DOMAIN waiters = 1 .. Len(waiters)
  BY LenProperties
<1>2. PICK n \in 0 .. Len(waiters) :
         /\ \A i \in 1 .. n : ~(holding' /\ Held(i))
         /\ n < Len(waiters) => holding' /\ Held(n + 1)
  <2>1. CASE stops = {}
    BY <1>1, <2>1
  <2>2. CASE stops # {}
    <3>1. stops \in SUBSET Nat
      BY <1>1
    <3>2. PICK m \in stops : \A k \in stops : m <= k
      BY <2>2, <3>1, LeastOf
    <3>3. m \in 1 .. Len(waiters) /\ holding' /\ Held(m)
      BY <3>2
    <3>4. \A i \in 1 .. (m - 1) : ~(holding' /\ Held(i))
      BY <1>1, <3>2, <3>3
    <3>5. m - 1 \in 0 .. Len(waiters) /\ (m - 1) + 1 = m
      BY <1>1, <3>3
    <3> QED
      BY <3>3, <3>4, <3>5
  <2> QED
    BY <2>1, <2>2
<1>3. Ready = 1 .. n
  <2>1. ASSUME NEW i \in 1 .. n PROVE i \in Ready
    BY <1>1, <1>2 DEF Ready
  <2>2. ASSUME NEW i \in Ready PROVE i \in 1 .. n
    <3>1. i \in 1 .. Len(waiters) /\ \A j \in 1 .. i : ~(holding' /\ Held(j))
      BY <1>1 DEF Ready
    <3>2. ~(n < i)
      <4> SUFFICES ASSUME n < i PROVE FALSE
        OBVIOUS
      <4>1. n < Len(waiters) /\ n + 1 \in 1 .. i
        BY <1>1, <3>1
      <4> QED
        BY <1>2, <3>1, <4>1
    <3> QED
      BY <1>1, <3>1, <3>2
  <2> QED
    BY <2>1, <2>2
<1>4. IsFiniteSet(1 .. n) /\ Cardinality(1 .. n) = n
  BY <1>1, FS_Interval
<1> QED
  BY <1>2, <1>3, <1>4

\* What is left when the first n of a queue went in.
LEMMA RestOf ==
    ASSUME NEW S, NEW w \in Seq(S), NEW n \in 0 .. Len(w), NEW rest,
           rest = SubSeq(w, n + 1, Len(w))
    PROVE  /\ rest \in Seq(S)
           /\ DOMAIN rest = 1 .. (Len(w) - n)
           /\ \A i \in 1 .. (Len(w) - n) : rest[i] = w[n + i]
<1> DEFINE sub == SubSeq(w, n + 1, Len(w))
           l == Len(w)
<1>1. l \in Nat /\ \A i \in 1 .. l : w[i] \in S
  BY LenProperties
<1>2. /\ sub \in Seq(S)
      /\ Len(sub) = IF n + 1 <= l THEN l - (n + 1) + 1 ELSE 0
      /\ \A i \in 1 .. l - (n + 1) + 1 : sub[i] = w[(n + 1) + i - 1]
  <2>1. n + 1 \in Int /\ l \in Int /\ \A i \in (n + 1) .. l : w[i] \in S
    BY <1>1
  <2> QED
    BY <2>1, SubSeqProperties
<1>3. rest = sub /\ n \in 0 .. l
  OBVIOUS
<1> SUFFICES /\ sub \in Seq(S)
             /\ DOMAIN sub = 1 .. (l - n)
             /\ \A i \in 1 .. (l - n) : sub[i] = w[n + i]
  BY <1>3
<1> HIDE DEF sub, l
<1>4. Len(sub) = l - n
  BY <1>1, <1>2, <1>3
<1>5. DOMAIN sub = 1 .. (l - n)
  BY <1>2, <1>4, LenProperties
<1>6. ASSUME NEW i \in 1 .. (l - n) PROVE sub[i] = w[n + i]
  <2>1. i \in 1 .. l - (n + 1) + 1 /\ (n + 1) + i - 1 = n + i
    BY <1>1, <1>3
  <2> QED
    BY <1>2, <2>1
<1> QED
  BY <1>2, <1>5, <1>6

\* What a dispatch leaves behind it.
Calm ==
    /\ gate' = "open" => \A i \in DOMAIN waiters' : holding'
    /\ gate' = "open" /\ (holding' => Sorted) =>
          \A i \in DOMAIN waiters' : waiters'[i].held
    /\ gate' # "open" => waiters' = waiters

LEMMA Dispatched ==
    ASSUME TicketTypes, Counted, Queued, Dispatch, holding' \in BOOLEAN,
           visit' = visit, current' \in Core, running' \in Config
    PROVE  Counted' /\ Grows /\ NoneOver /\ Queued' /\ Calm
<1>1. CASE gate' # "open"
  <2>1. UNCHANGED <<phase, ticket, active, pins, waiters>>
    BY <1>1 DEF Dispatch, admission
  <2>2. Queued' /\ Calm
    BY <1>1, <2>1 DEF Queued, InQueue, Calm
  <2> QED
    BY <2>1, <2>2, SameCounts
<1>2. CASE gate' = "open"
  <2>1. waiters \in Seq(Waiter)
    BY DEF Queued
  <2>2. /\ Len(waiters) \in Nat /\ DOMAIN waiters = 1 .. Len(waiters)
        /\ \A i \in 1 .. Len(waiters) : waiters[i] \in Waiter
    BY <2>1, LenProperties
  <2>3. PICK n \in 0 .. Len(waiters) :
           /\ Ready = 1 .. n
           /\ IsFiniteSet(1 .. n) /\ Cardinality(1 .. n) = n
           /\ n < Len(waiters) => holding' /\ Held(n + 1)
    BY <2>1, ReadyIsPrefix
  <2> DEFINE rs == {waiters[i].review : i \in 1 .. n}
  <2>4. Admit(rs) /\ waiters' = SubSeq(waiters, n + 1, Len(waiters))
    BY <1>2, <2>3 DEF Dispatch
  <2>5. rs \in SUBSET Review /\ \A r \in rs : InQueue(r)
    BY <2>2 DEF Waiter, InQueue
  <2>6. IsFiniteSet(rs)
    <3> DEFINE f == [i \in 1 .. n |-> waiters[i].review]
    <3>1. f \in Surjection(1 .. n, rs)
      BY DEF Surjection
    <3> HIDE DEF f, rs
    <3> QED
      BY <2>3, <3>1, FS_Surjection
  <2>7. \A r \in rs : phase[r] = "waiting"
    BY <2>5 DEF Queued
  <2>8. \A r \in Review : r \in rs <=> \E i \in 1 .. n : waiters[i].review = r
    OBVIOUS
  <2> HIDE DEF rs
  <2>9. Counted' /\ Grows /\ NoneOver
    BY <2>4, <2>5, <2>6, <2>7, AdmitCounts
  <2>10. /\ waiters' \in Seq(Waiter)
         /\ DOMAIN waiters' = 1 .. (Len(waiters) - n)
         /\ \A i \in 1 .. (Len(waiters) - n) : waiters'[i] = waiters[n + i]
    BY <2>1, <2>4, RestOf
  <2>11. \A i \in 1 .. (Len(waiters) - n) : n + i \in 1 .. Len(waiters)
    BY <2>2
  <2>12. \A r \in Review : phase'[r] = IF r \in rs THEN "admitted" ELSE phase[r]
    BY <2>4 DEF Admit
  <2>13. \A i, j \in DOMAIN waiters' :
            waiters'[i].review = waiters'[j].review => i = j
    <3> SUFFICES ASSUME NEW i \in 1 .. (Len(waiters) - n),
                        NEW j \in 1 .. (Len(waiters) - n),
                        waiters[n + i].review = waiters[n + j].review
                 PROVE  i = j
      BY <2>10
    <3>1. n + i = n + j
      BY <2>2, <2>11 DEF Queued
    <3> QED
      BY <2>2, <3>1
  <2>14. ASSUME NEW r \in Review
         PROVE  phase'[r] = "waiting" <=> InQueue(r)'
    <3>1. ASSUME InQueue(r)' PROVE phase'[r] = "waiting"
      <4>1. PICK i \in 1 .. (Len(waiters) - n) : waiters[n + i].review = r
        BY <2>10, <3>1 DEF InQueue
      <4>2. phase[r] = "waiting"
        BY <2>2, <2>11, <4>1 DEF Queued, InQueue
      <4>3. r \notin rs
        <5> SUFFICES ASSUME NEW k \in 1 .. n, waiters[k].review = r PROVE FALSE
          BY <2>8
        <5>1. k = n + i
          BY <2>2, <2>11, <4>1 DEF Queued
        <5> QED
          BY <2>2, <5>1
      <4> QED
        BY <2>12, <4>2, <4>3
    <3>2. ASSUME phase'[r] = "waiting" PROVE InQueue(r)'
      <4>1. phase[r] = "waiting" /\ r \notin rs
        BY <2>12, <3>2
      <4>2. PICK k \in 1 .. Len(waiters) : waiters[k].review = r
        BY <2>2, <4>1 DEF Queued, InQueue
      <4>3. k \notin 1 .. n
        BY <2>8, <4>1, <4>2
      <4>4. k - n \in 1 .. (Len(waiters) - n) /\ n + (k - n) = k
        BY <2>2, <4>2, <4>3
      <4>5. waiters'[k - n].review = r
        BY <2>10, <4>2, <4>4
      <4> QED
        BY <2>10, <4>4, <4>5 DEF InQueue
    <3> QED
      BY <3>1, <3>2
  <2>15. Queued'
    BY <2>10, <2>13, <2>14 DEF Queued
  <2>16. Calm
    <3>1. ASSUME NEW i \in DOMAIN waiters'
          PROVE  holding' /\ (Sorted => waiters'[i].held)
      <4>1. i \in 1 .. (Len(waiters) - n) /\ n < Len(waiters)
        BY <2>2, <2>10
      <4>2. n + 1 \in 1 .. Len(waiters) /\ n + 1 <= n + i
        BY <2>2, <4>1
      <4>3. holding' /\ Held(n + 1)
        BY <2>3, <4>1
      <4>4. Sorted => Held(n + i)
        BY <2>2, <2>11, <4>1, <4>2, <4>3 DEF Sorted
      <4> QED
        BY <2>10, <4>1, <4>3, <4>4 DEF Held
    <3> QED
      BY <1>2, <3>1 DEF Calm
  <2> QED
    BY <2>9, <2>15, <2>16
<1> QED
  BY <1>1, <1>2

\* What is left of a queue without its i-th.
LEMMA WithoutOne ==
    ASSUME NEW S, NEW w \in Seq(S), NEW i \in 1 .. Len(w), NEW rest,
           rest = SubSeq(w, 1, i - 1) \o SubSeq(w, i + 1, Len(w))
    PROVE  /\ rest \in Seq(S)
           /\ DOMAIN rest = 1 .. (Len(w) - 1)
           /\ \A k \in 1 .. (Len(w) - 1) : rest[k] = w[IF k < i THEN k ELSE k + 1]
<1> DEFINE front == SubSeq(w, 1, i - 1)
           back == SubSeq(w, i + 1, Len(w))
           l == Len(w)
<1>1. l \in Nat /\ \A k \in 1 .. l : w[k] \in S
  BY LenProperties
<1>2. /\ front \in Seq(S)
      /\ Len(front) = IF 1 <= i - 1 THEN (i - 1) - 1 + 1 ELSE 0
      /\ \A k \in 1 .. (i - 1) - 1 + 1 : front[k] = w[1 + k - 1]
  <2>1. 1 \in Int /\ i - 1 \in Int /\ \A k \in 1 .. (i - 1) : w[k] \in S
    BY <1>1
  <2> QED
    BY <2>1, SubSeqProperties
<1>3. /\ back \in Seq(S)
      /\ DOMAIN back = 1 .. (l - i)
      /\ \A k \in 1 .. (l - i) : back[k] = w[i + k]
  <2>1. i \in 0 .. l
    BY <1>1
  <2> QED
    BY <2>1, RestOf
<1>4. /\ front \o back \in Seq(S)
      /\ Len(front \o back) = Len(front) + Len(back)
      /\ \A k \in 1 .. Len(front) + Len(back) : (front \o back)[k] =
            IF k <= Len(front) THEN front[k] ELSE back[k - Len(front)]
  BY <1>2, <1>3, ConcatProperties
<1>5. i \in 1 .. l /\ rest = front \o back
  OBVIOUS
<1> HIDE DEF front, back, l
<1>6. Len(front) = i - 1
  BY <1>1, <1>2, <1>5
<1>7. Len(back) = l - i
  <2>1. Len(back) \in Nat /\ DOMAIN back = 1 .. Len(back)
    BY <1>3, LenProperties
  <2>2. l - i \in Nat
    BY <1>1, <1>5
  <2> QED
    BY <1>3, <2>1, <2>2
<1>8. Len(rest) = l - 1 /\ rest \in Seq(S)
  <2>1. Len(front) + Len(back) = l - 1
    BY <1>1, <1>5, <1>6, <1>7
  <2>2. Len(rest) = Len(front) + Len(back) /\ rest \in Seq(S)
    BY <1>4, <1>5
  <2> QED
    BY <2>1, <2>2
<1>9. DOMAIN rest = 1 .. (l - 1)
  BY <1>8, LenProperties
<1>10. ASSUME NEW k \in 1 .. (l - 1)
       PROVE  rest[k] = w[IF k < i THEN k ELSE k + 1]
  <2>1. k \in 1 .. Len(front) + Len(back)
    BY <1>1, <1>5, <1>6, <1>7
  <2>2. CASE k < i
    <3>1. k \in 1 .. (i - 1) - 1 + 1 /\ k <= Len(front) /\ 1 + k - 1 = k
      BY <1>1, <1>5, <1>6, <2>2
    <3> QED
      BY <1>2, <1>4, <1>5, <2>1, <2>2, <3>1
  <2>3. CASE ~(k < i)
    <3>1. /\ k - (i - 1) \in 1 .. (l - i) /\ ~(k <= Len(front))
          /\ i + (k - (i - 1)) = k + 1
      BY <1>1, <1>5, <1>6, <2>3
    <3>2. rest[k] = back[k - (i - 1)]
      BY <1>4, <1>5, <1>6, <2>1, <3>1
    <3> QED
      BY <1>3, <2>3, <3>1, <3>2
  <2> QED
    BY <2>2, <2>3
<1> QED
  BY <1>8, <1>9, <1>10 DEF l

\* The queue keeps its order: whoever is in it was, and nobody overtook.
InOrder ==
    \A k, m \in DOMAIN waiters' :
        \E i, j \in DOMAIN waiters :
            /\ waiters'[k] = waiters[i] /\ waiters'[m] = waiters[j]
            /\ k <= m => i <= j

\* One review leaves the queue.
LEMMA Leaves ==
    ASSUME Queued, NEW r \in Review, Leave(r),
           \A q \in Review : phase'[q] = "waiting" <=> phase[q] = "waiting" /\ q # r
    PROVE  Queued' /\ InOrder
<1>1. waiters \in Seq(Waiter) /\ Len(waiters) \in Nat /\ DOMAIN waiters = 1 .. Len(waiters)
  BY LenProperties DEF Queued
<1>2. PICK i \in 1 .. Len(waiters) :
         /\ waiters[i].review = r
         /\ waiters' = SubSeq(waiters, 1, i - 1) \o SubSeq(waiters, i + 1, Len(waiters))
  BY <1>1 DEF Leave
<1> DEFINE was(k) == IF k < i THEN k ELSE k + 1
<1>3. /\ waiters' \in Seq(Waiter)
      /\ DOMAIN waiters' = 1 .. (Len(waiters) - 1)
      /\ \A k \in 1 .. (Len(waiters) - 1) : waiters'[k] = waiters[was(k)]
  BY <1>1, <1>2, WithoutOne
<1>4. \A k \in 1 .. (Len(waiters) - 1) : was(k) \in 1 .. Len(waiters) /\ was(k) # i
  BY <1>1
<1>5. \A k, m \in 1 .. (Len(waiters) - 1) : was(k) = was(m) => k = m
  BY <1>1
<1>6. \A k, m \in 1 .. (Len(waiters) - 1) : k <= m => was(k) <= was(m)
  BY <1>1
<1>7. ASSUME NEW j \in 1 .. Len(waiters), j # i
      PROVE  \E k \in 1 .. (Len(waiters) - 1) : was(k) = j
  <2>1. CASE j < i
    BY <1>1, <2>1
  <2>2. CASE j > i
    <3>1. j - 1 \in 1 .. (Len(waiters) - 1) /\ was(j - 1) = j
      BY <1>1, <2>2
    <3> QED
      BY <3>1
  <2> QED
    BY <1>1, <1>7, <2>1, <2>2
<1> HIDE DEF was
<1>8. \A k, m \in DOMAIN waiters' : waiters'[k].review = waiters'[m].review => k = m
  BY <1>1, <1>3, <1>4, <1>5 DEF Queued
<1>9. ASSUME NEW q \in Review
      PROVE  InQueue(q)' <=> InQueue(q) /\ q # r
  <2>1. ASSUME InQueue(q)' PROVE InQueue(q) /\ q # r
    <3>1. PICK k \in 1 .. (Len(waiters) - 1) : waiters[was(k)].review = q
      BY <1>3, <2>1 DEF InQueue
    <3> QED
      BY <1>1, <1>2, <1>4, <3>1 DEF InQueue, Queued
  <2>2. ASSUME InQueue(q), q # r PROVE InQueue(q)'
    <3>1. PICK j \in 1 .. Len(waiters) : waiters[j].review = q
      BY <1>1, <2>2 DEF InQueue
    <3>2. PICK k \in 1 .. (Len(waiters) - 1) : was(k) = j
      BY <1>2, <1>7, <2>2, <3>1
    <3> QED
      BY <1>3, <3>1, <3>2 DEF InQueue
  <2> QED
    BY <2>1, <2>2
<1>10. Queued'
  BY <1>3, <1>8, <1>9 DEF Queued
<1>11. InOrder
  BY <1>1, <1>3, <1>4, <1>6 DEF InOrder
<1> QED
  BY <1>10, <1>11

\* One review joins the queue.
LEMMA Joins ==
    ASSUME Queued, NEW r \in Review, phase[r] # "waiting", NEW h \in BOOLEAN,
           waiters' = Append(waiters, [review |-> r, held |-> h]),
           \A q \in Review : phase'[q] = "waiting" <=> phase[q] = "waiting" \/ q = r
    PROVE  /\ Queued'
           /\ \A k \in DOMAIN waiters' :
                 \/ k \in DOMAIN waiters /\ waiters'[k] = waiters[k]
                 \/ /\ waiters'[k].held = h
                    /\ \A j \in DOMAIN waiters' : j <= k
<1> DEFINE new == [review |-> r, held |-> h]
           n == Len(waiters)
<1>1. waiters \in Seq(Waiter) /\ n \in Nat /\ DOMAIN waiters = 1 .. n
  BY LenProperties DEF Queued
<1>2. new \in Waiter /\ new.review = r /\ new.held = h
  BY DEF Waiter
<1>3. waiters' = Append(waiters, new)
  OBVIOUS
<1> HIDE DEF new
<1>4. /\ waiters' \in Seq(Waiter) /\ Len(waiters') = n + 1
      /\ \A k \in 1 .. n : waiters'[k] = waiters[k]
      /\ waiters'[n + 1] = new
  BY <1>1, <1>2, <1>3, AppendProperties
<1>5. DOMAIN waiters' = 1 .. (n + 1)
  BY <1>4, LenProperties
<1> HIDE DEF n
<1>6. \A k \in 1 .. (n + 1) : k \in 1 .. n \/ k = n + 1
  BY <1>1
<1>7. 1 .. n \subseteq 1 .. (n + 1) /\ n + 1 \in 1 .. (n + 1)
  BY <1>1
<1>8. \A k \in 1 .. n : waiters[k].review # r
  BY <1>1 DEF Queued, InQueue
<1>9. \A j, k \in DOMAIN waiters' : waiters'[j].review = waiters'[k].review => j = k
  BY <1>1, <1>2, <1>4, <1>5, <1>6, <1>8 DEF Queued
<1>10. \A q \in Review : InQueue(q)' <=> InQueue(q) \/ q = r
  BY <1>1, <1>2, <1>4, <1>5, <1>6, <1>7 DEF InQueue
<1>11. Queued'
  BY <1>4, <1>9, <1>10 DEF Queued
<1>12. \A j \in DOMAIN waiters' : j <= n + 1
  BY <1>1, <1>5
<1> QED
  BY <1>1, <1>2, <1>4, <1>5, <1>6, <1>11, <1>12
----------------------------------------------------------------------------
(* The cores that live, and the reload that is applied.                    *)

\* The pins say whether a core is in use.
LEMMA PinnedIsInUse ==
    ASSUME Counted', NEW c \in Core
    PROVE  pins'[c] = 0 <=> ~InUse(c)'
<1>1. RunningOn(c)' \in SUBSET Admitted'
  BY DEF Counted, RunningOn, Admitted
<1>2. IsFiniteSet(RunningOn(c)') /\ IsFiniteSet(VisitingOn(c)')
  BY <1>1, FS_Subset DEF Counted
<1>3. pins'[c] = 0 <=> RunningOn(c)' = {} /\ VisitingOn(c)' = {}
  BY <1>2, NobodyPins DEF Counted
<1>4. InUse(c)' <=> RunningOn(c)' # {} \/ VisitingOn(c)' # {}
  BY DEF InUse, RunningOn, VisitingOn
<1> QED
  BY <1>3, <1>4

\* Cores are disposed of when none but those in S may have become free.
LEMMA DisposeLive ==
    ASSUME CoresLive, Counted', NEW S \in SUBSET Core, NEW made \in SUBSET Core,
           Dispose(S, made),
           \A c \in Core :
              /\ Referenced(c)' \/ InUse(c)' => Referenced(c) \/ InUse(c) \/ c \in made
              /\ Referenced(c) \/ InUse(c) \/ c \in made =>
                    Referenced(c)' \/ InUse(c)' \/ c \in S
    PROVE  CoresLive'
<1>1. \A c \in S : pins'[c] = 0 <=> ~InUse(c)'
  BY PinnedIsInUse
<1>2. alive' = (alive \cup made) \ {c \in S : ~Referenced(c)' /\ ~InUse(c)'}
  BY <1>1 DEF Dispose
<1> QED
  BY <1>2 DEF CoresLive

\* No core is let go of or made.
LEMMA SameLive ==
    ASSUME CoresLive, UNCHANGED alive,
           \A c \in Core : Referenced(c)' \/ InUse(c)' <=> Referenced(c) \/ InUse(c)
    PROVE  CoresLive'
BY DEF CoresLive

\* A reload waits for the reviews to end.
Awaits == pending # None /\ gate # "locking" /\ ~failing

LEMMA StillApplied ==
    ASSUME PendingIsApplied, NoneOver, Awaits' => Awaits
    PROVE  PendingIsApplied'
BY DEF PendingIsApplied, NoneOver, Awaits

\* The active reviews are counted, so one runs if there are any.
LEMMA ActiveIsAdmitted ==
    ASSUME Counted, active # 0
    PROVE  \E r \in Review : phase[r] = "admitted"
BY FS_EmptySet DEF Counted, Admitted
----------------------------------------------------------------------------
(* One lemma for each kind of step.                                        *)

\* What the steps keep, besides IInv.
Account ==
    /\ Counted /\ Queued /\ HoldState /\ NoCoreToRollBack
    /\ CoresLive /\ PendingIsApplied

\* Nobody is admitted, comes or goes, and at most the gate closes.
LEMMA QuietStep ==
    ASSUME IInv, IInv', Account,
           UNCHANGED <<admission, pins, visit, cores, failing, holding, armed>>,
           \/ UNCHANGED <<pending, gate>>
           \/ pending # None /\ Close(pending)
    PROVE  Account'
<1> USE DEF Account
<1>1. UNCHANGED <<active, waiters, phase, ticket, current, previous, alive>>
  BY DEF admission, cores
<1>2. /\ pending' # None <=> pending # None
      /\ pending # None => /\ pending'.core = pending.core
                           /\ pending'.kind = pending.kind
      /\ gate' = gate \/ gate' = "locking"
      /\ Awaits' => Awaits
  <2>1. CASE UNCHANGED <<pending, gate>>
    BY <1>1, <2>1 DEF Awaits
  <2>2. CASE pending # None /\ Close(pending)
    <3>1. pending \in Pending
      BY <2>2 DEF IInv, Swapping, CoreTypes
    <3>2. pending' = [pending EXCEPT !.swapping = TRUE] /\ gate' = "locking"
      BY <2>2 DEF Close
    <3>3. pending' \in Pending /\ pending'.core = pending.core /\ pending'.kind = pending.kind
      BY <3>1, <3>2 DEF Pending
    <3>4. pending' # None
      BY <3>3, NoRecordAssumption
    <3> QED
      BY <2>2, <3>2, <3>3, <3>4 DEF Awaits
  <2> QED
    BY <2>1, <2>2
<1>3. Counted' /\ Grows /\ NoneOver
  BY <1>1, SameCounts
<1>4. Queued'
  BY <1>1 DEF Queued, InQueue
<1>5. HoldState'
  BY <1>1, <1>2 DEF HoldState, Sorted, Held
<1>6. NoCoreToRollBack'
  BY <1>2 DEF NoCoreToRollBack
<1>7. CoresLive'
  <2>1. \A c \in Core : /\ Referenced(c)' <=> Referenced(c)
                        /\ InUse(c)' <=> InUse(c)
    BY <1>1, <1>2 DEF Referenced, InUse
  <2> QED
    BY <1>1, <2>1, SameLive
<1>8. PendingIsApplied'
  BY <1>2, <1>3, StillApplied
<1> QED
  BY <1>3, <1>4, <1>5, <1>6, <1>7, <1>8

\* Nothing changes but the reviews that wait and run.
Elsewhere ==
    UNCHANGED <<pending, gate, failing, holding, armed, visit, current, previous,
                alive, running>>

LEMMA AdmissionStep ==
    ASSUME IInv, Account, Elsewhere,
           Counted', Grows, NoneOver, Queued', HoldState'
    PROVE  Account'
<1> USE DEF Account
<1>1. NoCoreToRollBack'
  BY DEF NoCoreToRollBack, Elsewhere
<1>2. CoresLive'
  <2>1. \A c \in Core : /\ Referenced(c)' <=> Referenced(c)
                        /\ InUse(c) => InUse(c)'
                        /\ InUse(c)' => InUse(c) \/ c = current
    BY DEF Referenced, Grows, Elsewhere
  <2>2. Referenced(current)
    BY DEF Referenced
  <2>3. alive' = alive
    BY DEF Elsewhere
  <2> QED
    BY <2>1, <2>2, <2>3, SameLive
<1>3. PendingIsApplied'
  BY StillApplied DEF Awaits, Elsewhere
<1> QED
  BY <1>1, <1>2, <1>3

LEMMA AccountArrive ==
    ASSUME IInv, Account, NEW r \in Review, Arrive(r)
    PROVE  Account'
<1> USE DEF Account
<1>1. Elsewhere /\ phase[r] = "idle"
  BY DEF Elsewhere, Arrive, cores, configs
<1>2. CASE gate = "open" /\ ~holding
  <2>1. Admit({r}) /\ waiters' = waiters
    BY <1>2 DEF Arrive
  <2>2. IsFiniteSet({r}) /\ {r} \in SUBSET Review /\ \A q \in {r} : phase[q] # "admitted"
    BY <1>1, FS_Singleton
  <2>3. current' \in Core /\ running' \in Config /\ visit' = visit /\ TicketTypes
    BY <1>1 DEF Elsewhere, IInv, Swapping, CoreTypes
  <2>4. Counted' /\ Grows /\ NoneOver
    BY <2>1, <2>2, <2>3, AdmitCounts
  <2>5. \A q \in Review : phase'[q] = "waiting" <=> phase[q] = "waiting"
    BY <1>1, <2>1 DEF Admit
  <2>6. Queued'
    BY <2>1, <2>5 DEF Queued, InQueue
  <2>7. HoldState'
    BY <1>1, <2>1 DEF HoldState, Sorted, Held, Elsewhere
  <2> QED
    BY <1>1, <2>4, <2>6, <2>7, AdmissionStep
<1>3. CASE ~(gate = "open" /\ ~holding)
  <2>1. /\ phase' = [phase EXCEPT ![r] = "waiting"]
        /\ waiters' = Append(waiters, [review |-> r, held |-> holding])
        /\ UNCHANGED <<ticket, active, pins>>
    BY <1>3 DEF Arrive
  <2>2. Counted' /\ Grows /\ NoneOver
    BY <1>1, <2>1, WaitCounts DEF Elsewhere
  <2>3. \A q \in Review : phase'[q] = "waiting" <=> phase[q] = "waiting" \/ q = r
    BY <2>1 DEF Counted
  <2>4. holding \in BOOLEAN
    BY DEF HoldState
  <2>5. /\ Queued'
        /\ \A k \in DOMAIN waiters' :
              \/ k \in DOMAIN waiters /\ waiters'[k] = waiters[k]
              \/ /\ waiters'[k].held = holding
                 /\ \A j \in DOMAIN waiters' : j <= k
    BY <1>1, <2>1, <2>3, <2>4, Joins
  <2>6. holding' => Sorted'
    <3> SUFFICES ASSUME holding', NEW i \in DOMAIN waiters', NEW j \in DOMAIN waiters',
                        i <= j, waiters'[i].held
                 PROVE  waiters'[j].held
      BY DEF Sorted, Held
    <3>1. holding /\ DOMAIN waiters' \subseteq Nat
      <4>1. waiters' \in Seq(Waiter)
        BY <2>5 DEF Queued
      <4> QED
        BY <1>1, <4>1, LenProperties DEF Elsewhere
    <3>2. CASE j \in DOMAIN waiters /\ waiters'[j] = waiters[j]
      <4>1. CASE i \in DOMAIN waiters /\ waiters'[i] = waiters[i]
        BY <3>1, <3>2, <4>1 DEF HoldState, Sorted, Held
      <4>2. CASE j <= i
        <5>1. i = j
          BY <3>1, <4>2
        <5> QED
          BY <5>1
      <4> QED
        BY <2>5, <4>1, <4>2
    <3>3. CASE waiters'[j].held = holding
      BY <3>1, <3>3
    <3> QED
      BY <2>5, <3>2, <3>3
  <2>7. \A k \in DOMAIN waiters' :
           \/ k \in DOMAIN waiters /\ Held(k)' = Held(k)
           \/ Held(k)' = holding
    BY <2>5 DEF Held
  <2>8. HoldState'
    BY <1>1, <1>3, <2>6, <2>7 DEF HoldState, Elsewhere
  <2> QED
    BY <1>1, <2>2, <2>5, <2>8, AdmissionStep
<1> QED
  BY <1>2, <1>3

\* Whoever leaves the queue leaves the hold as it was.
LEMMA LeavesHold ==
    ASSUME HoldState, Elsewhere, InOrder
    PROVE  HoldState'
<1>1. \A k \in DOMAIN waiters' : \E i \in DOMAIN waiters : Held(k)' = Held(i)
  BY DEF InOrder, Held
<1>2. Sorted => Sorted'
  BY DEF Sorted, InOrder, Held
<1> QED
  BY <1>1, <1>2 DEF HoldState, Elsewhere

LEMMA AccountDeadline ==
    ASSUME IInv, Account, NEW r \in Review, DeadlinePasses(r)
    PROVE  Account'
<1> USE DEF Account
<1>1. /\ Elsewhere /\ UNCHANGED <<ticket, active, pins>> /\ phase[r] = "waiting"
      /\ Leave(r) /\ phase' = [phase EXCEPT ![r] = "idle"]
  BY DEF Elsewhere, DeadlinePasses, cores, configs
<1>2. Counted' /\ Grows /\ NoneOver
  BY <1>1, WaitCounts DEF Elsewhere
<1>3. \A q \in Review : phase'[q] = "waiting" <=> phase[q] = "waiting" /\ q # r
  BY <1>1 DEF Counted
<1>4. Queued' /\ HoldState'
  BY <1>1, <1>3, Leaves, LeavesHold
<1> QED
  BY <1>1, <1>2, <1>4, AdmissionStep

LEMMA AccountHoldPasses ==
    ASSUME IInv, Account, NEW r \in Review, HoldPasses(r)
    PROVE  Account'
<1> USE DEF Account
<1>1. Elsewhere /\ Leave(r) /\ Admit({r})
  BY DEF Elsewhere, HoldPasses, cores, configs
<1>2. phase[r] = "waiting"
  BY DEF HoldPasses, Queued, InQueue
<1>3. IsFiniteSet({r}) /\ {r} \in SUBSET Review /\ \A q \in {r} : phase[q] # "admitted"
  BY <1>2, FS_Singleton
<1>4. current' \in Core /\ running' \in Config /\ visit' = visit /\ TicketTypes
  BY <1>1 DEF Elsewhere, IInv, Swapping, CoreTypes
<1>5. Counted' /\ Grows /\ NoneOver
  BY <1>1, <1>3, <1>4, AdmitCounts
<1>6. \A q \in Review : phase'[q] = "waiting" <=> phase[q] = "waiting" /\ q # r
  BY <1>1 DEF Admit
<1>7. Queued' /\ HoldState'
  BY <1>1, <1>6, Leaves, LeavesHold
<1> QED
  BY <1>1, <1>5, <1>7, AdmissionStep

LEMMA AccountRelease ==
    ASSUME IInv, IInv', Account, NEW r \in Review, Release(r)
    PROVE  Account'
<1> USE DEF Account
<1>1. /\ UNCHANGED <<failing, holding, armed, waiters, visit, current, previous>>
      /\ phase[r] = "admitted" /\ phase' = [phase EXCEPT ![r] = "idle"]
      /\ Dispose({ticket[r].core}, {})
  BY DEF Release
<1>2. ticket[r].core \in Core
  BY <1>1 DEF Counted, IInv, TicketTypes, Ticket
<1>3. /\ Counted'
      /\ \A c \in Core : /\ InUse(c) => InUse(c)' \/ c = ticket[r].core
                         /\ InUse(c)' => InUse(c)
      /\ active' # 0 => \E q \in Review : phase'[q] = "admitted"
  BY ReleaseCounts DEF IInv
<1>4. \/ UNCHANGED <<pending, gate>>
         /\ ~(active' = 0 /\ pending # None /\ ~pending.swapping /\ gate = "open")
      \/ pending # None /\ Close(pending)
  BY DEF Release
<1>5. /\ pending' # None <=> pending # None
      /\ pending # None => /\ pending'.core = pending.core
                           /\ pending'.kind = pending.kind
      /\ gate' = gate \/ gate' = "locking"
      /\ Awaits' => active' # 0
  <2>1. CASE /\ UNCHANGED <<pending, gate>>
             /\ ~(active' = 0 /\ pending # None /\ ~pending.swapping /\ gate = "open")
    <3>1. Awaits' => gate = "open" /\ pending # None /\ ~pending.swapping
      BY <1>1, <2>1 DEF Awaits, IInv, Swapping, CoreTypes, GateState
    <3> QED
      BY <2>1, <3>1
  <2>2. CASE pending # None /\ Close(pending)
    <3>1. pending \in Pending
      BY <2>2 DEF IInv, Swapping, CoreTypes
    <3>2. pending' = [pending EXCEPT !.swapping = TRUE] /\ gate' = "locking"
      BY <2>2 DEF Close
    <3>3. pending' \in Pending /\ pending'.core = pending.core /\ pending'.kind = pending.kind
      BY <3>1, <3>2 DEF Pending
    <3>4. pending' # None
      BY <3>3, NoRecordAssumption
    <3> QED
      BY <2>2, <3>2, <3>3, <3>4 DEF Awaits
  <2> QED
    BY <1>4, <2>1, <2>2
<1>6. Queued'
  <2>1. \A q \in Review : phase'[q] = "waiting" <=> phase[q] = "waiting"
    BY <1>1 DEF Counted
  <2> QED
    BY <1>1, <2>1 DEF Queued, InQueue
<1>7. HoldState'
  BY <1>1, <1>5 DEF HoldState, Sorted, Held
<1>8. NoCoreToRollBack'
  BY <1>5 DEF NoCoreToRollBack
<1>9. CoresLive'
  <2>1. \A c \in Core : Referenced(c)' <=> Referenced(c)
    BY <1>1, <1>5 DEF Referenced
  <2>2. {ticket[r].core} \in SUBSET Core
    BY <1>2
  <2>3. {} \in SUBSET Core
    OBVIOUS
  <2>4. \A c \in Core :
           /\ Referenced(c)' \/ InUse(c)' => Referenced(c) \/ InUse(c) \/ c \in {}
           /\ Referenced(c) \/ InUse(c) \/ c \in {} =>
                 Referenced(c)' \/ InUse(c)' \/ c \in {ticket[r].core}
    BY <1>3, <2>1
  <2> QED
    BY <1>1, <1>3, <2>2, <2>3, <2>4, DisposeLive
<1>10. PendingIsApplied'
  BY <1>3, <1>5 DEF PendingIsApplied, Awaits
<1> QED
  BY <1>3, <1>6, <1>7, <1>8, <1>9, <1>10

LEMMA AccountVisit ==
    ASSUME IInv, Account, NEW v \in Visitor, Visit(v) \/ EndVisit(v)
    PROVE  Account'
<1> USE DEF Account
<1>1. UNCHANGED <<phase, waiters, pending, gate, failing, holding, armed,
                  current, previous>>
  BY DEF Visit, EndVisit, admission, cores
<1>2. current \in Core
  BY DEF IInv, Swapping, CoreTypes
<1>3. /\ Counted'
      /\ \A c \in Core : /\ InUse(c) => InUse(c)' \/ c = visit[v]
                         /\ InUse(c)' => InUse(c) \/ c = current
  BY <1>2, NoneAssumption, VisitCounts
<1>4. Queued' /\ HoldState' /\ NoCoreToRollBack'
  BY <1>1 DEF Queued, InQueue, HoldState, Sorted, Held, NoCoreToRollBack
<1>5. \A c \in Core : /\ Referenced(c)' <=> Referenced(c)
                      /\ Referenced(current)
  BY <1>1 DEF Referenced
<1>6. CoresLive'
  <2>1. CASE Visit(v)
    <3>1. visit[v] = None /\ alive' = alive
      BY <2>1 DEF Visit, cores
    <3>2. \A c \in Core : Referenced(c)' \/ InUse(c)' <=> Referenced(c) \/ InUse(c)
      BY <1>3, <1>5, <3>1, NoneAssumption
    <3> QED
      BY <3>1, <3>2, SameLive
  <2>2. CASE EndVisit(v)
    <3>1. Dispose({visit[v]}, {}) /\ {visit[v]} \in SUBSET Core /\ {} \in SUBSET Core
      BY <2>2 DEF EndVisit, Counted
    <3>2. \A c \in Core :
             /\ Referenced(c)' \/ InUse(c)' => Referenced(c) \/ InUse(c) \/ c \in {}
             /\ Referenced(c) \/ InUse(c) \/ c \in {} =>
                   Referenced(c)' \/ InUse(c)' \/ c \in {visit[v]}
      BY <1>3, <1>5
    <3> QED
      BY <1>3, <3>1, <3>2, DisposeLive
  <2> QED
    BY <2>1, <2>2
<1>7. PendingIsApplied'
  BY <1>1 DEF PendingIsApplied
<1> QED
  BY <1>3, <1>4, <1>6, <1>7

LEMMA AccountHoldBegins ==
    ASSUME IInv, Account, HoldBegins
    PROVE  Account'
<1> USE DEF Account
<1>1. /\ UNCHANGED <<active, waiters, phase, ticket, pins, visit, current, previous,
                     alive, pending, gate, failing>>
      /\ armed /\ armed' = FALSE /\ holding' = (pending # None)
  BY DEF HoldBegins, admission, cores
<1>2. Counted' /\ Grows /\ NoneOver
  BY <1>1, SameCounts
<1>3. Queued' /\ NoCoreToRollBack'
  BY <1>1 DEF Queued, InQueue, NoCoreToRollBack
<1>4. HoldState'
  <2>1. Sorted
    BY <1>1 DEF HoldState, Sorted
  <2>2. gate = "open" => \A i \in DOMAIN waiters : holding /\ Held(i)
    BY DEF HoldState
  <2>3. holding => pending # None
    BY DEF HoldState
  <2> QED
    BY <1>1, <2>1, <2>2, <2>3 DEF HoldState, Sorted, Held
<1>5. CoresLive'
  BY <1>1 DEF CoresLive, Referenced, InUse
<1>6. PendingIsApplied'
  BY <1>1 DEF PendingIsApplied
<1> QED
  BY <1>2, <1>3, <1>4, <1>5, <1>6

\* A dispatch after which nobody need be held keeps the hold as it must be.
LEMMA CalmHold ==
    ASSUME Calm, holding' \in BOOLEAN, armed' \in BOOLEAN,
           holding' => pending' # None /\ Sorted,
           gate' # "open" /\ ~holding' => ~armed'
    PROVE  HoldState'
<1>1. CASE gate' = "open"
  BY <1>1 DEF Calm, HoldState, Sorted, Held
<1>2. CASE gate' # "open"
  BY <1>2 DEF Calm, HoldState, Sorted, Held
<1> QED
  BY <1>1, <1>2

LEMMA AccountDrop ==
    ASSUME IInv, IInv', Account, DropPending,
           UNCHANGED <<current, previous, running, visit>>
    PROVE  Account'
<1> USE DEF Account
<1>1. /\ pending' = None /\ failing' = FALSE /\ holding' = FALSE /\ armed' = FALSE
      /\ Dispatch /\ Dispose(CoreOfPending, {})
  BY DEF DropPending, EndHold
<1>2. current \in Core /\ running \in Config /\ TicketTypes
  BY DEF IInv, Swapping, CoreTypes
<1>3. Counted' /\ Grows /\ NoneOver /\ Queued' /\ Calm
  BY <1>1, <1>2, Dispatched
<1>4. HoldState'
  BY <1>1, <1>3, CalmHold
<1>5. NoCoreToRollBack' /\ PendingIsApplied'
  BY <1>1 DEF NoCoreToRollBack, PendingIsApplied
<1>6. CoresLive'
  <2>1. CoreOfPending \in SUBSET Core /\ {} \in SUBSET Core
    BY DEF CoreOfPending
  <2>2. ASSUME NEW c \in Core
        PROVE  /\ Referenced(c)' \/ InUse(c)' => Referenced(c) \/ InUse(c) \/ c \in {}
               /\ Referenced(c) \/ InUse(c) \/ c \in {} =>
                     Referenced(c)' \/ InUse(c)' \/ c \in CoreOfPending
    <3>1. Referenced(c)' => Referenced(c)
      BY <1>1 DEF Referenced
    <3>2. Referenced(c) => Referenced(c)' \/ c \in CoreOfPending
      BY DEF Referenced, CoreOfPending
    <3>3. InUse(c) => InUse(c)'
      BY <1>3 DEF Grows
    <3>4. InUse(c)' => InUse(c) \/ Referenced(c)
      BY <1>3 DEF Grows, Referenced
    <3> QED
      BY <3>1, <3>2, <3>3, <3>4
  <2> QED
    BY <1>1, <1>3, <2>1, <2>2, DisposeLive
<1> QED
  BY <1>3, <1>4, <1>5, <1>6

LEMMA AccountSet ==
    ASSUME IInv, IInv', Account, gate = "open", visit' = visit,
           NEW p \in Pending, NEW now, NEW made \in SUBSET Core,
           SetPending(p, now, made),
           p.kind = "rollback" => p.core = None,
           p.core \in made \cup {current, None},
           made \in SUBSET {p.core}
    PROVE  Account'
<1> USE DEF Account
<1>1. /\ UNCHANGED <<current, previous, holding, active, waiters, phase, ticket, pins>>
      /\ failing' = FALSE /\ Dispose(CoreOfPending, made)
  BY DEF SetPending, admission
<1>2. /\ pending' # None /\ pending'.core = p.core /\ pending'.kind = p.kind
      /\ armed' \in BOOLEAN
      /\ gate' # "locking" => active # 0
  <2>1. CASE AtOnce(now)
    <3>1. pending' = [p EXCEPT !.swapping = TRUE] /\ gate' = "locking" /\ armed' = armed
      BY <2>1 DEF SetPending, Close
    <3>2. pending' \in Pending /\ pending'.core = p.core /\ pending'.kind = p.kind
      BY <3>1 DEF Pending
    <3>3. pending' # None
      BY <3>2, NoRecordAssumption
    <3> QED
      BY <3>1, <3>2, <3>3 DEF HoldState
  <2>2. CASE ~AtOnce(now)
    <3>1. pending' = p /\ armed' = (armed \/ ~holding) /\ active # 0
      BY <2>2 DEF SetPending, AtOnce
    <3>2. p # None
      BY NoRecordAssumption
    <3>3. armed' \in BOOLEAN
      BY <3>1
    <3> QED
      BY <3>1, <3>2, <3>3
  <2> QED
    BY <2>1, <2>2
<1>3. Counted' /\ Grows /\ NoneOver
  BY <1>1, SameCounts
<1>4. Queued'
  BY <1>1 DEF Queued, InQueue
<1>5. HoldState'
  <2>1. \A i \in DOMAIN waiters : holding /\ Held(i)
    BY DEF HoldState
  <2>2. (holding => Sorted) /\ holding \in BOOLEAN
    BY DEF HoldState
  <2> QED
    BY <1>1, <1>2, <2>1, <2>2 DEF HoldState, Sorted, Held
<1>6. NoCoreToRollBack'
  BY <1>2 DEF NoCoreToRollBack
<1>7. CoresLive'
  <2>1. CoreOfPending \in SUBSET Core
    BY DEF CoreOfPending
  <2>2. ASSUME NEW c \in Core
        PROVE  /\ Referenced(c)' \/ InUse(c)' => Referenced(c) \/ InUse(c) \/ c \in made
               /\ Referenced(c) \/ InUse(c) \/ c \in made =>
                     Referenced(c)' \/ InUse(c)' \/ c \in CoreOfPending
    <3>1. InUse(c)' <=> InUse(c)
      BY <1>1 DEF InUse
    <3>2. Referenced(c)' => Referenced(c) \/ c \in made
      BY <1>1, <1>2, NoneAssumption DEF Referenced
    <3>3. Referenced(c) => Referenced(c)' \/ c \in CoreOfPending
      BY <1>1 DEF Referenced, CoreOfPending
    <3>4. c \in made => Referenced(c)'
      BY <1>2 DEF Referenced
    <3> QED
      BY <3>1, <3>2, <3>3, <3>4
  <2> QED
    BY <1>1, <1>3, <2>1, <2>2, DisposeLive
<1>8. PendingIsApplied'
  <2>1. gate' # "locking" => \E r \in Review : phase'[r] = "admitted"
    BY <1>1, <1>2, ActiveIsAdmitted
  <2> QED
    BY <2>1 DEF PendingIsApplied
<1> QED
  BY <1>3, <1>4, <1>5, <1>6, <1>7, <1>8

LEMMA AccountAct ==
    ASSUME IInv, IInv', Account, gate = "open", NEW cmd, Act(cmd)
    PROVE  Account'
<1>1. CASE Cancel
  <2>1. UNCHANGED <<current, previous, gate, visit, running>>
    BY <1>1 DEF Cancel, configs
  <2>2. CASE pending = None
    BY <1>1, <2>1, <2>2, QuietStep DEF Cancel, cores
  <2>3. CASE pending # None
    BY <1>1, <2>1, <2>3, AccountDrop DEF Cancel
  <2> QED
    BY <2>2, <2>3
<1>2. CASE Refuse \/ Prepare(cmd.now)
  BY <1>2, QuietStep DEF Refuse, Prepare
<1>3. CASE ApplyNow /\ pending # None
  BY <1>3, QuietStep DEF ApplyNow
<1>4. CASE AskRollback(cmd.now)
  <2> DEFINE p == [kind |-> "rollback", core |-> None, wait |-> None,
                   base |-> current, swapping |-> FALSE]
  <2>1. p \in Pending /\ p.core = None
    BY DEF IInv, Swapping, CoreTypes, Pending
  <2>2. SetPending(p, cmd.now, {}) /\ visit' = visit
    BY <1>4 DEF AskRollback
  <2>3. {} \in SUBSET Core /\ {} \in SUBSET {p.core}
    OBVIOUS
  <2> HIDE DEF p
  <2> QED
    BY <2>1, <2>2, <2>3, AccountSet
<1> QED
  BY <1>1, <1>2, <1>3, <1>4 DEF Act

LEMMA AccountPrepared ==
    ASSUME IInv, IInv', Account, PreparedCore \/ PreparedConfig \/ PreparedNothing
    PROVE  Account'
<1> USE DEF Account
<1>1. /\ gate = "open" /\ current \in Core
      /\ \A c \in Core : /\ Candidate(c) \in Pending /\ Candidate(c).kind = "reload"
                         /\ Candidate(c).core = c
  BY PreparedIsFresh
     DEF IInv, PreparedCore, PreparedConfig, PreparedNothing, Swapping, CoreTypes
<1>2. CASE PreparedCore
  <2>1. PICK c \in Core : SetPending(Candidate(c), preparing.now, {c})
    BY <1>2 DEF PreparedCore
  <2>2. visit' = visit /\ {c} \in SUBSET Core
    BY <1>2 DEF PreparedCore
  <2> QED
    BY <1>1, <2>1, <2>2, AccountSet
<1>3. CASE PreparedConfig
  <2>1. SetPending(Candidate(current), preparing.now, {}) /\ visit' = visit
    BY <1>3 DEF PreparedConfig
  <2>2. {} \in SUBSET Core /\ {} \in SUBSET {current}
    OBVIOUS
  <2> QED
    BY <1>1, <2>1, <2>2, AccountSet
<1>4. CASE PreparedNothing
  <2>1. UNCHANGED <<current, previous, gate, visit, running>>
    BY <1>4 DEF PreparedNothing, configs
  <2>2. CASE pending = None
    BY <1>4, <2>1, <2>2, QuietStep DEF PreparedNothing, cores
  <2>3. CASE pending # None
    BY <1>4, <2>1, <2>3, AccountDrop DEF PreparedNothing
  <2> QED
    BY <2>2, <2>3
<1> QED
  BY <1>2, <1>3, <1>4

\* The swap and the rollback, which let nobody in: the gate is closed.
LEMMA AccountSwapped ==
    ASSUME IInv, IInv', Account, Swap \/ Rollback
    PROVE  Account'
<1> USE DEF Account
<1>1. /\ gate = "locking" /\ gate' = "ran" /\ pending' = None /\ visit' = visit
      /\ holding' = FALSE /\ armed' = FALSE /\ Dispatch
      /\ pending # None
      /\ previous' # None /\ previous'.core = current
  <2>1. current \in Core /\ running.settings \in Settings /\ file \in Settings
    BY DEF IInv, Swapping, CoreTypes, Config
  <2>2. CASE Swap
    <3>1. previous' \in Previous
      BY <2>1, <2>2 DEF Swap, Previous
    <3> QED
      BY <2>2, <3>1, NoRecordAssumption DEF Swap, EndHold, IInv, Swapping, GateState
  <2>3. CASE Rollback
    <3>1. previous \in Previous
      BY <2>3 DEF Rollback, IInv, Swapping, CoreTypes, GateState
    <3>2. file' \in Settings /\ running'.settings \in Settings
      BY <2>3, <3>1, RollbackSettings DEF IInv, Swapping, CoreTypes
    <3>3. previous' \in Previous
      BY <2>1, <2>3, <3>2 DEF Rollback, Previous
    <3> QED
      BY <2>3, <3>3, NoRecordAssumption DEF Rollback, EndHold, IInv, Swapping, GateState
  <2> QED
    BY <2>2, <2>3
<1>2. current' \in Core /\ running' \in Config /\ TicketTypes
  BY DEF IInv, Swapping, CoreTypes
<1>3. Counted' /\ Grows /\ NoneOver /\ Queued' /\ Calm
  BY <1>1, <1>2, Dispatched
<1>4. HoldState'
  BY <1>1, <1>3, CalmHold
<1>5. NoCoreToRollBack' /\ PendingIsApplied'
  BY <1>1 DEF NoCoreToRollBack, PendingIsApplied
<1>6. CASE Swap
  <2> DEFINE S == IF previous = None THEN {} ELSE {previous.core}
  <2>1. Dispose(S, {}) /\ current' = pending.core
    BY <1>6 DEF Swap
  <2>2. S \in SUBSET Core /\ {} \in SUBSET Core
    BY DEF IInv, Swapping, CoreTypes, Previous
  <2>3. ASSUME NEW c \in Core
        PROVE  /\ Referenced(c)' \/ InUse(c)' => Referenced(c) \/ InUse(c) \/ c \in {}
               /\ Referenced(c) \/ InUse(c) \/ c \in {} =>
                     Referenced(c)' \/ InUse(c)' \/ c \in S
    <3>1. Referenced(c)' => Referenced(c)
      BY <1>1, <2>1 DEF Referenced
    <3>2. Referenced(c) => Referenced(c)' \/ c \in S
      BY <1>1, <2>1 DEF Referenced
    <3>3. InUse(c) => InUse(c)'
      BY <1>3 DEF Grows
    <3>4. InUse(c)' => InUse(c) \/ Referenced(c)
      BY <1>1, <1>3, <2>1 DEF Grows, Referenced
    <3> QED
      BY <3>1, <3>2, <3>3, <3>4
  <2> HIDE DEF S
  <2>4. CoresLive'
    BY <1>3, <2>1, <2>2, <2>3, DisposeLive
  <2> QED
    BY <1>3, <1>4, <1>5, <2>4
<1>7. CASE Rollback
  <2>1. current' = previous.core /\ alive' = alive /\ pending.core = None /\ previous # None
    BY <1>1, <1>7 DEF Rollback, NoCoreToRollBack, IInv, Swapping, GateState
  <2>2. ASSUME NEW c \in Core
        PROVE  Referenced(c)' \/ InUse(c)' <=> Referenced(c) \/ InUse(c)
    <3>1. Referenced(c)' <=> Referenced(c)
      BY <1>1, <2>1, NoneAssumption DEF Referenced
    <3>2. InUse(c) => InUse(c)'
      BY <1>3 DEF Grows
    <3>3. InUse(c)' => InUse(c) \/ Referenced(c)
      BY <1>3, <2>1 DEF Grows, Referenced
    <3> QED
      BY <3>1, <3>2, <3>3
  <2>3. CoresLive'
    BY <2>1, <2>2, SameLive
  <2> QED
    BY <1>3, <1>4, <1>5, <2>3
<1> QED
  BY <1>6, <1>7

\* The gate opens, after the swap or without one.
LEMMA AccountOpened ==
    ASSUME IInv, IInv', Account, Reopen \/ LockFails
    PROVE  Account'
<1> USE DEF Account
<1>1. /\ UNCHANGED <<pending, holding, armed, visit, current, previous, alive, running>>
      /\ gate' = "open" /\ Dispatch
      /\ pending # None => failing'
  BY DEF Reopen, LockFails, cores, configs, IInv, Swapping, GateState
<1>2. current' \in Core /\ running' \in Config /\ TicketTypes /\ holding' \in BOOLEAN
      /\ armed' \in BOOLEAN
  BY <1>1 DEF IInv, Swapping, CoreTypes, HoldState
<1>3. Counted' /\ Grows /\ NoneOver /\ Queued' /\ Calm
  BY <1>1, <1>2, Dispatched
<1>4. HoldState'
  BY <1>1, <1>2, <1>3, CalmHold DEF HoldState
<1>5. NoCoreToRollBack' /\ PendingIsApplied'
  BY <1>1 DEF NoCoreToRollBack, PendingIsApplied
<1>6. CoresLive'
  <2>1. \A c \in Core : Referenced(c)' <=> Referenced(c)
    BY <1>1 DEF Referenced
  <2>2. \A c \in Core : Referenced(c)' \/ InUse(c)' <=> Referenced(c) \/ InUse(c)
    BY <1>1, <1>3, <2>1 DEF Grows, Referenced
  <2> QED
    BY <1>1, <2>2, SameLive
<1> QED
  BY <1>3, <1>4, <1>5, <1>6
----------------------------------------------------------------------------
(* The invariant.                                                          *)

(* The server starts with one core, which nobody has pinned yet.           *)
LEMMA AInvInit == Init => AInv
<1> SUFFICES ASSUME Init PROVE AInv
  OBVIOUS
<1>1. IInv
  BY IInvInit
<1>2. /\ current = First /\ previous = None /\ pending = None /\ gate = "open"
      /\ active = 0 /\ holding = FALSE /\ armed = FALSE /\ waiters = <<>>
      /\ phase = [r \in Review |-> "idle"]
      /\ ticket = [r \in Review |-> None]
      /\ visit = [v \in Visitor |-> None]
      /\ pins = [c \in Core |-> 0]
      /\ alive = {First}
  BY DEF Init
<1>3. Admitted = {} /\ \A c \in Core : RunningOn(c) = {} /\ VisitingOn(c) = {}
  BY <1>2, NoneAssumption DEF Admitted, RunningOn, VisitingOn
<1>4. Counted
  <2>1. IsFiniteSet({}) /\ Cardinality({}) = 0
    BY FS_EmptySet
  <2>2. phase \in [Review -> Phase] /\ visit \in [Visitor -> Core \cup {None}]
        /\ pins \in [Core -> Nat]
    BY <1>2 DEF Phase
  <2>3. \A r \in Review : phase[r] = "admitted" <=> ticket[r] # None
    BY <1>2
  <2>4. \A c \in Core : pins[c] = 0 + 0
    BY <1>2
  <2> QED
    BY <1>2, <1>3, <2>1, <2>2, <2>3, <2>4 DEF Counted
<1>5. Queued
  <2>1. waiters \in Seq(Waiter) /\ DOMAIN waiters = {}
    BY <1>2
  <2> QED
    BY <1>2, <2>1 DEF Queued, InQueue
<1>6. HoldState /\ NoCoreToRollBack /\ PendingIsApplied
  <2>1. DOMAIN waiters = {}
    BY <1>2
  <2>2. gate = "open" => \A i \in DOMAIN waiters : holding /\ Held(i)
    BY <2>1
  <2> QED
    BY <1>2, <2>2 DEF HoldState, NoCoreToRollBack, PendingIsApplied
<1>7. CoresLive
  <2>1. \A c \in Core : Referenced(c) <=> c = First
    BY <1>2 DEF Referenced
  <2>2. \A c \in Core : ~InUse(c)
    BY <1>2, NoneAssumption DEF InUse
  <2> QED
    BY <1>2, <2>1, <2>2, FirstAssumption DEF CoresLive
<1> QED
  BY <1>1, <1>4, <1>5, <1>6, <1>7 DEF AInv

(* Every step keeps the accounts.                                          *)
LEMMA AInvStep == AInv /\ [Next]_vars => AInv'
<1> SUFFICES ASSUME AInv, [Next]_vars PROVE AInv'
  OBVIOUS
<1>1. IInv /\ IInv' /\ Account
  BY SwappingStep, PairStep DEF AInv, Account, IInv
<1> SUFFICES Account'
  BY <1>1 DEF AInv, Account
<1>2. ASSUME NEW r \in Review,
             Arrive(r) \/ DeadlinePasses(r) \/ HoldPasses(r) \/ Release(r)
      PROVE  Account'
  BY <1>1, <1>2, AccountArrive, AccountDeadline, AccountHoldPasses, AccountRelease
<1>3. ASSUME NEW v \in Visitor, Visit(v) \/ EndVisit(v) PROVE Account'
  BY <1>1, <1>3, AccountVisit
<1>4. ASSUME NEW cmd \in Command, Trigger(cmd) PROVE Account'
  BY <1>1, <1>4, AccountAct DEF Trigger
<1>5. ASSUME NEW cmd \in Command, NEW s \in Slot, TriggerParked(s, cmd) PROVE Account'
  BY <1>1, <1>5, QuietStep DEF TriggerParked
<1>6. ASSUME NEW s \in Slot, GateOpened(s) PROVE Account'
  BY <1>1, <1>6, AccountAct DEF GateOpened
<1>7. CASE HoldBegins
  BY <1>1, <1>7, AccountHoldBegins
<1>8. CASE Discard \/ PrepareAgain \/ PrepareFails
  BY <1>1, <1>8, QuietStep DEF Discard, PrepareAgain, PrepareFails
<1>9. CASE PreparedCore \/ PreparedConfig \/ PreparedNothing
  BY <1>1, <1>9, AccountPrepared
<1>10. CASE Swap \/ Rollback
  BY <1>1, <1>10, AccountSwapped
<1>11. CASE SwapFails \/ Failed
  BY <1>1, <1>11, AccountDrop DEF SwapFails, Failed, configs
<1>12. CASE Reopen \/ LockFails
  BY <1>1, <1>12, AccountOpened
<1>13. CASE EditFile \/ Mutate
  BY <1>1, <1>13, QuietStep DEF EditFile, Mutate
<1>14. CASE UNCHANGED vars
  <2>1. UNCHANGED <<admission, pins, visit, cores, failing, holding, armed, pending, gate>>
    BY <1>14 DEF vars, admission, cores
  <2> QED
    BY <1>1, <2>1, QuietStep
<1> QED
  BY <1>2, <1>3, <1>4, <1>5, <1>6, <1>7, <1>8, <1>9, <1>10, <1>11, <1>12, <1>13,
     <1>14 DEF Next

(* The inductive invariant: the two counters of the controller are the     *)
(* sizes of the sets of requests they stand for, the queue holds the       *)
(* waiting reviews in order, and a hold has a reload to hold for.          *)
THEOREM Accounting == Spec => []AInv
BY AInvInit, AInvStep, PTL DEF Spec
----------------------------------------------------------------------------
(* What follows from it.                                                   *)

(* Every variable keeps its type: neither counter is ever negative and     *)
(* only cores exist (maybeDispose, admitReview, dispatchWaiters).          *)
THEOREM TypesHold == Spec => []TypeOK
<1>1. AInv => TypeOK
  <2> SUFFICES ASSUME AInv PROVE TypeOK
    OBVIOUS
  <2> USE DEF AInv
  <2>1. CoreTypes /\ TicketTypes
    BY DEF IInv, Swapping
  <2>2. active \in Nat
    BY FS_CardinalityType DEF Counted
  <2>3. alive \subseteq Core
    BY DEF CoresLive
  <2> QED
    BY <2>1, <2>2, <2>3
       DEF TypeOK, CoreTypes, TicketTypes, Counted, Queued, HoldState
<1> QED
  BY <1>1, Accounting, PTL

(* A core lives exactly as long as it is current, the rollback target or   *)
(* pending, or a request runs on it: maybeDispose never takes a core away  *)
(* from a request or a rollback, and forgets none.                         *)
THEOREM CoresAreKept == Spec => []CoresLive
BY Accounting, PTL DEF AInv

(* With no review running no reload waits for reviews to end: the release  *)
(* of the last, or the command that found none, applies it.                *)
THEOREM PendingMoves == Spec => []PendingIsApplied
BY Accounting, PTL DEF AInv

(* With the gate open only a hold keeps a review waiting: dispatchWaiters  *)
(* and endHold leave nobody behind.                                        *)
THEOREM NobodyLeftBehind == Spec => []WaitersHaveAReason
<1>1. AInv => WaitersHaveAReason
  <2> SUFFICES ASSUME AInv, gate = "open", waiters # <<>>
               PROVE  /\ holding /\ pending # None
                      /\ \A i \in DOMAIN waiters : Held(i)
    BY DEF WaitersHaveAReason
  <2>1. waiters \in Seq(Waiter)
    BY DEF AInv, Queued
  <2>2. 1 \in DOMAIN waiters
    BY <2>1
  <2> QED
    BY <2>2 DEF AInv, HoldState
<1> QED
  BY <1>1, Accounting, PTL
----------------------------------------------------------------------------
(* The configuration in force.                                             *)

\* What a swap, or a rollback after no edit, puts in force had been told to
\* the hooks.
Told ==
    /\ pending # None /\ pending' = None
    /\ pending.kind = "rollback" => NothingEdited
    => WaitOf[running'.settings] <= Published

\* What is in force and in the file parts only while the file is edited.
InStep ==
    \A k \in Setting :
        file[k] = running.settings[k] /\ file'[k] # running'.settings[k]
            => running'.settings[k] = running.settings[k]

LEMMA PublishedCovers ==
    ASSUME IInv
    PROVE  /\ WaitInForce \in Nat /\ Published \in Nat
           /\ WaitInForce <= Published
           /\ pending # None /\ pending.kind = "rollback" =>
                 /\ WaitOf[previous.before] \in Nat
                 /\ WaitOf[previous.before] <= Published
<1>1. WaitInForce \in Nat
  BY WaitOfAssumption DEF WaitInForce, Settings, IInv, Swapping, CoreTypes, Config
<1>2. pending # None /\ pending.kind = "rollback" => WaitOf[previous.before] \in Nat
  BY WaitOfAssumption DEF Settings, IInv, Swapping, CoreTypes, GateState, Previous
<1>3. pending # None /\ pending.kind = "reload" => pending.wait \in Nat
  BY DEF IInv, Swapping, CoreTypes, GateState
<1>4. pending # None => pending.kind \in {"reload", "rollback"}
  BY DEF IInv, Swapping, CoreTypes, Pending
<1>5. CASE pending = None
  BY <1>1, <1>5 DEF Published
<1>6. CASE pending # None /\ pending.kind = "reload"
  BY <1>1, <1>3, <1>6 DEF Published, Larger
<1>7. CASE pending # None /\ pending.kind = "rollback"
  BY <1>1, <1>2, <1>7 DEF Published, Larger
<1> QED
  BY <1>4, <1>5, <1>6, <1>7

\* After no edit a rollback restores all that the reload replaced.
LEMMA UneditedRollback ==
    ASSUME IInv, Rollback, NothingEdited
    PROVE  running'.settings = previous.before
<1>1. previous \in Previous /\ running \in Config /\ file \in Settings
  BY DEF Rollback, IInv, Swapping, CoreTypes, GateState
<1>2. PICK rejected \in SUBSET MayBeRejected :
          LET K == {k \in Setting : Reverts(k)} \cup rejected
          IN  running' = Restored(K)
  BY DEF Rollback
<1> DEFINE K == {k \in Setting : Reverts(k)} \cup rejected
<1>3. running'.settings = Back(K, running.settings)
  BY <1>2 DEF Restored
<1>4. \A k \in Setting : Back(K, running.settings)[k] = previous.before[k]
  <2>1. SUFFICES ASSUME NEW k \in Setting, k \notin K
                 PROVE  running.settings[k] = previous.before[k]
    BY DEF Back
  <2>2. ~ Reverts(k)
    BY <2>1
  <2>3. QED
    BY <2>2 DEF Reverts, NothingEdited
<1>5. Back(K, running.settings) = [k \in Setting |-> previous.before[k]]
  BY <1>4 DEF Back
<1>6. QED
  BY <1>1, <1>3, <1>5 DEF Previous, Settings

\* Nothing but a swap, a rollback and a dashboard edit changes what is in force.
LEMMA ConfigStep ==
    ASSUME [Next]_vars
    PROVE  \/ UNCHANGED running
           \/ Swap \/ Rollback
           \/ Mutate
<1> DEFINE Goal == UNCHANGED running \/ Swap \/ Rollback \/ Mutate
<1> USE DEF configs, DropPending, SetPending
<1>1. ASSUME NEW r \in Review,
             Arrive(r) \/ DeadlinePasses(r) \/ HoldPasses(r) \/ Release(r)
      PROVE  Goal
  BY <1>1 DEF Arrive, DeadlinePasses, HoldPasses, Release
<1>2. ASSUME NEW v \in Visitor, Visit(v) \/ EndVisit(v) PROVE Goal
  BY <1>2 DEF Visit, EndVisit
<1>3. ASSUME NEW cmd, Act(cmd) PROVE Goal
  BY <1>3 DEF Act, Cancel, Refuse, ApplyNow, AskRollback, Prepare
<1>4. ASSUME NEW s \in Slot, NEW cmd \in Command, TriggerParked(s, cmd) PROVE Goal
  BY <1>4 DEF TriggerParked
<1>5. ASSUME NEW cmd \in Command, Trigger(cmd) PROVE Goal
  BY <1>3, <1>5 DEF Trigger
<1>6. ASSUME NEW s \in Slot, GateOpened(s) PROVE Goal
  BY <1>3, <1>6 DEF GateOpened
<1>7. CASE HoldBegins \/ Discard \/ PrepareAgain \/ PrepareFails
  BY <1>7 DEF HoldBegins, Discard, PrepareAgain, PrepareFails
<1>8. CASE PreparedCore \/ PreparedConfig \/ PreparedNothing
  BY <1>8 DEF PreparedCore, PreparedConfig, PreparedNothing
<1>9. CASE SwapFails \/ Reopen \/ LockFails \/ Failed
  BY <1>9 DEF SwapFails, Reopen, LockFails, Failed
<1>10. CASE EditFile \/ UNCHANGED vars
  BY <1>10 DEF EditFile, vars
<1> QED
  BY <1>1, <1>2, <1>4, <1>5, <1>6, <1>7, <1>8, <1>9, <1>10 DEF Next

LEMMA ToldStep ==
    ASSUME IInv, [Next]_vars
    PROVE  Told
<1> SUFFICES ASSUME pending # None, pending' = None,
                    pending.kind = "rollback" => NothingEdited
             PROVE  WaitOf[running'.settings] <= Published
  BY DEF Told
<1>1. CASE UNCHANGED running
  BY <1>1, PublishedCovers DEF WaitInForce
<1>2. CASE Swap
  BY <1>2 DEF Swap
<1>3. CASE Rollback
  <2>1. pending.kind = "rollback"
    BY <1>3 DEF Rollback
  <2> QED
    BY <1>3, <2>1, UneditedRollback, PublishedCovers
<1>4. CASE Mutate
  BY <1>4 DEF Mutate
<1> QED
  BY <1>1, <1>2, <1>3, <1>4, ConfigStep

LEMMA InStepStep ==
    ASSUME IInv, [Next]_vars
    PROVE  InStep
<1> SUFFICES ASSUME NEW k \in Setting,
                    file[k] = running.settings[k],
                    running'.settings[k] # running.settings[k]
             PROVE  file'[k] = running'.settings[k]
  BY DEF InStep
<1>1. CASE UNCHANGED running
  BY <1>1
<1>2. CASE Swap
  BY <1>2 DEF Swap
<1>3. CASE Rollback
  <2>1. PICK rejected \in SUBSET MayBeRejected :
            LET K == {x \in Setting : Reverts(x)} \cup rejected
            IN  file' = FileOut(K) /\ running' = Restored(K)
    BY <1>3 DEF Rollback
  <2> QED
    BY <2>1 DEF FileOut, Restored, Back
<1>4. CASE Mutate
  BY <1>4 DEF Mutate, Edited
<1> QED
  BY <1>1, <1>2, <1>3, <1>4, ConfigStep

(* A reload, however the file was edited meanwhile, and a rollback after   *)
(* no edit never put in force a wait longer than what the hooks had been   *)
(* told to allow for while it was pending.                                 *)
THEOREM WaitIsPublished == Spec => WaitWasPublished
<1>1. IInv /\ [Next]_vars => [Told]_vars
  BY ToldStep
<1> QED
  BY <1>1, Invariance, PTL DEF Spec, WaitWasPublished, Told

(* A setting in force as config.json has it stays so, whatever reloads,    *)
(* rollbacks and dashboard edits follow, until the file is edited.         *)
THEOREM SettingsStayInStep == Spec => SettingsInStep
<1>1. IInv /\ [Next]_vars => [InStep]_vars
  BY InStepStep
<1> QED
  BY <1>1, Invariance, PTL DEF Spec, SettingsInStep, InStep
=============================================================================
